---------------------------- MODULE RonghuaClient ----------------------------
(***************************************************************************)
(* The request/reply exchange of RonghuaClient: caller threads number      *)
(* their requests from one atomic counter, write them to one socket and    *)
(* take the replies out of one RonghuaInputQueue, which the thread that    *)
(* runs io_context_ fills.                                                 *)
(*                                                                         *)
(* The queue is used through what module InputQueue is shown to implement  *)
(* (module ReplyBox): the replies it holds are a set, an id takes its      *)
(* reply, and a bulk wait takes a prefix.  Notifications never match an    *)
(* id and are left out; the splitting of the byte stream into messages is  *)
(* module SocketReader.                                                    *)
(*                                                                         *)
(* A request or a reply is known by its id and by what it asks for: `by'   *)
(* numbers the call that wrote it and `arg' the position, in that call's   *)
(* vector of addresses or transaction ids, of the item it asks about.      *)
(***************************************************************************)
EXTENDS Integers, Sequences, FiniteSets

CONSTANTS
    Callers,           \* the threads that call RonghuaClient
    NoThread,          \* mutex_ is free
    Ops,               \* the operations the callers use
    Serial,            \* TRUE: the application never overlaps two calls
    HistoryChunk,      \* chunk_factor of getHistoryBulk (25 in the code)
    TransactionChunk,  \* chunk_factor of getTransactionBulk (100 in the code)
    Faults,            \* which of "disconnect", "stop", "interrupt" happen
    MaxCalls,          \* bound: calls started
    MaxTimeouts        \* bound: bulk waits that run into their 1500 ms

-----------------------------------------------------------------------------
(* The operations.  `send' is the private helper the operation goes        *)
(* through, `error' what it makes of a reply that carries an error instead *)
(* of a result: at("result") throws, while operator[]("result") yields     *)
(* null, which reads as an empty vector.                                   *)

Single(name, send, error) ==
    [name |-> name, send |-> send, error |-> error, size |-> 1, chunk |-> 1]

getHistory           == Single("getHistory", "send_request", "empty")
getUtxos             == Single("getUtxos", "send_request", "empty")
getTransaction       == Single("getTransaction", "send_request", "throw")
getBalance           == Single("getBalance", "send_request", "throw")
getBlockHeader       == Single("getBlockHeader", "send_request", "throw")
estimateFee          == Single("estimateFee", "send_request", "throw")
broadcastTransaction == Single("broadcastTransaction", "send_request", "throw")
getVersion           == Single("getVersion", "send_request", "throw")

scripthashSubscribe ==
    Single("scripthashSubscribe", "send_request_eat_response", "ignore")
ping == Single("ping", "send_request_eat_response", "ignore")

(* A bulk call with a vector of n addresses or transaction ids.            *)
getHistoryBulk(n) ==
    [name |-> "getHistoryBulk", send |-> "send_request_no_response",
     error |-> "empty", size |-> n, chunk |-> HistoryChunk]
getTransactionBulk(n) ==
    [name |-> "getTransactionBulk", send |-> "send_request_no_response",
     error |-> "throw", size |-> n, chunk |-> TransactionChunk]

(* These throw before they allocate an id.                                 *)
getTransactionOfEmptyId == Single("getTransaction", "none", "throw")
scripthashSubscribeBulk == Single("scripthashSubscribeBulk", "none", "throw")
getServerPeers          == Single("getServerPeers", "none", "throw")

Op == [name  : STRING,
       send  : {"none", "send_request", "send_request_eat_response",
                "send_request_no_response"},
       error : {"throw", "empty", "ignore"},
       size  : Nat,
       chunk : Nat \ {0}]

(* A call through send_request or send_request_eat_response waits for one  *)
(* reply with no timeout; only a bulk call has more than one item.         *)
IsBulk(o) == o.send = "send_request_no_response"

ASSUME ConstantsAssumption ==
    /\ Callers # {} /\ NoThread \notin Callers
    /\ Ops # {} /\ Ops \subseteq Op
    /\ \A o \in Ops : ~IsBulk(o) => o.size = 1 /\ o.chunk = 1
    /\ Serial \in BOOLEAN
    /\ Faults \subseteq {"disconnect", "stop", "interrupt"}
    /\ MaxCalls \in Nat /\ MaxTimeouts \in Nat

-----------------------------------------------------------------------------
VARIABLES
    id_counter,  \* the last id allocated
    mutex_,      \* the caller that holds RonghuaClient::mutex_, or NoThread
    op,          \* op[t]: the operation t runs, or ran last
    me,          \* me[t]: the number of that call
    pc,          \* pc[t]: where t is in that call
    cur,         \* cur[t]: the id in the request t is about to write
    ids,         \* ids[t]: the ids t waits for, in the order it wrote them
    results,     \* results[t]: the replies the call has taken, in order
    outcome,     \* outcome[t]: how t's last call ended
    calls,       \* calls started
    timeouts,    \* bulk waits that timed out
    net,         \* requests written and not yet answered
    replies,     \* replies in RonghuaInputQueue
    link         \* "up"; "mute": io_context_ stopped; "closed": by the peer;
                 \* "down": the client's own socket is closed

callVars == <<op, me, pc, cur, ids, results, outcome>>
vars == <<id_counter, mutex_, callVars, calls, timeouts, net, replies, link>>

Request == [id : Nat, by : Nat, arg : Nat]
Reply   == [id : Nat, by : Nat, arg : Nat, ok : BOOLEAN]

Init ==
    /\ id_counter = 0 /\ mutex_ = NoThread
    /\ op = [t \in Callers |-> CHOOSE o \in Ops : TRUE]
    /\ me = [t \in Callers |-> 0]
    /\ pc = [t \in Callers |-> "idle"]
    /\ cur = [t \in Callers |-> 0]
    /\ ids = [t \in Callers |-> <<>>]
    /\ results = [t \in Callers |-> <<>>]
    /\ outcome = [t \in Callers |-> "none"]
    /\ calls = 0 /\ timeouts = 0
    /\ net = {} /\ replies = {} /\ link = "up"

(* Faulty variant of Finish: the lock is not released when a call ends.    *)
FinishKeepingMutex(t, how) ==
    /\ pc' = [pc EXCEPT ![t] = "idle"]
    /\ outcome' = [outcome EXCEPT ![t] = how]
    /\ UNCHANGED mutex_

(* The end of a call: the unique_lock, if t holds it, is released on the   *)
(* way out.                                                                *)
Finish(t, how) ==
    /\ pc' = [pc EXCEPT ![t] = "idle"]
    /\ outcome' = [outcome EXCEPT ![t] = how]
    /\ mutex_' = IF mutex_ = t THEN NoThread ELSE mutex_

-----------------------------------------------------------------------------
(* The steps of a caller.                                                  *)

(* A bulk call with nothing to ask for returns an empty vector at once.    *)
Start(t, o) ==
    /\ pc[t] = "idle" /\ calls < MaxCalls
    /\ Serial => \A u \in Callers : pc[u] = "idle"
    /\ calls' = calls + 1
    /\ op' = [op EXCEPT ![t] = o]
    /\ me' = [me EXCEPT ![t] = calls + 1]
    /\ ids' = [ids EXCEPT ![t] = <<>>]
    /\ results' = [results EXCEPT ![t] = <<>>]
    /\ IF o.send = "none" \/ o.size = 0
       THEN /\ outcome' = [outcome EXCEPT ![t] = IF o.send = "none"
                                                 THEN "threw" ELSE "returned"]
            /\ UNCHANGED pc
       ELSE /\ outcome' = [outcome EXCEPT ![t] = "none"]
            /\ pc' = [pc EXCEPT ![t] = "alloc"]
    /\ UNCHANGED <<id_counter, mutex_, cur, timeouts, net, replies, link>>

(* Faulty variants of AllocateId: id_counter++ instead of ++id_counter,    *)
(* and an id taken without counting it.                                    *)
AllocateIdPostIncrement(t) ==
    /\ pc[t] = "alloc"
    /\ id_counter' = id_counter + 1
    /\ cur' = [cur EXCEPT ![t] = id_counter]
    /\ pc' = [pc EXCEPT ![t] = "read"]
    /\ UNCHANGED <<mutex_, op, me, ids, results, outcome, calls, timeouts, net,
                   replies, link>>
AllocateIdUncounted(t) ==
    /\ pc[t] = "alloc"
    /\ cur' = [cur EXCEPT ![t] = id_counter + 1]
    /\ pc' = [pc EXCEPT ![t] = "read"]
    /\ UNCHANGED <<id_counter, mutex_, op, me, ids, results, outcome, calls,
                   timeouts, net, replies, link>>

(* ElectrumRequest request{..., ++id_counter, ...}                         *)
AllocateId(t) ==
    /\ pc[t] = "alloc"
    /\ id_counter' = id_counter + 1
    /\ cur' = [cur EXCEPT ![t] = id_counter + 1]
    /\ pc' = [pc EXCEPT ![t] = "read"]
    /\ UNCHANGED <<mutex_, op, me, ids, results, outcome, calls, timeouts, net,
                   replies, link>>

(* send_request...(json_request, id_counter): the id to wait for is read   *)
(* from the counter again.                                                 *)
ReadBackId(t) ==
    /\ pc[t] = "read"
    /\ ids' = [ids EXCEPT ![t] = Append(@, id_counter)]
    /\ pc' = [pc EXCEPT ![t] = IF op[t].send = "send_request_eat_response"
                               THEN "write" ELSE "lock"]
    /\ UNCHANGED <<id_counter, mutex_, op, me, cur, results, outcome, calls,
                   timeouts, net, replies, link>>

(* Faulty variant of Lock: mutex_ is taken whoever holds it.               *)
LockWithoutWaiting(t) ==
    /\ pc[t] = "lock"
    /\ mutex_' = t
    /\ pc' = [pc EXCEPT ![t] = "write"]
    /\ UNCHANGED <<id_counter, op, me, cur, ids, results, outcome, calls,
                   timeouts, net, replies, link>>

(* unique_lock<mutex> lock(mutex_)                                         *)
Lock(t) ==
    /\ pc[t] = "lock" /\ mutex_ = NoThread
    /\ mutex_' = t
    /\ pc' = [pc EXCEPT ![t] = "write"]
    /\ UNCHANGED <<id_counter, op, me, cur, ids, results, outcome, calls,
                   timeouts, net, replies, link>>

Min(a, b) == IF a < b THEN a ELSE b

(* The number of requests doGet...Bulk writes for the current chunk.       *)
ChunkLen(t) == Min(op[t].chunk, op[t].size - Len(results[t]))

(* Faulty variant of Write: a chunk writes one request too many.           *)
WriteOneMore(t) ==
    /\ pc[t] = "write" /\ link # "down"
    /\ net' = net \cup {[id |-> cur[t], by |-> me[t],
                         arg |-> Len(results[t]) + Len(ids[t])]}
    /\ mutex_' = IF IsBulk(op[t]) THEN NoThread ELSE mutex_
    /\ pc' = [pc EXCEPT ![t] = IF IsBulk(op[t]) /\ Len(ids[t]) <= ChunkLen(t)
                               THEN "alloc" ELSE "wait"]
    /\ UNCHANGED <<id_counter, op, me, cur, ids, results, outcome, calls,
                   timeouts, replies, link>>

(* client_->send_request returns: the request is on its way, or so it      *)
(* seems: a write to a connection that the peer has closed may still       *)
(* succeed, and is then never answered.  send_request keeps mutex_ for the *)
(* wait, send_request_no_response gives it back.                           *)
Write(t) ==
    /\ pc[t] = "write" /\ link # "down"
    /\ net' = net \cup {[id |-> cur[t], by |-> me[t],
                         arg |-> Len(results[t]) + Len(ids[t])]}
    /\ IF IsBulk(op[t])
       THEN /\ mutex_' = NoThread
            /\ pc' = [pc EXCEPT ![t] = IF Len(ids[t]) < ChunkLen(t)
                                       THEN "alloc" ELSE "wait"]
       ELSE /\ pc' = [pc EXCEPT ![t] = "wait"]
            /\ UNCHANGED mutex_
    /\ UNCHANGED <<id_counter, op, me, cur, ids, results, outcome, calls,
                   timeouts, replies, link>>

(* boost::asio::write throws: always on a socket closed by stop(), and     *)
(* sooner or later on a connection closed by the peer.                     *)
WriteThrows(t) ==
    /\ pc[t] = "write" /\ link \in {"closed", "down"}
    /\ Finish(t, "threw")
    /\ results' = [results EXCEPT ![t] = <<>>]
    /\ UNCHANGED <<id_counter, op, me, cur, ids, calls, timeouts, net, replies,
                   link>>

(* The replies `msgs' of one wait reach the caller.                        *)
Deliver(t, msgs) ==
    LET all == results[t] \o msgs IN
    /\ ids' = [ids EXCEPT ![t] = <<>>]
    /\ IF op[t].error = "throw" /\ \E i \in DOMAIN msgs : ~msgs[i].ok
       THEN /\ Finish(t, "threw")
            /\ results' = [results EXCEPT ![t] = <<>>]
       ELSE /\ results' = [results EXCEPT ![t] = all]
            /\ IF Len(all) < op[t].size
               THEN /\ pc' = [pc EXCEPT ![t] = "alloc"]
                    /\ UNCHANGED <<mutex_, outcome>>
               ELSE Finish(t, "returned")
    /\ UNCHANGED <<id_counter, op, me, cur, calls, net, link>>

(* Faulty variant of ReceiveOne: the reply is not erased from the queue.   *)
ReceiveOneKeeping(t) ==
    /\ pc[t] = "wait" /\ ~IsBulk(op[t])
    /\ \E m \in replies : m.id = ids[t][1] /\ Deliver(t, <<m>>)
    /\ UNCHANGED <<timeouts, replies>>

(* receive_response and eat_response: pop_reply(id).                       *)
ReceiveOne(t) ==
    /\ pc[t] = "wait" /\ ~IsBulk(op[t])
    /\ \E m \in replies :
         /\ m.id = ids[t][1]
         /\ replies' = replies \ {m}
         /\ Deliver(t, <<m>>)
    /\ UNCHANGED timeouts

Present(t, n) == \A i \in 1..n : \E m \in replies : m.id = ids[t][i]
ReplyTo(t, i) == CHOOSE m \in replies : m.id = ids[t][i]

(* pop_reply_bulk gives the first n of the ids waited for.                 *)
TakePrefix(t, n) ==
    /\ replies' = replies \ {ReplyTo(t, i) : i \in 1..n}
    /\ Deliver(t, [i \in 1..n |-> ReplyTo(t, i)])

ReceiveBulk(t) ==
    /\ pc[t] = "wait" /\ IsBulk(op[t])
    /\ Present(t, Len(ids[t]))
    /\ TakePrefix(t, Len(ids[t]))
    /\ UNCHANGED timeouts

(* Faulty variant of ReceiveBulkTimeout: a missing reply is skipped        *)
(* instead of ending the batch.                                            *)
ReceiveBulkTimeoutSkipping(t) ==
    /\ pc[t] = "wait" /\ IsBulk(op[t]) /\ timeouts < MaxTimeouts
    /\ timeouts' = timeouts + 1
    /\ LET there == {m \in replies : \E i \in DOMAIN ids[t] : m.id = ids[t][i]}
           InOrder(q) == \A i, j \in DOMAIN q : i < j => q[i].id < q[j].id
           msgs == CHOOSE q \in [1..Cardinality(there) -> there] : InOrder(q)
       IN  replies' = replies \ there /\ Deliver(t, msgs)

(* The 1500 ms are over: the replies up to the first missing one are       *)
(* taken, the others stay in the queue.                                    *)
ReceiveBulkTimeout(t) ==
    /\ pc[t] = "wait" /\ IsBulk(op[t]) /\ timeouts < MaxTimeouts
    /\ timeouts' = timeouts + 1
    /\ \E n \in 0 .. Len(ids[t]) - 1 :
         /\ Present(t, n) /\ ~Present(t, n + 1)
         /\ TakePrefix(t, n)

-----------------------------------------------------------------------------
(* The server and the thread that runs io_context_.                        *)

(* A reply is read, parsed and pushed.  The server answers in any order,   *)
(* with a result or with an error.                                         *)
DoRead(r, ok) ==
    /\ r \in net /\ link = "up"
    /\ net' = net \ {r}
    /\ replies' = replies \cup
                    {[id |-> r.id, by |-> r.by, arg |-> r.arg, ok |-> ok]}
    /\ UNCHANGED <<id_counter, mutex_, callVars, calls, timeouts, link>>

(* A fault changes the link from one of `from' to `to'.                    *)
Fault(fault, from, to) ==
    /\ fault \in Faults /\ link \in from
    /\ link' = to
    /\ UNCHANGED <<id_counter, mutex_, callVars, calls, timeouts, net, replies>>

(* The peer closes the connection; the application calls stop(), which     *)
(* closes the socket; do_interrupt stops io_context_ and leaves the socket *)
(* open.                                                                   *)
Disconnect   == Fault("disconnect", {"up", "mute"}, "closed")
stop         == Fault("stop", {"up", "mute", "closed"}, "down")
do_interrupt == Fault("interrupt", {"up"}, "mute")

-----------------------------------------------------------------------------
CallerStep(t) ==
    \/ AllocateId(t) \/ ReadBackId(t) \/ Lock(t) \/ Write(t) \/ WriteThrows(t)
    \/ ReceiveOne(t) \/ ReceiveBulk(t)

Reading == \E r \in net, ok \in BOOLEAN : DoRead(r, ok)

Next ==
    \/ \E t \in Callers : \/ \E o \in Ops : Start(t, o)
                          \/ CallerStep(t)
                          \/ ReceiveBulkTimeout(t)
    \/ Reading
    \/ Disconnect \/ stop \/ do_interrupt

Spec == Init /\ [][Next]_vars

(* A thread that can run runs, and a server that is connected answers.     *)
FairSpec ==
    /\ Spec
    /\ \A t \in Callers : WF_vars(CallerStep(t))
    /\ WF_vars(Reading)

-----------------------------------------------------------------------------
(* Properties.                                                             *)

PcState == {"idle", "alloc", "read", "lock", "write", "wait"}

Types ==
    /\ id_counter \in Nat /\ mutex_ \in Callers \cup {NoThread}
    /\ op \in [Callers -> Ops] /\ me \in [Callers -> Nat]
    /\ pc \in [Callers -> PcState] /\ cur \in [Callers -> Nat]
    /\ ids \in [Callers -> Seq(Nat)] /\ results \in [Callers -> Seq(Reply)]
    /\ outcome \in [Callers -> {"none", "returned", "threw"}]
    /\ calls \in Nat /\ timeouts \in Nat
    /\ net \in SUBSET Request /\ replies \in SUBSET Reply
    /\ link \in {"up", "mute", "closed", "down"}

(* The type invariant; a call never holds more replies than it asked for   *)
(* and never waits for more than one chunk (getHistoryBulk,                *)
(* getTransactionBulk).                                                    *)
TypeOK ==
    /\ Types
    /\ \A t \in Callers : pc[t] # "idle" =>
         Len(results[t]) < op[t].size /\ Len(ids[t]) <= ChunkLen(t)

(* Every reply a call has taken answers the request that call wrote for    *)
(* that position: no reply of another call, none of an earlier call, none  *)
(* of a batch abandoned by a timeout, and no position skipped              *)
(* (send_request, eat_response, doGetHistoryBulk, doGetTransactionBulk).   *)
OwnReplies(t) ==
    \A i \in 1..Len(results[t]) :
        results[t][i].by = me[t] /\ results[t][i].arg = i
OwnReply == \A t \in Callers : OwnReplies(t)

(* What WalletState assumes of the bulk calls: one result per item, in     *)
(* the order of the items.                                                 *)
BulkOneToOne == \A t \in Callers : IsBulk(op[t]) => OwnReplies(t)

InFlight == net \cup replies

(* A caller that waits in pop_reply, which has no timeout, waits for a     *)
(* request that has been written: its reply is still to come or already    *)
(* in the queue.                                                           *)
WaitsForWritten ==
    \A t \in Callers : pc[t] = "wait" =>
        \A i \in 1..Len(ids[t]) : \E r \in InFlight : r.id = ids[t][i]

(* No id is in flight twice, however the calls overlap, so that an id      *)
(* never matches two replies in find_msg_with_id.                          *)
UniqueIds ==
    /\ \A r, s \in net : r.id = s.id => r = s
    /\ \A r, s \in replies : r.id = s.id => r = s
    /\ \A r \in net, s \in replies : r.id # s.id

(* Two threads are inside boost::asio::write on the one socket only if one *)
(* of them came through send_request_eat_response, which takes no lock.    *)
WritesExcluded ==
    \A t, u \in Callers :
        t # u /\ pc[t] = "write" /\ pc[u] = "write" =>
            \E v \in {t, u} : op[v].send = "send_request_eat_response"

(* When no call is running, no bulk wait ever timed out and neither end    *)
(* closed the connection, nothing is left behind: each request was         *)
(* answered and each reply taken, even by calls that overlapped or threw.  *)
Open == link \in {"up", "mute"}

NoResidue ==
    (timeouts = 0 /\ Open /\ \A t \in Callers : pc[t] = "idle") =>
        InFlight = {}

(* Every call comes back, by an exception if its write fails; the bulk     *)
(* loops repeat until they are complete.  The exception is a call that is  *)
(* waiting over a link that is no longer up, be it that it ended meanwhile *)
(* or that the write did not notice: pop_reply has no timeout, and the     *)
(* poison message of do_interrupt is no reply.                             *)
CallsReturn ==
    \A t \in Callers :
        pc[t] # "idle" ~> pc[t] = "idle" \/ (pc[t] = "wait" /\ link # "up")

(* send_request waits with mutex_ locked.  A request that queues behind it *)
(* gets the mutex, unless the holder waits for a reply that cannot come:   *)
(* over a link that is no longer up, or under an id that was read back     *)
(* after another call had moved the counter, whose reply that call takes   *)
(* or, queueing for mutex_ itself, never asks for.                         *)
Hopeless(u) ==
    /\ pc[u] = "wait"
    /\ link # "up" \/ \A r \in InFlight : r.id # ids[u][1]

QueueMoves ==
    \A t \in Callers :
        pc[t] = "lock" ~>
            pc[t] # "lock" \/ \E u \in Callers : mutex_ = u /\ Hopeless(u)
=============================================================================
