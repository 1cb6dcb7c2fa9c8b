------------------------- MODULE RonghuaClientProofs -------------------------
(***************************************************************************)
(* Theorems about RonghuaClient, for any number of callers, any operations *)
(* and chunk sizes, any number of calls and timeouts, and any faults.      *)
(***************************************************************************)
EXTENDS RonghuaClient, TLAPS, FiniteSetTheorems

(* The type invariant is inductive once it is known how many requests of   *)
(* the current chunk have been numbered at each point of a call.           *)
ChunkProgress(t) ==
    /\ pc[t] # "idle" =>
         Len(results[t]) < op[t].size /\ Len(ids[t]) <= ChunkLen(t)
    /\ pc[t] \in {"alloc", "read"} => Len(ids[t]) < ChunkLen(t)
    /\ pc[t] \in {"lock", "write", "wait"} => Len(ids[t]) > 0

TypeInv == Types /\ \A t \in Callers : ChunkProgress(t)

(* The chunk of an operation is positive; its size may be zero.            *)
LEMMA OpFields ==
    ASSUME NEW o \in Ops
    PROVE  o.size \in Nat /\ o.chunk \in Nat \ {0}
BY ConstantsAssumption DEF Op

(* What is left of a call that is not complete is at least one item long.  *)
LEMMA ChunkPositive ==
    ASSUME NEW a \in Nat \ {0}, NEW b \in Nat, NEW n \in Nat, n < b
    PROVE  Min(a, b - n) \in Nat \ {0} /\ Min(a, b - n) <= b - n
BY DEF Min

(* What Deliver does to the types, for any replies handed to it.           *)
LEMMA DeliverTypes ==
    ASSUME TypeInv, NEW t \in Callers, NEW msgs \in Seq(Reply),
           pc[t] = "wait", Len(msgs) <= Len(ids[t]), Deliver(t, msgs)
    PROVE  /\ mutex_' \in Callers \cup {NoThread}
           /\ pc' \in [Callers -> PcState]
           /\ ids' \in [Callers -> Seq(Nat)]
           /\ results' \in [Callers -> Seq(Reply)]
           /\ outcome' \in [Callers -> {"none", "returned", "threw"}]
           /\ \A u \in Callers : ChunkProgress(u)'
<1> DEFINE all == results[t] \o msgs
<1>1. /\ all \in Seq(Reply) /\ Len(all) = Len(results[t]) + Len(msgs)
      /\ Len(results[t]) \in Nat /\ Len(all) \in Nat
  BY DEF TypeInv, Types
<1>2. /\ mutex_' \in Callers \cup {NoThread}
      /\ pc' \in [Callers -> PcState]
      /\ ids' \in [Callers -> Seq(Nat)]
      /\ results' \in [Callers -> Seq(Reply)]
      /\ outcome' \in [Callers -> {"none", "returned", "threw"}]
  <2>1. ids' = [ids EXCEPT ![t] = <<>>] /\ <<>> \in Seq(Nat)
    BY DEF Deliver
  <2>2. \/ results' = [results EXCEPT ![t] = <<>>] /\ <<>> \in Seq(Reply)
        \/ results' = [results EXCEPT ![t] = all]
    BY DEF Deliver
  <2>3. \E p \in {"idle", "alloc"} : pc' = [pc EXCEPT ![t] = p]
    BY DEF Deliver, Finish
  <2>4. \/ \E how \in {"returned", "threw"} :
              outcome' = [outcome EXCEPT ![t] = how]
        \/ outcome' = outcome
    BY DEF Deliver, Finish
  <2>5. mutex_' \in {mutex_, NoThread}
    BY DEF Deliver, Finish
  <2>6. mutex_' \in Callers \cup {NoThread} /\ pc' \in [Callers -> PcState]
    BY <2>3, <2>5 DEF TypeInv, Types, PcState
  <2>7. outcome' \in [Callers -> {"none", "returned", "threw"}]
    BY <2>4 DEF TypeInv, Types
  <2>8. ids' \in [Callers -> Seq(Nat)] /\ results' \in [Callers -> Seq(Reply)]
    BY <1>1, <2>1, <2>2 DEF TypeInv, Types
  <2> QED  BY <2>6, <2>7, <2>8
<1>3. ASSUME NEW u \in Callers PROVE ChunkProgress(u)'
  <2>1. CASE u # t
    <3>1. /\ pc'[u] = pc[u] /\ ids'[u] = ids[u] /\ results'[u] = results[u]
          /\ op' = op
      BY <2>1 DEF TypeInv, Types, Deliver, Finish
    <3> QED  BY <3>1 DEF TypeInv, ChunkProgress, ChunkLen
  <2>2. CASE u = t
    <3>1. CASE pc'[t] = "idle"
      BY <2>2, <3>1 DEF ChunkProgress
    <3>2. CASE pc'[t] # "idle"
      <4>1. /\ pc'[t] = "alloc" /\ ids'[t] = <<>> /\ results'[t] = all
            /\ Len(all) < op[t].size /\ op' = op
        BY <3>2 DEF TypeInv, Types, Deliver, Finish
      <4>2. op[t].size \in Nat /\ op[t].chunk \in Nat \ {0}
        BY OpFields DEF TypeInv, Types
      <4>3. Min(op[t].chunk, op[t].size - Len(all)) \in Nat \ {0}
        BY <1>1, <4>1, <4>2, ChunkPositive
      <4> QED  BY <2>2, <4>1, <4>2, <4>3, <1>1 DEF ChunkProgress, ChunkLen
    <3> QED  BY <3>1, <3>2
  <2> QED  BY <2>1, <2>2
<1> QED  BY <1>2, <1>3

(* The messages TakePrefix hands to Deliver are replies of the queue.      *)
LEMMA Taken ==
    ASSUME Types, NEW t \in Callers, NEW n \in Nat, Present(t, n)
    PROVE  /\ [i \in 1..n |-> ReplyTo(t, i)] \in Seq(Reply)
           /\ Len([i \in 1..n |-> ReplyTo(t, i)]) = n
           /\ \A i \in 1..n : ReplyTo(t, i) \in replies
                              /\ ReplyTo(t, i).id = ids[t][i]
<1>1. ASSUME NEW i \in 1..n
      PROVE  ReplyTo(t, i) \in replies /\ ReplyTo(t, i).id = ids[t][i]
  BY DEF Present, ReplyTo
<1>2. \A i \in 1..n : ReplyTo(t, i) \in Reply
  BY <1>1 DEF Types
<1> QED  BY <1>1, <1>2

(* The typing facts hold at the start.                                     *)
LEMMA TypeInvInit == Init => TypeInv
<1> SUFFICES ASSUME Init PROVE TypeInv  OBVIOUS
<1>1. (CHOOSE o \in Ops : TRUE) \in Ops
  BY ConstantsAssumption
<1>2. Types
  BY <1>1 DEF Init, Types, PcState
<1> QED  BY <1>1, <1>2 DEF Init, TypeInv, ChunkProgress

(* Every step keeps the typing facts and the bound on a chunk.             *)
LEMMA TypeInvNext == TypeInv /\ [Next]_vars => TypeInv'
<1> SUFFICES ASSUME TypeInv, [Next]_vars PROVE TypeInv'  OBVIOUS
<1> USE DEF TypeInv
<1>0. ASSUME NEW t \in Callers
      PROVE  /\ op[t].size \in Nat /\ op[t].chunk \in Nat \ {0}
             /\ Len(results[t]) \in Nat /\ Len(ids[t]) \in Nat
             /\ ChunkLen(t) \in Int
  BY OpFields DEF Types, ChunkLen, Min
<1>1. ASSUME NEW t \in Callers, NEW o \in Ops, Start(t, o) PROVE TypeInv'
  <2>1. Types'
    <3>1. /\ pc' = pc \/ pc' = [pc EXCEPT ![t] = "alloc"]
          /\ \E h \in {"none", "returned", "threw"} : outcome' = [outcome EXCEPT ![t] = h]
      BY <1>1 DEF Start
    <3>2. pc' \in [Callers -> PcState]
          /\ outcome' \in [Callers -> {"none", "returned", "threw"}]
      BY <3>1 DEF Types, PcState
    <3>3. ids' \in [Callers -> Seq(Nat)] /\ results' \in [Callers -> Seq(Reply)]
      BY <1>1 DEF Start, Types
    <3>4. op' \in [Callers -> Ops] /\ calls' \in Nat /\ me' \in [Callers -> Nat]
      BY <1>1 DEF Start, Types
    <3> QED  BY <1>1, <3>2, <3>3, <3>4 DEF Start, Types
  <2>2. ASSUME NEW u \in Callers PROVE ChunkProgress(u)'
    <3>1. CASE u = t /\ pc'[t] # "idle"
      <4>1. /\ pc'[t] = "alloc" /\ op'[t] = o /\ results'[t] = <<>>
            /\ ids'[t] = <<>> /\ o.size # 0
        BY <1>1, <3>1 DEF Start, Types
      <4>2. Min(o.chunk, o.size - 0) \in Nat \ {0} /\ 0 < o.size
        BY <4>1, OpFields DEF Min
      <4> QED  BY <3>1, <4>1, <4>2, OpFields DEF ChunkProgress, ChunkLen
    <3>2. CASE u # t
      BY <1>1, <3>2 DEF Start, Types, ChunkProgress, ChunkLen
    <3> QED  BY <3>1, <3>2 DEF ChunkProgress
  <2> QED  BY <2>1, <2>2
<1>2. ASSUME NEW t \in Callers, AllocateId(t) PROVE TypeInv'
  <2>1. Types'
    BY <1>2 DEF AllocateId, Types, PcState
  <2>2. \A u \in Callers : ChunkProgress(u)'
    BY <1>2 DEF AllocateId, Types, ChunkProgress, ChunkLen
  <2> QED  BY <2>1, <2>2
<1>3. ASSUME NEW t \in Callers, ReadBackId(t) PROVE TypeInv'
  <2>1. Types'
    BY <1>3 DEF ReadBackId, Types, PcState
  <2>2. ASSUME NEW u \in Callers PROVE ChunkProgress(u)'
    <3>1. CASE u = t
      <4>1. /\ pc[t] = "read" /\ pc'[t] \in {"lock", "write"}
            /\ Len(ids'[t]) = Len(ids[t]) + 1
            /\ op' = op /\ results' = results
        BY <1>3 DEF ReadBackId, Types
      <4> QED  BY <3>1, <4>1, <1>0 DEF ChunkProgress, ChunkLen
    <3>2. CASE u # t
      BY <1>3, <3>2 DEF ReadBackId, Types, ChunkProgress, ChunkLen
    <3> QED  BY <3>1, <3>2
  <2> QED  BY <2>1, <2>2
<1>4. ASSUME NEW t \in Callers, Lock(t) PROVE TypeInv'
  <2>1. Types'
    BY <1>4 DEF Lock, Types, PcState
  <2>2. \A u \in Callers : ChunkProgress(u)'
    BY <1>4 DEF Lock, Types, ChunkProgress, ChunkLen
  <2> QED  BY <2>1, <2>2
<1>5. ASSUME NEW t \in Callers, Write(t) PROVE TypeInv'
  <2>1. Len(results[t]) + Len(ids[t]) \in Nat
    <3>1. Len(results[t]) \in Nat /\ Len(ids[t]) \in Nat
      BY <1>0
    <3>2. \A a, b \in Nat : a + b \in Nat
      OBVIOUS
    <3> QED  BY <3>1, <3>2, Zenon
  <2>2. Types'
    <3>1. net' \in SUBSET Request
      BY <1>5, <2>1 DEF Write, Types, Request
    <3>2. mutex_' \in {mutex_, NoThread}
          /\ \E p \in {"alloc", "wait"} : pc' = [pc EXCEPT ![t] = p]
      BY <1>5 DEF Write
    <3> QED  BY <1>5, <3>1, <3>2 DEF Write, Types, PcState
  <2>3. ASSUME NEW u \in Callers PROVE ChunkProgress(u)'
    <3>1. /\ op' = op /\ ids' = ids /\ results' = results /\ pc[t] = "write"
          /\ u # t => pc'[u] = pc[u]
          /\ \/ pc'[t] = "alloc" /\ Len(ids[t]) < ChunkLen(t)
             \/ pc'[t] = "wait"
      BY <1>5 DEF Write, Types
    <3>2. ChunkLen(u)' = ChunkLen(u)
      BY <3>1 DEF ChunkLen
    <3>3. CASE u # t
      BY <3>1, <3>2, <3>3 DEF ChunkProgress
    <3>4. CASE u = t
      BY <3>1, <3>2, <3>4, <1>0 DEF ChunkProgress
    <3> QED  BY <3>3, <3>4
  <2> QED  BY <2>2, <2>3
<1>6. ASSUME NEW t \in Callers, WriteThrows(t) PROVE TypeInv'
  <2>1. Types'
    BY <1>6 DEF WriteThrows, Finish, Types, PcState
  <2>2. \A u \in Callers : ChunkProgress(u)'
    BY <1>6 DEF WriteThrows, Finish, Types, ChunkProgress, ChunkLen
  <2> QED  BY <2>1, <2>2
<1>7. ASSUME NEW t \in Callers, NEW msgs \in Seq(Reply), pc[t] = "wait",
             Len(msgs) <= Len(ids[t]), Deliver(t, msgs),
             replies' \in SUBSET Reply, timeouts' \in Nat
      PROVE  TypeInv'
  BY <1>7, DeliverTypes DEF Types, Deliver
<1>8. ASSUME NEW t \in Callers, ReceiveOne(t) PROVE TypeInv'
  <2>1. PICK m \in replies : replies' = replies \ {m} /\ Deliver(t, <<m>>)
    BY <1>8 DEF ReceiveOne
  <2>2. <<m>> \in Seq(Reply) /\ Len(<<m>>) = 1 /\ Len(ids[t]) >= 1
    BY <1>8, <1>0 DEF Types, ReceiveOne, ChunkProgress
  <2> QED  BY <1>8, <1>7, <2>1, <2>2 DEF ReceiveOne, Types
<1>9. ASSUME NEW t \in Callers, NEW n \in 0..Len(ids[t]), pc[t] = "wait",
             Present(t, n), TakePrefix(t, n), timeouts' \in Nat
      PROVE  TypeInv'
  <2>1. n \in Nat /\ n <= Len(ids[t])
    BY <1>0
  <2> QED  BY <1>9, <1>7, <2>1, Taken DEF TakePrefix, Types
<1>10. ASSUME NEW t \in Callers, ReceiveBulk(t) PROVE TypeInv'
  <2>1. /\ Len(ids[t]) \in 0..Len(ids[t]) /\ timeouts' \in Nat
        /\ pc[t] = "wait"
    BY <1>10, <1>0 DEF ReceiveBulk, Types
  <2>2. Present(t, Len(ids[t])) /\ TakePrefix(t, Len(ids[t]))
    BY <1>10 DEF ReceiveBulk
  <2> QED  BY <2>1, <2>2, <1>9
<1>11. ASSUME NEW t \in Callers, ReceiveBulkTimeout(t) PROVE TypeInv'
  <2>1. PICK n \in 0 .. Len(ids[t]) - 1 : Present(t, n) /\ TakePrefix(t, n)
    BY <1>11 DEF ReceiveBulkTimeout
  <2>2. n \in 0..Len(ids[t]) /\ timeouts' \in Nat
    BY <1>11, <1>0 DEF ReceiveBulkTimeout, Types
  <2> QED  BY <1>11, <1>9, <2>1, <2>2 DEF ReceiveBulkTimeout
<1>12. ASSUME Reading PROVE TypeInv'
  <2>1. PICK r \in net, ok \in BOOLEAN : DoRead(r, ok)
    BY <1>12 DEF Reading
  <2>2. Types'
    BY <2>1 DEF DoRead, Types, callVars, Request, Reply
  <2> QED  BY <2>1, <2>2 DEF DoRead, callVars, ChunkProgress, ChunkLen
<1>13. ASSUME Disconnect \/ stop \/ do_interrupt \/ UNCHANGED vars
       PROVE  TypeInv'
  BY <1>13 DEF Disconnect, stop, do_interrupt, Fault, vars, callVars,
               Types, ChunkProgress, ChunkLen
<1> QED
  BY <1>1, <1>2, <1>3, <1>4, <1>5, <1>6, <1>8, <1>10, <1>11, <1>12, <1>13
     DEF Next, CallerStep

(* The type invariant, for every value of the constants: in particular no  *)
(* call of getHistoryBulk or getTransactionBulk, whatever timeouts cut     *)
(* its batches, takes more replies than it has items or waits for more     *)
(* than one chunk.                                                         *)
THEOREM TypeCorrect == Spec => []TypeOK
<1>1. TypeInv => TypeOK
  BY DEF TypeInv, TypeOK, ChunkProgress
<1> QED  BY <1>1, TypeInvInit, TypeInvNext, PTL DEF Spec

-----------------------------------------------------------------------------
(* UniqueIds is inductive together with what makes a new id new: no id in  *)
(* flight, and none in a request still to be written, is above id_counter, *)
(* and a request still to be written has an id of its own.                 *)
Numbered(t) == pc[t] \in {"read", "lock", "write"}

IdInv ==
    /\ UniqueIds
    /\ \A r \in net : r.id <= id_counter
    /\ \A r \in replies : r.id <= id_counter
    /\ \A t \in Callers : Numbered(t) =>
         /\ cur[t] <= id_counter
         /\ \A r \in net : r.id # cur[t]
         /\ \A r \in replies : r.id # cur[t]
    /\ \A t, u \in Callers :
         t # u /\ Numbered(t) /\ Numbered(u) => cur[t] # cur[u]

(* A step that numbers nothing and adds nothing to what is in flight.      *)
LEMMA IdInvQuiet ==
    ASSUME IdInv, id_counter' = id_counter, cur' = cur,
           net' \subseteq net, replies' \subseteq replies,
           \A t \in Callers : Numbered(t)' => Numbered(t)
    PROVE  IdInv'
BY DEF IdInv, UniqueIds

(* Delivering replies neither allocates ids nor touches the network.       *)
LEMMA DeliverQuiet ==
    ASSUME TypeInv, NEW t \in Callers, NEW msgs, Deliver(t, msgs)
    PROVE  /\ id_counter' = id_counter /\ cur' = cur /\ net' = net
           /\ \A u \in Callers : Numbered(u)' => Numbered(u)
<1>1. \E p \in {"idle", "alloc"} : pc' = [pc EXCEPT ![t] = p]
  BY DEF Deliver, Finish
<1> QED  BY <1>1 DEF Deliver, Numbered, TypeInv, Types

(* Every step keeps ids distinct and below the counter.                    *)
LEMMA IdInvNext == TypeInv /\ IdInv /\ [Next]_vars => IdInv'
<1> SUFFICES ASSUME TypeInv, IdInv, [Next]_vars PROVE IdInv'  OBVIOUS
<1>1. ASSUME NEW t \in Callers, NEW o \in Ops, Start(t, o) PROVE IdInv'
  <2>1. \A u \in Callers : Numbered(u)' => Numbered(u)
    BY <1>1 DEF Start, Numbered, TypeInv, Types
  <2> QED  BY <1>1, <2>1, IdInvQuiet DEF Start
<1>2. ASSUME NEW t \in Callers, AllocateId(t) PROVE IdInv'
  <2>1. /\ id_counter \in Nat /\ id_counter' = id_counter + 1
        /\ cur'[t] = id_counter + 1
        /\ net' = net /\ replies' = replies
        /\ \A u \in Callers \ {t} : cur'[u] = cur[u] /\ pc'[u] = pc[u]
    BY <1>2 DEF AllocateId, TypeInv, Types
  <2>2. /\ \A r \in net : r.id \in Nat /\ r.id <= id_counter
        /\ \A r \in replies : r.id \in Nat /\ r.id <= id_counter
        /\ \A u \in Callers : cur[u] \in Nat
    BY DEF TypeInv, Types, IdInv, Request, Reply
  <2>3. UniqueIds'
    BY <2>1 DEF IdInv, UniqueIds
  <2>4. /\ \A r \in net' : r.id <= id_counter'
        /\ \A r \in replies' : r.id <= id_counter'
    BY <2>1, <2>2
  <2>5. ASSUME NEW u \in Callers, Numbered(u)'
        PROVE  /\ cur'[u] <= id_counter'
               /\ \A r \in net' : r.id # cur'[u]
               /\ \A r \in replies' : r.id # cur'[u]
    <3>1. CASE u = t
      BY <2>1, <2>2, <3>1
    <3>2. CASE u # t
      <4>1. Numbered(u) /\ cur'[u] = cur[u]
        BY <2>1, <2>5, <3>2 DEF Numbered
      <4> QED  BY <4>1, <2>1, <2>2 DEF IdInv
    <3> QED  BY <3>1, <3>2
  <2>6. ASSUME NEW u \in Callers, NEW v \in Callers, u # v, Numbered(u)',
               Numbered(v)'
        PROVE  cur'[u] # cur'[v]
    <3>1. \A w \in Callers \ {t} : Numbered(w)' =>
            Numbered(w) /\ cur'[w] = cur[w] /\ cur[w] <= id_counter
      BY <2>1 DEF Numbered, IdInv
    <3>2. CASE u # t /\ v # t
      BY <3>1, <3>2, <2>6 DEF IdInv
    <3>3. CASE u = t \/ v = t
      BY <3>1, <3>3, <2>6, <2>1, <2>2
    <3> QED  BY <3>2, <3>3
  <2> QED  BY <2>3, <2>4, <2>5, <2>6 DEF IdInv
<1>3. ASSUME NEW t \in Callers, ReadBackId(t) \/ Lock(t) PROVE IdInv'
  <2>1. \A u \in Callers : Numbered(u)' => Numbered(u)
    BY <1>3 DEF ReadBackId, Lock, Numbered, TypeInv, Types
  <2> QED  BY <1>3, <2>1, IdInvQuiet DEF ReadBackId, Lock
<1>4. ASSUME NEW t \in Callers, Write(t) PROVE IdInv'
  <2>1. /\ pc[t] = "write" /\ id_counter' = id_counter /\ cur' = cur
        /\ replies' = replies
        /\ \E p \in {"alloc", "wait"} : pc' = [pc EXCEPT ![t] = p]
    BY <1>4 DEF Write
  <2> DEFINE r == [id |-> cur[t], by |-> me[t],
                   arg |-> Len(results[t]) + Len(ids[t])]
  <2>2. net' = net \cup {r} /\ r.id = cur[t]
    BY <1>4 DEF Write
  <2> HIDE DEF r
  <2>3. /\ ~Numbered(t)' /\ Numbered(t)
        /\ \A u \in Callers : Numbered(u)' => Numbered(u)
    BY <2>1 DEF Numbered, TypeInv, Types
  <2>4. UniqueIds'
    BY <2>1, <2>2, <2>3 DEF IdInv, UniqueIds
  <2> QED  BY <2>1, <2>2, <2>3, <2>4 DEF IdInv
<1>5. ASSUME NEW t \in Callers, WriteThrows(t) PROVE IdInv'
  <2>1. \A u \in Callers : Numbered(u)' => Numbered(u)
    BY <1>5 DEF WriteThrows, Finish, Numbered, TypeInv, Types
  <2> QED  BY <1>5, <2>1, IdInvQuiet DEF WriteThrows
<1>6. ASSUME NEW t \in Callers,
             ReceiveOne(t) \/ ReceiveBulk(t) \/ ReceiveBulkTimeout(t)
      PROVE  IdInv'
  <2>1. replies' \subseteq replies /\ \E msgs : Deliver(t, msgs)
    BY <1>6 DEF ReceiveOne, ReceiveBulk, ReceiveBulkTimeout, TakePrefix
  <2> QED  BY <2>1, DeliverQuiet, IdInvQuiet
<1>7. ASSUME Reading PROVE IdInv'
  <2>1. PICK r \in net, ok \in BOOLEAN : DoRead(r, ok)
    BY <1>7 DEF Reading
  <2> DEFINE m == [id |-> r.id, by |-> r.by, arg |-> r.arg, ok |-> ok]
  <2>2. net' = net \ {r} /\ replies' = replies \cup {m} /\ m.id = r.id
    BY <2>1 DEF DoRead
  <2> HIDE DEF m
  <2>3. id_counter' = id_counter /\ cur' = cur /\ pc' = pc
    BY <2>1 DEF DoRead, callVars
  <2>4. UniqueIds'
    BY <2>2 DEF IdInv, UniqueIds
  <2> QED  BY <2>2, <2>3, <2>4 DEF IdInv, Numbered
<1>8. ASSUME Disconnect \/ stop \/ do_interrupt \/ UNCHANGED vars
      PROVE  IdInv'
  BY <1>8 DEF Disconnect, stop, do_interrupt, Fault, vars, callVars,
              IdInv, UniqueIds, Numbered
<1> QED
  BY <1>1, <1>2, <1>3, <1>4, <1>5, <1>6, <1>7, <1>8 DEF Next, CallerStep

(* However calls overlap, whatever times out and whatever fails, no two    *)
(* messages in flight carry the same id: the race on id_counter can make a *)
(* caller wait for the wrong id, but never makes one id answer twice.      *)
THEOREM IdsAreUnique == Spec => []UniqueIds
<1>1. Init => IdInv
  BY DEF Init, IdInv, UniqueIds, Numbered
<1>2. IdInv => UniqueIds
  BY DEF IdInv
<1> QED  BY <1>1, <1>2, TypeInvInit, TypeInvNext, IdInvNext, PTL DEF Spec

-----------------------------------------------------------------------------
(* mutex_ is held exactly while send_request writes and waits, and while   *)
(* send_request_no_response writes.                                        *)
Holds(t) ==
    \/ pc[t] = "write" /\ op[t].send # "send_request_eat_response"
    \/ pc[t] = "wait" /\ op[t].send = "send_request"

LockInv ==
    \A t \in Callers :
        /\ mutex_ = t <=> Holds(t)
        /\ pc[t] # "idle" => op[t].send # "none"
        /\ pc[t] = "lock" => op[t].send # "send_request_eat_response"

(* A caller between the lock and the wait runs an operation that sends.    *)
LEMMA Sends ==
    ASSUME NEW o \in Ops
    PROVE  o.send \in {"none", "send_request", "send_request_eat_response",
                       "send_request_no_response"}
BY ConstantsAssumption DEF Op

(* A call that waits for one reply ends when it gets one.                  *)
LEMMA OneReplyEnds ==
    ASSUME TypeInv, NEW t \in Callers, NEW m \in Reply, ~IsBulk(op[t]),
           Deliver(t, <<m>>)
    PROVE  /\ \E how \in {"returned", "threw"} : Finish(t, how)
           /\ \/ results' = [results EXCEPT ![t] = <<>>]
              \/ results' = [results EXCEPT ![t] = results[t] \o <<m>>]
<1>1. op[t].size = 1
  BY ConstantsAssumption DEF TypeInv, Types
<1>2. results[t] \in Seq(Reply)
  BY DEF TypeInv, Types
<1>3. ~(Len(results[t] \o <<m>>) < op[t].size)
  BY <1>1, <1>2
<1> QED  BY <1>3 DEF Deliver

(* Every step keeps mutex_ with the caller that is inside its section.     *)
LEMMA LockInvNext == TypeInv /\ LockInv /\ [Next]_vars => LockInv'
<1> SUFFICES ASSUME TypeInv, LockInv, [Next]_vars PROVE LockInv'  OBVIOUS
<1> USE DEF TypeInv, Types
<1>1. ASSUME NEW t \in Callers, NEW o \in Ops, Start(t, o) PROVE LockInv'
  <2>1. /\ pc[t] = "idle" /\ pc'[t] \in {"idle", "alloc"} /\ mutex_' = mutex_
        /\ pc'[t] # "idle" => op'[t].send # "none"
        /\ \A u \in Callers \ {t} : pc'[u] = pc[u] /\ op'[u] = op[u]
    BY <1>1 DEF Start
  <2>2. Holds(t)' <=> Holds(t)
    BY <2>1 DEF Holds
  <2>3. \A u \in Callers \ {t} : Holds(u)' <=> Holds(u)
    BY <2>1 DEF Holds
  <2>4. \A u \in Callers : mutex_' = u <=> Holds(u)'
    BY <2>1, <2>2, <2>3 DEF LockInv
  <2>5. pc'[t] # "lock"
    BY <2>1
  <2> QED  BY <2>1, <2>4, <2>5 DEF LockInv
<1>2. ASSUME NEW t \in Callers, AllocateId(t) \/ ReadBackId(t) PROVE LockInv'
  <2>1. /\ pc[t] \in {"alloc", "read"} /\ mutex_' = mutex_ /\ op' = op
        /\ \/ pc'[t] \in {"read", "lock"} /\ op[t].send # "send_request_eat_response"
           \/ pc'[t] \in {"read", "write"} /\ op[t].send = "send_request_eat_response"
        /\ \A u \in Callers \ {t} : pc'[u] = pc[u]
    BY <1>2 DEF AllocateId, ReadBackId
  <2> QED  BY <2>1 DEF LockInv, Holds
<1>3. ASSUME NEW t \in Callers, Lock(t) PROVE LockInv'
  <2>1. /\ pc[t] = "lock" /\ mutex_ = NoThread /\ NoThread \notin Callers
        /\ mutex_' = t /\ pc'[t] = "write" /\ op' = op
        /\ \A u \in Callers \ {t} : pc'[u] = pc[u]
    BY <1>3, ConstantsAssumption DEF Lock
  <2> QED  BY <2>1 DEF LockInv, Holds
<1>4. ASSUME NEW t \in Callers, Write(t) PROVE LockInv'
  <2>1. /\ pc[t] = "write" /\ op' = op
        /\ \A u \in Callers \ {t} : pc'[u] = pc[u]
    BY <1>4 DEF Write
  <2>2. CASE IsBulk(op[t])
    BY <1>4, <2>1, <2>2, ConstantsAssumption DEF Write, LockInv, Holds, IsBulk
  <2>3. CASE ~IsBulk(op[t])
    <3>1. pc'[t] = "wait" /\ mutex_' = mutex_
      BY <1>4, <2>3 DEF Write
    <3> QED  BY <2>1, <2>3, <3>1, Sends DEF LockInv, Holds, IsBulk
  <2> QED  BY <2>2, <2>3
<1>5. ASSUME NEW t \in Callers, NEW how, Finish(t, how), op' = op
      PROVE  LockInv'
  BY <1>5, ConstantsAssumption DEF Finish, LockInv, Holds
<1>6. ASSUME NEW t \in Callers, WriteThrows(t) PROVE LockInv'
  BY <1>6, <1>5 DEF WriteThrows
<1>7. ASSUME NEW t \in Callers, ReceiveOne(t) PROVE LockInv'
  <2>1. PICK m \in replies : Deliver(t, <<m>>)
    BY <1>7 DEF ReceiveOne
  <2>2. m \in Reply /\ ~IsBulk(op[t]) /\ op' = op
    BY <1>7, <2>1 DEF ReceiveOne, Deliver
  <2> QED  BY <1>5, <2>1, <2>2, OneReplyEnds
<1>8. ASSUME NEW t \in Callers, ReceiveBulk(t) \/ ReceiveBulkTimeout(t)
      PROVE  LockInv'
  <2>1. pc[t] = "wait" /\ IsBulk(op[t]) /\ \E msgs : Deliver(t, msgs)
    BY <1>8 DEF ReceiveBulk, ReceiveBulkTimeout, TakePrefix
  <2>2. op' = op
    BY <2>1 DEF Deliver
  <2>3. CASE \E how : Finish(t, how)
    BY <1>5, <2>2, <2>3
  <2>4. CASE pc' = [pc EXCEPT ![t] = "alloc"] /\ mutex_' = mutex_
    BY <2>1, <2>2, <2>4 DEF LockInv, Holds, IsBulk
  <2> QED  BY <2>1, <2>3, <2>4 DEF Deliver
<1>9. ASSUME Reading \/ Disconnect \/ stop \/ do_interrupt
             \/ UNCHANGED vars
      PROVE  LockInv'
  BY <1>9 DEF Reading, DoRead, Disconnect, stop, do_interrupt, Fault,
              vars, callVars, LockInv, Holds
<1> QED
  BY <1>1, <1>2, <1>3, <1>4, <1>6, <1>7, <1>8, <1>9 DEF Next, CallerStep

(* No caller is inside a section at the start.                             *)
LEMMA LockInvInit == Init => LockInv
BY ConstantsAssumption DEF Init, LockInv, Holds

(* Two threads write to the socket at once only when one of them came      *)
(* through send_request_eat_response, for any number of callers.           *)
THEOREM WritesAreExcluded == Spec => []WritesExcluded
<1>1. LockInv => WritesExcluded
  BY DEF LockInv, Holds, WritesExcluded
<1> QED
  BY <1>1, TypeInvInit, TypeInvNext, LockInvInit, LockInvNext, PTL DEF Spec

-----------------------------------------------------------------------------
(* The operations that go through send_request, however they overlap.      *)
LockedOnly == \A o \in Ops : o.send \in {"none", "send_request"}

(* The one request or reply in flight is that of the caller that holds     *)
(* mutex_ and waits.  This is what makes up for the id read back from      *)
(* id_counter: another caller's id may be waited for, but no other caller  *)
(* has anything in flight.                                                 *)
OfHolder(r) ==
    \E t \in Callers :
        /\ mutex_ = t /\ pc[t] = "wait"
        /\ r.id = cur[t] /\ r.by = me[t] /\ r.arg = 1

LockedInv ==
    /\ \A r \in net : OfHolder(r)
    /\ \A r \in replies : OfHolder(r)
    /\ \A t \in Callers : pc[t] # "idle" => results[t] = <<>>
    /\ OwnReply

(* Steps by which no caller starts or stops waiting.                       *)
LEMMA LockedInvQuiet ==
    ASSUME LockedInv, net' = net, replies' = replies, cur' = cur,
           \A t \in Callers :
             /\ (mutex_ = t /\ pc[t] = "wait") =>
                  (mutex_' = t /\ pc'[t] = "wait" /\ me'[t] = me[t])
             /\ (me'[t] = me[t] /\ results'[t] = results[t]) \/ results'[t] = <<>>
             /\ pc'[t] # "idle" => pc[t] # "idle" \/ results'[t] = <<>>
    PROVE  LockedInv'
<1>1. ASSUME NEW r, OfHolder(r) PROVE OfHolder(r)'
  BY <1>1 DEF OfHolder
<1>2. \A t \in Callers : pc'[t] # "idle" => results'[t] = <<>>
  BY DEF LockedInv
<1>3. OwnReply'
  BY DEF LockedInv, OwnReply, OwnReplies
<1> QED  BY <1>1, <1>2, <1>3 DEF LockedInv

(* With calls that keep mutex_ up to the reply, no step mixes replies.     *)
LEMMA LockedInvNext ==
    ASSUME LockedOnly
    PROVE  TypeInv /\ IdInv /\ LockInv /\ LockedInv /\ [Next]_vars => LockedInv'
<1> SUFFICES ASSUME TypeInv, IdInv, LockInv, LockedInv, [Next]_vars
             PROVE  LockedInv'
  OBVIOUS
<1> USE DEF TypeInv, Types
<1>0. \A t \in Callers : ~IsBulk(op[t])
  BY DEF LockedOnly, IsBulk
<1>1. ASSUME NEW t \in Callers, NEW o \in Ops, Start(t, o) PROVE LockedInv'
  BY <1>1, LockedInvQuiet DEF Start
<1>2. ASSUME NEW t \in Callers, AllocateId(t) PROVE LockedInv'
  <2>1. ASSUME NEW r, OfHolder(r) PROVE OfHolder(r)'
    BY <1>2, <2>1 DEF AllocateId, OfHolder
  <2>2. OwnReply' /\ \A u \in Callers : pc'[u] # "idle" => results'[u] = <<>>
    BY <1>2 DEF AllocateId, LockedInv, OwnReply, OwnReplies
  <2> QED  BY <1>2, <2>1, <2>2 DEF AllocateId, LockedInv
<1>3. ASSUME NEW t \in Callers, ReadBackId(t) \/ Lock(t) PROVE LockedInv'
  <2>1. ASSUME NEW u \in Callers, mutex_ = u, pc[u] = "wait"
        PROVE  mutex_' = u /\ pc'[u] = "wait" /\ me'[u] = me[u]
    BY <1>3, <2>1, ConstantsAssumption DEF ReadBackId, Lock
  <2>2. \A u \in Callers : pc'[u] # "idle" => pc[u] # "idle"
    BY <1>3 DEF ReadBackId, Lock
  <2> QED  BY <1>3, <2>1, <2>2, LockedInvQuiet DEF ReadBackId, Lock
<1>4. ASSUME NEW t \in Callers, Write(t) PROVE LockedInv'
  <2>1. /\ pc[t] = "write" /\ pc'[t] = "wait" /\ results' = results
        /\ me' = me /\ cur' = cur /\ replies' = replies /\ ids' = ids
        /\ mutex_' = mutex_
        /\ \A u \in Callers \ {t} : pc'[u] = pc[u]
    BY <1>4, <1>0 DEF Write
  <2>2. mutex_ = t
    BY <2>1 DEF LockInv, Holds, LockedOnly
  <2>3. net = {} /\ replies = {}
    BY <2>1, <2>2 DEF LockedInv, OfHolder
  <2>4. results[t] = <<>> /\ Len(ids[t]) = 1
    <3>1. op[t].chunk = 1 /\ op[t].size = 1
      BY <1>0, ConstantsAssumption
    <3>2. results[t] = <<>>
      BY <2>1 DEF LockedInv
    <3>3. ChunkLen(t) = 1
      BY <3>1, <3>2 DEF ChunkLen, Min
    <3>4. Len(ids[t]) \in Nat /\ Len(ids[t]) <= ChunkLen(t) /\ Len(ids[t]) > 0
      BY <2>1 DEF ChunkProgress
    <3>5. \A n \in Nat : n <= 1 /\ n > 0 => n = 1
      OBVIOUS
    <3> QED  BY <3>2, <3>3, <3>4, <3>5, Zenon
  <2>5. net' = {[id |-> cur[t], by |-> me[t], arg |-> 1]}
    <3>1. Len(results[t]) + Len(ids[t]) = 1
      BY <2>4
    <3> QED  BY <1>4, <2>3, <3>1 DEF Write
  <2>6. \A r \in net' : OfHolder(r)'
    BY <2>1, <2>2, <2>5 DEF OfHolder
  <2>7. OwnReply' /\ \A u \in Callers : pc'[u] # "idle" => results'[u] = <<>>
    BY <2>1 DEF LockedInv, OwnReply, OwnReplies
  <2> QED  BY <2>1, <2>3, <2>6, <2>7 DEF LockedInv
<1>5. ASSUME NEW t \in Callers, WriteThrows(t) PROVE LockedInv'
  <2>1. ASSUME NEW u \in Callers, mutex_ = u, pc[u] = "wait"
        PROVE  mutex_' = u /\ pc'[u] = "wait" /\ me'[u] = me[u]
    BY <1>5, <2>1 DEF WriteThrows, Finish
  <2>2. \A u \in Callers : pc'[u] # "idle" => pc[u] # "idle"
    BY <1>5 DEF WriteThrows, Finish
  <2> QED  BY <1>5, <2>1, <2>2, LockedInvQuiet DEF WriteThrows
<1>6. ASSUME NEW t \in Callers, ReceiveOne(t) PROVE LockedInv'
  <2>1. PICK m \in replies : replies' = replies \ {m} /\ Deliver(t, <<m>>)
    BY <1>6 DEF ReceiveOne
  <2>2. pc[t] = "wait" /\ mutex_ = t
    BY <1>6 DEF ReceiveOne, LockInv, Holds, LockedOnly
  <2>3. /\ \A r \in net : r.id = cur[t]
        /\ \A r \in replies : r.id = cur[t]
        /\ m.by = me[t] /\ m.arg = 1
    BY <2>2 DEF LockedInv, OfHolder
  <2>4. net = {} /\ replies' = {}
    <3>1. /\ \A r \in replies : r.id = m.id => r = m
          /\ \A r \in net : r.id # m.id
      BY DEF IdInv, UniqueIds
    <3> QED  BY <2>1, <2>3, <3>1
  <2>5. \E how \in {"returned", "threw"} : Finish(t, how)
    BY <2>1, <1>0, OneReplyEnds
  <2>6. /\ \/ Len(results'[t]) = 0
           \/ Len(results'[t]) = 1 /\ results'[t][1] = m
        /\ \A u \in Callers \ {t} : results'[u] = results[u]
    <3>1. results[t] = <<>> /\ m \in Reply
      BY <2>2 DEF LockedInv
    <3>2. Len(<<>> \o <<m>>) = 1 /\ (<<>> \o <<m>>)[1] = m
      BY <3>1
    <3>3. \/ results' = [results EXCEPT ![t] = <<>>]
          \/ results' = [results EXCEPT ![t] = <<>> \o <<m>>]
      BY <2>1, <3>1, <1>0, OneReplyEnds
    <3> QED  BY <3>2, <3>3
  <2>7. OwnReply'
    <3>1. me' = me /\ \A u \in Callers : OwnReplies(u)
      BY <2>1 DEF Deliver, LockedInv, OwnReply
    <3>2. OwnReplies(t)'
      BY <2>3, <2>6, <3>1 DEF OwnReplies
    <3>3. \A u \in Callers \ {t} : OwnReplies(u)'
      BY <2>6, <3>1 DEF OwnReplies
    <3> QED  BY <3>2, <3>3 DEF OwnReply
  <2>8. \A u \in Callers : pc'[u] # "idle" => results'[u] = <<>>
    BY <2>5, <2>6 DEF Finish, LockedInv
  <2> QED  BY <2>1, <2>4, <2>7, <2>8 DEF Deliver, LockedInv
<1>7. ASSUME NEW t \in Callers, ReceiveBulk(t) \/ ReceiveBulkTimeout(t)
      PROVE  LockedInv'
  BY <1>7, <1>0 DEF ReceiveBulk, ReceiveBulkTimeout
<1>8. ASSUME Reading PROVE LockedInv'
  <2>1. PICK r \in net, ok \in BOOLEAN : DoRead(r, ok)
    BY <1>8 DEF Reading
  <2> DEFINE m == [id |-> r.id, by |-> r.by, arg |-> r.arg, ok |-> ok]
  <2>2. /\ net' = net \ {r} /\ replies' = replies \cup {m}
        /\ m.id = r.id /\ m.by = r.by /\ m.arg = r.arg
    BY <2>1 DEF DoRead
  <2> HIDE DEF m
  <2>3. /\ mutex_' = mutex_ /\ pc' = pc /\ cur' = cur /\ me' = me
        /\ results' = results
    BY <2>1 DEF DoRead, callVars
  <2>4. OfHolder(m)
    BY <2>2 DEF LockedInv, OfHolder
  <2> QED
    BY <2>2, <2>3, <2>4 DEF LockedInv, OfHolder, OwnReply, OwnReplies
<1>9. ASSUME Disconnect \/ stop \/ do_interrupt \/ UNCHANGED vars
      PROVE  LockedInv'
  BY <1>9 DEF Disconnect, stop, do_interrupt, Fault, vars, callVars,
              LockedInv, OfHolder, OwnReply, OwnReplies
<1> QED
  BY <1>1, <1>2, <1>3, <1>4, <1>5, <1>6, <1>7, <1>8, <1>9 DEF Next, CallerStep

(* Any number of threads may use the operations that go through            *)
(* send_request at the same time, with connections lost, stopped and       *)
(* interrupted under them: a call that returns has got its own reply.      *)
THEOREM LockedCallsGetOwnReply == LockedOnly => (Spec => []OwnReply)
<1> SUFFICES ASSUME LockedOnly PROVE Spec => []OwnReply  OBVIOUS
<1>1. Init => IdInv
  BY DEF Init, IdInv, UniqueIds, Numbered
<1>2. Init => LockedInv
  BY DEF Init, LockedInv, OwnReply, OwnReplies
<1>3. LockedInv => OwnReply
  BY DEF LockedInv
<1> QED
  BY <1>1, <1>2, <1>3, TypeInvInit, TypeInvNext, IdInvNext, LockInvInit,
     LockInvNext, LockedInvNext, PTL DEF Spec

-----------------------------------------------------------------------------
(* The operations of every kind, when the application never overlaps two   *)
(* calls.  Each id waited for is then that of a request the same call      *)
(* wrote for that position, whether it is still unanswered or answered;    *)
(* what earlier calls and abandoned batches left behind has other ids.     *)
Sent(t) == IF pc[t] \in {"lock", "write"} THEN Len(ids[t]) - 1 ELSE Len(ids[t])

Asks(r, t, i) ==
    r.id = ids[t][i] /\ r.by = me[t] /\ r.arg = Len(results[t]) + i

SerialInv ==
    /\ \A t, u \in Callers : pc[t] # "idle" /\ pc[u] # "idle" => t = u
    /\ \A t \in Callers : Numbered(t) => cur[t] = id_counter
    /\ \A t \in Callers :
         pc[t] \in {"lock", "write"} => ids[t][Len(ids[t])] = id_counter
    /\ \A t \in Callers : pc[t] # "idle" =>
         \A i \in 1..Sent(t) : \E r \in InFlight : Asks(r, t, i)
    /\ OwnReply

(* Any reply with an id waited for is the reply to that position.          *)
LEMMA RightReply ==
    ASSUME IdInv, SerialInv, NEW t \in Callers, pc[t] = "wait",
           NEW i \in 1..Len(ids[t]), NEW m \in replies, m.id = ids[t][i]
    PROVE  m.by = me[t] /\ m.arg = Len(results[t]) + i
<1>1. PICK r \in InFlight : Asks(r, t, i)
  BY DEF SerialInv, Sent
<1>2. r = m
  BY <1>1 DEF InFlight, Asks, IdInv, UniqueIds
<1> QED  BY <1>1, <1>2 DEF Asks

(* A call that has taken its own replies and now takes its next ones.      *)
LEMMA DeliverSerial ==
    ASSUME TypeInv, SerialInv, NEW t \in Callers, NEW msgs \in Seq(Reply),
           pc[t] = "wait", Deliver(t, msgs),
           \A i \in 1..Len(msgs) :
             msgs[i].by = me[t] /\ msgs[i].arg = Len(results[t]) + i
    PROVE  SerialInv'
<1> USE DEF TypeInv, Types
<1> DEFINE all == results[t] \o msgs
<1>1. /\ ids'[t] = <<>> /\ op' = op /\ me' = me /\ cur' = cur
      /\ id_counter' = id_counter
      /\ \E p \in {"idle", "alloc"} : pc' = [pc EXCEPT ![t] = p]
      /\ \/ results' = [results EXCEPT ![t] = <<>>]
         \/ results' = [results EXCEPT ![t] = all]
  BY DEF Deliver, Finish
<1>2. \A u \in Callers \ {t} : pc[u] = "idle" /\ pc'[u] = "idle"
  BY <1>1 DEF SerialInv
<1>3. pc'[t] \in {"idle", "alloc"} /\ Len(ids'[t]) = 0
  BY <1>1
<1>4. \A i \in 1..Len(all) : all[i].by = me[t] /\ all[i].arg = i
  <2>1. \A i \in 1..Len(results[t]) :
          results[t][i].by = me[t] /\ results[t][i].arg = i
    BY DEF SerialInv, OwnReply, OwnReplies
  <2>2. /\ results[t] \in Seq(Reply) /\ Len(all) = Len(results[t]) + Len(msgs)
        /\ Len(results[t]) \in Nat /\ Len(msgs) \in Nat
    OBVIOUS
  <2>3. ASSUME NEW i \in 1..Len(all)
        PROVE  all[i].by = me[t] /\ all[i].arg = i
    <3>1. CASE i <= Len(results[t])
      <4>1. all[i] = results[t][i] /\ i \in 1..Len(results[t])
        BY <2>2, <3>1
      <4> QED  BY <2>1, <4>1
    <3>2. CASE i > Len(results[t])
      <4> DEFINE j == i - Len(results[t])
      <4>1. all[i] = msgs[j] /\ j \in 1..Len(msgs) /\ Len(results[t]) + j = i
        BY <2>2, <3>2
      <4> HIDE DEF j, all
      <4> QED  BY <4>1
    <3> QED  BY <2>2, <3>1, <3>2
  <2> QED  BY <2>3
<1> HIDE DEF all
<1>5. OwnReply'
  <2>1. OwnReplies(t)'
    <3>1. CASE results' = [results EXCEPT ![t] = <<>>]
      <4>1. Len(results'[t]) = 0
        BY <3>1
      <4> QED  BY <4>1 DEF OwnReplies
    <3>2. CASE results' = [results EXCEPT ![t] = all]
      <4>1. results'[t] = all
        BY <3>2
      <4> QED  BY <1>1, <1>4, <4>1 DEF OwnReplies
    <3> QED  BY <1>1, <3>1, <3>2
  <2>2. ASSUME NEW u \in Callers \ {t} PROVE OwnReplies(u)'
    <3>1. results'[u] = results[u] /\ me'[u] = me[u]
      BY <1>1
    <3> QED  BY <3>1 DEF SerialInv, OwnReply, OwnReplies
  <2> QED  BY <2>1, <2>2 DEF OwnReply
<1>6. ASSUME NEW u \in Callers, pc'[u] # "idle", NEW i \in 1..Sent(u)'
      PROVE  FALSE
  <2>1. u = t
    BY <1>2, <1>6
  <2>2. Sent(t)' = 0
    BY <1>3 DEF Sent
  <2> QED  BY <1>6, <2>1, <2>2
<1>7. /\ \A u, v \in Callers : pc'[u] # "idle" /\ pc'[v] # "idle" => u = v
      /\ \A u \in Callers : ~Numbered(u)' /\ pc'[u] \notin {"lock", "write"}
  BY <1>2, <1>3 DEF Numbered
<1> QED  BY <1>5, <1>6, <1>7 DEF SerialInv

(* With calls that never overlap, no step mixes replies.                   *)
LEMMA SerialInvNext ==
    ASSUME Serial
    PROVE  TypeInv /\ IdInv /\ SerialInv /\ [Next]_vars => SerialInv'
<1> SUFFICES ASSUME TypeInv, IdInv, SerialInv, [Next]_vars PROVE SerialInv'
  OBVIOUS
<1> USE DEF TypeInv, Types
<1>0. \A t, u \in Callers : pc[t] # "idle" /\ t # u => pc[u] = "idle"
  BY DEF SerialInv
<1>1. ASSUME NEW t \in Callers, NEW o \in Ops, Start(t, o) PROVE SerialInv'
  <2>1. /\ \A u \in Callers : pc[u] = "idle"
        /\ \A u \in Callers \ {t} : pc'[u] = "idle"
        /\ pc'[t] \in {"idle", "alloc"} /\ ids'[t] = <<>> /\ results'[t] = <<>>
        /\ \A u \in Callers \ {t} : results'[u] = results[u] /\ me'[u] = me[u]
    BY <1>1 DEF Start
  <2>2. Sent(t)' = 0
    BY <2>1 DEF Sent
  <2>3. OwnReply'
    <3>1. OwnReplies(t)'
      <4>1. Len(results'[t]) = 0
        BY <2>1
      <4> QED  BY <4>1 DEF OwnReplies
    <3>2. \A u \in Callers \ {t} : OwnReplies(u)'
      BY <2>1 DEF SerialInv, OwnReply, OwnReplies
    <3> QED  BY <3>1, <3>2 DEF OwnReply
  <2>4. \A u \in Callers : pc'[u] # "idle" =>
          \A i \in 1..Sent(u)' : \E r \in InFlight' : Asks(r, u, i)'
    BY <2>1, <2>2
  <2> QED  BY <2>1, <2>3, <2>4 DEF SerialInv, Numbered
<1>2. ASSUME NEW t \in Callers, AllocateId(t) PROVE SerialInv'
  <2>1. /\ pc[t] = "alloc" /\ pc'[t] = "read" /\ cur'[t] = id_counter'
        /\ ids' = ids /\ results' = results /\ me' = me
        /\ net' = net /\ replies' = replies
        /\ \A u \in Callers \ {t} : pc'[u] = "idle"
    BY <1>2, <1>0 DEF AllocateId
  <2>2. Sent(t)' = Sent(t) /\ InFlight' = InFlight
    BY <2>1 DEF Sent, InFlight
  <2>3. ASSUME NEW i \in 1..Sent(t) PROVE \E r \in InFlight' : Asks(r, t, i)'
    <3>1. PICK r \in InFlight : Asks(r, t, i)
      BY <2>1 DEF SerialInv
    <3>2. Asks(r, t, i)'
      BY <2>1, <3>1 DEF Asks
    <3> QED  BY <2>2, <3>1, <3>2
  <2>4. OwnReply'
    BY <2>1 DEF SerialInv, OwnReply, OwnReplies
  <2> QED  BY <2>1, <2>2, <2>3, <2>4 DEF SerialInv, Numbered
<1>3. ASSUME NEW t \in Callers, ReadBackId(t) PROVE SerialInv'
  <2>1. /\ pc[t] = "read" /\ pc'[t] \in {"lock", "write"}
        /\ ids'[t] = Append(ids[t], id_counter) /\ results' = results
        /\ me' = me /\ net' = net /\ replies' = replies
        /\ cur' = cur /\ id_counter' = id_counter
        /\ \A u \in Callers \ {t} : pc'[u] = "idle"
    BY <1>3, <1>0 DEF ReadBackId
  <2>2. /\ Len(ids'[t]) = Len(ids[t]) + 1 /\ Len(ids[t]) \in Nat
        /\ ids'[t][Len(ids'[t])] = id_counter
        /\ \A i \in 1..Len(ids[t]) : ids'[t][i] = ids[t][i]
    BY <2>1
  <2>3. Sent(t)' = Sent(t) /\ Sent(t) = Len(ids[t]) /\ InFlight' = InFlight
    BY <2>1, <2>2 DEF Sent, InFlight
  <2>4. ASSUME NEW i \in 1..Sent(t) PROVE \E r \in InFlight' : Asks(r, t, i)'
    <3>1. PICK r \in InFlight : Asks(r, t, i)
      BY <2>1 DEF SerialInv
    <3>2. i \in 1..Len(ids[t])
      BY <2>3
    <3>3. Asks(r, t, i)'
      <4>1. ids'[t][i] = ids[t][i] /\ me' = me /\ results' = results
        BY <2>1, <2>2, <3>2
      <4> QED  BY <3>1, <4>1 DEF Asks
    <3> QED  BY <2>3, <3>1, <3>3
  <2>5. OwnReply'
    BY <2>1 DEF SerialInv, OwnReply, OwnReplies
  <2>6. cur'[t] = id_counter'
    BY <2>1 DEF SerialInv, Numbered
  <2> QED  BY <2>1, <2>2, <2>3, <2>4, <2>5, <2>6 DEF SerialInv, Numbered
<1>4. ASSUME NEW t \in Callers, Lock(t) PROVE SerialInv'
  <2>1. /\ pc[t] = "lock" /\ pc'[t] = "write" /\ ids' = ids
        /\ results' = results /\ me' = me /\ net' = net /\ replies' = replies
        /\ cur' = cur /\ id_counter' = id_counter
        /\ \A u \in Callers \ {t} : pc'[u] = "idle"
    BY <1>4, <1>0 DEF Lock
  <2>2. Sent(t)' = Sent(t) /\ InFlight' = InFlight
    BY <2>1 DEF Sent, InFlight
  <2>3. ASSUME NEW i \in 1..Sent(t) PROVE \E r \in InFlight' : Asks(r, t, i)'
    <3>1. PICK r \in InFlight : Asks(r, t, i)
      BY <2>1 DEF SerialInv
    <3>2. Asks(r, t, i)'
      BY <2>1, <3>1 DEF Asks
    <3> QED  BY <2>2, <3>1, <3>2
  <2>4. OwnReply'
    BY <2>1 DEF SerialInv, OwnReply, OwnReplies
  <2> QED  BY <2>1, <2>2, <2>3, <2>4 DEF SerialInv, Numbered
<1>5. ASSUME NEW t \in Callers, Write(t) PROVE SerialInv'
  <2>0. PICK w : w = [id |-> cur[t], by |-> me[t],
                      arg |-> Len(results[t]) + Len(ids[t])]
    OBVIOUS
  <2>1. /\ pc[t] = "write" /\ pc'[t] \in {"alloc", "wait"} /\ ids' = ids
        /\ results' = results /\ me' = me /\ replies' = replies
        /\ net' = net \cup {w} /\ cur' = cur /\ id_counter' = id_counter
        /\ \A u \in Callers \ {t} : pc'[u] = "idle"
    BY <1>5, <1>0, <2>0 DEF Write
  <2>2. /\ w.id = ids[t][Len(ids[t])] /\ w.by = me[t]
        /\ w.arg = Len(results[t]) + Len(ids[t])
    BY <2>0, <2>1 DEF SerialInv, Numbered
  <2>3. /\ Sent(t)' = Len(ids[t]) /\ Sent(t) = Len(ids[t]) - 1
        /\ InFlight' = InFlight \cup {w} /\ Len(ids[t]) \in Nat
    BY <2>1 DEF Sent, InFlight
  <2>4. ASSUME NEW i \in 1..Len(ids[t])
        PROVE  \E r \in InFlight' : Asks(r, t, i)'
    <3>1. CASE i = Len(ids[t])
      <4>1. Asks(w, t, i)'
        BY <2>1, <2>2, <3>1 DEF Asks
      <4> QED  BY <4>1, <2>3
    <3>2. CASE i # Len(ids[t])
      <4>1. i \in 1..Sent(t)
        BY <2>3, <3>2
      <4>2. PICK r \in InFlight : Asks(r, t, i)
        BY <2>1, <4>1 DEF SerialInv
      <4>3. Asks(r, t, i)' /\ r \in InFlight'
        BY <2>1, <2>3, <4>2 DEF Asks
      <4> QED  BY <4>3
    <3> QED  BY <3>1, <3>2
  <2>5. OwnReply'
    BY <2>1 DEF SerialInv, OwnReply, OwnReplies
  <2> QED  BY <2>1, <2>3, <2>4, <2>5 DEF SerialInv, Numbered
<1>6. ASSUME NEW t \in Callers, WriteThrows(t) PROVE SerialInv'
  <2>1. /\ \A u \in Callers : pc'[u] = "idle"
        /\ results' = [results EXCEPT ![t] = <<>>] /\ me' = me
    BY <1>6, <1>0 DEF WriteThrows, Finish
  <2>2. OwnReply'
    BY <2>1 DEF SerialInv, OwnReply, OwnReplies
  <2> QED  BY <2>1, <2>2 DEF SerialInv, Numbered
<1>7. ASSUME NEW t \in Callers, ReceiveOne(t) PROVE SerialInv'
  <2>1. PICK m \in replies : m.id = ids[t][1] /\ Deliver(t, <<m>>)
    BY <1>7 DEF ReceiveOne
  <2>2. pc[t] = "wait" /\ 1 \in 1..Len(ids[t])
    BY <1>7 DEF ReceiveOne, ChunkProgress
  <2>3. m.by = me[t] /\ m.arg = Len(results[t]) + 1
    BY <2>1, <2>2, RightReply
  <2>4. /\ <<m>> \in Seq(Reply)
        /\ \A i \in 1..Len(<<m>>) : <<m>>[i].by = me[t]
                                   /\ <<m>>[i].arg = Len(results[t]) + i
    BY <2>3
  <2> QED  BY <2>1, <2>2, <2>4, DeliverSerial
<1>8. ASSUME NEW t \in Callers, ReceiveBulk(t) \/ ReceiveBulkTimeout(t)
      PROVE  SerialInv'
  <2>1. Len(ids[t]) \in Nat
    OBVIOUS
  <2>2. PICK n \in 0..Len(ids[t]) : Present(t, n) /\ TakePrefix(t, n)
    BY <1>8, <2>1 DEF ReceiveBulk, ReceiveBulkTimeout
  <2>3. pc[t] = "wait"
    BY <1>8 DEF ReceiveBulk, ReceiveBulkTimeout
  <2> DEFINE msgs == [i \in 1..n |-> ReplyTo(t, i)]
  <2>n. n \in Nat
    BY <2>1
  <2>4. /\ msgs \in Seq(Reply) /\ Len(msgs) = n
        /\ \A i \in 1..n : ReplyTo(t, i) \in replies
                           /\ ReplyTo(t, i).id = ids[t][i]
    BY <2>n, <2>2, Taken
  <2>5. ASSUME NEW i \in 1..Len(msgs)
        PROVE  msgs[i].by = me[t] /\ msgs[i].arg = Len(results[t]) + i
    <3>1. i \in 1..n /\ i \in 1..Len(ids[t]) /\ msgs[i] = ReplyTo(t, i)
      BY <2>1, <2>n, <2>4
    <3> QED  BY <2>3, <2>4, <3>1, RightReply
  <2>6. Deliver(t, msgs)
    BY <2>2 DEF TakePrefix
  <2> HIDE DEF msgs
  <2> QED  BY <2>3, <2>4, <2>5, <2>6, DeliverSerial
<1>9. ASSUME Reading PROVE SerialInv'
  <2>1. PICK r \in net, ok \in BOOLEAN : DoRead(r, ok)
    BY <1>9 DEF Reading
  <2> DEFINE m == [id |-> r.id, by |-> r.by, arg |-> r.arg, ok |-> ok]
  <2>2. /\ net' = net \ {r} /\ replies' = replies \cup {m}
        /\ m.id = r.id /\ m.by = r.by /\ m.arg = r.arg
    BY <2>1 DEF DoRead
  <2> HIDE DEF m
  <2>3. /\ id_counter' = id_counter /\ pc' = pc /\ cur' = cur /\ me' = me
        /\ results' = results /\ ids' = ids
    BY <2>1 DEF DoRead, callVars
  <2>4. ASSUME NEW t \in Callers, NEW i, NEW s \in InFlight, Asks(s, t, i)
        PROVE  \E q \in InFlight' : Asks(q, t, i)'
    <3>1. \A q : Asks(q, t, i)' <=> Asks(q, t, i)
      BY <2>3 DEF Asks
    <3>2. CASE s = r
      <4>1. Asks(m, t, i) /\ m \in InFlight'
        BY <2>2, <2>4, <3>2 DEF Asks, InFlight
      <4> QED  BY <3>1, <4>1
    <3>3. CASE s # r
      <4>1. s \in InFlight'
        BY <2>2, <3>3 DEF InFlight
      <4> QED  BY <2>4, <3>1, <4>1
    <3> QED  BY <3>2, <3>3
  <2>5. OwnReply'
    BY <2>3 DEF SerialInv, OwnReply, OwnReplies
  <2>6. \A t \in Callers : Sent(t)' = Sent(t)
    BY <2>3 DEF Sent
  <2>7. \A t \in Callers : pc'[t] # "idle" =>
          \A i \in 1..Sent(t)' : \E q \in InFlight' : Asks(q, t, i)'
    BY <2>3, <2>4, <2>6 DEF SerialInv
  <2> QED  BY <2>3, <2>5, <2>7 DEF SerialInv, Numbered
<1>10. ASSUME Disconnect \/ stop \/ do_interrupt \/ UNCHANGED vars
       PROVE  SerialInv'
  <2>1. /\ id_counter' = id_counter /\ pc' = pc /\ cur' = cur /\ me' = me
        /\ results' = results /\ ids' = ids /\ net' = net /\ replies' = replies
    BY <1>10 DEF Disconnect, stop, do_interrupt, Fault, vars, callVars
  <2>2. /\ \A t \in Callers : Sent(t)' = Sent(t)
        /\ InFlight' = InFlight
        /\ \A t \in Callers : \A r, i : Asks(r, t, i)' <=> Asks(r, t, i)
    BY <2>1 DEF Sent, InFlight, Asks
  <2>3. OwnReply'
    BY <2>1 DEF SerialInv, OwnReply, OwnReplies
  <2>4. \A t \in Callers : pc'[t] # "idle" =>
          \A i \in 1..Sent(t)' : \E q \in InFlight' : Asks(q, t, i)'
    BY <2>1, <2>2 DEF SerialInv
  <2> QED  BY <2>1, <2>3, <2>4 DEF SerialInv, Numbered
<1> QED
  BY <1>1, <1>2, <1>3, <1>4, <1>5, <1>6, <1>7, <1>8, <1>9, <1>10
     DEF Next, CallerStep

(* When the application does not overlap its calls, every operation gets   *)
(* the replies to its own requests, in their order; timeouts, late replies *)
(* of abandoned batches, errors and lost connections change nothing about  *)
(* it.                                                                     *)
THEOREM SerialCallsGetOwnReply == Serial => (Spec => []OwnReply)
<1> SUFFICES ASSUME Serial PROVE Spec => []OwnReply  OBVIOUS
<1>1. Init => IdInv
  BY DEF Init, IdInv, UniqueIds, Numbered
<1>2. Init => SerialInv
  BY DEF Init, SerialInv, Numbered, OwnReply, OwnReplies
<1>3. SerialInv => OwnReply
  BY DEF SerialInv
<1> QED
  BY <1>1, <1>2, <1>3, TypeInvInit, TypeInvNext, IdInvNext, SerialInvNext, PTL
     DEF Spec

(* A call that waits, in pop_reply without a timeout, has written what it  *)
(* waits for: nobody waits for a reply that cannot come while the          *)
(* application does not overlap its calls.                                 *)
THEOREM SerialCallsWaitForWritten == Serial => (Spec => []WaitsForWritten)
<1> SUFFICES ASSUME Serial PROVE Spec => []WaitsForWritten  OBVIOUS
<1>1. Init => IdInv
  BY DEF Init, IdInv, UniqueIds, Numbered
<1>2. Init => SerialInv
  BY DEF Init, SerialInv, Numbered, OwnReply, OwnReplies
<1>3. SerialInv => WaitsForWritten
  BY DEF SerialInv, WaitsForWritten, Sent, Asks
<1> QED
  BY <1>1, <1>2, <1>3, TypeInvInit, TypeInvNext, IdInvNext, SerialInvNext, PTL
     DEF Spec

-----------------------------------------------------------------------------
(* Calls that overlap may take each other's replies, but the number of     *)
(* replies that are owed to callers is the number of requests in flight:   *)
(* an argument about cardinalities, for it does not matter whose they are. *)
(* The requests that running calls have written and not had answered, by   *)
(* position.                                                               *)
Owed == {s \in Callers \X Nat : pc[s[1]] # "idle" /\ s[2] \in 1..Sent(s[1])}

CountInv ==
    timeouts = 0 /\ Open =>
        /\ IsFiniteSet(InFlight) /\ IsFiniteSet(Owed)
        /\ Cardinality(Owed) = Cardinality(InFlight)

(* The ids a call waits for ascend: it reads each from the counter after   *)
(* it has advanced the counter itself.  So a bulk wait takes as many       *)
(* replies as it has ids.                                                  *)
AscendInv ==
    \A t \in Callers : pc[t] # "idle" =>
        /\ \A i, j \in 1..Len(ids[t]) : i < j => ids[t][i] < ids[t][j]
        /\ \A i \in 1..Len(ids[t]) : ids[t][i] <= id_counter
        /\ pc[t] = "read" => \A i \in 1..Len(ids[t]) : ids[t][i] < id_counter

(* A caller whose ids stay, while the counter does not fall.               *)
LEMMA AscendQuiet ==
    ASSUME TypeInv, AscendInv, id_counter' \in Nat, id_counter <= id_counter',
           \A u \in Callers : pc'[u] # "idle" =>
               \/ ids'[u] = <<>>
               \/ /\ pc[u] # "idle" /\ ids'[u] = ids[u]
                  /\ pc'[u] = "read" => pc[u] = "read"
    PROVE  AscendInv'
<1> SUFFICES ASSUME NEW u \in Callers, pc'[u] # "idle"
             PROVE  /\ \A i, j \in 1..Len(ids'[u]) : i < j => ids'[u][i] < ids'[u][j]
                    /\ \A i \in 1..Len(ids'[u]) : ids'[u][i] <= id_counter'
                    /\ pc'[u] = "read" => \A i \in 1..Len(ids'[u]) : ids'[u][i] < id_counter'
  BY DEF AscendInv
<1>1. CASE ids'[u] = <<>>
  <2>1. Len(ids'[u]) = 0
    BY <1>1
  <2> QED  BY <2>1
<1>2. CASE /\ pc[u] # "idle" /\ ids'[u] = ids[u]
           /\ pc'[u] = "read" => pc[u] = "read"
  <2>1. id_counter \in Nat /\ \A i \in 1..Len(ids[u]) : ids[u][i] \in Nat
    BY DEF TypeInv, Types
  <2> QED  BY <1>2, <2>1 DEF AscendInv
<1> QED  BY <1>1, <1>2

(* One more id, above all others.                                          *)
LEMMA AscendAppend ==
    ASSUME NEW s \in Seq(Nat), NEW c \in Nat,
           \A i, j \in 1..Len(s) : i < j => s[i] < s[j],
           \A i \in 1..Len(s) : s[i] < c
    PROVE  /\ \A i, j \in 1..Len(Append(s, c)) : i < j => Append(s, c)[i] < Append(s, c)[j]
           /\ \A i \in 1..Len(Append(s, c)) : Append(s, c)[i] <= c
<1> DEFINE new == Append(s, c)
<1>1. /\ Len(s) \in Nat /\ Len(new) = Len(s) + 1 /\ new[Len(s) + 1] = c
      /\ \A i \in 1..Len(s) : new[i] = s[i] /\ s[i] \in Nat
  OBVIOUS
<1>2. \A i \in 1..Len(new) : i = Len(s) + 1 \/ i \in 1..Len(s)
  BY <1>1
<1> HIDE DEF new
<1>3. ASSUME NEW i \in 1..Len(new), NEW j \in 1..Len(new), i < j PROVE new[i] < new[j]
  <2>1. i \in 1..Len(s)
    BY <1>1, <1>3
  <2>2. CASE j = Len(s) + 1
    BY <1>1, <2>1, <2>2
  <2>3. CASE j \in 1..Len(s)
    BY <1>1, <1>3, <2>1, <2>3
  <2> QED  BY <1>2, <2>2, <2>3
<1>4. \A i \in 1..Len(new) : new[i] <= c
  BY <1>1, <1>2
<1> QED  BY <1>3, <1>4 DEF new

(* The ids a call waits for are numbers.                                   *)
LEMMA IdsTyped ==
    ASSUME Types
    PROVE  \A u \in Callers : \A i \in 1..Len(ids[u]) : ids[u][i] \in Nat
<1> SUFFICES ASSUME NEW u \in Callers PROVE \A i \in 1..Len(ids[u]) : ids[u][i] \in Nat
  OBVIOUS
<1>1. ids[u] \in Seq(Nat)
  BY DEF Types
<1> QED  BY <1>1

(* Every step keeps the ids of a call ascending.                           *)
LEMMA AscendNext == TypeInv /\ AscendInv /\ [Next]_vars => AscendInv'
<1> SUFFICES ASSUME TypeInv, AscendInv, [Next]_vars PROVE AscendInv'  OBVIOUS
<1> USE DEF TypeInv, Types
<1>1. ASSUME NEW t \in Callers, NEW o \in Ops, Start(t, o) PROVE AscendInv'
  <2>1. /\ id_counter' = id_counter /\ ids'[t] = <<>>
        /\ \A u \in Callers \ {t} : pc'[u] = pc[u] /\ ids'[u] = ids[u]
    BY <1>1 DEF Start
  <2> QED  BY <2>1, AscendQuiet
<1>2. ASSUME NEW t \in Callers, AllocateId(t) PROVE AscendInv'
  <2>1. /\ id_counter' = id_counter + 1 /\ ids' = ids /\ pc[t] = "alloc" /\ pc'[t] = "read"
        /\ \A u \in Callers \ {t} : pc'[u] = pc[u]
    BY <1>2 DEF AllocateId
  <2>2. \A u \in Callers : \A i \in 1..Len(ids[u]) : ids[u][i] \in Nat
    BY IdsTyped
  <2>3. ASSUME NEW u \in Callers, pc'[u] # "idle"
        PROVE  /\ \A i, j \in 1..Len(ids[u]) : i < j => ids[u][i] < ids[u][j]
               /\ \A i \in 1..Len(ids[u]) : ids[u][i] <= id_counter
    <3>1. pc[u] # "idle"
      BY <2>1, <2>3
    <3> QED  BY <3>1 DEF AscendInv
  <2>4. id_counter \in Nat
    OBVIOUS
  <2>5. \A n \in Nat : n <= id_counter => n <= id_counter + 1 /\ n < id_counter + 1
    BY <2>4
  <2> QED  BY <2>1, <2>2, <2>3, <2>5 DEF AscendInv
<1>3. ASSUME NEW t \in Callers, ReadBackId(t) PROVE AscendInv'
  <2> DEFINE new == Append(ids[t], id_counter)
  <2>1. /\ id_counter' = id_counter /\ pc[t] = "read" /\ pc'[t] \notin {"idle", "read"}
        /\ ids'[t] = new
        /\ \A u \in Callers \ {t} : pc'[u] = pc[u] /\ ids'[u] = ids[u]
    BY <1>3 DEF ReadBackId
  <2>2. ids[t] \in Seq(Nat) /\ id_counter \in Nat
    OBVIOUS
  <2>3. /\ \A i, j \in 1..Len(ids[t]) : i < j => ids[t][i] < ids[t][j]
        /\ \A i \in 1..Len(ids[t]) : ids[t][i] < id_counter
    BY <2>1 DEF AscendInv
  <2>4. /\ \A i, j \in 1..Len(new) : i < j => new[i] < new[j]
        /\ \A i \in 1..Len(new) : new[i] <= id_counter
    BY <2>2, <2>3, AscendAppend
  <2> HIDE DEF new
  <2> QED  BY <2>1, <2>4 DEF AscendInv
<1>4. ASSUME NEW t \in Callers, Lock(t) \/ Write(t) \/ WriteThrows(t) PROVE AscendInv'
  <2>1. /\ id_counter' = id_counter /\ ids' = ids /\ pc[t] # "idle" /\ pc'[t] # "read"
        /\ \A u \in Callers \ {t} : pc'[u] = pc[u]
    BY <1>4 DEF Lock, Write, WriteThrows, Finish
  <2> QED  BY <2>1, AscendQuiet
<1>5. ASSUME NEW t \in Callers, ReceiveOne(t) \/ ReceiveBulk(t) \/ ReceiveBulkTimeout(t)
      PROVE  AscendInv'
  <2>1. \E msgs : Deliver(t, msgs)
    BY <1>5 DEF ReceiveOne, ReceiveBulk, ReceiveBulkTimeout, TakePrefix
  <2>2. /\ id_counter' = id_counter /\ ids'[t] = <<>>
        /\ \A u \in Callers \ {t} : pc'[u] = pc[u] /\ ids'[u] = ids[u]
    BY <2>1 DEF Deliver, Finish
  <2> QED  BY <2>2, AscendQuiet
<1>6. ASSUME Reading \/ Disconnect \/ stop \/ do_interrupt \/ UNCHANGED vars
      PROVE  AscendInv'
  <2>1. id_counter' = id_counter /\ pc' = pc /\ ids' = ids
    BY <1>6 DEF Reading, DoRead, Disconnect, stop, do_interrupt, Fault, vars, callVars
  <2> QED  BY <2>1, AscendQuiet
<1> QED  BY <1>1, <1>2, <1>3, <1>4, <1>5, <1>6 DEF Next, CallerStep

(* What comes of n different things is n of them.                          *)
LEMMA CountRange ==
    ASSUME NEW n \in Nat, NEW f, NEW S, f \in [1..n -> S],
           \A i, j \in 1..n : f[i] = f[j] => i = j,
           \A x \in S : \E i \in 1..n : f[i] = x
    PROVE  IsFiniteSet(S) /\ Cardinality(S) = n
<1>1. f \in Bijection(1..n, S)
  BY DEF Bijection, Injection, Surjection, IsInjective
<1>2. ExistsBijection(1..n, S)
  BY <1>1 DEF ExistsBijection
<1>3. IsFiniteSet(1..n) /\ Cardinality(1..n) = n
  BY FS_Interval
<1> QED  BY <1>2, <1>3, FS_Bijection

(* One more element counts for one.                                        *)
LEMMA CountOneMore ==
    ASSUME NEW S, NEW x, x \notin S, IsFiniteSet(S)
    PROVE  IsFiniteSet(S \cup {x}) /\ Cardinality(S \cup {x}) = Cardinality(S) + 1
BY FS_AddElement

(* What is taken out of a set counts as many as it has.                    *)
LEMMA CountWithout ==
    ASSUME NEW S, NEW T \in SUBSET S, IsFiniteSet(S)
    PROVE  IsFiniteSet(S \ T) /\ Cardinality(S \ T) = Cardinality(S) - Cardinality(T)
<1>1. S \cap T = T
  OBVIOUS
<1> QED  BY <1>1, FS_Difference

(* n positions of one caller are n.                                        *)
LEMMA CountPairs ==
    ASSUME NEW n \in Nat, NEW t
    PROVE  /\ IsFiniteSet({<<t, i>> : i \in 1..n})
           /\ Cardinality({<<t, i>> : i \in 1..n}) = n
<1> DEFINE P == {<<t, i>> : i \in 1..n}  f == [i \in 1..n |-> <<t, i>>]
<1>1. f \in [1..n -> P]
  OBVIOUS
<1>2. \A i, j \in 1..n : f[i] = f[j] => i = j
  OBVIOUS
<1>3. \A x \in P : \E i \in 1..n : f[i] = x
  OBVIOUS
<1> HIDE DEF P, f
<1>4. IsFiniteSet(P) /\ Cardinality(P) = n
  BY <1>1, <1>2, <1>3, CountRange
<1> QED  BY <1>4 DEF P

(* A wait that takes the replies to all of its ids.                        *)
LEMMA CountDeliver ==
    ASSUME TypeInv, IdInv, CountInv, NEW t \in Callers, pc[t] = "wait",
           NEW n \in Nat, n = Len(ids[t]), NEW R \in SUBSET replies,
           IsFiniteSet(R), Cardinality(R) = n, replies' = replies \ R,
           NEW msgs, Deliver(t, msgs), timeouts' = timeouts
    PROVE  CountInv'
<1> DEFINE P == {<<t, i>> : i \in 1..n}
<1>1. IsFiniteSet(P) /\ Cardinality(P) = n
  BY CountPairs
<1> USE DEF TypeInv, Types
<1> SUFFICES ASSUME timeouts = 0, Open
             PROVE  /\ IsFiniteSet(InFlight') /\ IsFiniteSet(Owed')
                    /\ Cardinality(Owed') = Cardinality(InFlight')
  <2>1. timeouts' = timeouts /\ link' = link
    BY DEF Deliver
  <2> QED  BY <2>1 DEF CountInv, Open
<1>2. /\ net' = net /\ pc'[t] \in {"idle", "alloc"} /\ ids'[t] = <<>>
      /\ \A u \in Callers \ {t} : pc'[u] = pc[u] /\ ids'[u] = ids[u]
  BY DEF Deliver, Finish
<1>3. Sent(t) = n /\ Sent(t)' = 0 /\ \A u \in Callers \ {t} : Sent(u)' = Sent(u)
  BY <1>2 DEF Sent
<1>4. P \subseteq Owed
  BY <1>3 DEF Owed
<1>5. Owed' = Owed \ P
  BY <1>2, <1>3 DEF Owed
<1>6. InFlight' = InFlight \ R /\ R \subseteq InFlight
  BY <1>2 DEF InFlight, IdInv, UniqueIds
<1>7. /\ IsFiniteSet(InFlight) /\ IsFiniteSet(Owed) /\ Cardinality(Owed) = Cardinality(InFlight)
  BY DEF CountInv
<1> HIDE DEF P
<1>8. IsFiniteSet(Owed') /\ Cardinality(Owed') = Cardinality(Owed) - n
  <2>1. /\ IsFiniteSet(Owed \ P)
        /\ Cardinality(Owed \ P) = Cardinality(Owed) - Cardinality(P)
    BY <1>4, <1>7, CountWithout, Zenon
  <2> QED  BY <1>1, <1>5, <2>1, Zenon
<1>9. IsFiniteSet(InFlight') /\ Cardinality(InFlight') = Cardinality(InFlight) - n
  <2>1. /\ IsFiniteSet(InFlight \ R)
        /\ Cardinality(InFlight \ R) = Cardinality(InFlight) - Cardinality(R)
    BY <1>6, <1>7, CountWithout, Zenon
  <2> QED  BY <1>6, <2>1, Zenon
<1> QED  BY <1>7, <1>8, <1>9

(* Every step keeps the two numbers equal.                                 *)
LEMMA CountNext == TypeInv /\ IdInv /\ AscendInv /\ CountInv /\ [Next]_vars => CountInv'
<1> SUFFICES ASSUME TypeInv, IdInv, AscendInv, CountInv, [Next]_vars PROVE CountInv'
  OBVIOUS
<1> USE DEF TypeInv, Types
<1>1. ASSUME NEW t \in Callers, NEW o \in Ops, Start(t, o) PROVE CountInv'
  <2>1. /\ pc[t] = "idle" /\ pc'[t] \in {"idle", "alloc"} /\ ids'[t] = <<>>
        /\ \A u \in Callers \ {t} : pc'[u] = pc[u] /\ ids'[u] = ids[u]
        /\ timeouts' = timeouts /\ link' = link /\ InFlight' = InFlight
    BY <1>1 DEF Start, InFlight
  <2>2. Sent(t)' = 0 /\ \A u \in Callers \ {t} : Sent(u)' = Sent(u)
    BY <2>1 DEF Sent
  <2>3. \A i \in Nat : i \notin 1..0
    OBVIOUS
  <2>4. Owed' = Owed
    <3> SUFFICES ASSUME NEW u \in Callers, NEW i \in Nat
                 PROVE  pc'[u] # "idle" /\ i \in 1..Sent(u)'
                          <=> pc[u] # "idle" /\ i \in 1..Sent(u)
      BY Zenon DEF Owed
    <3> QED  BY <2>1, <2>2, <2>3, Zenon
  <2> QED  BY <2>1, <2>4 DEF CountInv, Open
<1>2. ASSUME NEW t \in Callers, AllocateId(t) \/ ReadBackId(t) \/ Lock(t) PROVE CountInv'
  <2>1. /\ pc[t] # "idle" /\ pc'[t] # "idle"
        /\ \A u \in Callers \ {t} : pc'[u] = pc[u] /\ ids'[u] = ids[u]
        /\ timeouts' = timeouts /\ link' = link /\ InFlight' = InFlight
    BY <1>2 DEF AllocateId, ReadBackId, Lock, InFlight
  <2>2. Sent(t)' = Sent(t)
    <3>1. CASE AllocateId(t) \/ Lock(t)
      BY <3>1 DEF AllocateId, Lock, Sent
    <3>2. CASE ReadBackId(t)
      <4>1. /\ pc[t] = "read" /\ pc'[t] \in {"lock", "write"} /\ ids'[t] = Append(ids[t], id_counter)
        BY <3>2 DEF ReadBackId
      <4>2. Len(ids'[t]) = Len(ids[t]) + 1 /\ Len(ids[t]) \in Nat
        BY <4>1
      <4> QED  BY <4>1, <4>2 DEF Sent
    <3> QED  BY <1>2, <3>1, <3>2
  <2>3. \A u \in Callers \ {t} : Sent(u)' = Sent(u)
    BY <2>1 DEF Sent
  <2>4. Owed' = Owed
    <3> SUFFICES ASSUME NEW u \in Callers, NEW i \in Nat
                 PROVE  pc'[u] # "idle" /\ i \in 1..Sent(u)'
                          <=> pc[u] # "idle" /\ i \in 1..Sent(u)
      BY Zenon DEF Owed
    <3> QED  BY <2>1, <2>2, <2>3, Zenon
  <2> QED  BY <2>1, <2>4 DEF CountInv, Open
<1>3. ASSUME NEW t \in Callers, Write(t) PROVE CountInv'
  <2> DEFINE w == [id |-> cur[t], by |-> me[t], arg |-> Len(results[t]) + Len(ids[t])]
             s == <<t, Len(ids[t])>>
  <2>1. /\ pc[t] = "write" /\ pc'[t] \in {"alloc", "wait"} /\ ids' = ids
        /\ \A u \in Callers \ {t} : pc'[u] = pc[u]
        /\ timeouts' = timeouts /\ link' = link /\ InFlight' = InFlight \cup {w}
    BY <1>3 DEF Write, InFlight
  <2>2. w \notin InFlight
    <3>1. w.id = cur[t]
      OBVIOUS
    <3> QED  BY <2>1, <3>1 DEF IdInv, Numbered, InFlight
  <2>3. /\ Len(ids[t]) \in Nat \ {0} /\ Sent(t) = Len(ids[t]) - 1 /\ Sent(t)' = Len(ids[t])
        /\ \A u \in Callers \ {t} : Sent(u)' = Sent(u)
    <3>1. Len(ids[t]) \in Nat \ {0}
      BY <2>1 DEF ChunkProgress
    <3>2. Sent(t) = Len(ids[t]) - 1 /\ Sent(t)' = Len(ids[t])
      BY <2>1 DEF Sent
    <3>3. \A u \in Callers \ {t} : Sent(u)' = Sent(u)
      BY <2>1 DEF Sent
    <3> QED  BY <3>1, <3>2, <3>3
  <2>4. 1..Sent(t)' = 1..Sent(t) \cup {Len(ids[t])} /\ Len(ids[t]) \notin 1..Sent(t)
    BY <2>3
  <2>5. Owed' = Owed \cup {s} /\ s \notin Owed
    <3>1. \A u \in Callers, i \in Nat :
             (pc'[u] # "idle" /\ i \in 1..Sent(u)')
               <=> (pc[u] # "idle" /\ i \in 1..Sent(u)) \/ (u = t /\ i = Len(ids[t]))
      BY <2>1, <2>3, <2>4
    <3>2. \A u \in Callers, i \in Nat : <<u, i>> \in Owed' <=> <<u, i>> \in Owed \/ <<u, i>> = s
      BY <3>1 DEF Owed
    <3>3. /\ Owed \subseteq Callers \X Nat /\ Owed' \subseteq Callers \X Nat
          /\ s \in Callers \X Nat
      BY <2>3 DEF Owed
    <3>4. s \notin Owed
      BY <2>4 DEF Owed
    <3>5. \A x \in Callers \X Nat : x \in Owed' <=> x \in Owed \/ x = s
      <4> SUFFICES ASSUME NEW x \in Callers \X Nat PROVE x \in Owed' <=> x \in Owed \/ x = s
        OBVIOUS
      <4>1. PICK u \in Callers, i \in Nat : x = <<u, i>>
        OBVIOUS
      <4> QED  BY <3>2, <4>1, Zenon
    <3> HIDE DEF s
    <3> QED  BY <3>3, <3>4, <3>5, Zenon
  <2> HIDE DEF w, s
  <2> SUFFICES ASSUME timeouts = 0, Open, IsFiniteSet(InFlight), IsFiniteSet(Owed),
                      Cardinality(Owed) = Cardinality(InFlight)
               PROVE  /\ IsFiniteSet(InFlight') /\ IsFiniteSet(Owed')
                      /\ Cardinality(Owed') = Cardinality(InFlight')
    BY <2>1 DEF CountInv, Open
  <2>6. IsFiniteSet(Owed') /\ Cardinality(Owed') = Cardinality(Owed) + 1
    BY <2>5, CountOneMore
  <2>7. IsFiniteSet(InFlight') /\ Cardinality(InFlight') = Cardinality(InFlight) + 1
    BY <2>1, <2>2, CountOneMore
  <2> QED  BY <2>6, <2>7
<1>4. ASSUME NEW t \in Callers, WriteThrows(t) PROVE CountInv'
  BY <1>4 DEF WriteThrows, CountInv, Open
<1>5. ASSUME NEW t \in Callers, ReceiveOne(t) PROVE CountInv'
  <2>1. PICK m \in replies : replies' = replies \ {m} /\ Deliver(t, <<m>>)
    BY <1>5 DEF ReceiveOne
  <2>2. pc[t] = "wait" /\ ~IsBulk(op[t]) /\ timeouts' = timeouts
    BY <1>5 DEF ReceiveOne
  <2>3. Len(ids[t]) = 1
    <3>1. op[t].size = 1 /\ op[t].chunk = 1
      BY <2>2, ConstantsAssumption
    <3>2. Len(ids[t]) \in Nat /\ Len(results[t]) \in Nat
      OBVIOUS
    <3>3. Len(ids[t]) > 0 /\ Len(ids[t]) <= ChunkLen(t) /\ Len(results[t]) < 1
      BY <2>2, <3>1 DEF ChunkProgress
    <3>4. ChunkLen(t) = Min(1, 1 - Len(results[t]))
      BY <3>1 DEF ChunkLen
    <3>5. Len(results[t]) = 0
      BY <3>2, <3>3
    <3>6. ChunkLen(t) = 1
      BY <3>4, <3>5 DEF Min
    <3>7. \A n \in Nat : n > 0 /\ n <= 1 => n = 1
      OBVIOUS
    <3> QED  BY <3>2, <3>3, <3>6, <3>7
  <2>4. IsFiniteSet({m}) /\ Cardinality({m}) = 1
    BY FS_Singleton
  <2> QED  BY <2>1, <2>2, <2>3, <2>4, CountDeliver
<1>6. ASSUME NEW t \in Callers, ReceiveBulk(t) PROVE CountInv'
  <2> DEFINE n == Len(ids[t])  R == {ReplyTo(t, i) : i \in 1..n}
             f == [i \in 1..n |-> ReplyTo(t, i)]
  <2>1. /\ pc[t] = "wait" /\ Present(t, n) /\ replies' = replies \ R /\ timeouts' = timeouts
        /\ Deliver(t, f)
    BY <1>6 DEF ReceiveBulk, TakePrefix
  <2>2. n \in Nat
    OBVIOUS
  <2>3. \A i \in 1..n : ReplyTo(t, i) \in replies /\ ReplyTo(t, i).id = ids[t][i]
    BY <2>1, <2>2, Taken
  <2>4. \A i, j \in 1..n : ids[t][i] = ids[t][j] => i = j
    <3>1. \A i, j \in 1..n : i < j => ids[t][i] < ids[t][j]
      BY <2>1 DEF AscendInv
    <3>2. \A i \in 1..n : ids[t][i] \in Nat
      OBVIOUS
    <3> QED  BY <2>2, <3>1, <3>2
  <2>5. IsFiniteSet(R) /\ Cardinality(R) = n
    <3>1. f \in [1..n -> R] /\ \A x \in R : \E i \in 1..n : f[i] = x
      OBVIOUS
    <3>2. \A i, j \in 1..n : f[i] = f[j] => i = j
      BY <2>3, <2>4
    <3> HIDE DEF f, R, n
    <3> QED  BY <2>2, <3>1, <3>2, CountRange
  <2>6. R \subseteq replies
    BY <2>3
  <2> HIDE DEF f, R
  <2> QED  BY <2>1, <2>2, <2>5, <2>6, CountDeliver
<1>7. ASSUME NEW t \in Callers, ReceiveBulkTimeout(t) PROVE CountInv'
  <2>1. timeouts' # 0
    BY <1>7 DEF ReceiveBulkTimeout
  <2> QED  BY <2>1 DEF CountInv
<1>8. ASSUME Reading PROVE CountInv'
  <2>1. PICK r \in net, ok \in BOOLEAN : DoRead(r, ok)
    BY <1>8 DEF Reading
  <2> DEFINE m == [id |-> r.id, by |-> r.by, arg |-> r.arg, ok |-> ok]
  <2>2. /\ net' = net \ {r} /\ replies' = replies \cup {m} /\ m.id = r.id
        /\ pc' = pc /\ ids' = ids /\ timeouts' = timeouts /\ link' = link
    BY <2>1 DEF DoRead, callVars
  <2> HIDE DEF m
  <2>3. \A q \in InFlight : q.id = r.id => q = r
    BY DEF InFlight, IdInv, UniqueIds
  <2>4. /\ r \in InFlight /\ m \notin InFlight \ {r}
        /\ InFlight' = (InFlight \ {r}) \cup {m}
    <3>1. r \notin replies
      BY DEF IdInv, UniqueIds
    <3> QED  BY <2>2, <2>3, <3>1 DEF InFlight
  <2>5. Owed' = Owed
    BY <2>2 DEF Owed, Sent
  <2>6. ASSUME IsFiniteSet(InFlight)
        PROVE  IsFiniteSet(InFlight') /\ Cardinality(InFlight') = Cardinality(InFlight)
    <3>1. /\ IsFiniteSet(InFlight \ {r}) /\ Cardinality(InFlight \ {r}) = Cardinality(InFlight) - 1
          /\ Cardinality(InFlight) \in Nat
      BY <2>4, <2>6, FS_RemoveElement, FS_CardinalityType
    <3>2. IsFiniteSet(InFlight') /\ Cardinality(InFlight') = Cardinality(InFlight \ {r}) + 1
      BY <2>4, <3>1, CountOneMore
    <3> QED  BY <3>1, <3>2
  <2> QED  BY <2>2, <2>5, <2>6 DEF CountInv, Open
<1>9. ASSUME Disconnect \/ stop \/ do_interrupt \/ UNCHANGED vars PROVE CountInv'
  <2>1. /\ pc' = pc /\ ids' = ids /\ net' = net /\ replies' = replies /\ timeouts' = timeouts
        /\ Open' => Open
    BY <1>9 DEF Open, Disconnect, stop, do_interrupt, Fault, vars, callVars
  <2>2. Owed' = Owed /\ InFlight' = InFlight
    BY <2>1 DEF Owed, Sent, InFlight
  <2> QED  BY <2>1, <2>2 DEF CountInv
<1> QED
  BY <1>1, <1>2, <1>3, <1>4, <1>5, <1>6, <1>7, <1>8, <1>9 DEF Next, CallerStep

(* When no call is running, no bulk wait ever timed out and the socket was *)
(* never closed, no request is unanswered and no reply is left in the      *)
(* queue, although overlapping calls may have taken each other's: for any  *)
(* number of threads, any operations and any chunks.                       *)
THEOREM NothingIsLeftBehind == Spec => []NoResidue
<1>1. Init => IdInv
  BY DEF Init, IdInv, UniqueIds, Numbered
<1>2. Init => AscendInv
  BY DEF Init, AscendInv
<1>3. Init => CountInv
  <2> SUFFICES ASSUME Init PROVE CountInv
    OBVIOUS
  <2>1. Owed = {} /\ InFlight = {}
    BY DEF Init, Owed, InFlight
  <2> QED  BY <2>1, FS_EmptySet DEF CountInv
<1>4. CountInv => NoResidue
  <2> SUFFICES ASSUME CountInv, timeouts = 0, Open,
                      \A t \in Callers : pc[t] = "idle"
               PROVE  InFlight = {}
    BY DEF NoResidue
  <2>1. Owed = {}
    BY DEF Owed
  <2> QED  BY <2>1, FS_EmptySet DEF CountInv
<1> QED
  BY <1>1, <1>2, <1>3, <1>4, TypeInvInit, TypeInvNext, IdInvNext, AscendNext,
     CountNext, PTL DEF Spec
=============================================================================
