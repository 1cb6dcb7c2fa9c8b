------------------------------ MODULE InputQueue ------------------------------
(***************************************************************************)
(* RonghuaInputQueue: a deque guarded by mutex_, and condition_ on which   *)
(* the poppers wait for the message they want.  Each critical section is   *)
(* one step; everything between two of them (a push and its notify_all, a  *)
(* wake-up and the check that follows it) is a step of its own.            *)
(***************************************************************************)
EXTENDS Integers, Sequences, SequencesExt

CONSTANTS
    Poppers,   \* threads that wait for messages
    Pushers,   \* threads that push: the one of io_context_, and do_interrupt's
    Messages,  \* bound: the messages pushed, once each
    Wants      \* the calls of the poppers: [ids, timed]

ASSUME QueueAssumption ==
    /\ \A m \in Messages : m.has_correlation_id \in BOOLEAN
                           /\ m.correlation_id \in Nat
    /\ \A w \in Wants :
         \/ w.ids = <<-1>> /\ w.timed = FALSE
         \/ w.ids \in Seq(Nat) /\ IsInjective(w.ids) /\ w.timed \in BOOLEAN

VARIABLES
    queue_,    \* the deque, its front first
    waiting,   \* the poppers asleep on condition_
    want,      \* want[t]: the ids of t's call, and whether it has a timeout
    pc,        \* pc[t]: "idle", "check" (about to take mutex_), "asleep",
               \* "expired" (its timeout is over) or "returned"
    ret,       \* ret[t]: what t's call returned
    pushed,    \* the messages pushed so far
    handled,   \* the messages of calls whose caller is done with them
    notifying  \* pushers between their push and their notify_all

vars == <<queue_, waiting, want, pc, ret, pushed, handled, notifying>>

Init ==
    /\ queue_ = <<>> /\ waiting = {} /\ pushed = {} /\ handled = {}
    /\ notifying = {}
    /\ want \in [Poppers -> Wants]
    /\ pc = [t \in Poppers |-> "idle"]
    /\ ret = [t \in Poppers |-> <<>>]

-----------------------------------------------------------------------------
Matches(m, id) ==
    IF id >= 0 THEN m.has_correlation_id /\ m.correlation_id = id
               ELSE ~m.has_correlation_id

(* The position of the first match, 0 when there is none.                  *)
find_msg_with_id(q, id) == SelectInSeq(q, LAMBDA m : Matches(m, id))

contains_msg_with_id_bulk(q, ids) ==
    \A i \in DOMAIN ids : find_msg_with_id(q, ids[i]) # 0

(* The elements of s that are in R, in their order.                        *)
Keep(s, R) ==
    LET kept[i \in 0..Len(s)] ==
            IF i = 0 THEN <<>>
            ELSE IF s[i] \in R THEN Append(kept[i - 1], s[i]) ELSE kept[i - 1]
    IN  kept[Len(s)]

(* Faulty variants of Taken: the loop goes on after a missing message, and *)
(* of Left: a message is handed out without being erased.                  *)
TakenSkipping(q, ids) ==
    LET there == Keep(ids, {id \in ToSet(ids) : find_msg_with_id(q, id) # 0})
    IN  [i \in DOMAIN there |-> q[find_msg_with_id(q, there[i])]]
LeftKeeping(q, taken) == q

(* The loop of pop_reply_bulk takes the first match of each id and ends at *)
(* the first id without one; pop_reply does the same for one id.  Each     *)
(* message taken is erased.                                                *)
Taken(q, ids) ==
    LET There(i) == find_msg_with_id(q, ids[i]) # 0
        n == CHOOSE n \in 0..Len(ids) : /\ \A i \in 1..n : There(i)
                                        /\ n < Len(ids) => ~There(n + 1)
    IN  [i \in 1..n |-> q[find_msg_with_id(q, ids[i])]]
Left(q, taken) == Keep(q, ToSet(q) \ ToSet(taken))

Return(t) ==
    /\ ret' = [ret EXCEPT ![t] = Taken(queue_, want[t].ids)]
    /\ queue_' = Left(queue_, ret'[t])
    /\ pc' = [pc EXCEPT ![t] = "returned"]

-----------------------------------------------------------------------------
(* pop_reply(id) and pop_eat_reply(id) (timed is FALSE, one id),           *)
(* pop_reply_bulk(ids) (timed is TRUE).                                    *)
Call(t) ==
    /\ pc[t] = "idle"
    /\ pc' = [pc EXCEPT ![t] = "check"]
    /\ UNCHANGED <<queue_, waiting, want, ret, pushed, handled, notifying>>

(* The caller is done with what the call returned and may call again.      *)
Done(t) ==
    /\ pc[t] = "returned"
    /\ pc' = [pc EXCEPT ![t] = "idle"]
    /\ handled' = handled \cup ToSet(ret[t])
    /\ ret' = [ret EXCEPT ![t] = <<>>]
    /\ UNCHANGED <<queue_, waiting, want, pushed, notifying>>

(* With mutex_ held, the predicate of condition_.wait is evaluated.        *)
Check(t) ==
    /\ pc[t] = "check"
    /\ IF contains_msg_with_id_bulk(queue_, want[t].ids)
       THEN Return(t) /\ UNCHANGED waiting
       ELSE /\ pc' = [pc EXCEPT ![t] = "asleep"]
            /\ waiting' = waiting \cup {t}
            /\ UNCHANGED <<queue_, ret>>
    /\ UNCHANGED <<want, pushed, handled, notifying>>

(* wait_for gives up after 1500 ms; the loop of pop_reply_bulk runs on     *)
(* whatever is there once mutex_ has been taken again.                     *)
Expire(t) ==
    /\ pc[t] = "asleep" /\ want[t].timed
    /\ waiting' = waiting \ {t}
    /\ pc' = [pc EXCEPT ![t] = "expired"]
    /\ UNCHANGED <<queue_, want, ret, pushed, handled, notifying>>

ReturnExpired(t) ==
    /\ pc[t] = "expired"
    /\ Return(t)
    /\ UNCHANGED <<waiting, want, pushed, handled, notifying>>

SpuriousWakeup(t) ==
    /\ pc[t] = "asleep"
    /\ waiting' = waiting \ {t}
    /\ pc' = [pc EXCEPT ![t] = "check"]
    /\ UNCHANGED <<queue_, want, ret, pushed, handled, notifying>>

push(p, m) ==
    /\ p \notin notifying /\ m \notin pushed
    /\ queue_' = <<m>> \o queue_
    /\ pushed' = pushed \cup {m}
    /\ notifying' = notifying \cup {p}
    /\ UNCHANGED <<waiting, want, pc, ret, handled>>

(* Faulty variant of notify_all: only one waiter is woken.                 *)
notify_one(p) ==
    /\ p \in notifying /\ notifying' = notifying \ {p}
    /\ IF waiting = {} THEN UNCHANGED <<waiting, pc>>
       ELSE \E t \in waiting :
              waiting' = waiting \ {t} /\ pc' = [pc EXCEPT ![t] = "check"]
    /\ UNCHANGED <<queue_, want, ret, pushed, handled>>

notify_all(p) ==
    /\ p \in notifying /\ notifying' = notifying \ {p}
    /\ waiting' = {}
    /\ pc' = [t \in Poppers |-> IF t \in waiting THEN "check" ELSE pc[t]]
    /\ UNCHANGED <<queue_, want, ret, pushed, handled>>

-----------------------------------------------------------------------------
PopperStep(t) ==
    Check(t) \/ Expire(t) \/ ReturnExpired(t) \/ SpuriousWakeup(t)

Next ==
    \/ \E t \in Poppers : Call(t) \/ PopperStep(t) \/ Done(t)
    \/ \E p \in Pushers : notify_all(p) \/ \E m \in Messages : push(p, m)

(* A thread that can take mutex_ goes on, and a push is followed by its    *)
(* notification.  Nothing makes a wake-up spurious or a timeout happen.    *)
Spec ==
    /\ Init /\ [][Next]_vars
    /\ \A t \in Poppers : WF_vars(Check(t)) /\ WF_vars(ReturnExpired(t))
    /\ \A p \in Pushers : WF_vars(notify_all(p))

-----------------------------------------------------------------------------
(* Properties.                                                             *)

State == [t \in Poppers |->
            IF pc[t] \in {"check", "asleep", "expired"} THEN "pending" ELSE pc[t]]

Box == INSTANCE ReplyBox WITH
         replies <- {m \in ToSet(queue_) : m.has_correlation_id},
         events  <- Keep(queue_, {m \in Messages : ~m.has_correlation_id}),
         state   <- State

(* RonghuaInputQueue implements ReplyBox, its liveness included: a popper  *)
(* whose messages are in the queue and stay there is woken and returns,    *)
(* although push notifies after it has released mutex_.                    *)
ImplementsReplyBox == Box!Spec

(* No message is lost, returned twice or kept after it was returned, with  *)
(* several poppers on the queue and timeouts in between.                   *)
Accounted ==
    LET returned(t) == ToSet(ret[t]) IN
    /\ pushed = ToSet(queue_) \cup handled \cup UNION {returned(t) : t \in Poppers}
    /\ IsInjective(queue_) /\ handled \cap ToSet(queue_) = {}
    /\ \A t \in Poppers : returned(t) \cap (ToSet(queue_) \cup handled) = {}
    /\ \A t, u \in Poppers : t # u => returned(t) \cap returned(u) = {}
=============================================================================
