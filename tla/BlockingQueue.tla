---------------------------- MODULE BlockingQueue ----------------------------
(***************************************************************************)
(* blocking_queue: values are pushed at the front of a deque and popped    *)
(* from its back, under mutex_.  The notification of a push comes after    *)
(* the lock is released and wakes one of the threads that wait.            *)
(***************************************************************************)
EXTENDS Sequences, SequencesExt

CONSTANTS
    Poppers,  \* threads that pop
    Pushers,  \* threads that push
    Values    \* what is pushed

VARIABLES
    queue_,    \* the deque, its front first
    pc,        \* pc[t]: "idle", "check" (about to take mutex_) or "asleep"
    got,       \* got[t]: the values pop has returned to t, in order
    notifying  \* pushers between their push and their notify_one

vars == <<queue_, pc, got, notifying>>

Init ==
    /\ queue_ = <<>> /\ notifying = {}
    /\ pc = [t \in Poppers |-> "idle"] /\ got = [t \in Poppers |-> <<>>]

push(p, v) ==
    /\ p \notin notifying /\ notifying' = notifying \cup {p}
    /\ queue_' = <<v>> \o queue_
    /\ UNCHANGED <<pc, got>>

Asleep == {t \in Poppers : pc[t] = "asleep"}

(* Faulty variant of notify_one: nobody is woken.                          *)
notify_oneLost(p) ==
    /\ p \in notifying /\ notifying' = notifying \ {p}
    /\ UNCHANGED <<queue_, pc, got>>

notify_one(p) ==
    /\ p \in notifying /\ notifying' = notifying \ {p}
    /\ \/ Asleep = {} /\ UNCHANGED pc
       \/ \E t \in Asleep : pc' = [pc EXCEPT ![t] = "check"]
    /\ UNCHANGED <<queue_, got>>

pop(t) ==
    /\ pc[t] = "idle" /\ pc' = [pc EXCEPT ![t] = "check"]
    /\ UNCHANGED <<queue_, got, notifying>>

(* Faulty variant of Check: the newest value is taken.                     *)
CheckFront(t) ==
    /\ pc[t] = "check"
    /\ \/ /\ queue_ # <<>>
          /\ got' = [got EXCEPT ![t] = Append(@, Head(queue_))]
          /\ queue_' = Tail(queue_)
          /\ pc' = [pc EXCEPT ![t] = "idle"]
       \/ /\ queue_ = <<>> /\ pc' = [pc EXCEPT ![t] = "asleep"]
          /\ UNCHANGED <<queue_, got>>
    /\ UNCHANGED notifying

(* With mutex_ held: a value is there and is taken, or condition_.wait     *)
(* gives the lock back.                                                    *)
Check(t) ==
    /\ pc[t] = "check"
    /\ \/ /\ queue_ # <<>>
          /\ got' = [got EXCEPT ![t] = Append(@, Last(queue_))]
          /\ queue_' = Front(queue_)
          /\ pc' = [pc EXCEPT ![t] = "idle"]
       \/ /\ queue_ = <<>> /\ pc' = [pc EXCEPT ![t] = "asleep"]
          /\ UNCHANGED <<queue_, got>>
    /\ UNCHANGED notifying

SpuriousWakeup(t) ==
    /\ pc[t] = "asleep" /\ pc' = [pc EXCEPT ![t] = "check"]
    /\ UNCHANGED <<queue_, got, notifying>>

PopperStep(t) == Check(t) \/ SpuriousWakeup(t)

Next ==
    \/ \E t \in Poppers : pop(t) \/ PopperStep(t)
    \/ \E p \in Pushers : notify_one(p) \/ \E v \in Values : push(p, v)

Spec ==
    /\ Init /\ [][Next]_vars
    /\ \A t \in Poppers : WF_vars(Check(t))
    /\ \A p \in Pushers : WF_vars(notify_one(p))

-----------------------------------------------------------------------------
(* The mapping to Channel: the back of the deque is the oldest value.      *)
Abstract == INSTANCE Channel WITH
              items  <- Reverse(queue_),
              asking <- {t \in Poppers : pc[t] # "idle"}
=============================================================================
