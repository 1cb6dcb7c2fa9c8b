------------------------------- MODULE ReplyBox -------------------------------
(***************************************************************************)
(* What RonghuaInputQueue promises its users, without its deque, its       *)
(* condition variable and its wake-ups: a box of replies, each taken by    *)
(* the id it answers, and a stack of notifications.                        *)
(***************************************************************************)
EXTENDS Integers, Sequences

CONSTANTS Poppers, Messages, Wants

VARIABLES
    replies,  \* the messages with a correlation id
    events,   \* the messages without one, newest first
    want,     \* want[t]: the ids of t's call, and whether it has a timeout
    state,    \* state[t]: "idle", "pending" or "returned"
    ret       \* ret[t]: the messages t's call returned

vars == <<replies, events, want, state, ret>>

Init ==
    /\ replies = {} /\ events = <<>>
    /\ want \in [Poppers -> Wants]
    /\ state = [t \in Poppers |-> "idle"]
    /\ ret = [t \in Poppers |-> <<>>]

Put(m) ==
    /\ IF m.has_correlation_id
       THEN replies' = replies \cup {m} /\ UNCHANGED events
       ELSE events' = <<m>> \o events /\ UNCHANGED replies
    /\ UNCHANGED <<want, state, ret>>

Call(t) ==
    /\ state[t] = "idle"
    /\ state' = [state EXCEPT ![t] = "pending"]
    /\ UNCHANGED <<replies, events, want, ret>>

Done(t) ==
    /\ state[t] = "returned"
    /\ state' = [state EXCEPT ![t] = "idle"]
    /\ ret' = [ret EXCEPT ![t] = <<>>]
    /\ UNCHANGED <<replies, events, want>>

Return(t, msgs) ==
    /\ state' = [state EXCEPT ![t] = "returned"]
    /\ ret' = [ret EXCEPT ![t] = msgs]
    /\ UNCHANGED want

(* A notification is taken with id -1.                                     *)
TakeEvent(t) ==
    /\ state[t] = "pending" /\ want[t].ids = <<-1>>
    /\ events # <<>>
    /\ events' = Tail(events)
    /\ Return(t, <<Head(events)>>)
    /\ UNCHANGED replies

(* The replies to ids are taken together and given in the order of ids.    *)
Answered(ids) == \A i \in DOMAIN ids : \E m \in replies : m.correlation_id = ids[i]
TakeReplies(t, ids) ==
    \E msgs \in [DOMAIN ids -> replies] :
        /\ \A i \in DOMAIN ids : msgs[i].correlation_id = ids[i]
        /\ replies' = {m \in replies : \A i \in DOMAIN ids : m # msgs[i]}
        /\ Return(t, msgs)
        /\ UNCHANGED events

TakeAll(t) ==
    /\ state[t] = "pending" /\ want[t].ids # <<-1>>
    /\ TakeReplies(t, want[t].ids)

(* A call with a timeout may give up with what has come of a prefix.       *)
TakeSome(t) ==
    /\ state[t] = "pending" /\ want[t].timed
    /\ \E n \in 0 .. Len(want[t].ids) - 1 :
         /\ \A m \in replies : m.correlation_id # want[t].ids[n + 1]
         /\ TakeReplies(t, SubSeq(want[t].ids, 1, n))

Next ==
    \/ \E m \in Messages : Put(m)
    \/ \E t \in Poppers : Call(t) \/ Done(t) \/ TakeEvent(t) \/ TakeAll(t) \/ TakeSome(t)

(* A call whose messages are there, and stay there, returns: weak fairness *)
(* of TakeEvent(t) \/ TakeAll(t), which are enabled while Ready(t) holds    *)
(* and make it false.                                                      *)
Ready(t) ==
    /\ state[t] = "pending"
    /\ IF want[t].ids = <<-1>> THEN events # <<>> ELSE Answered(want[t].ids)
Spec == Init /\ [][Next]_vars /\ \A t \in Poppers : []<>~Ready(t)
=============================================================================
