------------------------------- MODULE Channel -------------------------------
(***************************************************************************)
(* What blocking_queue promises its users: a first-in first-out channel    *)
(* without a bound, each value of which goes to one of the threads that    *)
(* ask for one.                                                            *)
(***************************************************************************)
EXTENDS Sequences

CONSTANTS Poppers, Values

VARIABLES
    items,   \* the values in the channel, oldest first
    asking,  \* the threads inside pop
    got      \* got[t]: the values pop has returned to t, in order

vars == <<items, asking, got>>

Init == items = <<>> /\ asking = {} /\ got = [t \in Poppers |-> <<>>]

Put(v) == items' = Append(items, v) /\ UNCHANGED <<asking, got>>

Ask(t) == t \notin asking /\ asking' = asking \cup {t} /\ UNCHANGED <<items, got>>

Take(t) ==
    /\ t \in asking /\ items # <<>>
    /\ items' = Tail(items)
    /\ got' = [got EXCEPT ![t] = Append(@, Head(items))]
    /\ asking' = asking \ {t}

Next ==
    \/ \E v \in Values : Put(v)
    \/ \E t \in Poppers : Ask(t) \/ Take(t)

(* A thread inside pop returns unless the channel keeps running empty:     *)
(* weak fairness of Take(t), which is enabled while Ready(t) holds and     *)
(* makes it false.                                                         *)
Ready(t) == t \in asking /\ items # <<>>
Spec == Init /\ [][Next]_vars /\ \A t \in Poppers : []<>~Ready(t)
=============================================================================
