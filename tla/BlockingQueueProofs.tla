------------------------ MODULE BlockingQueueProofs ------------------------
(***************************************************************************)
(* blocking_queue implements a first-in first-out channel (Channel), for   *)
(* any number of threads that push and pop and any values: the safety part *)
(* of the refinement that the run updates checks with its liveness.        *)
(***************************************************************************)
EXTENDS BlockingQueue, TLAPS

(* The deque and what pop has returned are sequences of values.            *)
TypeInv ==
    /\ queue_ \in Seq(Values)
    /\ got \in [Poppers -> Seq(Values)]
    /\ pc \in [Poppers -> {"idle", "check", "asleep"}]

(* A value pushed at the front of the deque is the newest of the channel,  *)
(* the last one to come out.                                               *)
LEMMA ReversePush ==
    ASSUME NEW q \in Seq(Values), NEW v \in Values
    PROVE  Reverse(<<v>> \o q) = Append(Reverse(q), v)
<1> DEFINE l == Reverse(<<v>> \o q)  r == Append(Reverse(q), v)
<1>1. Reverse(q) \in Seq(Values) /\ Len(Reverse(q)) = Len(q)
  BY DEF Reverse
<1>2. <<v>> \o q \in Seq(Values) /\ Len(<<v>> \o q) = Len(q) + 1
  OBVIOUS
<1>3. l \in Seq(Values) /\ Len(l) = Len(q) + 1
  BY <1>2 DEF Reverse
<1>4. r \in Seq(Values) /\ Len(r) = Len(q) + 1
  BY <1>1
<1>5. ASSUME NEW i \in 1..Len(q) + 1 PROVE l[i] = r[i]
  BY <1>1, <1>2 DEF Reverse
<1> HIDE DEF l, r
<1>6. l = r
  BY <1>3, <1>4, <1>5
<1> QED  BY <1>6 DEF l, r

(* What pop takes, the back of the deque, is the oldest value of the       *)
(* channel, and the rest of the channel is what is left in the deque.      *)
LEMMA ReversePop ==
    ASSUME NEW q \in Seq(Values), q # <<>>
    PROVE  /\ Reverse(Front(q)) = Tail(Reverse(q))
           /\ Head(Reverse(q)) = Last(q)
           /\ Reverse(q) # <<>>
           /\ Front(q) \in Seq(Values) /\ Last(q) \in Values
<1>1. Reverse(q) \in Seq(Values) /\ Len(Reverse(q)) = Len(q) /\ Len(q) \in Nat \ {0}
  BY DEF Reverse
<1>2. Front(q) \in Seq(Values) /\ Len(Front(q)) = Len(q) - 1
      /\ \A i \in 1..Len(q)-1 : Front(q)[i] = q[i]
  BY <1>1 DEF Front
<1>3. Tail(Reverse(q)) \in Seq(Values) /\ Len(Tail(Reverse(q))) = Len(q) - 1
      /\ \A i \in 1..Len(q)-1 : Tail(Reverse(q))[i] = Reverse(q)[i + 1]
  BY <1>1
<1>4. Reverse(Front(q)) \in Seq(Values) /\ Len(Reverse(Front(q))) = Len(q) - 1
  BY <1>1, <1>2 DEF Reverse
<1>5. ASSUME NEW i \in 1..Len(q)-1 PROVE Reverse(Front(q))[i] = Tail(Reverse(q))[i]
  <2>1. Reverse(Front(q))[i] = Front(q)[(Len(q) - 1 - i) + 1]
    BY <1>1, <1>2 DEF Reverse
  <2>2. Reverse(q)[i + 1] = q[(Len(q) - (i + 1)) + 1]
    BY <1>1 DEF Reverse
  <2> QED  BY <1>1, <1>2, <1>3, <2>1, <2>2
<1>6. Reverse(Front(q)) = Tail(Reverse(q))
  BY <1>1, <1>3, <1>4, <1>5
<1>7. Head(Reverse(q)) = Last(q) /\ Last(q) \in Values
  BY <1>1 DEF Reverse, Last
<1> QED  BY <1>1, <1>2, <1>6, <1>7

-----------------------------------------------------------------------------
(* A new queue is empty and has returned nothing.                          *)
LEMMA TypeInvInit == Init => TypeInv
BY DEF Init, TypeInv

(* Every step of a thread, inside push, pop or the wait, keeps the deque   *)
(* and what was returned sequences of values.                              *)
LEMMA TypeInvNext == TypeInv /\ [Next]_vars => TypeInv'
<1> SUFFICES ASSUME TypeInv, [Next]_vars PROVE TypeInv'  OBVIOUS
<1> USE DEF TypeInv
<1>1. ASSUME NEW p \in Pushers, NEW v \in Values, push(p, v) PROVE TypeInv'
  BY <1>1 DEF push
<1>2. ASSUME NEW p \in Pushers, notify_one(p) PROVE TypeInv'
  BY <1>2 DEF notify_one, Asleep
<1>3. ASSUME NEW t \in Poppers, pop(t) PROVE TypeInv'
  BY <1>3 DEF pop
<1>4. ASSUME NEW t \in Poppers, Check(t) PROVE TypeInv'
  <2>1. CASE queue_ # <<>>
    <3>1. Front(queue_) \in Seq(Values) /\ Last(queue_) \in Values
      BY <2>1, ReversePop
    <3>2. Append(got[t], Last(queue_)) \in Seq(Values)
      BY <3>1
    <3> QED  BY <1>4, <2>1, <3>1, <3>2 DEF Check
  <2>2. CASE queue_ = <<>>
    BY <1>4, <2>2 DEF Check
  <2> QED  BY <2>1, <2>2
<1>5. ASSUME NEW t \in Poppers, SpuriousWakeup(t) PROVE TypeInv'
  BY <1>5 DEF SpuriousWakeup
<1>6. CASE UNCHANGED vars
  BY <1>6 DEF vars
<1> QED  BY <1>1, <1>2, <1>3, <1>4, <1>5, <1>6 DEF Next, PopperStep

(* push puts a value into the channel, pop asks, the critical section of   *)
(* pop that finds a value takes the oldest one, and every other step       *)
(* (notify_one, going to sleep, waking up, spuriously or not) changes      *)
(* nothing a user of the queue can see.                                    *)
LEMMA StepImplements == TypeInv /\ [Next]_vars => [Abstract!Next]_(Abstract!vars)
<1> SUFFICES ASSUME TypeInv, [Next]_vars
             PROVE  Abstract!Next \/ UNCHANGED Abstract!vars
  OBVIOUS
<1> DEFINE asking == {t \in Poppers : pc[t] # "idle"}
<1> USE DEF TypeInv
<1>1. ASSUME NEW p \in Pushers, NEW v \in Values, push(p, v)
      PROVE  Abstract!Put(v)
  <2>1. Reverse(queue_') = Append(Reverse(queue_), v)
    BY <1>1, ReversePush DEF push
  <2> QED  BY <1>1, <2>1 DEF push, Abstract!Put
<1>2. ASSUME NEW p \in Pushers, notify_one(p) PROVE UNCHANGED Abstract!vars
  <2>1. asking' = asking
    BY <1>2 DEF notify_one, Asleep
  <2> QED  BY <1>2, <2>1 DEF notify_one, Abstract!vars
<1>3. ASSUME NEW t \in Poppers, pop(t) PROVE Abstract!Ask(t)
  <2>1. t \notin asking /\ asking' = asking \cup {t}
    BY <1>3 DEF pop
  <2> QED  BY <1>3, <2>1 DEF pop, Abstract!Ask
<1>4. ASSUME NEW t \in Poppers, Check(t)
      PROVE  Abstract!Take(t) \/ UNCHANGED Abstract!vars
  <2>1. CASE queue_ # <<>>
    <3>1. t \in asking /\ asking' = asking \ {t}
      BY <1>4, <2>1 DEF Check
    <3>2. Reverse(queue_') = Tail(Reverse(queue_)) /\ Reverse(queue_) # <<>>
      BY <1>4, <2>1, ReversePop DEF Check
    <3>3. got' = [got EXCEPT ![t] = Append(@, Head(Reverse(queue_)))]
      BY <1>4, <2>1, ReversePop DEF Check
    <3> QED  BY <3>1, <3>2, <3>3 DEF Abstract!Take
  <2>2. CASE queue_ = <<>>
    <3>1. asking' = asking
      BY <1>4, <2>2 DEF Check
    <3> QED  BY <1>4, <2>2, <3>1 DEF Check, Abstract!vars
  <2> QED  BY <2>1, <2>2
<1>5. ASSUME NEW t \in Poppers, SpuriousWakeup(t) PROVE UNCHANGED Abstract!vars
  <2>1. asking' = asking
    BY <1>5 DEF SpuriousWakeup
  <2> QED  BY <1>5, <2>1 DEF SpuriousWakeup, Abstract!vars
<1>6. CASE UNCHANGED vars
  BY <1>6 DEF vars, Abstract!vars
<1> QED
  BY <1>1, <1>2, <1>3, <1>4, <1>5, <1>6 DEF Next, PopperStep, Abstract!Next

(* The new queue is an empty channel in which nobody asks.                 *)
LEMMA InitMaps == Init => Abstract!Init
BY DEF Init, Abstract!Init, Reverse

(* For any threads and values, what blocking_queue does is what a first-in *)
(* first-out channel does: values come out in the order they went in, each *)
(* to one thread, although push notifies after it has released mutex_ and  *)
(* a woken thread may find the value gone.                                 *)
THEOREM QueueIsChannel == Spec => Abstract!Init /\ [][Abstract!Next]_(Abstract!vars)
BY InitMaps, TypeInvInit, TypeInvNext, StepImplements, PTL DEF Spec
=============================================================================
