---------------------------- MODULE TimeLockProofs ----------------------------
(***************************************************************************)
(* Theorems about TimeLock, for any keys, lock times and number of locks.  *)
(***************************************************************************)
EXTENDS TimeLock, FiniteSetTheorems, TLAPS

(* The lock times the comment of RedeemScript means and its four bytes can *)
(* express: seconds, below 2^31.                                           *)
InSeconds == LockTimes \subseteq Threshold .. SignBit - 1

(* The transaction id of a locked output is its own, and the script holds  *)
(* the time and the key the caller gave.                                   *)
LockInv ==
    /\ TypeOK
    /\ IsFiniteSet(locks)
    /\ \A o \in locks : o.tx <= Cardinality(locks) /\ o.script.push = o.until
    /\ \A o, p \in locks : o.tx = p.tx => o = p

(* No output is locked at the start.                                       *)
LEMMA LockInvInit == Init => LockInv
<1> SUFFICES ASSUME Init PROVE LockInv  OBVIOUS
<1>1. IsFiniteSet(locks)
  BY FS_EmptySet DEF Init
<1>2. TypeOK
  BY DEF Init, TypeOK
<1> QED  BY <1>1, <1>2 DEF Init, LockInv

(* The script of a lock time has its type.                                 *)
LEMMA ScriptType ==
    ASSUME NEW k \in Keys, NEW l \in LockTimes
    PROVE  to_pay_key_hash_pattern_with_lock(k, l) \in Script
BY LockAssumption DEF to_pay_key_hash_pattern_with_lock, Script, FourBytes

(* Every step keeps transaction ids distinct and scripts as they were.     *)
LEMMA LockInvNext == LockInv /\ [Next]_vars => LockInv'
<1> SUFFICES ASSUME LockInv, [Next]_vars PROVE LockInv'  OBVIOUS
<1>1. ASSUME NEW k \in Keys, NEW l \in LockTimes, LockFunds(k, l)
      PROVE  LockInv'
  <2>0. PICK n \in Nat : n = Cardinality(locks)
    BY FS_CardinalityType DEF LockInv
  <2> DEFINE o == [tx |-> n + 1, until |-> l,
                   script |-> to_pay_key_hash_pattern_with_lock(k, l)]
  <2>1. /\ locks' = locks \cup {o} /\ reply' = "locked" /\ draft' = draft
        /\ height' = height /\ mtp' = mtp /\ spent' = spent
    BY <1>1, <2>0 DEF LockFunds
  <2>2. o \in Lock /\ o.tx = n + 1 /\ o.script.push = o.until
    BY ScriptType DEF Lock, to_pay_key_hash_pattern_with_lock
  <2> HIDE DEF o
  <2>3. \A p \in locks : p.tx \in Nat /\ p.tx <= n
    BY <2>0 DEF LockInv, TypeOK, Lock
  <2>4. o \notin locks
    BY <2>2, <2>3
  <2>5. IsFiniteSet(locks') /\ Cardinality(locks') = n + 1
    BY <2>0, <2>1, <2>4, FS_AddElement DEF LockInv
  <2>6. TypeOK'
    BY <2>1, <2>2 DEF LockInv, TypeOK
  <2>7. \A p \in locks' : p.tx <= n + 1 /\ p.script.push = p.until
    BY <2>1, <2>2, <2>3 DEF LockInv
  <2>8. \A p, q \in locks' : p.tx = q.tx => p = q
    BY <2>1, <2>2, <2>3 DEF LockInv
  <2> QED  BY <2>5, <2>6, <2>7, <2>8 DEF LockInv
<1>2. ASSUME NEW k \in Keys, NEW o \in locks, NEW l \in LockTimes,
             NEW target, construct_unlock_tx(k, o.tx, l, target)
      PROVE  LockInv'
  <2>1. UnlockTx(k, o.tx, l) \in Draft
    BY ScriptType DEF LockInv, TypeOK, Lock, UnlockTx, Draft
  <2>2. draft' \in Draft \cup {None}
        /\ reply' \in {"constructed", "InvalidTargetAddress"}
    BY <1>2, <2>1 DEF construct_unlock_tx, LockInv, TypeOK
  <2> QED  BY <1>2, <2>2 DEF construct_unlock_tx, LockInv, TypeOK
<1>3. ASSUME Broadcast PROVE LockInv'
  <2>1. spent' \subseteq {o.tx : o \in locks}
    BY <1>3 DEF Broadcast, Accepts, LockInv, TypeOK
  <2>2. reply' \in {"accepted", "refused"}
    BY <1>3 DEF Broadcast
  <2> QED  BY <1>3, <2>1, <2>2 DEF Broadcast, LockInv, TypeOK
<1>4. ASSUME NEW o \in locks, NEW l, NEW final, SpendOtherwise(o, l, final)
      PROVE  LockInv'
  BY <1>4 DEF SpendOtherwise, LockInv, TypeOK
<1>5. ASSUME NEW time, MineBlock(time) PROVE LockInv'
  BY <1>5, LockAssumption DEF MineBlock, LockInv, TypeOK
<1>6. ASSUME UNCHANGED vars PROVE LockInv'
  BY <1>6 DEF vars, LockInv, TypeOK
<1> QED  BY <1>1, <1>2, <1>3, <1>4, <1>5, <1>6 DEF Next

(* The type invariant, for every value of the constants.                   *)
THEOREM TypeCorrect == Spec => []TypeOK
<1>1. LockInv => TypeOK
  BY DEF LockInv
<1> QED  BY <1>1, LockInvInit, LockInvNext, PTL DEF Spec

-----------------------------------------------------------------------------
(* A lock time in seconds, as a number.                                    *)
LEMMA UntilInSeconds ==
    ASSUME InSeconds, LockInv, NEW o \in locks
    PROVE  /\ o.until \in Nat /\ Threshold <= o.until /\ o.until < SignBit
           /\ o.script.push = o.until /\ o.script \in Script
<1>1. o \in Lock /\ o.script.push = o.until
  BY DEF LockInv, TypeOK
<1>2. o.until \in LockTimes /\ o.script \in Script
  BY <1>1 DEF Lock
<1>3. \A n \in Threshold .. SignBit - 1 : n \in Nat /\ Threshold <= n /\ n < SignBit
  BY LockAssumption
<1>4. o.until \in Threshold .. SignBit - 1
  BY <1>2 DEF InSeconds
<1> QED  BY <1>1, <1>2, <1>3, <1>4, Zenon

(* A transaction the chain accepts spends an output whose time has passed: *)
(* CHECKLOCKTIMEVERIFY bounds the locktime from below, and a locktime that *)
(* has not passed keeps the transaction out of the next block.             *)
LEMMA AcceptedLate ==
    ASSUME InSeconds, LockInv, NEW t, t.locktime \in Nat, Accepts(t),
           NEW o \in locks, o.tx = t.tx
    PROVE  o.until < mtp
<1>1. PICK p \in locks :
        /\ p.tx = t.tx /\ p.script = t.redeem
        /\ CheckLockTimeVerify(t.redeem.push, t.locktime, t.final)
  BY DEF Accepts
<1>2. p = o
  BY <1>1 DEF LockInv
<1>3. /\ o.until \in Nat /\ Threshold <= o.until /\ o.until < SignBit
      /\ t.redeem.push = o.until
  BY <1>1, <1>2, UntilInSeconds
<1>4. /\ o.until <= t.locktime /\ ~(t.locktime < Threshold) /\ ~t.final
  BY <1>1, <1>3, LockAssumption DEF CheckLockTimeVerify, ScriptNumber
<1>5. t.locktime < mtp
  <2>1. t.locktime # 0
    BY <1>3, <1>4, LockAssumption
  <2>2. IsFinal(t.locktime, t.final)
    BY DEF Accepts
  <2> QED  BY <1>4, <2>1, <2>2, Zenon DEF IsFinal
<1> QED  BY <1>3, <1>4, <1>5 DEF LockInv, TypeOK

(* Whatever transaction is tried, by whichever wallet, no output that      *)
(* RedeemScript locked is spent before its time.                           *)
THEOREM FundsStayLocked == InSeconds => (Spec => LockedUntil)
<1> SUFFICES ASSUME InSeconds PROVE Spec => LockedUntil  OBVIOUS
<1> DEFINE Late == \A o \in locks : o.tx \in spent' \ spent => o.until < mtp
<1>1. LockInv /\ [Next]_vars => [Late]_vars
  <2> SUFFICES ASSUME LockInv, Next PROVE Late  OBVIOUS
  <2> SUFFICES ASSUME NEW o \in locks, o.tx \in spent' \ spent
               PROVE  o.until < mtp
    OBVIOUS
  <2>1. CASE Broadcast
    <3>1. CASE ~Accepts(draft)
      BY <2>1, <3>1, Zenon DEF Broadcast
    <3>2. CASE Accepts(draft)
      <4>1. o.tx = draft.tx /\ draft # None
        BY <2>1, <3>2, Zenon DEF Broadcast
      <4>2. draft \in Draft
        BY <4>1 DEF LockInv, TypeOK
      <4>3. draft.locktime \in LockTimes
        BY <4>2 DEF Draft
      <4>4. \A l \in LockTimes : l \in Nat
        BY LockAssumption
      <4>5. draft.locktime \in Nat
        BY <4>3, <4>4, Zenon
      <4> QED  BY <3>2, <4>1, <4>5, AcceptedLate
    <3> QED  BY <3>1, <3>2
  <2>2. ASSUME NEW p \in locks, NEW l \in 0 .. MaxTime + MaxHeight,
               NEW final \in BOOLEAN, SpendOtherwise(p, l, final)
        PROVE  o.until < mtp
    <3> DEFINE t == [tx |-> p.tx, signer |-> p.script.key, locktime |-> l,
                     final |-> final, redeem |-> p.script]
    <3>1. Accepts(t) /\ o.tx = t.tx
      BY <2>2 DEF SpendOtherwise
    <3>2. t.locktime \in Nat
      BY LockAssumption
    <3> HIDE DEF t
    <3> QED  BY <3>1, <3>2, AcceptedLate
  <2>3. CASE spent' = spent
    BY <2>3
  <2> QED  BY <2>1, <2>2, <2>3 DEF Next, LockFunds, construct_unlock_tx, MineBlock
<1> QED  BY <1>1, LockInvInit, LockInvNext, PTL DEF Spec, LockedUntil

(* Once the time has passed, the transaction construct_unlock_tx builds    *)
(* from the preserved data is accepted, unless the output is spent.        *)
THEOREM FundsCanBeUnlocked == InSeconds => (Spec => []UnlockableAfter)
<1> SUFFICES ASSUME InSeconds PROVE Spec => []UnlockableAfter  OBVIOUS
<1>1. LockInv => UnlockableAfter
  <2> SUFFICES ASSUME LockInv, NEW o \in locks, o.until < mtp, o.tx \notin spent
               PROVE  Accepts(UnlockTx(o.script.key, o.tx, o.until))
    BY DEF UnlockableAfter
  <2>1. /\ o.until \in Nat /\ Threshold <= o.until /\ o.until < SignBit
        /\ o.script.push = o.until /\ o.script \in Script
    BY UntilInSeconds
  <2>2. o.script = to_pay_key_hash_pattern_with_lock(o.script.key, o.until)
    BY <2>1 DEF Script, to_pay_key_hash_pattern_with_lock
  <2>3. CheckLockTimeVerify(o.until, o.until, FALSE)
    BY <2>1, LockAssumption DEF CheckLockTimeVerify, ScriptNumber
  <2>4. IsFinal(o.until, FALSE)
    BY <2>1, LockAssumption DEF IsFinal
  <2> QED  BY <2>1, <2>2, <2>3, <2>4 DEF Accepts, UnlockTx
<1> QED  BY <1>1, LockInvInit, LockInvNext, PTL DEF Spec
=============================================================================
