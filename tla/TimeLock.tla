------------------------------- MODULE TimeLock -------------------------------
(***************************************************************************)
(* Funds locked with RedeemScript by OnlineLockTxCreator and unlocked with *)
(* OfflineUnlockTxCreator, on a chain that applies Bitcoin's rules for     *)
(* locktime and OP_CHECKLOCKTIMEVERIFY (external).                         *)
(*                                                                         *)
(* A redeem script is what its two operands are: the lock time, as the     *)
(* four bytes that are pushed, and the public key.  A script hash is the   *)
(* script itself.  How a transaction gets its funds is module Payments.    *)
(***************************************************************************)
EXTENDS Integers, FiniteSets

CONSTANTS
    Keys,       \* key pairs
    LockTimes,  \* bound: the values of lock_until (a uint32_t)
    Threshold,  \* LOCKTIME_THRESHOLD, 500000000: below it, block heights
    SignBit,    \* 2^31, the sign of a four byte script number
    MaxHeight,  \* bound: block height
    MaxTime,    \* bound: median time past
    MaxLocks    \* bound: locking transactions

ASSUME LockAssumption ==
    /\ Threshold \in Nat \ {0} /\ SignBit \in Nat /\ Threshold < SignBit
    /\ LockTimes \subseteq 0 .. 2 * SignBit - 1
    /\ MaxHeight \in Nat /\ MaxTime \in Nat /\ MaxLocks \in Nat

VARIABLES
    height,  \* blocks in the chain
    mtp,     \* median time past of the last block
    locks,   \* the time locked outputs: [tx, until, script]
    spent,   \* the tx of those that have been spent
    draft,   \* what construct_unlock_tx returned last, or None
    reply    \* how the last call ended

vars == <<height, mtp, locks, spent, draft, reply>>

None == [none |-> TRUE]

Init ==
    /\ height = 0 /\ mtp = 0
    /\ locks = {} /\ spent = {} /\ draft = None /\ reply = "none"

-----------------------------------------------------------------------------
(* The number the four bytes of a push stand for: little endian, with the  *)
(* sign in the top bit; the sign alone is a negative zero, which is 0.     *)
ScriptNumber(bytes) ==
    IF bytes < SignBit THEN bytes ELSE -(bytes - SignBit)

(* Faulty variants of to_pay_key_hash_pattern_with_lock: the lock time is  *)
(* rounded down to a coarser unit, and pushed in more than four bytes.     *)
to_pay_key_hash_pattern_rounded(key, lock_until) ==
    [push |-> lock_until - (lock_until % 2), key |-> key]
to_pay_key_hash_pattern_wide(key, lock_until) ==
    [push |-> lock_until + 2 * SignBit, key |-> key]

(* write_4_bytes_little_endian(lock_until), then CHECKLOCKTIMEVERIFY, DROP *)
(* and CHECKSIG with the key.                                              *)
to_pay_key_hash_pattern_with_lock(key, lock_until) ==
    [push |-> lock_until, key |-> key]

(* OP_CHECKLOCKTIMEVERIFY in an input of a transaction.                    *)
CheckLockTimeVerify(push, locktime, final) ==
    LET n == ScriptNumber(push) IN
    /\ n >= 0
    /\ n < Threshold <=> locktime < Threshold
    /\ n <= locktime
    /\ ~final

(* A transaction may enter the next block.                                 *)
IsFinal(locktime, final) ==
    \/ final \/ locktime = 0
    \/ IF locktime < Threshold THEN locktime < height + 1 ELSE locktime < mtp

(* The chain accepts a transaction that spends the locked output `tx'.     *)
Accepts(t) ==
    /\ t.tx \notin spent
    /\ IsFinal(t.locktime, t.final)
    /\ \E o \in locks :
         /\ o.tx = t.tx
         /\ o.script = t.redeem  \* the script hash matches
         /\ t.signer = t.redeem.key
         /\ CheckLockTimeVerify(t.redeem.push, t.locktime, t.final)

-----------------------------------------------------------------------------
(* construct_p2sh_time_locking_tx_from_address, and the chain accepts what *)
(* it returns.                                                             *)
LockFunds(key, lock_until) ==
    /\ Cardinality(locks) < MaxLocks
    /\ locks' = locks \cup
         {[tx |-> Cardinality(locks) + 1, until |-> lock_until,
           script |-> to_pay_key_hash_pattern_with_lock(key, lock_until)]}
    /\ reply' = "locked"
    /\ UNCHANGED <<height, mtp, spent, draft>>

(* Faulty variant of UnlockTx: the sequence of its input is left at its    *)
(* default, which makes the input final.                                   *)
UnlockTxFinal(key, tx, lock_until) ==
    [tx |-> tx, signer |-> key, locktime |-> lock_until, final |-> TRUE,
     redeem |-> to_pay_key_hash_pattern_with_lock(key, lock_until)]

(* The transaction construct_unlock_tx builds: output 0 of src_tx_id, a    *)
(* sequence of 0 and the lock time as locktime.                            *)
UnlockTx(key, tx, lock_until) ==
    [tx |-> tx, signer |-> key, locktime |-> lock_until, final |-> FALSE,
     redeem |-> to_pay_key_hash_pattern_with_lock(key, lock_until)]

(* The caller types in what the locking call told him to preserve, and may *)
(* get it wrong; a P2SH or malformed target address is refused.            *)
construct_unlock_tx(key, tx, lock_until, target) ==
    /\ IF target = "p2pkh"
       THEN draft' = UnlockTx(key, tx, lock_until) /\ reply' = "constructed"
       ELSE reply' = "InvalidTargetAddress" /\ UNCHANGED draft
    /\ UNCHANGED <<height, mtp, locks, spent>>

(* Broadcasting the draft, once, again after a refusal, or again after it  *)
(* was accepted.                                                           *)
Broadcast ==
    /\ draft # None
    /\ IF Accepts(draft)
       THEN spent' = spent \cup {draft.tx} /\ reply' = "accepted"
       ELSE reply' = "refused" /\ UNCHANGED spent
    /\ UNCHANGED <<height, mtp, locks, draft>>

(* Any other transaction the holder of a key may sign for a locked output. *)
SpendOtherwise(o, locktime, final) ==
    /\ Accepts([tx |-> o.tx, signer |-> o.script.key, locktime |-> locktime,
                final |-> final, redeem |-> o.script])
    /\ spent' = spent \cup {o.tx}
    /\ UNCHANGED <<height, mtp, locks, draft, reply>>

MineBlock(time) ==
    /\ height < MaxHeight /\ height' = height + 1
    /\ time \in mtp..MaxTime /\ mtp' = time
    /\ UNCHANGED <<locks, spent, draft, reply>>

-----------------------------------------------------------------------------
Next ==
    \/ \E k \in Keys, l \in LockTimes : LockFunds(k, l)
    \/ \E k \in Keys, o \in locks, l \in LockTimes,
          target \in {"p2pkh", "p2sh", "malformed"} :
            construct_unlock_tx(k, o.tx, l, target)
    \/ Broadcast
    \/ \E o \in locks, l \in 0 .. MaxTime + MaxHeight, final \in BOOLEAN :
            SpendOtherwise(o, l, final)
    \/ \E time \in 0..MaxTime : MineBlock(time)

Spec == Init /\ [][Next]_vars

-----------------------------------------------------------------------------
(* Properties.                                                             *)

FourBytes == 0 .. 2 * SignBit - 1
Script == [push : FourBytes, key : Keys]
Lock   == [tx : Nat, until : LockTimes, script : Script]
Draft  == [tx : Nat, signer : Keys, locktime : LockTimes, final : BOOLEAN,
           redeem : Script]

(* The type invariant: every script pushes four bytes, and only locked     *)
(* outputs get spent.                                                      *)
TypeOK ==
    /\ height \in Nat /\ mtp \in Nat
    /\ locks \subseteq Lock /\ spent \subseteq {o.tx : o \in locks}
    /\ draft \in Draft \cup {None}
    /\ reply \in {"none", "locked", "constructed", "InvalidTargetAddress",
                  "accepted", "refused"}

(* No transaction of any wallet spends an output that RedeemScript locked  *)
(* before the number of seconds it is locked until has passed.             *)
LockedUntil ==
    [][\A o \in locks : o.tx \in spent' \ spent => o.until < mtp]_vars

(* "locks funds until lock_until number of seconds since Jan 1st 1970":    *)
(* once that time has passed, what construct_unlock_tx makes of the        *)
(* preserved data is accepted.                                             *)
UnlockableAfter ==
    \A o \in locks :
        o.until < mtp /\ o.tx \notin spent =>
            Accepts(UnlockTx(o.script.key, o.tx, o.until))
=============================================================================
