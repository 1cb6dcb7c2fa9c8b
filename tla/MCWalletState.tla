---------------------------- MODULE MCWalletState ----------------------------
(* Instances of WalletState for TLC: a wallet of two addresses, a and b.   *)
EXTENDS WalletState

Out(to, value) == [to |-> to, value |-> value]
In(tx, index)  == [tx |-> tx, index |-> index]

TwoAddresses == <<"a", "b">>
\* A stranger pays a, a pays b with change, b pays a and a stranger: every
\* payment leaves a fee of 1. The last replaces what a pays b.
Chain == <<[ins |-> {}, outs |-> <<Out("x", 10)>>],
           [ins |-> {In(1, 1)}, outs |-> <<Out("a", 5), Out("x", 4)>>],
           [ins |-> {In(2, 1)}, outs |-> <<Out("b", 3), Out("a", 1)>>],
           [ins |-> {In(3, 1)}, outs |-> <<Out("a", 1), Out("x", 1)>>],
           [ins |-> {}, outs |-> <<Out("b", 2)>>],
           [ins |-> {In(2, 1)}, outs |-> <<Out("x", 4)>>]>>
\* The id of a payment to b sorts above that of the transaction that spends it.
Hashes == <<3, 6, 5, 1, 2, 4>>
\* The stranger's coinbase and the first payment are in a block, the rest is
\* still to come, a coinbase of the wallet too.
Start == <<1, 1, Absent, Absent, Absent, Absent>>
=============================================================================
