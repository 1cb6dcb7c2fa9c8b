------------------------------- MODULE MCPurse -------------------------------
(* Instances of Purse for TLC: a wallet of two addresses.                  *)
EXTENDS Purse

Two == <<"a", "b">>
Coin(id, owner, value) == [id |-> id, owner |-> owner, value |-> value]
\* Wallets with nothing, with one coin, with one at each address, and with
\* two coins at one address.
SomeWallets == {{}, {Coin(-1, "a", 2)}, {Coin(-1, "a", 1), Coin(-2, "b", 3)},
                {Coin(-1, "b", 1), Coin(-2, "b", 1)}}
=============================================================================
