------------------------------ MODULE MCPayments ------------------------------
(* Instances of Payments for TLC: satoshis are counted modulo 16.          *)
EXTENDS Payments

CONSTANTS alice, carol, bob

Route(kind, src, key, target) ==
    [kind |-> kind, src |-> src, key |-> key, target |-> target]
\* To a stranger, to oneself, between own addresses and to a time lock.
Routes == {Route("p2pkh", alice, alice, bob), Route("p2pkh", alice, alice, alice),
           Route("p2pkh", carol, carol, alice),
           Route("lock", alice, alice, ScriptHash)}
\* With the wrong key, and to and from addresses that are no P2PKH addresses.
OddRoutes == {Route("p2pkh", alice, carol, bob), Route("p2pkh", alice, alice, "p2sh"),
              Route("p2pkh", "mistyped", alice, bob),
              Route("p2pkh", "malformed", alice, bob)}

Over(routes, sums) ==
    {[api |-> api, kind |-> r.kind, src |-> r.src, key |-> r.key,
      target |-> r.target, amount |-> s[1], fee |-> s[2]] :
        api \in {"libbitcoin", "electrum"}, r \in routes, s \in sums}

\* Sums that fit, that need two coins, that are all there is, and that wrap.
Edges == {<<1, 0>>, <<3, 1>>, <<1, Modulus - 1>>, <<Modulus - 1, 2>>}
\* And a call that asks for nothing.
EdgeCalls == Over(Routes, Edges) \cup Over(OddRoutes, {<<1, 0>>})
             \cup Over({Route("p2pkh", alice, alice, bob)}, {<<0, 0>>})
=============================================================================
