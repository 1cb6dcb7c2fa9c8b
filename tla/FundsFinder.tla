----------------------------- MODULE FundsFinder -----------------------------
(***************************************************************************)
(* FundsFinder: which of the unspent outputs of an address pay for an      *)
(* amount.  An unspent output is a record [id, owner, value]; the id       *)
(* stands for the transaction hash and the output index.                   *)
(***************************************************************************)
EXTENDS Integers, Sequences, SequencesExt

CONSTANT Modulus    \* 2^64: sums of satoshis are kept in a uint64_t

ASSUME ModulusAssumption == Modulus \in Nat \ {0}

(* The value of a list of unspent outputs.                                 *)
Total(utxos) ==
    LET sum[i \in 0..Len(utxos)] ==
            IF i = 0 THEN 0 ELSE (sum[i - 1] + utxos[i].value) % Modulus
    IN  sum[Len(utxos)]

(* select_outputs::individual of libbitcoin, which fetch_utxo asks for:    *)
(* the outputs that are each worth the minimum, cheapest first.            *)
Listings(utxos, minimum) ==
    {s \in SetToSeqs({u \in utxos : u.value >= minimum}) :
        \A i, j \in DOMAIN s : i < j => s[i].value <= s[j].value}
individual(utxos, minimum) == CHOOSE s \in Listings(utxos, minimum) : TRUE

(* Faulty variant of find_funds_points: the exact amount is not enough.    *)
find_funds_pointsStrict(satoshis_needed, points) ==
    LET Gathered(k) == Total(SubSeq(points, 1, k))
        Enough == {k \in 0..Len(points) : Gathered(k) > satoshis_needed}
    IN  IF Enough = {} THEN [utxos |-> <<>>, gathered |-> Gathered(Len(points))]
        ELSE [utxos    |-> SubSeq(points, 1, Min(Enough)),
              gathered |-> Gathered(Min(Enough))]

(* find_funds(satoshis_needed, points_value): the shortest prefix that is  *)
(* enough.  The test of points.value() in the loop only skips a list that  *)
(* is worth nothing, which gathers nothing either way.                     *)
find_funds_points(satoshis_needed, points) ==
    LET Gathered(k) == Total(SubSeq(points, 1, k))
        Enough == {k \in 0..Len(points) : Gathered(k) >= satoshis_needed}
    IN  IF Enough = {} THEN [utxos |-> <<>>, gathered |-> Gathered(Len(points))]
        ELSE [utxos    |-> SubSeq(points, 1, Min(Enough)),
              gathered |-> Gathered(Min(Enough))]

(* find_funds(satoshis_needed, vector<Utxo>): all that have a value.       *)
Valued(utxos) ==
    LET kept[i \in 0..Len(utxos)] ==
            IF i = 0 THEN <<>>
            ELSE IF utxos[i].value > 0 THEN Append(kept[i - 1], utxos[i])
            ELSE kept[i - 1]
    IN  kept[Len(utxos)]
find_funds_utxos(satoshis_needed, input_utxos) ==
    LET utxos == Valued(input_utxos)
    IN  [utxos    |-> IF Total(utxos) < satoshis_needed THEN <<>> ELSE utxos,
         gathered |-> Total(utxos)]
=============================================================================
