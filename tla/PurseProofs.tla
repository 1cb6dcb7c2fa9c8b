----------------------------- MODULE PurseProofs -----------------------------
(***************************************************************************)
(* What PurseAccessor promises of the funds it finds, for any wallet, any  *)
(* requests and any changes of the chain between its requests.             *)
(***************************************************************************)
EXTENDS Purse, TLAPS, FiniteSetTheorems, WellFoundedInduction

(* A set of naturals that is not empty has a least element, and Min is it. *)
LEMMA MinIs ==
    ASSUME NEW T \in SUBSET Nat, T # {}
    PROVE  Min(T) \in T /\ \A y \in T : Min(T) <= y
<1> DEFINE R == {ss \in Nat \X Nat : ss[1] < ss[2]}
<1>1. IsWellFoundedOn(R, Nat)
  BY NatLessThanWellFounded, Zenon DEF OpToRel
<1>2. PICK x \in T : \A y \in T : ~ (<<y, x>> \in R)
  <2> HIDE DEF R
  <2> QED  BY <1>1, WFMin, Zenon
<1>3. ASSUME NEW y \in T PROVE x <= y
  <2>1. <<y, x>> \in Nat \X Nat /\ <<y, x>>[1] = y /\ <<y, x>>[2] = x
    OBVIOUS
  <2>2. ~ (y < x)
    BY <1>2, <2>1
  <2> QED  BY <2>2
<1> QED  BY <1>3 DEF Min

(* Induction over the naturals, for a set of them.                         *)
LEMMA NatSetInduction ==
    ASSUME NEW P \in SUBSET Nat, 0 \in P, \A n \in P : n + 1 \in P
    PROVE  P = Nat
<1> SUFFICES ASSUME Nat \ P # {} PROVE FALSE
  OBVIOUS
<1>1. PICK x \in Nat \ P : \A y \in Nat \ P : x <= y
  BY MinIs
<1>2. x # 0 /\ x - 1 \in Nat /\ x - 1 \in P
  BY <1>1
<1> QED  BY <1>1, <1>2

-----------------------------------------------------------------------------
(* The lists of a server.                                                  *)
Ascending(s) == \A i, j \in DOMAIN s : i < j => s[i].value <= s[j].value

(* A set without one of its elements.                                      *)
LEMMA CountOneLess ==
    ASSUME NEW S, NEW x \in S, NEW n \in Nat, IsFiniteSet(S), Cardinality(S) = n + 1
    PROVE  IsFiniteSet(S \ {x}) /\ Cardinality(S \ {x}) = n
<1>1. IsFiniteSet(S \ {x}) /\ Cardinality(S \ {x}) = Cardinality(S) - 1
  BY FS_RemoveElement
<1> QED  BY <1>1

(* One more output, worth no more than the others, goes to the front.      *)
LEMMA SortOneMore ==
    ASSUME NEW S, \A u \in S : u.value \in Nat, NEW n \in Nat,
           IsFiniteSet(S), Cardinality(S) = n + 1, NEW x \in S,
           \A u \in S : x.value <= u.value,
           NEW s \in SetToSeqs(S \ {x}), Ascending(s)
    PROVE  \E t \in SetToSeqs(S) : Ascending(t)
<1> DEFINE T == S \ {x}
           t == [i \in 1..n + 1 |-> IF i = 1 THEN x ELSE s[i - 1]]
<1>1. Cardinality(T) = n
  BY CountOneLess
<1>2. /\ s \in [1..n -> T] /\ \A i, j \in 1..n : i # j => s[i] # s[j]
      /\ DOMAIN s = 1..n
  BY <1>1 DEF SetToSeqs
<1>3. \A i \in 1..n + 1 : (i = 1 /\ t[i] = x) \/ (i - 1 \in 1..n /\ t[i] = s[i - 1])
  OBVIOUS
<1>4. t \in [1..n + 1 -> S]
  BY <1>2, <1>3
<1>5. \A i \in 1..n : s[i] \in S /\ s[i] # x /\ s[i].value \in Nat
  BY <1>2
<1>6. DOMAIN t = 1..n + 1
  BY <1>4
<1> HIDE DEF t, T
<1>7. \A i, j \in 1..n + 1 : i # j => t[i] # t[j]
  <2> SUFFICES ASSUME NEW i \in 1..n + 1, NEW j \in 1..n + 1, i # j PROVE t[i] # t[j]
    OBVIOUS
  <2>1. CASE i # 1 /\ j # 1
    <3>1. i - 1 \in 1..n /\ j - 1 \in 1..n /\ i - 1 # j - 1
      BY <2>1
    <3> QED  BY <1>2, <1>3, <2>1, <3>1
  <2>2. CASE i = 1 \/ j = 1
    BY <1>3, <1>5, <2>2
  <2> QED  BY <2>1, <2>2
<1>8. Ascending(t)
  <2> SUFFICES ASSUME NEW i \in 1..n + 1, NEW j \in 1..n + 1, i < j
               PROVE  t[i].value <= t[j].value
    BY <1>6 DEF Ascending
  <2>1. j - 1 \in 1..n /\ t[j] = s[j - 1]
    BY <1>3
  <2>2. CASE i = 1
    BY <1>3, <1>5, <2>1, <2>2
  <2>3. CASE i # 1
    <3>1. i - 1 \in 1..n /\ t[i] = s[i - 1] /\ i - 1 < j - 1
      BY <1>3, <2>3
    <3> QED  BY <1>2, <2>1, <3>1 DEF Ascending
  <2> QED  BY <2>2, <2>3
<1>9. t \in SetToSeqs(S)
  BY <1>4, <1>7 DEF SetToSeqs
<1> QED  BY <1>8, <1>9

(* A finite set of outputs can be listed, cheapest first.                  *)
LEMMA Sortable ==
    ASSUME NEW U, \A u \in U : u.value \in Nat
    PROVE  \A S \in SUBSET U : IsFiniteSet(S) => \E s \in SetToSeqs(S) : Ascending(s)
<1> DEFINE Listed(S) == \E s \in SetToSeqs(S) : Ascending(s)
           P == {n \in Nat : \A S \in SUBSET U :
                               IsFiniteSet(S) /\ Cardinality(S) = n => Listed(S)}
<1>1. 0 \in P
  <2> SUFFICES ASSUME NEW S \in SUBSET U, IsFiniteSet(S), Cardinality(S) = 0 PROVE Listed(S)
    OBVIOUS
  <2>1. S = {}
    BY FS_EmptySet
  <2>2. <<>> \in SetToSeqs(S) /\ Ascending(<<>>)
    BY <2>1 DEF SetToSeqs, Ascending
  <2> QED  BY <2>2
<1>2. ASSUME NEW n \in P PROVE n + 1 \in P
  <2> SUFFICES ASSUME NEW S \in SUBSET U, IsFiniteSet(S), Cardinality(S) = n + 1
               PROVE  Listed(S)
    OBVIOUS
  <2> DEFINE V == {u.value : u \in S}
  <2>1. S # {} /\ n \in Nat
    BY FS_EmptySet
  <2>2. V \in SUBSET Nat /\ V # {}
    BY <2>1
  <2>3. Min(V) \in V /\ \A y \in V : Min(V) <= y
    <3> HIDE DEF V
    <3> QED  BY <2>2, MinIs
  <2>4. PICK x \in S : x.value = Min(V)
    BY <2>3
  <2>5. \A u \in S : x.value <= u.value
    BY <2>3, <2>4
  <2>6. IsFiniteSet(S \ {x}) /\ Cardinality(S \ {x}) = n
    BY <2>1, <2>4, CountOneLess
  <2>7. PICK s \in SetToSeqs(S \ {x}) : Ascending(s)
    BY <2>6
  <2>8. \A u \in S : u.value \in Nat
    OBVIOUS
  <2> HIDE DEF V, P
  <2> QED  BY <2>1, <2>4, <2>5, <2>7, <2>8, SortOneMore
<1>3. P = Nat
  <2> HIDE DEF P
  <2>1. P \in SUBSET Nat  BY DEF P
  <2> QED  BY <1>1, <1>2, <2>1, NatSetInduction
<1>4. ASSUME NEW S \in SUBSET U, IsFiniteSet(S) PROVE Listed(S)
  <2>1. Cardinality(S) \in P
    BY <1>3, <1>4, FS_CardinalityType
  <2> QED  BY <1>4, <2>1
<1> QED  BY <1>4

(* So individual lists exactly the outputs that are worth the minimum.     *)
LEMMA IndividualIs ==
    ASSUME NEW U, IsFiniteSet(U), \A u \in U : u.value \in Nat, NEW minimum
    PROVE  /\ individual(U, minimum) \in Seq(U)
           /\ ToSet(individual(U, minimum)) = {u \in U : u.value >= minimum}
<1> DEFINE S == {u \in U : u.value >= minimum}  n == Cardinality(S)
           s == individual(U, minimum)
<1>1. S \in SUBSET U /\ IsFiniteSet(S)
  BY FS_Subset
<1>2. n \in Nat
  BY <1>1, FS_CardinalityType
<1>3. \E t \in SetToSeqs(S) : Ascending(t)
  <2> HIDE DEF S
  <2> QED  BY <1>1, Sortable
<1>4. s \in SetToSeqs(S)
  BY <1>3 DEF individual, Listings, Ascending
<1> HIDE DEF S, s
<1>5. s \in [1..n -> S] /\ \A i, j \in 1..n : i # j => s[i] # s[j]
  BY <1>4 DEF SetToSeqs
<1>6. IsFiniteSet(1..n) /\ Cardinality(1..n) = n
  BY <1>2, FS_Interval
<1>7. s \in Injection(1..n, S)
  BY <1>5 DEF Injection, IsInjective
<1>8. s \in Surjection(1..n, S)
  BY <1>1, <1>6, <1>7, FS_Injection
<1>9. \A u \in S : \E k \in 1..n : s[k] = u
  BY <1>8 DEF Surjection
<1> HIDE DEF n
<1>10. ToSet(s) = S
  BY <1>5, <1>9 DEF ToSet
<1>11. s \in Seq(U)
  BY <1>1, <1>2, <1>5
<1> QED  BY <1>10, <1>11 DEF S, s

-----------------------------------------------------------------------------
(* Sums.                                                                   *)
Sums(f, s) == f = [i \in 0..Len(s) |->
                     IF i = 0 THEN 0 ELSE (f[i - 1] + s[i].value) % Modulus]

(* Total takes the value of that function at the length of the list.       *)
LEMMA TotalIs ==
    ASSUME NEW s
    PROVE  Total(s) = (CHOOSE f : Sums(f, s))[Len(s)]
BY DEF Total, Sums

(* Nothing adds up to nothing.                                             *)
LEMMA TotalEmpty == Total(<<>>) = 0
<1> DEFINE z == [i \in 0..0 |-> 0]  f == CHOOSE f : Sums(f, <<>>)
<1>1. Len(<<>>) = 0 /\ 0 \in 0..0 /\ \A i \in 0..0 : i = 0
  OBVIOUS
<1>2. Sums(z, <<>>)
  BY <1>1 DEF Sums
<1>3. Sums(f, <<>>)
  BY <1>2
<1>4. Total(<<>>) = f[0]
  BY <1>1, TotalIs
<1> HIDE DEF f
<1>5. f[0] = 0
  BY <1>1, <1>3 DEF Sums
<1> QED  BY <1>4, <1>5

(* One output is worth its value, which fits a uint64_t.                   *)
LEMMA TotalOne ==
    ASSUME NEW u, u.value \in 0 .. Modulus - 1
    PROVE  Total(<<u>>) = u.value
<1> DEFINE v == u.value  z == [i \in 0..1 |-> IF i = 0 THEN 0 ELSE v]
           f == CHOOSE f : Sums(f, <<u>>)
<1>1. Len(<<u>>) = 1 /\ <<u>>[1] = u /\ 0 \in 0..1 /\ 1 \in 0..1
      /\ \A i \in 0..1 : i = 0 \/ i = 1
  OBVIOUS
<1>2. (0 + v) % Modulus = v
  BY ModulusAssumption
<1>3. z = [i \in 0..1 |-> z[i]] /\ z[0] = 0 /\ z[1] = v /\ z[1 - 1] = 0
  OBVIOUS
<1> HIDE DEF v, z
<1>4. Sums(z, <<u>>)
  BY <1>1, <1>2, <1>3 DEF Sums, v
<1>5. Sums(f, <<u>>)
  BY <1>4
<1>6. Total(<<u>>) = f[1]
  BY <1>1, TotalIs
<1> HIDE DEF f
<1>7. f[0] = 0 /\ f[1] = (f[1 - 1] + <<u>>[1].value) % Modulus
  BY <1>1, <1>5 DEF Sums
<1>8. f[1] = (0 + v) % Modulus
  BY <1>1, <1>7 DEF v
<1> QED  BY <1>2, <1>6, <1>8 DEF v

(* The balance of an address is a sum without a bound.                     *)
Adds(f, s) == f = [i \in 0..Len(s) |-> IF i = 0 THEN 0 ELSE f[i - 1] + s[i].value]

(* Worth takes the value of that function at the length of the list.       *)
LEMMA WorthIs ==
    ASSUME NEW U
    PROVE  Worth(U) = (CHOOSE f : Adds(f, individual(U, 0)))[Len(individual(U, 0))]
BY DEF Worth, Adds

(* There is such a function for every list.                                *)
LEMMA AddsDefined ==
    ASSUME NEW s, NEW n \in Nat, n = Len(s), \A i \in 1..n : s[i].value \in Nat
    PROVE  Adds(CHOOSE f : Adds(f, s), s)
<1> DEFINE Upto(f, m) == /\ f \in [0..m -> Nat] /\ f[0] = 0
                         /\ \A i \in 1..m : f[i] = f[i - 1] + s[i].value
           P == {m \in Nat : m <= n => \E f : Upto(f, m)}
<1>1. 0 \in P
  <2> DEFINE z == [i \in 0..0 |-> 0]
  <2>1. Upto(z, 0)
    OBVIOUS
  <2> QED  BY <2>1
<1>2. ASSUME NEW m \in P PROVE m + 1 \in P
  <2>0. m \in Nat /\ m + 1 \in Nat
    OBVIOUS
  <2> SUFFICES ASSUME m + 1 <= n PROVE \E f : Upto(f, m + 1)
    <3> HIDE DEF Upto
    <3> QED  BY <2>0
  <2>1. m \in Nat /\ m <= n /\ m + 1 \in 1..n
    OBVIOUS
  <2>2. PICK f : Upto(f, m)
    BY <2>1
  <2> DEFINE g == [i \in 0..m + 1 |-> IF i <= m THEN f[i] ELSE f[m] + s[m + 1].value]
  <2>3. m \in 0..m /\ f[m] \in Nat /\ s[m + 1].value \in Nat
    BY <2>1, <2>2
  <2>4. (\A i \in 0..m : g[i] = f[i]) /\ g[m + 1] = f[m] + s[m + 1].value
    BY <2>1
  <2>5. g \in [0..m + 1 -> Nat]
    BY <2>1, <2>2, <2>3
  <2> HIDE DEF g
  <2>6. ASSUME NEW i \in 1..m + 1 PROVE g[i] = g[i - 1] + s[i].value
    <3>1. CASE i = m + 1
      <4>1. i - 1 = m
        BY <2>1, <3>1
      <4> QED  BY <2>3, <2>4, <3>1, <4>1
    <3>2. CASE i # m + 1
      <4>1. i \in 1..m /\ i \in 0..m /\ i - 1 \in 0..m
        BY <2>1, <3>2
      <4> QED  BY <2>2, <2>4, <4>1
    <3> QED  BY <3>1, <3>2
  <2>7. g[0] = 0
    BY <2>1, <2>2, <2>4
  <2> QED  BY <2>5, <2>6, <2>7
<1>3. P = Nat
  <2> HIDE DEF P
  <2>1. P \in SUBSET Nat  BY DEF P
  <2> QED  BY <1>1, <1>2, <2>1, NatSetInduction
<1>4. PICK f : Upto(f, n)
  BY <1>3
<1>5. Adds(f, s)
  <2>1. f = [i \in 0..n |-> f[i]]
    BY <1>4
  <2>2. \A i \in 0..n : i = 0 \/ i \in 1..n
    OBVIOUS
  <2>3. \A i \in 0..n : f[i] = IF i = 0 THEN 0 ELSE f[i - 1] + s[i].value
    BY <1>4, <2>2
  <2> QED  BY <2>1, <2>3 DEF Adds
<1> QED  BY <1>5

(* An address is worth at least each of its outputs.                       *)
LEMMA WorthBounds ==
    ASSUME NEW U, IsFiniteSet(U), \A u \in U : u.value \in Nat
    PROVE  Worth(U) \in Nat /\ \A u \in U : u.value <= Worth(U)
<1> DEFINE s == individual(U, 0)  n == Len(s)  f == CHOOSE f : Adds(f, s)
           Q == {i \in Nat : i <= n => /\ f[i] \in Nat
                                       /\ \A k \in 1..i : s[k].value <= f[i]}
<1>1. s \in Seq(U) /\ ToSet(s) = {u \in U : u.value >= 0}
  BY IndividualIs
<1>2. Worth(U) = f[n]
  BY WorthIs
<1> HIDE DEF s
<1>3. n \in Nat /\ \A i \in 1..n : s[i].value \in Nat
  BY <1>1
<1>4. Adds(f, s)
  BY <1>3, AddsDefined
<1> HIDE DEF f
<1>5. f[0] = 0 /\ \A i \in 1..n : f[i] = f[i - 1] + s[i].value
  BY <1>3, <1>4 DEF Adds
<1>6. 0 \in Q
  BY <1>5
<1>7. ASSUME NEW i \in Q PROVE i + 1 \in Q
  <2> SUFFICES ASSUME i + 1 <= n
               PROVE  f[i + 1] \in Nat /\ \A k \in 1..i + 1 : s[k].value <= f[i + 1]
    OBVIOUS
  <2>1. i \in Nat /\ i + 1 \in 1..n /\ f[i] \in Nat /\ \A k \in 1..i : s[k].value <= f[i]
    BY <1>3
  <2>2. (i + 1) - 1 = i /\ s[i + 1].value \in Nat
    BY <1>3, <2>1
  <2>3. f[i + 1] = f[i] + s[i + 1].value
    BY <1>5, <2>1, <2>2
  <2>4. ASSUME NEW k \in 1..i + 1 PROVE s[k].value <= f[i + 1]
    <3>1. CASE k = i + 1
      BY <2>1, <2>2, <2>3, <3>1
    <3>2. CASE k # i + 1
      <4>1. k \in 1..i /\ k \in 1..n
        BY <2>1, <3>2
      <4> QED  BY <1>3, <2>1, <2>2, <2>3, <4>1
    <3> QED  BY <3>1, <3>2
  <2> QED  BY <2>1, <2>2, <2>3, <2>4
<1>8. Q = Nat
  <2> HIDE DEF Q
  <2>1. Q \in SUBSET Nat  BY DEF Q
  <2> QED  BY <1>6, <1>7, <2>1, NatSetInduction
<1>9. f[n] \in Nat /\ \A k \in 1..n : s[k].value <= f[n]
  BY <1>3, <1>8
<1>10. ASSUME NEW u \in U PROVE \E k \in 1..n : s[k] = u
  <2>1. u \in ToSet(s)
    BY <1>1
  <2> QED  BY <1>1, <2>1 DEF ToSet
<1> QED  BY <1>2, <1>9, <1>10

-----------------------------------------------------------------------------
(* What find_funds makes of the outputs that are each worth the request:   *)
(* it takes the first, and all there is to take if there is none.          *)
LEMMA FundsFound ==
    ASSUME NEW U, NEW points \in Seq(U), NEW needed \in Nat,
           \A u \in U : u.value \in 0 .. Modulus - 1
    PROVE  LET found == find_funds_points(needed, points) IN
           /\ found.utxos \in Seq(U)
           /\ found.gathered >= needed => Total(found.utxos) = found.gathered
           /\ ~(found.gathered >= needed) => found.utxos = <<>>
           /\ needed > 0 /\ found.gathered >= needed => found.utxos # <<>>
           /\ (\A u \in U : u.value >= needed) /\ points # <<>> => found.gathered >= needed
           /\ needed > 0 /\ points = <<>> => ~(found.gathered >= needed)
           /\ (\A u \in U : u.value >= needed) => found.gathered \in Nat
<1> DEFINE n == Len(points)
           Gathered(k) == Total(SubSeq(points, 1, k))
           Enough == {k \in 0..n : Gathered(k) >= needed}
           found == find_funds_points(needed, points)
<1>1. n \in Nat /\ Enough \in SUBSET Nat
  OBVIOUS
<1>2. /\ Enough = {} => found = [utxos |-> <<>>, gathered |-> Gathered(n)]
      /\ Enough # {} => found = [utxos    |-> SubSeq(points, 1, Min(Enough)),
                                 gathered |-> Gathered(Min(Enough))]
  BY DEF find_funds_points
<1>3. Gathered(0) = 0
  <2>1. SubSeq(points, 1, 0) = <<>>
    OBVIOUS
  <2> QED  BY <2>1, TotalEmpty
<1>4. ASSUME points # <<>>, \A u \in U : u.value >= needed
      PROVE  1 \in Enough /\ Gathered(1) \in Nat
  <2>0. n >= 1 /\ points[1] \in U
    BY <1>4
  <2>1. SubSeq(points, 1, 1) = <<points[1]>>
    <3> DEFINE q == SubSeq(points, 1, 1)  r == <<points[1]>>
    <3>1. q \in Seq(U) /\ Len(q) = 1 /\ q[1] = points[1]
      BY <2>0
    <3>2. r \in Seq(U) /\ Len(r) = 1 /\ r[1] = points[1]
      BY <2>0
    <3> HIDE DEF q, r
    <3>3. \A i \in 1..1 : q[i] = r[i]
      BY <3>1, <3>2
    <3>4. q = r
      BY <3>1, <3>2, <3>3
    <3> QED  BY <3>4 DEF q, r
  <2>2. Gathered(1) = points[1].value
    BY <2>0, <2>1, TotalOne
  <2> QED  BY <1>1, <1>4, <2>0, <2>2
<1>5. ASSUME points = <<>>, needed > 0 PROVE Enough = {}
  <2>1. n = 0
    BY <1>5
  <2>2. \A k \in 0..n : k = 0
    BY <2>1
  <2> QED  BY <1>3, <1>5, <2>2
<1>6. CASE Enough = {}
  <2>1. n \in 0..n
    BY <1>1
  <2>2. ~(Gathered(n) >= needed)
    BY <1>6, <2>1
  <2>3. found.utxos = <<>> /\ found.gathered = Gathered(n)
    BY <1>2, <1>6
  <2> HIDE DEF Gathered, found, Enough
  <2>4. <<>> \in Seq(U)
    OBVIOUS
  <2>5. (\A u \in U : u.value >= needed) => Gathered(n) \in Nat
    <3>1. points = <<>> => n = 0
      OBVIOUS
    <3> QED  BY <1>3, <1>4, <1>6, <3>1
  <2> QED  BY <1>4, <1>6, <2>2, <2>3, <2>4, <2>5 DEF found
<1>7. CASE Enough # {}
  <2> DEFINE k == Min(Enough)
  <2>1. k \in Enough
    <3> HIDE DEF Enough
    <3> QED  BY <1>1, <1>7, MinIs
  <2> HIDE DEF k
  <2>2. k \in 0..n /\ Gathered(k) >= needed
    BY <2>1
  <2>3. found.utxos = SubSeq(points, 1, k) /\ found.gathered = Gathered(k)
    BY <1>2, <1>7 DEF k
  <2>4. SubSeq(points, 1, k) \in Seq(U) /\ Len(SubSeq(points, 1, k)) = k
    BY <1>1, <2>2
  <2>5. needed > 0 => k # 0
    BY <1>3, <2>2
  <2>6. needed > 0 => SubSeq(points, 1, k) # <<>>
    BY <2>4, <2>5
  <2>7. Total(found.utxos) = found.gathered
    BY <2>3
  <2>8. (\A u \in U : u.value >= needed) => Gathered(k) \in Nat
    <3>1. points = <<>> => n = 0
      OBVIOUS
    <3>2. \A j \in Enough : k <= j
      <4> HIDE DEF Enough
      <4> QED  BY <1>1, <1>7, MinIs DEF k
    <3> HIDE DEF Gathered, Enough
    <3>3. ASSUME \A u \in U : u.value >= needed PROVE k = 0 \/ (k = 1 /\ Gathered(1) \in Nat)
      BY <1>1, <1>4, <2>2, <3>1, <3>2, <3>3
    <3> QED  BY <1>3, <3>3
  <2> HIDE DEF Gathered, found, Enough
  <2> QED  BY <1>5, <1>7, <2>2, <2>3, <2>4, <2>6, <2>7, <2>8 DEF found
<1> QED  BY <1>6, <1>7

-----------------------------------------------------------------------------
(* The inductive invariant.                                                *)
Searches == {"look_for_funds", "look_for_funds_by_balance"}
Names == Searches \cup {"scan_balances", "find_utxos"}

(* The unspent outputs, and what the servers know of them, are finite sets *)
(* of outputs of the wallet; while nothing has changed they are the same.  *)
ChainInv ==
    /\ \A view \in {unspent, confirmed, listed} :
         view \subseteq Outputs /\ IsFiniteSet(view)
    /\ changes \in 0..MaxChanges
    /\ changes = 0 => confirmed = unspent /\ listed = unspent

(* What the two maps of the caller hold.                                   *)
MapInv ==
    /\ DOMAIN address_to_balance \subseteq ToSet(Addresses)
    /\ \A a \in DOMAIN address_to_balance : address_to_balance[a] \in Nat
    /\ DOMAIN address_to_utxos \subseteq DOMAIN address_to_balance
    /\ \A a \in DOMAIN address_to_utxos :
         \A u \in ToSet(address_to_utxos[a]) : u.owner = a /\ u.value > 0

(* The shape of a call, which has returned nothing yet.                    *)
CallInv ==
    call # Idle =>
        /\ call = [name |-> call.name, requested |-> call.requested,
                   next |-> call.next, phase |-> call.phase]
        /\ call.name \in Names /\ call.requested \in Nat
        /\ call.next \in 1 .. Len(Addresses) + 1
        /\ result = None

(* What maxFunds has of an address that was passed is not enough, even if  *)
(* it is the balance, and comes without outputs.                           *)
MaxInv ==
    call # Idle =>
        /\ maxFunds = Funds(maxFunds.address, maxFunds.requested, maxFunds.actual, <<>>)
        /\ \/ maxFunds.requested = 0
           \/ /\ call.name \in Searches /\ maxFunds.requested = call.requested
              /\ ~(maxFunds.actual >= maxFunds.requested)

(* On a chain that has not changed, a search has passed only addresses     *)
(* without an output that is worth the request.                            *)
Lacking(a) == \A u \in listed : u.owner = a => ~(u.value >= call.requested)
SearchInv ==
    call # Idle /\ call.name \in Searches /\ call.requested > 0 /\ changes = 0 =>
        \A k \in 1 .. call.next - 1 : Lacking(Addresses[k])

ResultInv == FundsAreBacked /\ FirstOrRichest /\ SufficientOutputFound

PurseInv == ChainInv /\ MapInv /\ CallInv /\ MaxInv /\ SearchInv /\ ResultInv

(* Typing of the sequence of addresses and of the requests.                *)
LEMMA ConstantTypes ==
    /\ Len(Addresses) \in Nat /\ Modulus \in Nat /\ MaxChanges \in Nat
    /\ \A k \in 1..Len(Addresses) : Addresses[k] \in ToSet(Addresses)
    /\ \A a \in ToSet(Addresses) : \E k \in 1..Len(Addresses) : Addresses[k] = a
    /\ Requests \subseteq Nat /\ Coins \subseteq 0 .. Modulus - 1
BY PurseAssumption, ModulusAssumption DEF ToSet

(* A call that asks a server asks about an address of the wallet.          *)
LEMMA HereIs ==
    ASSUME CallInv, call # Idle, call.next <= Len(Addresses)
    PROVE  /\ call.next \in 1..Len(Addresses) /\ Here = Addresses[call.next]
           /\ Here \in ToSet(Addresses)
BY ConstantTypes DEF CallInv, Here

(* What a server knows of an address is a finite set of outputs with their *)
(* values.                                                                 *)
LEMMA OwnedIs ==
    ASSUME ChainInv, NEW a, NEW U \in {Owned(a), Confirmed(a)}
    PROVE  /\ IsFiniteSet(U) /\ U \subseteq Outputs
           /\ \A u \in U : /\ u.value \in 0 .. Modulus - 1 /\ u.value \in Nat
                           /\ u.owner = a
<1>1. PICK view \in {unspent, confirmed, listed} : U = {u \in view : u.owner = a}
  BY DEF Owned, Confirmed
<1>2. view \subseteq Outputs /\ IsFiniteSet(view) /\ U \subseteq view
  BY <1>1 DEF ChainInv
<1>3. IsFiniteSet(U)
  BY <1>2, FS_Subset
<1> QED  BY <1>1, <1>2, <1>3, ConstantTypes DEF Outputs

(* What obtain_funds promises: funds that are enough are the worth of      *)
(* outputs of the address, and there are such funds if and only if one     *)
(* output alone is worth the request.                                      *)
LEMMA Obtained ==
    ASSUME ChainInv, NEW a, NEW requested \in Nat
    PROVE  LET f == obtain_funds(requested, a) IN
           /\ f = Funds(a, requested, f.actual, f.points)
           /\ \A u \in ToSet(f.points) : u.owner = a
           /\ f.actual >= requested => Total(f.points) = f.actual
           /\ ~(f.actual >= requested) => f.points = <<>>
           /\ requested > 0 /\ f.actual >= requested => f.points # <<>>
           /\ requested > 0 => (f.actual >= requested
                 <=> \E u \in listed : u.owner = a /\ u.value >= requested)
           /\ f.actual \in Nat /\ f.points \in Seq(Outputs)
<1> DEFINE points == individual(Owned(a), requested)
           U == {u \in Owned(a) : u.value >= requested}
           found == find_funds_points(requested, points)
           f == obtain_funds(requested, a)
<1>1. points \in Seq(Owned(a)) /\ ToSet(points) = U
  BY OwnedIs, IndividualIs
<1>2. f = Funds(a, requested, found.gathered, found.utxos)
  BY DEF obtain_funds
<1> HIDE DEF points
<1>3. points \in Seq(U)
  <2>1. \A i \in 1..Len(points) : points[i] \in ToSet(points)
    BY <1>1 DEF ToSet
  <2>2. Len(points) \in Nat /\ points = [i \in 1..Len(points) |-> points[i]]
    BY <1>1
  <2> HIDE DEF U
  <2> QED  BY <1>1, <2>1, <2>2
<1>4. /\ \A u \in U : u.value \in 0 .. Modulus - 1
      /\ \A u \in U : u.value >= requested
  BY OwnedIs
<1>5. points = <<>> <=> U = {}
  <2>1. points = <<>> => U = {}
    BY <1>1 DEF ToSet
  <2>2. points # <<>> => points[1] \in U
    BY <1>3
  <2> QED  BY <2>1, <2>2
<1>6. U # {} <=> \E u \in listed : u.owner = a /\ u.value >= requested
  BY DEF Owned
<1>7. /\ found.utxos \in Seq(U)
      /\ found.gathered >= requested => Total(found.utxos) = found.gathered
      /\ ~(found.gathered >= requested) => found.utxos = <<>>
      /\ requested > 0 /\ found.gathered >= requested => found.utxos # <<>>
      /\ points # <<>> => found.gathered >= requested
      /\ requested > 0 /\ points = <<>> => ~(found.gathered >= requested)
      /\ found.gathered \in Nat
  <2> HIDE DEF U
  <2> QED  BY <1>3, <1>4, FundsFound
<1> HIDE DEF found
<1>8. f.actual = found.gathered /\ f.points = found.utxos
      /\ f = Funds(a, requested, f.actual, f.points)
  BY <1>2 DEF Funds
<1>9. \A u \in ToSet(found.utxos) : u.owner = a
  <2>1. \A u \in ToSet(found.utxos) : u \in U
    BY <1>7 DEF ToSet
  <2> QED  BY <2>1, OwnedIs
<1>10. found.utxos \in Seq(Outputs)
  <2>1. U \subseteq Outputs
    BY OwnedIs
  <2> HIDE DEF U
  <2> QED  BY <1>7, <2>1
<1> HIDE DEF f, U
<1> QED  BY <1>5, <1>6, <1>7, <1>8, <1>9, <1>10 DEF f

(* The fields of the records that calls return.                            *)
LEMMA Shapes ==
    /\ DOMAIN None = {"none"} /\ \A w : DOMAIN Exception(w) = {"exception"}
    /\ \A a, r, n, p : /\ DOMAIN Funds(a, r, n, p) = {"address", "requested", "actual", "points"}
                       /\ Funds(a, r, n, p).address = a /\ Funds(a, r, n, p).requested = r
                       /\ Funds(a, r, n, p).actual = n /\ Funds(a, r, n, p).points = p
    /\ \A a, r, n : /\ DOMAIN FundsInfo(a, r, n) = {"address", "requested", "actual"}
                    /\ FundsInfo(a, r, n).address = a /\ FundsInfo(a, r, n).requested = r
                    /\ FundsInfo(a, r, n).actual = n
BY DEF None, Exception, Funds, FundsInfo

(* Funds, and information on funds, of an address of the wallet.           *)
LEMMA FundsAre ==
    ASSUME NEW a \in ToSet(Addresses) \cup {""}, NEW requested \in Nat, NEW actual \in Nat
    PROVE  /\ \A points \in Seq(Outputs) :
                Funds(a, requested, actual, points) \in AddressFunds
           /\ FundsInfo(a, requested, actual) \in AddressFundsInfo
BY DEF Funds, AddressFunds, FundsInfo, AddressFundsInfo

(* Nothing is claimed of a call that runs or threw.                        *)
LEMMA NoResult ==
    ASSUME result' = None \/ \E w : result' = Exception(w)
    PROVE  ResultInv'
<1>1. "points" \notin DOMAIN result' /\ "actual" \notin DOMAIN result'
  BY Shapes
<1> QED  BY <1>1 DEF ResultInv, FundsAreBacked, FirstOrRichest, SufficientOutputFound


-----------------------------------------------------------------------------
(* The steps of a call.                                                    *)

(* A call that goes on has found too little at the address.                *)
LEMMA GoOnKeeps ==
    ASSUME CallInv, MaxInv, SearchInv, call # Idle, call.next <= Len(Addresses),
           call.name \in Searches, NEW funds,
           funds = Funds(Here, call.requested, funds.actual, <<>>),
           ~(funds.actual >= call.requested), GoOn(funds),
           call.requested > 0 /\ changes = 0 => Lacking(Here), UNCHANGED chain
    PROVE  CallInv' /\ MaxInv' /\ SearchInv' /\ result' = None
<1>1. /\ call' = [call EXCEPT !.next = @ + 1, !.phase = "first"]
      /\ maxFunds' \in {funds, maxFunds} /\ result' = result
  BY DEF GoOn
<1>2. /\ call'.name = call.name /\ call'.requested = call.requested
      /\ call'.next = call.next + 1
      /\ call' = [name |-> call'.name, requested |-> call'.requested,
                  next |-> call'.next, phase |-> call'.phase]
  BY <1>1 DEF CallInv
<1>3. call.next \in 1..Len(Addresses) /\ Here = Addresses[call.next] /\ Len(Addresses) \in Nat
  BY HereIs, ConstantTypes
<1>4. CallInv' /\ result' = None
  BY <1>1, <1>2, <1>3 DEF CallInv
<1>5. MaxInv'
  <2>1. CASE maxFunds' = maxFunds
    BY <1>2, <2>1 DEF MaxInv
  <2>2. CASE maxFunds' = funds
    <3>1. /\ funds = Funds(funds.address, funds.requested, funds.actual, <<>>)
          /\ funds.requested = call.requested
      BY Shapes
    <3> QED  BY <1>2, <2>2, <3>1 DEF MaxInv
  <2> QED  BY <1>1, <2>1, <2>2
<1>6. SearchInv'
  <2> SUFFICES ASSUME call.requested > 0, changes = 0, NEW k \in 1..call.next,
                      NEW u \in listed, u.owner = Addresses[k]
               PROVE  ~(u.value >= call.requested)
    BY <1>2, <1>3 DEF SearchInv, Lacking, chain
  <2>1. CASE k = call.next
    BY <1>3, <2>1 DEF Lacking
  <2>2. CASE k # call.next
    <3>1. k \in 1..call.next - 1
      BY <1>3, <2>2
    <3> QED  BY <3>1 DEF SearchInv, Lacking
  <2> QED  BY <2>1, <2>2
<1> QED  BY <1>4, <1>5, <1>6

(* A call that returns has no more to keep.                                *)
LEMMA IdleKeeps ==
    ASSUME call' = Idle
    PROVE  CallInv' /\ MaxInv' /\ SearchInv'
BY DEF CallInv, MaxInv, SearchInv

(* obtain_funds at an address: the funds are returned, or the search goes  *)
(* on.                                                                     *)
LEMMA TryKeeps ==
    ASSUME PurseInv, call # Idle, call.next <= Len(Addresses), call.name \in Searches,
           TryToObtain, UNCHANGED chain
    PROVE  CallInv' /\ MaxInv' /\ SearchInv' /\ ResultInv'
<1> DEFINE f == obtain_funds(call.requested, Here)
<1>0. ChainInv /\ CallInv /\ MaxInv /\ SearchInv /\ call.requested \in Nat
  BY DEF PurseInv, CallInv
<1>1. /\ f = Funds(Here, call.requested, f.actual, f.points)
      /\ \A u \in ToSet(f.points) : u.owner = Here
      /\ f.actual >= call.requested => Total(f.points) = f.actual
      /\ ~(f.actual >= call.requested) => f.points = <<>>
      /\ call.requested > 0 /\ f.actual >= call.requested => f.points # <<>>
      /\ call.requested > 0 => (f.actual >= call.requested
            <=> \E u \in listed : u.owner = Here /\ u.value >= call.requested)
  BY <1>0, Obtained
<1>2. IF f.actual >= call.requested THEN Return(f) ELSE GoOn(f)
  BY DEF TryToObtain
<1> HIDE DEF f
<1>3. CASE f.actual >= call.requested
  <2>1. call' = Idle /\ result' = f
    BY <1>2, <1>3 DEF Return
  <2>2. /\ DOMAIN f = {"address", "requested", "actual", "points"}
        /\ f.requested = call.requested /\ f.address = Here
    BY <1>1, Shapes
  <2>3. ResultInv'
    BY <1>1, <1>3, <2>1, <2>2
       DEF ResultInv, FundsAreBacked, FirstOrRichest, SufficientOutputFound
  <2> QED  BY <2>1, <2>3, IdleKeeps
<1>4. CASE ~(f.actual >= call.requested)
  <2>1. GoOn(f) /\ f = Funds(Here, call.requested, f.actual, <<>>)
    BY <1>1, <1>2, <1>4
  <2>2. call.requested > 0 => Lacking(Here)
    BY <1>1, <1>4 DEF Lacking
  <2>3. CallInv' /\ MaxInv' /\ SearchInv' /\ result' = None
    BY <1>0, <1>4, <2>1, <2>2, GoOnKeeps
  <2> QED  BY <2>3, NoResult
<1> QED  BY <1>3, <1>4

(* An entry of one or of both maps is replaced or made.                    *)
LEMMA PutKeeps ==
    ASSUME MapInv, NEW a \in ToSet(Addresses), NEW v \in Nat, NEW list,
           \A u \in ToSet(list) : u.owner = a /\ u.value > 0,
           address_to_balance' \in {address_to_balance, Put(address_to_balance, a, v)},
           \/ address_to_utxos' = address_to_utxos
           \/ address_to_utxos' = Put(address_to_utxos, a, list)
              /\ a \in DOMAIN address_to_balance'
    PROVE  MapInv'
<1>1. /\ DOMAIN address_to_balance' \subseteq ToSet(Addresses)
      /\ \A b \in DOMAIN address_to_balance' : address_to_balance'[b] \in Nat
      /\ DOMAIN address_to_balance \subseteq DOMAIN address_to_balance'
  BY DEF MapInv, Put
<1>2. DOMAIN address_to_utxos' \subseteq DOMAIN address_to_balance'
  BY <1>1 DEF MapInv, Put
<1>3. ASSUME NEW b \in DOMAIN address_to_utxos', NEW u \in ToSet(address_to_utxos'[b])
      PROVE  u.owner = b /\ u.value > 0
  <2>1. CASE address_to_utxos' = address_to_utxos
    BY <1>3, <2>1 DEF MapInv
  <2>2. CASE address_to_utxos' = Put(address_to_utxos, a, list)
    <3>1. CASE b = a
      BY <1>3, <2>2, <3>1 DEF Put
    <3>2. CASE b # a
      <4>1. b \in DOMAIN address_to_utxos /\ address_to_utxos'[b] = address_to_utxos[b]
        BY <2>2, <3>2 DEF Put
      <4> QED  BY <1>3, <4>1 DEF MapInv
    <3> QED  BY <3>1, <3>2
  <2> QED  BY <2>1, <2>2
<1> QED  BY <1>1, <1>2, <1>3 DEF MapInv

(* A step that leaves all but the position or the phase of a call alone.   *)
LEMMA AdvanceKeeps ==
    ASSUME CallInv, MaxInv, SearchInv, call # Idle, call.next <= Len(Addresses),
           \/ call' = [call EXCEPT !.next = @ + 1] /\ call.name \notin Searches
           \/ call' = [call EXCEPT !.phase = "obtain"],
           UNCHANGED <<chain, maxFunds, result>>
    PROVE  CallInv' /\ MaxInv' /\ SearchInv' /\ ResultInv'
<1>1. call.next \in 1..Len(Addresses) /\ Len(Addresses) \in Nat
  BY HereIs, ConstantTypes
<1>2. /\ call'.name = call.name /\ call'.requested = call.requested
      /\ call' = [name |-> call'.name, requested |-> call'.requested,
                  next |-> call'.next, phase |-> call'.phase]
      /\ call'.next \in {call.next, call.next + 1}
      /\ call.name \in Searches => call'.next = call.next
  BY DEF CallInv
<1>3. CallInv' /\ result' = None
  BY <1>1, <1>2 DEF CallInv
<1>4. MaxInv'
  BY <1>2 DEF MaxInv
<1>5. SearchInv'
  BY <1>2 DEF SearchInv, Lacking, chain
<1> QED  BY <1>3, <1>4, <1>5, NoResult

(* One address of a call keeps the invariant.                              *)
LEMMA AddressKeeps == PurseInv /\ NextAddress => PurseInv'
<1> SUFFICES ASSUME PurseInv, NextAddress PROVE PurseInv'
  OBVIOUS
<1> DEFINE U == Owned(Here)  V == Confirmed(Here)
<1>0. /\ ChainInv /\ MapInv /\ CallInv /\ MaxInv /\ SearchInv
      /\ call # Idle /\ call.next <= Len(Addresses) /\ UNCHANGED chain
  BY DEF PurseInv, NextAddress
<1>1. ChainInv'
  BY <1>0 DEF ChainInv, chain
<1>2. Here \in ToSet(Addresses) /\ call.requested \in Nat
  BY <1>0, HereIs DEF CallInv
<1>3. Worth(V) \in Nat /\ \A u \in V : u.value \in Nat /\ u.value <= Worth(V)
  <2>1. IsFiniteSet(V) /\ \A u \in V : u.value \in Nat
    BY <1>0, OwnedIs
  <2> HIDE DEF V
  <2> QED  BY <2>1, WorthBounds
<1>4. ToSet(<<>>) = {}
  BY DEF ToSet
<1>5. CASE look_for_funds
  <2>1. MapInv' /\ call.name \in Searches /\ TryToObtain
    BY <1>0, <1>5 DEF look_for_funds, purse, MapInv, Searches
  <2> QED  BY <1>0, <1>1, <2>1, TryKeeps DEF PurseInv
<1>6. CASE look_for_funds_by_balance
  <2>1. call.name \in Searches /\ address_to_utxos' = address_to_utxos
    BY <1>6 DEF look_for_funds_by_balance, Searches
  <2>2. CASE TryToObtain /\ UNCHANGED address_to_balance
    <3>1. MapInv'
      BY <1>0, <2>1, <2>2 DEF MapInv
    <3> QED  BY <1>0, <1>1, <2>1, <2>2, <3>1, TryKeeps DEF PurseInv
  <2>3. CASE ~(TryToObtain /\ UNCHANGED address_to_balance)
    <3>1. /\ address_to_balance' = Put(address_to_balance, Here, Worth(V))
          /\ IF Worth(V) >= call.requested
             THEN /\ call' = [call EXCEPT !.phase = "obtain"]
                  /\ UNCHANGED <<maxFunds, result>>
             ELSE GoOn(Funds(Here, call.requested, Worth(V), <<>>))
      BY <1>6, <2>3 DEF look_for_funds_by_balance
    <3>2. MapInv'
      BY <1>0, <1>2, <1>3, <1>4, <2>1, <3>1, PutKeeps
    <3>3. CASE Worth(V) >= call.requested
      <4>1. CallInv' /\ MaxInv' /\ SearchInv' /\ ResultInv'
        BY <1>0, <3>1, <3>3, AdvanceKeeps
      <4> QED  BY <1>1, <3>2, <4>1 DEF PurseInv
    <3>4. CASE ~(Worth(V) >= call.requested)
      <4> DEFINE funds == Funds(Here, call.requested, Worth(V), <<>>)
      <4>1. GoOn(funds) /\ funds.actual = Worth(V)
        BY <3>1, <3>4, Shapes
      <4>2. ASSUME changes = 0, NEW u \in listed, u.owner = Here
            PROVE  ~(u.value >= call.requested)
        <5>1. u \in V
          BY <1>0, <4>2 DEF Confirmed, ChainInv
        <5>2. u.value \in Nat /\ u.value <= Worth(V)
          BY <1>3, <5>1
        <5> QED  BY <1>2, <1>3, <3>4, <5>2
      <4>3. changes = 0 => Lacking(Here)
        BY <4>2 DEF Lacking
      <4> HIDE DEF funds, V
      <4>4. funds = Funds(Here, call.requested, funds.actual, <<>>)
        BY <4>1 DEF funds
      <4>5. CallInv' /\ MaxInv' /\ SearchInv' /\ result' = None
        BY <1>0, <2>1, <3>4, <4>1, <4>3, <4>4, GoOnKeeps
      <4>6. ResultInv'
        BY <4>5, NoResult
      <4> QED  BY <1>1, <3>2, <4>5, <4>6 DEF PurseInv
    <3> QED  BY <3>3, <3>4
  <2> QED  BY <2>2, <2>3
<1>7. CASE scan_balances
  <2>1. /\ address_to_balance' = Put(address_to_balance, Here, Worth(V))
        /\ address_to_utxos' = address_to_utxos
        /\ call' = [call EXCEPT !.next = @ + 1] /\ call.name \notin Searches
        /\ UNCHANGED <<maxFunds, result>>
    BY <1>7 DEF scan_balances, Searches
  <2>2. MapInv'
    BY <1>0, <1>2, <1>3, <1>4, <2>1, PutKeeps
  <2>3. CallInv' /\ MaxInv' /\ SearchInv' /\ ResultInv'
    BY <1>0, <2>1, AdvanceKeeps
  <2> QED  BY <1>1, <2>2, <2>3 DEF PurseInv
<1>8. CASE find_utxos
  <2> DEFINE list == IF Known = <<>> THEN individual(U, 1) ELSE Known
  <2>1. /\ address_to_balance' = Put(address_to_balance, Here, Balance)
        /\ address_to_utxos' = IF Balance = 0 THEN address_to_utxos
                               ELSE Put(address_to_utxos, Here, list)
        /\ call' = [call EXCEPT !.next = @ + 1] /\ call.name \notin Searches
        /\ UNCHANGED <<maxFunds, result>>
    BY <1>8 DEF find_utxos, Searches
  <2>2. Balance \in Nat
    BY <1>0 DEF Balance, MapInv
  <2>3. \A u \in ToSet(list) : u.owner = Here /\ u.value > 0
    <3>1. CASE Known = <<>>
      <4>1. ToSet(individual(U, 1)) = {u \in U : u.value >= 1}
        BY <1>0, OwnedIs, IndividualIs
      <4>2. \A u \in U : u.owner = Here /\ u.value \in Nat
        BY <1>0, OwnedIs
      <4> QED  BY <3>1, <4>1, <4>2
    <3>2. CASE Known # <<>>
      BY <1>0, <3>2 DEF Known, MapInv
    <3> QED  BY <3>1, <3>2
  <2>4. Here \in DOMAIN Put(address_to_balance, Here, Balance)
    BY DEF Put
  <2> HIDE DEF list
  <2>5. MapInv'
    BY <1>0, <1>2, <2>1, <2>2, <2>3, <2>4, PutKeeps
  <2>6. CallInv' /\ MaxInv' /\ SearchInv' /\ ResultInv'
    BY <1>0, <2>1, AdvanceKeeps
  <2> QED  BY <1>1, <2>5, <2>6 DEF PurseInv
<1> QED  BY <1>5, <1>6, <1>7, <1>8 DEF NextAddress


-----------------------------------------------------------------------------
(* The scan of the balances for a richest address.                         *)
Nobody == FundsInfo("", 0, 0)
Scan(i) == address_to_balance[Addresses[i]]
Better(f, requested, i) ==
    IF Scan(i) >= f[i - 1].actual THEN FundsInfo(Addresses[i], requested, Scan(i))
    ELSE f[i - 1]
Best(f, requested) ==
    f = [i \in 0..Len(Addresses) |->
           IF i = 0 THEN Nobody ELSE Better(f, requested, i)]

(* Richest takes the value of that function at the last address.           *)
LEMMA RichestIs ==
    ASSUME NEW requested
    PROVE  Richest(requested) = (CHOOSE f : Best(f, requested))[Len(Addresses)]
BY DEF Richest, Best, Better, Scan, Nobody

(* The scan starts with an address that does not exist and has nothing.    *)
LEMMA NobodyIs ==
    /\ Nobody = FundsInfo(Nobody.address, Nobody.requested, Nobody.actual)
    /\ Nobody.actual = 0
<1>1. \A e : /\ FundsInfo(e, 0, 0).address = e /\ FundsInfo(e, 0, 0).requested = 0
              /\ FundsInfo(e, 0, 0).actual = 0
  BY Shapes
<1> QED  BY <1>1, Zenon DEF Nobody

(* There is such a function.                                               *)
LEMMA BestDefined ==
    ASSUME NEW requested
    PROVE  Best(CHOOSE f : Best(f, requested), requested)
<1> DEFINE n == Len(Addresses)
           Upto(f, m) == /\ f = [i \in 0..m |-> f[i]] /\ f[0] = Nobody
                         /\ \A i \in 1..m : f[i] = Better(f, requested, i)
           P == {m \in Nat : \E f : Upto(f, m)}
<1>0. n \in Nat
  BY ConstantTypes
<1>a. /\ \A m \in P : m \in Nat /\ \E f : Upto(f, m)
      /\ \A m \in Nat : (\E f : Upto(f, m)) => m \in P
  <2> HIDE DEF Upto
  <2> QED  OBVIOUS
<1>1. 0 \in P
  <2> DEFINE z == [i \in 0..0 |-> Nobody]
  <2>1. Upto(z, 0)
    OBVIOUS
  <2> HIDE DEF Upto, P, z
  <2> QED  BY <1>a, <2>1
<1> HIDE DEF P
<1>2. ASSUME NEW m \in P PROVE m + 1 \in P
  <2>1. m \in Nat /\ m + 1 \in Nat
    BY <1>a
  <2>2. PICK f : Upto(f, m)
    BY <1>a
  <2> DEFINE g == [i \in 0..m + 1 |-> IF i <= m THEN f[i] ELSE Better(f, requested, m + 1)]
  <2>3. (\A i \in 0..m : g[i] = f[i]) /\ g[m + 1] = Better(f, requested, m + 1)
    BY <2>1
  <2>4. g = [i \in 0..m + 1 |-> g[i]]
    OBVIOUS
  <2> HIDE DEF g
  <2>5. ASSUME NEW i \in 1..m + 1 PROVE g[i] = Better(g, requested, i)
    <3>1. i - 1 \in 0..m /\ g[i - 1] = f[i - 1]
      BY <2>1, <2>3
    <3>2. Better(g, requested, i) = Better(f, requested, i)
      BY <3>1 DEF Better
    <3>3. CASE i = m + 1
      BY <2>3, <3>2, <3>3
    <3>4. CASE i # m + 1
      <4>1. i \in 1..m /\ i \in 0..m
        BY <2>1, <3>4
      <4> QED  BY <2>2, <2>3, <3>2, <4>1
    <3> QED  BY <3>3, <3>4
  <2>6. g[0] = Nobody
    BY <2>1, <2>2, <2>3
  <2>7. Upto(g, m + 1)
    BY <2>4, <2>5, <2>6
  <2> HIDE DEF Upto
  <2> QED  BY <1>a, <2>1, <2>7
<1>3. P = Nat
  <2>1. P \in SUBSET Nat  BY DEF P
  <2> QED  BY <1>1, <1>2, <2>1, NatSetInduction
<1>4. PICK f : Upto(f, n)
  BY <1>0, <1>3, <1>a
<1>5. Best(f, requested)
  <2>1. \A i \in 0..n : i = 0 \/ i \in 1..n
    BY <1>0
  <2>2. \A i \in 0..n : f[i] = IF i = 0 THEN Nobody ELSE Better(f, requested, i)
    BY <1>4, <2>1
  <2> QED  BY <1>4, <2>2 DEF Best
<1> QED  BY <1>5

(* No address is richer than the one the scan ends with.                   *)
LEMMA RichestBounds ==
    ASSUME NEW requested \in Nat, \A k \in 1..Len(Addresses) : Scan(k) \in Nat
    PROVE  LET r == Richest(requested) IN
           /\ r = FundsInfo(r.address, r.requested, r.actual)
           /\ \A k \in 1..Len(Addresses) : Scan(k) <= r.actual /\ r.requested = requested
           /\ r \in AddressFundsInfo
<1> DEFINE n == Len(Addresses)  f == CHOOSE f : Best(f, requested)
           Right(i) == /\ f[i] = FundsInfo(f[i].address, f[i].requested, f[i].actual)
                       /\ f[i].actual \in Nat /\ f[i] \in AddressFundsInfo
                       /\ \A k \in 1..i : Scan(k) <= f[i].actual /\ f[i].requested = requested
           Q == {i \in Nat : i <= n => Right(i)}
<1>1. Richest(requested) = f[n] /\ n \in Nat
  BY RichestIs, ConstantTypes
<1>2. Best(f, requested)
  BY BestDefined
<1> HIDE DEF f
<1>3. f[0] = Nobody /\ \A i \in 1..n : f[i] = Better(f, requested, i)
  BY <1>1, <1>2 DEF Best
<1>4. 0 \in Q
  <2>0. Nobody \in AddressFundsInfo
    <3>1. 0 \in Nat
      OBVIOUS
    <3> QED  BY <3>1, FundsAre, Zenon DEF Nobody
  <2>1. Right(0)
    BY <1>3, <2>0, NobodyIs
  <2> HIDE DEF Right
  <2> QED  BY <2>1
<1>5. ASSUME NEW i \in Q PROVE i + 1 \in Q
  <2>1. i \in Nat /\ i + 1 \in Nat
    OBVIOUS
  <2> SUFFICES ASSUME i + 1 <= n PROVE Right(i + 1)
    <3> HIDE DEF Right
    <3> QED  BY <2>1
  <2>2. Right(i) /\ i + 1 \in 1..n /\ (i + 1) - 1 = i
    BY <1>1, <2>1
  <2>3. Scan(i + 1) \in Nat /\ f[i + 1] = Better(f, requested, i + 1)
    BY <1>3, <2>2
  <2>4. \A k \in 1..i + 1 : k = i + 1 \/ (k \in 1..i /\ k \in 1..n)
    BY <1>1, <2>1
  <2>5. CASE Scan(i + 1) >= f[i].actual
    <3>1. f[i + 1] = FundsInfo(Addresses[i + 1], requested, Scan(i + 1))
      BY <2>2, <2>3, <2>5 DEF Better
    <3>2. /\ f[i + 1] = FundsInfo(f[i + 1].address, f[i + 1].requested, f[i + 1].actual)
          /\ f[i + 1].requested = requested /\ f[i + 1].actual = Scan(i + 1)
      BY <3>1, Shapes
    <3>3. ASSUME NEW k \in 1..i + 1 PROVE Scan(k) <= Scan(i + 1)
      <4>1. f[i].actual \in Nat /\ \A j \in 1..i : Scan(j) <= f[i].actual
        BY <2>2
      <4> HIDE DEF Right
      <4> QED  BY <2>2, <2>3, <2>4, <2>5, <4>1
    <3>4. f[i + 1] \in AddressFundsInfo
      <4>1. Addresses[i + 1] \in ToSet(Addresses)
        BY <2>2, ConstantTypes
      <4> HIDE DEF Right
      <4> QED  BY <2>3, <3>1, <4>1, FundsAre
    <3> QED  BY <2>3, <3>2, <3>3, <3>4
  <2>6. CASE ~(Scan(i + 1) >= f[i].actual)
    <3>1. f[i + 1] = f[i]
      BY <2>2, <2>3, <2>6 DEF Better
    <3>2. i # 0
      <4>1. CASE i = 0
        BY <1>3, <2>3, <2>6, <4>1, NobodyIs
      <4> QED  BY <4>1
    <3>3. f[i].requested = requested
      <4>1. 1 \in 1..i
        BY <2>1, <3>2
      <4> QED  BY <2>2, <4>1
    <3>4. ASSUME NEW k \in 1..i + 1 PROVE Scan(k) <= f[i].actual
      BY <2>2, <2>3, <2>4, <2>6
    <3> QED  BY <2>2, <3>1, <3>3, <3>4
  <2> QED  BY <2>5, <2>6
<1>6. Q = Nat
  <2> HIDE DEF Q
  <2>1. Q \in SUBSET Nat  BY DEF Q
  <2> QED  BY <1>4, <1>5, <2>1, NatSetInduction
<1>7. Right(n)
  BY <1>1, <1>6
<1> QED  BY <1>1, <1>7

(* look_for_address_with_balance keeps the invariant.                      *)
LEMMA LookKeeps ==
    ASSUME PurseInv, NEW requested \in Nat, look_for_address_with_balance(requested)
    PROVE  PurseInv'
<1> DEFINE n == Len(Addresses)
           Unknown(a) == a \notin DOMAIN address_to_balance
           stops == {i \in 1..n : Unknown(Addresses[i]) \/ Scan(i) >= requested}
           known == {i \in DOMAIN Addresses : Addresses[i] \in DOMAIN address_to_balance}
           enough == {i \in known : Scan(i) >= result'.requested}
<1>1. /\ call' = Idle /\ UNCHANGED <<chain, address_to_balance, address_to_utxos>>
      /\ result' = IF stops = {} THEN Richest(requested)
                   ELSE IF Unknown(Addresses[Min(stops)]) THEN Exception("out_of_range")
                   ELSE FundsInfo(Addresses[Min(stops)], requested, Scan(Min(stops)))
  BY DEF look_for_address_with_balance, purse, Scan
<1>2. ChainInv' /\ MapInv'
  BY <1>1 DEF PurseInv, ChainInv, MapInv, chain
<1>3. CallInv' /\ MaxInv' /\ SearchInv'
  BY <1>1, IdleKeeps
<1>4. n \in Nat /\ DOMAIN Addresses = 1..n
  BY PurseAssumption
<1>5. \A k \in known : Scan(k) \in Nat
  BY DEF PurseInv, MapInv, Scan
<1>6. ASSUME result' = FundsInfo(result'.address, result'.requested, result'.actual),
             IF enough # {}
             THEN result'.address = Addresses[Min(enough)] /\ result'.actual = Scan(Min(enough))
             ELSE \A i \in known : Scan(i) <= result'.actual
      PROVE  PurseInv'
  <2>1. DOMAIN result' = {"address", "requested", "actual"}
    BY <1>6, Shapes
  <2>2. FirstOrRichest'
    BY <1>1, <1>6 DEF FirstOrRichest, Scan
  <2>3. ResultInv'
    BY <2>1, <2>2 DEF ResultInv, FundsAreBacked, SufficientOutputFound
  <2> QED  BY <1>2, <1>3, <2>3 DEF PurseInv
<1>7. CASE stops = {}
  <2>1. result' = Richest(requested)
    BY <1>1, <1>7
  <2>2. \A k \in 1..n : k \in known /\ ~(Scan(k) >= requested)
    BY <1>4, <1>7
  <2>3. \A k \in 1..n : Scan(k) \in Nat
    BY <1>5, <2>2
  <2>4. /\ result' = FundsInfo(result'.address, result'.requested, result'.actual)
        /\ \A k \in 1..n : Scan(k) <= result'.actual /\ result'.requested = requested
    BY <2>1, <2>3, RichestBounds
  <2>5. enough = {}
    BY <1>4, <2>2, <2>4
  <2> QED  BY <1>4, <1>6, <2>4, <2>5
<1>8. CASE stops # {}
  <2> DEFINE k == Min(stops)
  <2>1. k \in stops /\ \A j \in stops : k <= j
    <3>1. stops \in SUBSET Nat
      BY <1>4
    <3> HIDE DEF stops
    <3> QED  BY <1>8, <3>1, MinIs
  <2>2. CASE Unknown(Addresses[k])
    <3>1. result' = Exception("out_of_range")
      BY <1>1, <1>8, <2>2
    <3>2. ResultInv'
      BY <3>1, NoResult
    <3> QED  BY <1>2, <1>3, <3>2 DEF PurseInv
  <2>3. CASE ~Unknown(Addresses[k])
    <3>1. result' = FundsInfo(Addresses[k], requested, Scan(k))
      BY <1>1, <1>8, <2>3
    <3>2. /\ result' = FundsInfo(result'.address, result'.requested, result'.actual)
          /\ result'.address = Addresses[k] /\ result'.requested = requested
          /\ result'.actual = Scan(k)
      BY <3>1, Shapes
    <3>3. k \in enough
      BY <1>4, <2>1, <2>3, <3>2
    <3>4. enough \in SUBSET Nat /\ enough \subseteq stops
      BY <1>4, <3>2
    <3>5. Min(enough) \in enough /\ \A j \in enough : Min(enough) <= j
      <4> HIDE DEF enough
      <4> QED  BY <3>3, <3>4, MinIs
    <3>6. Min(enough) = k
      <4>1. Min(enough) \in Nat /\ k \in Nat /\ k <= Min(enough) /\ Min(enough) <= k
        BY <2>1, <3>3, <3>4, <3>5
      <4> QED  BY <4>1
    <3> QED  BY <1>6, <3>2, <3>3, <3>6
  <2> QED  BY <2>2, <2>3
<1> QED  BY <1>7, <1>8


-----------------------------------------------------------------------------
(* A call that begins has found nothing and passed nothing.                *)
LEMMA BeginKeeps ==
    ASSUME PurseInv, NEW name \in Names, NEW requested \in Nat, Begin(name, requested)
    PROVE  PurseInv'
<1>1. /\ call' = [name |-> name, requested |-> requested, next |-> 1, phase |-> "first"]
      /\ maxFunds' = NoFunds /\ result' = None
      /\ UNCHANGED <<chain, address_to_balance, address_to_utxos>>
  BY DEF Begin, purse
<1>2. ChainInv' /\ MapInv'
  BY <1>1 DEF PurseInv, ChainInv, MapInv, chain
<1>3. call'.name = name /\ call'.requested = requested /\ call'.next = 1
  BY <1>1
<1>4. CallInv'
  BY <1>1, <1>3, ConstantTypes DEF CallInv
<1>5. MaxInv'
  <2>1. \A e : /\ Funds(e, 0, 0, <<>>).address = e /\ Funds(e, 0, 0, <<>>).requested = 0
               /\ Funds(e, 0, 0, <<>>).actual = 0
    BY Shapes
  <2>2. /\ NoFunds = Funds(NoFunds.address, NoFunds.requested, NoFunds.actual, <<>>)
        /\ NoFunds.requested = 0
    BY <2>1, Zenon DEF NoFunds
  <2> QED  BY <1>1, <2>2 DEF MaxInv
<1>6. SearchInv'
  BY <1>1, <1>3 DEF SearchInv
<1>7. ResultInv'
  BY <1>1, NoResult
<1> QED  BY <1>2, <1>4, <1>5, <1>6, <1>7 DEF PurseInv

(* After the last address maxFunds is returned: it is not enough, and on a *)
(* chain that has not changed no address had an output worth the request.  *)
LEMMA AllSeenKeeps == PurseInv /\ AllSeen => PurseInv'
<1> SUFFICES ASSUME PurseInv, AllSeen PROVE PurseInv'
  OBVIOUS
<1>1. /\ call' = Idle /\ result' = maxFunds /\ call # Idle /\ call.next > Len(Addresses)
      /\ UNCHANGED <<chain, address_to_balance, address_to_utxos>>
  BY DEF AllSeen, Return, purse
<1>2. ChainInv' /\ MapInv'
  BY <1>1 DEF PurseInv, ChainInv, MapInv, chain
<1>3. CallInv' /\ MaxInv' /\ SearchInv'
  BY <1>1, IdleKeeps
<1>4. /\ maxFunds = Funds(maxFunds.address, maxFunds.requested, maxFunds.actual, <<>>)
      /\ \/ maxFunds.requested = 0
         \/ /\ call.name \in Searches /\ maxFunds.requested = call.requested
            /\ ~(maxFunds.actual >= maxFunds.requested)
  BY <1>1 DEF PurseInv, MaxInv
<1>5. /\ DOMAIN result' = {"address", "requested", "actual", "points"}
      /\ result'.points = <<>>
  BY <1>1, <1>4, Shapes
<1>6. FundsAreBacked' /\ FirstOrRichest'
  BY <1>1, <1>4, <1>5 DEF FundsAreBacked, FirstOrRichest
<1>7. SufficientOutputFound'
  <2> SUFFICES ASSUME maxFunds.requested > 0, changes = 0, NEW u \in unspent
               PROVE  ~(u.value >= maxFunds.requested)
    BY <1>1, <1>5 DEF SufficientOutputFound, chain
  <2>1. call.name \in Searches /\ maxFunds.requested = call.requested
    BY <1>4
  <2>2. u.owner \in ToSet(Addresses) /\ u \in listed
    BY DEF PurseInv, ChainInv, Outputs
  <2>3. PICK k \in 1..Len(Addresses) : Addresses[k] = u.owner
    BY <2>2, ConstantTypes
  <2>4. k \in 1 .. call.next - 1
    BY <1>1, ConstantTypes DEF PurseInv, CallInv
  <2> QED  BY <1>1, <2>1, <2>2, <2>3, <2>4 DEF PurseInv, SearchInv, Lacking
<1> QED  BY <1>2, <1>3, <1>6, <1>7 DEF PurseInv, ResultInv

(* A request that fails ends the call with an exception; find_utxos has    *)
(* then entered an empty list.                                             *)
LEMMA FailureKeeps == PurseInv /\ RequestFails => PurseInv'
<1> SUFFICES ASSUME PurseInv, RequestFails PROVE PurseInv'
  OBVIOUS
<1>1. /\ call' = Idle /\ result' = Exception("invalid_argument")
      /\ call # Idle /\ call.next <= Len(Addresses)
      /\ UNCHANGED <<chain, address_to_balance>>
      /\ \/ address_to_utxos' = address_to_utxos
         \/ Balance > 0 /\ address_to_utxos' = Put(address_to_utxos, Here, <<>>)
  BY DEF RequestFails, Return
<1>2. CallInv' /\ MaxInv' /\ SearchInv' /\ ResultInv'
  BY <1>1, IdleKeeps, NoResult
<1>3. MapInv'
  <2>1. Here \in ToSet(Addresses)
    BY <1>1, HereIs DEF PurseInv
  <2>2. ToSet(<<>>) = {} /\ 0 \in Nat
    BY DEF ToSet
  <2>3. Balance > 0 => Here \in DOMAIN address_to_balance
    BY DEF Balance
  <2> QED  BY <1>1, <2>1, <2>2, <2>3, PutKeeps DEF PurseInv
<1>4. ChainInv'
  BY <1>1 DEF PurseInv, ChainInv, chain
<1> QED  BY <1>2, <1>3, <1>4 DEF PurseInv

(* The chain changes: what was returned stays what it was, and nothing is  *)
(* said any more of what a search has passed.                              *)
LEMMA ChangeKeeps ==
    ASSUME PurseInv,
           \/ \E a \in ToSet(Addresses), value \in Coins : Receive(a, value)
           \/ \E u \in unspent : Spend(u)
    PROVE  PurseInv'
<1>1. /\ changes < MaxChanges /\ changes' = changes + 1
      /\ UNCHANGED <<confirmed, listed, address_to_balance, address_to_utxos, call, maxFunds, result>>
  BY DEF Receive, Spend, purse
<1>2. changes' \in 0..MaxChanges /\ changes' # 0
  BY <1>1, ConstantTypes DEF PurseInv, ChainInv
<1>3. unspent' \subseteq Outputs /\ IsFiniteSet(unspent')
  <2>1. CASE \E a \in ToSet(Addresses), value \in Coins : Receive(a, value)
    <3>1. PICK a \in ToSet(Addresses), value \in Coins : Receive(a, value)
      BY <2>1
    <3> DEFINE u == [id |-> changes + 1, owner |-> a, value |-> value]
    <3>2. unspent' = unspent \cup {u}
      BY <3>1 DEF Receive
    <3>3. u \in Outputs
      BY ConstantTypes DEF PurseInv, ChainInv, Outputs
    <3> HIDE DEF u
    <3>4. IsFiniteSet(unspent \cup {u})
      BY FS_AddElement DEF PurseInv, ChainInv
    <3> QED  BY <3>2, <3>3, <3>4 DEF PurseInv, ChainInv
  <2>2. CASE \E u \in unspent : Spend(u)
    <3>1. unspent' \subseteq unspent
      BY <2>2 DEF Spend
    <3> QED  BY <3>1, FS_Subset DEF PurseInv, ChainInv
  <2> QED  BY <2>1, <2>2
<1>4. ChainInv'
  BY <1>1, <1>2, <1>3 DEF PurseInv, ChainInv
<1>5. MapInv' /\ CallInv' /\ MaxInv'
  BY <1>1 DEF PurseInv, MapInv, CallInv, MaxInv
<1>6. SearchInv'
  BY <1>2 DEF SearchInv
<1>7. FundsAreBacked' /\ FirstOrRichest' /\ SufficientOutputFound'
  BY <1>1, <1>2 DEF PurseInv, ResultInv, FundsAreBacked, FirstOrRichest, SufficientOutputFound
<1> QED  BY <1>4, <1>5, <1>6, <1>7 DEF PurseInv, ResultInv

(* A server learns of a change.                                            *)
LEMMA LearnKeeps ==
    ASSUME PurseInv,
           \/ \E u \in Missed(confirmed) : Confirm(u)
           \/ \E u \in Missed(listed) : List(u)
    PROVE  PurseInv'
<1>1. /\ UNCHANGED <<unspent, changes, address_to_balance, address_to_utxos, call,
                     maxFunds, result>>
      /\ \/ confirmed' = confirmed
         \/ \E u \in Missed(confirmed) : confirmed' = Learn(confirmed, u)
      /\ listed' = listed \/ \E u \in Missed(listed) : listed' = Learn(listed, u)
  BY DEF Confirm, List, purse
<1>2. ASSUME NEW view \in {confirmed, listed}, NEW u \in Missed(view)
      PROVE  /\ Learn(view, u) \subseteq Outputs /\ IsFiniteSet(Learn(view, u))
             /\ changes # 0
  <2>1. view \subseteq Outputs /\ IsFiniteSet(view) /\ unspent \subseteq Outputs
    BY DEF PurseInv, ChainInv
  <2>2. IsFiniteSet(view \cup {u}) /\ IsFiniteSet(view \ {u})
    BY <2>1, FS_AddElement, FS_Subset
  <2> QED  BY <2>1, <2>2 DEF Learn, Missed, PurseInv, ChainInv
<1>3. ChainInv' /\ (changes = 0 => listed' = listed)
  BY <1>1, <1>2 DEF PurseInv, ChainInv
<1>4. MapInv' /\ CallInv' /\ MaxInv'
  BY <1>1 DEF PurseInv, MapInv, CallInv, MaxInv
<1>5. SearchInv'
  BY <1>1, <1>3 DEF PurseInv, SearchInv, Lacking
<1>6. ResultInv'
  BY <1>1 DEF PurseInv, ResultInv, FundsAreBacked, FirstOrRichest, SufficientOutputFound
<1> QED  BY <1>3, <1>4, <1>5, <1>6 DEF PurseInv

(* The invariant holds of a new purse.                                     *)
LEMMA PurseInit == Init => PurseInv
<1> SUFFICES ASSUME Init PROVE PurseInv
  OBVIOUS
<1>1. ChainInv
  BY PurseAssumption DEF Init, ChainInv
<1>2. MapInv
  BY DEF Init, MapInv
<1>3. CallInv /\ MaxInv /\ SearchInv
  BY DEF Init, CallInv, MaxInv, SearchInv
<1>4. "points" \notin DOMAIN result /\ "actual" \notin DOMAIN result
  BY Shapes DEF Init
<1>5. ResultInv
  BY <1>4 DEF ResultInv, FundsAreBacked, FirstOrRichest, SufficientOutputFound
<1> QED  BY <1>1, <1>2, <1>3, <1>5 DEF PurseInv

(* Every step keeps the invariant.                                         *)
LEMMA PurseNext == PurseInv /\ [Next]_vars => PurseInv'
<1> SUFFICES ASSUME PurseInv, [Next]_vars PROVE PurseInv'
  OBVIOUS
<1>1. ASSUME NEW name \in Names, NEW requested \in Requests, Begin(name, requested)
      PROVE  PurseInv'
  BY <1>1, ConstantTypes, BeginKeeps
<1>2. ASSUME NEW requested \in Requests, look_for_address_with_balance(requested)
      PROVE  PurseInv'
  BY <1>2, ConstantTypes, LookKeeps
<1>3. ASSUME UNCHANGED vars PROVE PurseInv'
  <2>1. ChainInv' /\ MapInv' /\ CallInv' /\ MaxInv' /\ SearchInv'
    BY <1>3 DEF vars, chain, purse, PurseInv, ChainInv, MapInv, CallInv, MaxInv, SearchInv, Lacking
  <2>2. ResultInv'
    BY <1>3 DEF vars, chain, purse, PurseInv, ResultInv, FundsAreBacked, FirstOrRichest,
                SufficientOutputFound
  <2> QED  BY <2>1, <2>2 DEF PurseInv
<1> QED
  BY <1>1, <1>2, <1>3, AddressKeeps, AllSeenKeeps, FailureKeeps, ChangeKeeps,
     LearnKeeps DEF Next, Names, Searches

(* What calls return and keep is of the types the code declares.           *)
FundsType ==
    /\ maxFunds \in AddressFunds
    /\ \/ result \in AddressFunds \cup AddressFundsInfo \cup {None}
       \/ result = Exception("invalid_argument") \/ result = Exception("out_of_range")

(* Every step keeps the types.                                             *)
LEMMA FundsTypeNext == PurseInv /\ FundsType /\ [Next]_vars => FundsType'
<1> SUFFICES ASSUME PurseInv, FundsType, [Next]_vars PROVE FundsType'
  OBVIOUS
<1>0. <<>> \in Seq(Outputs)
  OBVIOUS
<1>1. ASSUME NEW name, NEW requested, Begin(name, requested) PROVE FundsType'
  <2>1. maxFunds' = Funds("", 0, 0, <<>>) /\ result' = None
    BY <1>1 DEF Begin, NoFunds
  <2>2. Funds("", 0, 0, <<>>) \in AddressFunds
    BY <1>0, FundsAre
  <2> QED  BY <2>1, <2>2 DEF FundsType
<1>2. CASE NextAddress
  <2>1. /\ ChainInv /\ Here \in ToSet(Addresses) /\ call.requested \in Nat
    BY <1>2, HereIs DEF NextAddress, PurseInv, CallInv
  <2>2. ASSUME NEW funds \in AddressFunds, Return(funds) \/ GoOn(funds) PROVE FundsType'
    BY <2>2 DEF FundsType, Return, GoOn
  <2>3. CASE TryToObtain
    <3> DEFINE f == obtain_funds(call.requested, Here)
    <3>1. /\ f = Funds(Here, call.requested, f.actual, f.points)
          /\ f.actual \in Nat /\ f.points \in Seq(Outputs)
      BY <2>1, Obtained
    <3>2. Return(f) \/ GoOn(f)
      BY <2>3 DEF TryToObtain
    <3> HIDE DEF f
    <3>3. f \in AddressFunds
      BY <2>1, <3>1, FundsAre
    <3> QED  BY <2>2, <3>2, <3>3
  <2>4. CASE \E balance : /\ balance = Worth(Confirmed(Here))
                          /\ GoOn(Funds(Here, call.requested, balance, <<>>))
    <3>1. Worth(Confirmed(Here)) \in Nat
      BY <2>1, OwnedIs, WorthBounds
    <3>2. Funds(Here, call.requested, Worth(Confirmed(Here)), <<>>) \in AddressFunds
      BY <1>0, <2>1, <3>1, FundsAre
    <3> QED  BY <2>2, <2>4, <3>2
  <2>5. CASE UNCHANGED <<maxFunds, result>>
    BY <2>5 DEF FundsType
  <2> QED
    BY <1>2, <2>3, <2>4, <2>5 DEF NextAddress, look_for_funds,
       look_for_funds_by_balance, scan_balances, find_utxos
<1>3. CASE AllSeen \/ RequestFails
  BY <1>3 DEF AllSeen, RequestFails, Return, FundsType
<1>4. ASSUME NEW requested \in Requests, look_for_address_with_balance(requested)
      PROVE  FundsType'
  <2> DEFINE n == Len(Addresses)
             stops == {i \in 1..n : \/ Addresses[i] \notin DOMAIN address_to_balance
                                   \/ Scan(i) >= requested}
             at == Addresses[Min(stops)]
  <2>1. /\ maxFunds' = maxFunds
        /\ stops = {} => result' = Richest(requested)
        /\ stops # {} => \/ result' = Exception("out_of_range")
                         \/ /\ at \in DOMAIN address_to_balance
                            /\ result' = FundsInfo(at, requested, address_to_balance[at])
    BY <1>4 DEF look_for_address_with_balance, Scan
  <2>2. requested \in Nat /\ MapInv
    BY ConstantTypes DEF PurseInv
  <2>3. CASE stops = {}
    <3>1. \A k \in 1..n : Scan(k) \in Nat
      BY <2>2, <2>3 DEF MapInv, Scan
    <3> QED  BY <2>1, <2>2, <2>3, <3>1, RichestBounds DEF FundsType
  <2>4. CASE stops # {}
    <3> HIDE DEF at, stops
    <3>1. at \in DOMAIN address_to_balance =>
            /\ at \in ToSet(Addresses) /\ address_to_balance[at] \in Nat
      BY <2>2 DEF MapInv
    <3>2. at \in DOMAIN address_to_balance =>
            FundsInfo(at, requested, address_to_balance[at]) \in AddressFundsInfo
      BY <2>2, <3>1, FundsAre
    <3> QED  BY <2>1, <2>4, <3>2 DEF FundsType
  <2> QED  BY <2>3, <2>4
<1>5. CASE \/ \E a \in ToSet(Addresses), value \in Coins : Receive(a, value)
           \/ \E u \in unspent : Spend(u)
           \/ \E u \in Missed(confirmed) : Confirm(u)
           \/ \E u \in Missed(listed) : List(u)
           \/ UNCHANGED vars
  <2>1. UNCHANGED <<maxFunds, result>>
    BY <1>5 DEF Receive, Spend, Confirm, List, vars
  <2> QED  BY <2>1 DEF FundsType
<1> QED  BY <1>1, <1>2, <1>3, <1>4, <1>5 DEF Next

(* The maps are about the wallet's addresses and list each address's own   *)
(* outputs, a call stays within its addresses, and what it returns is      *)
(* funds, or information on funds, of one of them.                         *)
THEOREM PurseTypeCorrect == Spec => []TypeOK
<1>1. PurseInv /\ FundsType => TypeOK
  BY DEF PurseInv, ChainInv, MapInv, CallInv, FundsType, TypeOK
<1>2. Init => FundsType
  <2> SUFFICES ASSUME Init PROVE FundsType
    OBVIOUS
  <2>0. <<>> \in Seq(Outputs) /\ 0 \in Nat
    OBVIOUS
  <2>1. Funds("", 0, 0, <<>>) \in AddressFunds
    BY <2>0, FundsAre
  <2> QED  BY <2>1 DEF Init, NoFunds, FundsType
<1> QED  BY <1>1, <1>2, PurseInit, PurseNext, FundsTypeNext, PTL DEF Spec

(* Funds that a search returns as enough come with outputs of the address  *)
(* that are worth them, for any wallet, any requests and any changes of    *)
(* the chain between the requests of a search.                             *)
THEOREM FundsComeWithOutputs == Spec => []FundsAreBacked
<1>1. PurseInv => FundsAreBacked
  BY DEF PurseInv, ResultInv
<1> QED  BY <1>1, PurseInit, PurseNext, PTL DEF Spec

(* look_for_address_with_balance returns the first address whose scanned   *)
(* balance is enough, and a richest one if there is none, for any number   *)
(* of addresses and any balances.                                          *)
THEOREM FirstOrRichestReturned == Spec => []FirstOrRichest
<1>1. PurseInv => FirstOrRichest
  BY DEF PurseInv, ResultInv
<1> QED  BY <1>1, PurseInit, PurseNext, PTL DEF Spec

(* On a chain that does not change and both servers know, a search finds   *)
(* funds if one output of the wallet is worth the request, for any number  *)
(* of addresses and outputs and whatever their sum is modulo 2^64.         *)
THEOREM SufficientOutputsAreFound == Spec => []SufficientOutputFound
<1>1. PurseInv => SufficientOutputFound
  BY DEF PurseInv, ResultInv
<1> QED  BY <1>1, PurseInit, PurseNext, PTL DEF Spec
=============================================================================
