---------------------------- MODULE PaymentsProofs ----------------------------
(***************************************************************************)
(* What the two online creators promise of the money they move, for any    *)
(* arguments, wallets and changes of the chain while they work.            *)
(***************************************************************************)
EXTENDS Payments, TLAPS, FiniteSetTheorems, WellFoundedInduction

(* A set of naturals that is not empty has a least element, and Min is it. *)
LEMMA MinIs ==
    ASSUME NEW T \in SUBSET Nat, T # {}
    PROVE  Min(T) \in T /\ \A y \in T : Min(T) <= y
<1> DEFINE R == {ss \in Nat \X Nat : ss[1] < ss[2]}
<1>1. IsWellFoundedOn(R, Nat)
  BY NatLessThanWellFounded, Zenon DEF OpToRel
<1>2. PICK x \in T : \A y \in T : ~ (<<y, x>> \in R)
  <2> HIDE DEF R
  <2> QED  BY <1>1, WFMin, Zenon
<1>3. ASSUME NEW y \in T PROVE x <= y
  <2>1. <<y, x>> \in Nat \X Nat /\ <<y, x>>[1] = y /\ <<y, x>>[2] = x
    OBVIOUS
  <2>2. ~ (y < x)
    BY <1>2, <2>1
  <2> QED  BY <2>2
<1> QED  BY <1>3 DEF Min

(* Induction over the naturals, for a set of them.                         *)
LEMMA NatSetInduction ==
    ASSUME NEW P \in SUBSET Nat, 0 \in P, \A n \in P : n + 1 \in P
    PROVE  P = Nat
<1> SUFFICES ASSUME Nat \ P # {} PROVE FALSE
  OBVIOUS
<1>1. PICK x \in Nat \ P : \A y \in Nat \ P : x <= y
  BY MinIs
<1>2. x # 0 /\ x - 1 \in Nat /\ x - 1 \in P
  BY <1>1
<1> QED  BY <1>1, <1>2

(* A set without one of its elements.                                      *)
LEMMA CountOneLess ==
    ASSUME NEW S, NEW x \in S, NEW n \in Nat, IsFiniteSet(S), Cardinality(S) = n + 1
    PROVE  IsFiniteSet(S \ {x}) /\ Cardinality(S \ {x}) = n
<1>1. IsFiniteSet(S \ {x}) /\ Cardinality(S \ {x}) = Cardinality(S) - 1
  BY FS_RemoveElement
<1> QED  BY <1>1

(* Induction over the subsets of a finite set.                             *)
LEMMA SubsetInduction ==
    ASSUME NEW S, IsFiniteSet(S), NEW P \in SUBSET SUBSET S, {} \in P,
           \A T \in P : \A x \in S \ T : T \cup {x} \in P
    PROVE  S \in P
<1> DEFINE N == {n \in Nat : \A T \in SUBSET S :
                               IsFiniteSet(T) /\ Cardinality(T) = n => T \in P}
<1>1. 0 \in N
  BY FS_EmptySet
<1>2. ASSUME NEW n \in N PROVE n + 1 \in N
  <2> SUFFICES ASSUME NEW T \in SUBSET S, IsFiniteSet(T), Cardinality(T) = n + 1
               PROVE  T \in P
    OBVIOUS
  <2>1. T # {}
    BY FS_EmptySet
  <2>2. PICK x : x \in T
    BY <2>1
  <2>3. IsFiniteSet(T \ {x}) /\ Cardinality(T \ {x}) = n
    BY <2>2, CountOneLess
  <2>4. T \ {x} \in P
    BY <2>3
  <2>5. T = (T \ {x}) \cup {x} /\ x \in S \ (T \ {x})
    BY <2>2
  <2> QED  BY <2>4, <2>5
<1>3. N = Nat
  <2> HIDE DEF N
  <2>1. N \in SUBSET Nat
    BY DEF N
  <2> QED  BY <1>1, <1>2, <2>1, NatSetInduction
<1>4. Cardinality(S) \in N
  BY <1>3, FS_CardinalityType
<1> QED  BY <1>4

-----------------------------------------------------------------------------
(* What a set of outputs is worth.                                         *)
AnyOf(s) == CHOOSE x \in s : TRUE
Rest(s) == s \ {AnyOf(s)}
Sums(f, S) == f = [s \in SUBSET S |-> IF s = {} THEN 0 ELSE AnyOf(s).value + f[Rest(s)]]

(* Value takes the value of that function at the whole set.                *)
LEMMA ValueIs ==
    ASSUME NEW S
    PROVE  Value(S) = (CHOOSE f : Sums(f, S))[S]
BY DEF Value, MapThenSumSet, MapThenFoldSet, Sums, AnyOf, Rest

(* An output that is taken first is one of the set.                        *)
LEMMA RestIs ==
    ASSUME NEW S, NEW s \in SUBSET S, s # {}
    PROVE  AnyOf(s) \in s /\ Rest(s) \in SUBSET S /\ Rest(s) \subseteq s
<1>1. AnyOf(s) \in s
  BY Zenon DEF AnyOf
<1> QED  BY <1>1 DEF Rest

(* There is such a function for every finite set.                          *)
LEMMA SumsDefined ==
    ASSUME NEW S, IsFiniteSet(S)
    PROVE  Sums(CHOOSE f : Sums(f, S), S)
<1> DEFINE Sub(n) == {s \in SUBSET S : Cardinality(s) <= n}
           Next1(f, s) == IF s = {} THEN 0 ELSE AnyOf(s).value + f[Rest(s)]
           Upto(f, n) == f = [s \in Sub(n) |-> Next1(f, s)]
           P == {n \in Nat : \E f : Upto(f, n)}
<1>0. \A s \in SUBSET S : IsFiniteSet(s) /\ Cardinality(s) \in Nat
  BY FS_Subset, FS_CardinalityType
<1>1. 0 \in P
  <2> DEFINE z == [s \in Sub(0) |-> 0]
  <2>1. \A s \in Sub(0) : s = {}
    BY <1>0, FS_EmptySet
  <2>2. Upto(z, 0)
    BY <2>1
  <2> QED  BY <2>2
<1>2. ASSUME NEW n \in P PROVE n + 1 \in P
  <2>1. PICK f : Upto(f, n)
    OBVIOUS
  <2> DEFINE g == [s \in Sub(n + 1) |-> Next1(f, s)]
  <2>2. n \in Nat /\ \A s \in Sub(n) : s \in Sub(n + 1)
    BY <1>0
  <2>3. \A s \in Sub(n) : g[s] = f[s]
    <3> HIDE DEF Next1, Sub
    <3>1. \A s \in Sub(n) : f[s] = Next1(f, s)
      BY <2>1
    <3> QED  BY <2>2, <3>1
  <2>4. ASSUME NEW s \in Sub(n + 1), s # {} PROVE Rest(s) \in Sub(n)
    <3>1. AnyOf(s) \in s /\ Rest(s) \in SUBSET S /\ IsFiniteSet(s)
      BY <1>0, <2>4, RestIs
    <3>2. Cardinality(Rest(s)) = Cardinality(s) - 1
      BY <3>1, FS_RemoveElement DEF Rest
    <3> QED  BY <1>0, <2>2, <3>1, <3>2
  <2>5. \A s \in Sub(n + 1) : Next1(g, s) = Next1(f, s)
    <3> HIDE DEF Sub, g
    <3> QED  BY <2>3, <2>4
  <2>6. Upto(g, n + 1)
    <3>1. \A s \in Sub(n + 1) : g[s] = Next1(g, s)
      <4> HIDE DEF Next1, Sub
      <4> QED  BY <2>5
    <3> HIDE DEF Next1, Sub
    <3> QED  BY <3>1
  <2> HIDE DEF g, Upto
  <2> QED  BY <2>2, <2>6
<1>3. P = Nat
  <2> HIDE DEF P
  <2>1. P \in SUBSET Nat
    BY DEF P
  <2> QED  BY <1>1, <1>2, <2>1, NatSetInduction
<1>4. Cardinality(S) \in P
  BY <1>0, <1>3
<1>5. PICK f : Upto(f, Cardinality(S))
  BY <1>4
<1>6. \A s \in SUBSET S : Cardinality(s) <= Cardinality(S)
  BY FS_Subset
<1>7. Sub(Cardinality(S)) = SUBSET S
  BY <1>6
<1>8. Sums(f, S)
  <2> HIDE DEF Sub
  <2> QED  BY <1>5, <1>7 DEF Sums
<1> QED  BY <1>8

(* The sums over the subsets of a part are those over the subsets of the   *)
(* whole.                                                                  *)
LEMMA SumsAgree ==
    ASSUME NEW S, NEW T \in SUBSET S, IsFiniteSet(S), NEW f, NEW g, Sums(f, S), Sums(g, T)
    PROVE  \A R \in SUBSET T : f[R] = g[R]
<1> DEFINE P == {n \in Nat : \A R \in SUBSET T : Cardinality(R) = n => f[R] = g[R]}
<1>0. \A R \in SUBSET T : R \in SUBSET S /\ IsFiniteSet(R) /\ Cardinality(R) \in Nat
  BY FS_Subset, FS_CardinalityType
<1>1. 0 \in P
  <2>1. \A R \in SUBSET T : Cardinality(R) = 0 => R = {}
    BY <1>0, FS_EmptySet
  <2>2. f[{}] = 0 /\ g[{}] = 0
    BY DEF Sums
  <2> QED  BY <2>1, <2>2
<1>2. ASSUME NEW n \in P PROVE n + 1 \in P
  <2> SUFFICES ASSUME NEW R \in SUBSET T, Cardinality(R) = n + 1 PROVE f[R] = g[R]
    OBVIOUS
  <2>1. R # {} /\ n \in Nat
    BY FS_EmptySet
  <2>2. AnyOf(R) \in R /\ Rest(R) \in SUBSET T /\ Rest(R) \in SUBSET S
    BY <1>0, <2>1, RestIs
  <2>3. Cardinality(Rest(R)) = n
    BY <1>0, <2>1, <2>2, CountOneLess DEF Rest
  <2>4. f[Rest(R)] = g[Rest(R)]
    BY <2>2, <2>3
  <2>5. f[R] = AnyOf(R).value + f[Rest(R)] /\ g[R] = AnyOf(R).value + g[Rest(R)]
    BY <1>0, <2>1 DEF Sums
  <2> QED  BY <2>4, <2>5
<1>3. P = Nat
  <2> HIDE DEF P
  <2>1. P \in SUBSET Nat
    BY DEF P
  <2> QED  BY <1>1, <1>2, <2>1, NatSetInduction
<1> QED  BY <1>0, <1>3

(* Value as a recursion: nothing is worth nothing, and what is taken first *)
(* adds its value to the worth of the rest.                                *)
LEMMA ValueTake ==
    ASSUME NEW S, IsFiniteSet(S)
    PROVE  Value(S) = IF S = {} THEN 0 ELSE AnyOf(S).value + Value(Rest(S))
<1> DEFINE f == CHOOSE f : Sums(f, S)  g == CHOOSE g : Sums(g, Rest(S))
<1>1. Sums(f, S) /\ Value(S) = f[S]
  BY SumsDefined, ValueIs
<1>2. CASE S = {}
  BY <1>1, <1>2 DEF Sums
<1>3. CASE S # {}
  <2>1. Rest(S) \in SUBSET S /\ IsFiniteSet(Rest(S))
    BY <1>3, RestIs, FS_Subset
  <2>2. Sums(g, Rest(S)) /\ Value(Rest(S)) = g[Rest(S)]
    BY <2>1, SumsDefined, ValueIs
  <2> HIDE DEF f, g
  <2>3. f[Rest(S)] = g[Rest(S)]
    BY <1>1, <2>1, <2>2, SumsAgree
  <2>4. f[S] = AnyOf(S).value + f[Rest(S)]
    BY <1>1, <1>3 DEF Sums
  <2> QED  BY <1>1, <1>3, <2>2, <2>3, <2>4
<1> QED  BY <1>2, <1>3

(* Nothing is worth nothing.                                               *)
LEMMA ValueEmpty == Value({}) = 0
BY ValueTake, FS_EmptySet

Priced(S) == IsFiniteSet(S) /\ \A u \in S : u.value \in Nat

(* A part of such a set is one.                                            *)
LEMMA PricedPart ==
    ASSUME NEW S, NEW T \in SUBSET S, Priced(S)
    PROVE  Priced(T)
BY FS_Subset DEF Priced

(* The worth of a set of outputs is a natural number.                      *)
LEMMA ValueNat ==
    ASSUME NEW S, Priced(S)
    PROVE  Value(S) \in Nat
<1> DEFINE P == {n \in Nat : \A R \in SUBSET S : Cardinality(R) = n => Value(R) \in Nat}
<1>0. \A R \in SUBSET S : IsFiniteSet(R) /\ Cardinality(R) \in Nat /\ \A u \in R : u.value \in Nat
  BY FS_Subset, FS_CardinalityType DEF Priced
<1>1. 0 \in P
  BY <1>0, FS_EmptySet, ValueEmpty
<1>2. ASSUME NEW n \in P PROVE n + 1 \in P
  <2> SUFFICES ASSUME NEW R \in SUBSET S, Cardinality(R) = n + 1 PROVE Value(R) \in Nat
    OBVIOUS
  <2>1. R # {} /\ n \in Nat
    BY FS_EmptySet
  <2>2. AnyOf(R) \in R /\ AnyOf(R).value \in Nat /\ Rest(R) \in SUBSET S
    BY <1>0, <2>1, RestIs
  <2>3. Cardinality(Rest(R)) = n
    BY <1>0, <2>1, <2>2, CountOneLess DEF Rest
  <2>4. Value(Rest(R)) \in Nat
    BY <2>2, <2>3
  <2> QED  BY <1>0, <2>1, <2>2, <2>4, ValueTake
<1>3. P = Nat
  <2> HIDE DEF P
  <2>1. P \in SUBSET Nat
    BY DEF P
  <2> QED  BY <1>1, <1>2, <2>1, NatSetInduction
<1> QED  BY <1>0, <1>3

(* Whatever is taken away first, Value counts it once: the order in which  *)
(* the outputs are added does not matter.                                  *)
LEMMA ValueStep ==
    ASSUME NEW S, Priced(S)
    PROVE  \A x \in S : Value(S) = x.value + Value(S \ {x})
<1> DEFINE Right(R) == \A x \in R : Value(R) = x.value + Value(R \ {x})
           P == {n \in Nat : \A R \in SUBSET S : Cardinality(R) = n => Right(R)}
<1>0. \A R \in SUBSET S : /\ IsFiniteSet(R) /\ Cardinality(R) \in Nat /\ Value(R) \in Nat
                          /\ \A u \in R : u.value \in Nat
  BY PricedPart, ValueNat, FS_CardinalityType DEF Priced
<1>1. 0 \in P
  BY <1>0, FS_EmptySet
<1>2. ASSUME NEW n \in P PROVE n + 1 \in P
  <2> SUFFICES ASSUME NEW R \in SUBSET S, Cardinality(R) = n + 1, NEW x \in R
               PROVE  Value(R) = x.value + Value(R \ {x})
    OBVIOUS
  <2>1. R # {} /\ n \in Nat
    BY FS_EmptySet
  <2> DEFINE a == AnyOf(R)
  <2>2. a \in R /\ a.value \in Nat /\ Rest(R) = R \ {a}
    BY <1>0, <2>1, RestIs DEF Rest
  <2>3. Value(R) = a.value + Value(R \ {a})
    BY <1>0, <2>1, <2>2, ValueTake
  <2> HIDE DEF a
  <2>4. \A y \in R : R \ {y} \in SUBSET S /\ Right(R \ {y})
    <3> HIDE DEF Right
    <3>1. \A y \in R : Cardinality(R \ {y}) = n
      BY <1>0, <2>1, CountOneLess
    <3> QED  BY <3>1
  <2>5. CASE x = a
    BY <2>3, <2>5
  <2>6. CASE x # a
    <3>1. Value(R \ {a}) = x.value + Value((R \ {a}) \ {x})
      BY <2>2, <2>4, <2>6
    <3>2. Value(R \ {x}) = a.value + Value((R \ {x}) \ {a})
      BY <2>2, <2>4, <2>6
    <3>3. (R \ {a}) \ {x} = (R \ {x}) \ {a} /\ (R \ {x}) \ {a} \in SUBSET S
      OBVIOUS
    <3>4. Value((R \ {x}) \ {a}) \in Nat /\ x.value \in Nat
      BY <1>0, <3>3
    <3>5. Value(R) = a.value + (x.value + Value((R \ {x}) \ {a}))
      BY <2>3, <3>1, <3>3, Zenon
    <3> DEFINE v == Value((R \ {x}) \ {a})
    <3> HIDE DEF v
    <3>6. a.value + (x.value + v) = x.value + (a.value + v)
      BY <2>2, <3>4 DEF v
    <3> QED  BY <3>2, <3>5, <3>6, Zenon DEF v
  <2> QED  BY <2>5, <2>6
<1>3. P = Nat
  <2> HIDE DEF P
  <2>1. P \in SUBSET Nat
    BY DEF P
  <2> QED  BY <1>1, <1>2, <2>1, NatSetInduction
<1> QED  BY <1>0, <1>3

(* One more output adds its value.                                         *)
LEMMA ValueAdd ==
    ASSUME NEW S, Priced(S), NEW x, x \notin S, x.value \in Nat
    PROVE  Priced(S \cup {x}) /\ Value(S \cup {x}) = Value(S) + x.value
<1>1. Priced(S \cup {x})
  BY FS_AddElement DEF Priced
<1>2. (S \cup {x}) \ {x} = S
  OBVIOUS
<1>3. Value(S \cup {x}) = x.value + Value(S)
  BY <1>1, <1>2, ValueStep
<1>4. Value(S) \in Nat
  BY ValueNat
<1> QED  BY <1>1, <1>3, <1>4

(* Two sets of outputs that have none in common are together worth the sum.*)
LEMMA ValueUnion ==
    ASSUME NEW A, NEW B, Priced(A), Priced(B), A \cap B = {}
    PROVE  Priced(A \cup B) /\ Value(A \cup B) = Value(A) + Value(B)
<1> DEFINE P == {T \in SUBSET B : /\ Priced(A \cup T)
                                  /\ Value(A \cup T) = Value(A) + Value(T)}
<1>1. {} \in P
  <2>1. A \cup {} = A
    OBVIOUS
  <2> QED  BY <2>1, ValueNat, ValueEmpty
<1>2. ASSUME NEW T \in P, NEW x \in B \ T PROVE T \cup {x} \in P
  <2>1. x \notin A \cup T /\ x.value \in Nat /\ A \cup (T \cup {x}) = (A \cup T) \cup {x}
    BY DEF Priced
  <2>2. Priced(T)
    BY PricedPart
  <2>3. Priced((A \cup T) \cup {x}) /\ Value((A \cup T) \cup {x}) = Value(A \cup T) + x.value
    BY <2>1, ValueAdd
  <2>4. Value(T \cup {x}) = Value(T) + x.value
    BY <2>1, <2>2, ValueAdd
  <2>5. Value(A) \in Nat /\ Value(T) \in Nat
    BY <2>2, ValueNat
  <2> QED  BY <2>1, <2>3, <2>4, <2>5
<1>3. B \in P
  <2> HIDE DEF P
  <2>1. P \in SUBSET SUBSET B
    BY DEF P
  <2> QED  BY <1>1, <1>2, <2>1, SubsetInduction DEF Priced
<1> QED  BY <1>3

(* A part is worth the whole without what is left, so no more than it.     *)
LEMMA ValuePart ==
    ASSUME NEW S, NEW T \in SUBSET S, Priced(S)
    PROVE  /\ Value(S) \in Nat /\ Value(T) \in Nat /\ Value(S \ T) \in Nat
           /\ Value(S) = Value(T) + Value(S \ T) /\ Value(T) <= Value(S)
<1>1. Priced(T) /\ Priced(S \ T) /\ T \cap (S \ T) = {} /\ T \cup (S \ T) = S
  BY PricedPart
<1>2. Value(S) = Value(T) + Value(S \ T)
  BY <1>1, ValueUnion
<1>3. Value(S) \in Nat /\ Value(T) \in Nat /\ Value(S \ T) \in Nat
  BY <1>1, ValueNat
<1> QED  BY <1>2, <1>3

(* Outputs of value 0 are worth nothing.                                   *)
LEMMA ValueZero ==
    ASSUME NEW S, IsFiniteSet(S), \A u \in S : u.value = 0
    PROVE  Value(S) = 0
<1> DEFINE P == {T \in SUBSET S : Value(T) = 0}
<1>0. Priced(S)
  BY DEF Priced
<1>1. {} \in P
  BY ValueEmpty
<1>2. ASSUME NEW T \in P, NEW x \in S \ T PROVE T \cup {x} \in P
  <2>1. Priced(T) /\ x.value = 0
    BY <1>0, PricedPart
  <2>2. Value(T \cup {x}) = Value(T) + x.value
    BY <2>1, ValueAdd
  <2> QED  BY <2>1, <2>2
<1>3. S \in P
  <2> HIDE DEF P
  <2>1. P \in SUBSET SUBSET S
    BY DEF P
  <2> QED  BY <1>1, <1>2, <2>1, SubsetInduction
<1> QED  BY <1>3

(* So the outputs that are worth something are worth as much as all.       *)
LEMMA ValueOfValued ==
    ASSUME NEW S, Priced(S)
    PROVE  Value({u \in S : u.value > 0}) = Value(S)
<1> DEFINE T == {u \in S : u.value > 0}
<1>1. Priced(S \ T) /\ \A u \in S \ T : u.value = 0
  BY PricedPart DEF Priced
<1>2. Value(S \ T) = 0
  BY <1>1, ValueZero DEF Priced
<1>3. T \in SUBSET S
  OBVIOUS
<1> HIDE DEF T
<1>4. Value(S) = Value(T) + Value(S \ T) /\ Value(T) \in Nat
  BY <1>3, ValuePart
<1>5. Value(S) = Value(T)
  BY <1>2, <1>4
<1> QED  BY <1>5 DEF T

-----------------------------------------------------------------------------
(* Lists of outputs.                                                       *)

Steps(n, A) == [(1..n) \X A -> A]
Runs(f, n, A, a, step) ==
    f \in [0..n -> A] /\ f[0] = a /\ \A i \in 1..n : f[i] = step[<<i, f[i - 1]>>]

(* A function that is defined by recursion over the positions of a list,   *)
(* the way the loops of find_funds go, exists.                             *)
LEMMA Recursion ==
    ASSUME NEW n \in Nat, NEW A, NEW a \in A, NEW step \in Steps(n, A)
    PROVE  \E f : Runs(f, n, A, a, step)
<1> USE DEF Steps
<1> DEFINE Upto(f, m) == /\ f \in [0..m -> A] /\ f[0] = a
                         /\ \A i \in 1..m : f[i] = step[<<i, f[i - 1]>>]
           P == {m \in Nat : m <= n => \E f : Upto(f, m)}
<1>1. 0 \in P
  <2> DEFINE z == [i \in 0..0 |-> a]
  <2>1. Upto(z, 0)
    OBVIOUS
  <2> QED  BY <2>1
<1>2. ASSUME NEW m \in P PROVE m + 1 \in P
  <2>0. m \in Nat /\ m + 1 \in Nat
    OBVIOUS
  <2> SUFFICES ASSUME m + 1 <= n PROVE \E f : Upto(f, m + 1)
    <3> HIDE DEF Upto
    <3> QED  BY <2>0
  <2>1. m \in 0..m /\ m <= n /\ m + 1 \in 1..n
    BY <2>0
  <2>2. PICK f : Upto(f, m)
    BY <2>1
  <2> DEFINE g == [i \in 0..m + 1 |-> IF i <= m THEN f[i] ELSE step[<<m + 1, f[m]>>]]
  <2>3. f[m] \in A /\ step[<<m + 1, f[m]>>] \in A
    BY <2>1, <2>2
  <2>4. (\A i \in 0..m : g[i] = f[i]) /\ g[m + 1] = step[<<m + 1, f[m]>>]
    BY <2>0
  <2>5. g \in [0..m + 1 -> A]
    BY <2>0, <2>2, <2>3
  <2> HIDE DEF g
  <2>6. ASSUME NEW i \in 1..m + 1 PROVE g[i] = step[<<i, g[i - 1]>>]
    <3>1. CASE i = m + 1
      <4>1. i - 1 = m
        BY <2>0, <3>1
      <4> QED  BY <2>1, <2>4, <3>1, <4>1
    <3>2. CASE i # m + 1
      <4>1. i \in 1..m /\ i \in 0..m /\ i - 1 \in 0..m
        BY <2>0, <3>2
      <4> QED  BY <2>2, <2>4, <4>1
    <3> QED  BY <3>1, <3>2
  <2>7. g[0] = a
    BY <2>0, <2>2, <2>4
  <2> QED  BY <2>5, <2>6, <2>7
<1>3. P = Nat
  <2> HIDE DEF P
  <2>1. P \in SUBSET Nat
    BY DEF P
  <2> QED  BY <1>1, <1>2, <2>1, NatSetInduction
<1>4. \E f : Upto(f, n)
  <2>1. n \in P /\ n <= n
    BY <1>3
  <2> HIDE DEF Upto
  <2> QED  BY <2>1
<1> QED  BY <1>4 DEF Runs

Distinct(s) == \A i, j \in 1..Len(s) : i # j => s[i] # s[j]
First(s, k) == {s[i] : i \in 1..k}

(* What the first elements of a list are.                                  *)
LEMMA FirstIs ==
    ASSUME NEW S, NEW s \in Seq(S)
    PROVE  /\ Len(s) \in Nat /\ First(s, 0) = {} /\ First(s, Len(s)) = ToSet(s)
           /\ ToSet(s) \in SUBSET S
           /\ \A k \in 0..Len(s) : First(s, k) \in SUBSET S
           /\ \A k \in 1..Len(s) : First(s, k) = First(s, k - 1) \cup {s[k]} /\ s[k] \in S
           /\ Distinct(s) => \A k \in 1..Len(s) : s[k] \notin First(s, k - 1)
<1>1. Len(s) \in Nat /\ First(s, 0) = {} /\ First(s, Len(s)) = ToSet(s)
  BY DEF First, ToSet
<1>2. \A k \in 0..Len(s) : First(s, k) \in SUBSET S
  BY DEF First
<1>3. ASSUME NEW k \in 1..Len(s)
      PROVE  First(s, k) = First(s, k - 1) \cup {s[k]} /\ s[k] \in S
  <2>1. \A i : i \in 1..k <=> i \in 1 .. k - 1 \/ i = k
    OBVIOUS
  <2>2. s[k] \in S
    OBVIOUS
  <2> QED  BY <2>1, <2>2 DEF First
<1>4. ASSUME Distinct(s), NEW k \in 1..Len(s) PROVE s[k] \notin First(s, k - 1)
  <2>1. \A i \in 1 .. k - 1 : i \in 1..Len(s) /\ i # k
    OBVIOUS
  <2> QED  BY <1>4, <2>1 DEF First, Distinct
<1>5. ToSet(s) \in SUBSET S
  BY <1>1, <1>2
<1> QED  BY <1>1, <1>2, <1>3, <1>4, <1>5

Adds(f, s) == f = [i \in 0..Len(s) |->
                     IF i = 0 THEN 0 ELSE (f[i - 1] + s[i].value) % Modulus]

(* Total takes the value of that function at the length of the list.       *)
LEMMA TotalIs ==
    ASSUME NEW s
    PROVE  Total(s) = (CHOOSE f : Adds(f, s))[Len(s)]
BY DEF Total, Adds

(* It exists.                                                              *)
LEMMA AddsDefined ==
    ASSUME NEW s, Len(s) \in Nat, \A i \in 1..Len(s) : s[i].value \in Nat
    PROVE  Adds(CHOOSE f : Adds(f, s), s)
<1> DEFINE n == Len(s)
           step == [p \in (1..n) \X Nat |-> (p[2] + s[p[1]].value) % Modulus]
<1>1. step \in Steps(n, Nat)
  BY ModulusAssumption DEF Steps
<1>2. \A i \in 1..n, v \in Nat : step[<<i, v>>] = (v + s[i].value) % Modulus
  OBVIOUS
<1> HIDE DEF step
<1>3. PICK f : Runs(f, n, Nat, 0, step)
  BY <1>1, Recursion
<1>4. \A i \in 0..n : f[i] = IF i = 0 THEN 0 ELSE (f[i - 1] + s[i].value) % Modulus
  <2>1. \A i \in 0..n : i = 0 \/ (i \in 1..n /\ f[i - 1] \in Nat)
    <3>1. f \in [0..n -> Nat]
      BY <1>3 DEF Runs
    <3>2. \A i \in 0..n : i = 0 \/ (i \in 1..n /\ i - 1 \in 0..n)
      OBVIOUS
    <3> QED  BY <3>1, <3>2
  <2> QED  BY <1>2, <1>3, <2>1 DEF Runs
<1>5. Adds(f, s)
  BY <1>3, <1>4 DEF Adds, Runs
<1> QED  BY <1>5

(* A number below the modulus is its own remainder.                        *)
LEMMA NoWrap ==
    ASSUME NEW v \in Nat, v < Modulus
    PROVE  v % Modulus = v
BY ModulusAssumption

(* A list of different outputs adds up to their worth, if that fits.       *)
LEMMA TotalIsValue ==
    ASSUME NEW S, Priced(S), Value(S) < Modulus, NEW s \in Seq(S), Distinct(s)
    PROVE  Total(s) = Value(ToSet(s))
<1> DEFINE n == Len(s)  f == CHOOSE f : Adds(f, s)
           P == {i \in Nat : i <= n => f[i] = Value(First(s, i))}
<1>0. n \in Nat /\ \A i \in 1..n : s[i] \in S /\ s[i].value \in Nat
  BY DEF Priced
<1>1. Total(s) = f[n]
  BY TotalIs
<1>2. Adds(f, s)
  BY <1>0, AddsDefined
<1> HIDE DEF f
<1>3. 0 \in P
  <2>1. f[0] = 0
    BY <1>0, <1>2 DEF Adds
  <2> QED  BY <2>1, FirstIs, ValueEmpty
<1>4. ASSUME NEW i \in P PROVE i + 1 \in P
  <2> SUFFICES ASSUME i + 1 <= n PROVE f[i + 1] = Value(First(s, i + 1))
    OBVIOUS
  <2>1. i \in Nat /\ i + 1 \in 1..n /\ i \in 0..n /\ (i + 1) - 1 = i /\ i + 1 \in 0..n
    BY <1>0
  <2>2. f[i] = Value(First(s, i))
    BY <2>1
  <2>3. f[i + 1] = (f[i] + s[i + 1].value) % Modulus
    BY <1>2, <2>1 DEF Adds
  <2>4. /\ First(s, i) \in SUBSET S /\ First(s, i + 1) \in SUBSET S
        /\ First(s, i + 1) = First(s, i) \cup {s[i + 1]} /\ s[i + 1] \notin First(s, i)
    BY <2>1, FirstIs
  <2>5. Priced(First(s, i)) /\ s[i + 1].value \in Nat
    BY <1>0, <2>1, <2>4, PricedPart
  <2>6. Value(First(s, i + 1)) = Value(First(s, i)) + s[i + 1].value
    BY <2>4, <2>5, ValueAdd
  <2>7. Value(First(s, i + 1)) \in Nat /\ Value(First(s, i + 1)) <= Value(S) /\ Value(S) \in Nat
    BY <2>4, ValuePart
  <2>8. Value(First(s, i + 1)) < Modulus
    BY <2>7, ModulusAssumption
  <2> QED  BY <2>2, <2>3, <2>6, <2>7, <2>8, NoWrap
<1>5. P = Nat
  <2> HIDE DEF P
  <2>1. P \in SUBSET Nat
    BY DEF P
  <2> QED  BY <1>3, <1>4, <2>1, NatSetInduction
<1>6. f[n] = Value(First(s, n))
  BY <1>0, <1>5
<1> QED  BY <1>1, <1>6, FirstIs

Kept(f, s) == f = [i \in 0..Len(s) |->
                     IF i = 0 THEN <<>>
                     ELSE IF s[i].value > 0 THEN Append(f[i - 1], s[i]) ELSE f[i - 1]]

(* Valued takes the value of that function at the length of the list.      *)
LEMMA ValuedIs ==
    ASSUME NEW s
    PROVE  Valued(s) = (CHOOSE f : Kept(f, s))[Len(s)]
BY DEF Valued, Kept

(* It exists.                                                              *)
LEMMA KeptDefined ==
    ASSUME NEW S, NEW s \in Seq(S)
    PROVE  Kept(CHOOSE f : Kept(f, s), s)
<1> DEFINE n == Len(s)
           step == [p \in (1..n) \X Seq(S) |->
                      IF s[p[1]].value > 0 THEN Append(p[2], s[p[1]]) ELSE p[2]]
<1>0. n \in Nat /\ \A i \in 1..n : s[i] \in S
  OBVIOUS
<1>1. step \in Steps(n, Seq(S))
  <2> SUFFICES ASSUME NEW p \in (1..n) \X Seq(S)
               PROVE  (IF s[p[1]].value > 0 THEN Append(p[2], s[p[1]]) ELSE p[2]) \in Seq(S)
    BY DEF Steps
  <2>1. p[2] \in Seq(S) /\ s[p[1]] \in S
    OBVIOUS
  <2>2. Append(p[2], s[p[1]]) \in Seq(S)
    BY <2>1
  <2> QED  BY <2>1, <2>2
<1>2. \A i \in 1..n, q \in Seq(S) :
        step[<<i, q>>] = IF s[i].value > 0 THEN Append(q, s[i]) ELSE q
  OBVIOUS
<1> HIDE DEF step
<1>3. PICK f : Runs(f, n, Seq(S), <<>>, step)
  <2>1. <<>> \in Seq(S)
    OBVIOUS
  <2> HIDE DEF n
  <2> QED  BY <1>0, <1>1, <2>1, Recursion
<1>4. ASSUME NEW i \in 0..n
      PROVE  f[i] = IF i = 0 THEN <<>>
                    ELSE IF s[i].value > 0 THEN Append(f[i - 1], s[i]) ELSE f[i - 1]
  <2>1. CASE i = 0
    BY <1>3, <2>1 DEF Runs
  <2>2. CASE i # 0
    <3>1. i \in 1..n /\ i - 1 \in 0..n
      BY <1>0, <2>2
    <3>2. f[i - 1] \in Seq(S) /\ f[i] = step[<<i, f[i - 1]>>]
      BY <1>3, <3>1 DEF Runs
    <3> QED  BY <1>2, <2>2, <3>1, <3>2
  <2> QED  BY <2>1, <2>2
<1>5. Kept(f, s)
  <2>1. f = [i \in 0..n |-> f[i]]
    BY <1>3 DEF Runs
  <2> QED  BY <1>4, <2>1 DEF Kept
<1> QED  BY <1>5

(* An element appended.                                                    *)
LEMMA AppendIs ==
    ASSUME NEW S, NEW q \in Seq(S), NEW x \in S, Distinct(q), x \notin ToSet(q)
    PROVE  /\ Append(q, x) \in Seq(S) /\ Distinct(Append(q, x))
           /\ ToSet(Append(q, x)) = ToSet(q) \cup {x}
<1> DEFINE r == Append(q, x)
<1>1. /\ r \in Seq(S) /\ Len(r) = Len(q) + 1 /\ Len(q) \in Nat /\ r[Len(q) + 1] = x
      /\ \A i \in 1..Len(q) : r[i] = q[i]
  OBVIOUS
<1> HIDE DEF r
<1>2. \A i \in 1..Len(r) : i \in 1..Len(q) \/ i = Len(q) + 1
  BY <1>1
<1>3. \A i \in 1..Len(q) : i \in 1..Len(r) /\ q[i] # x
  BY <1>1 DEF ToSet
<1>4. Len(q) + 1 \in 1..Len(r)
  BY <1>1
<1>5. Distinct(r)
  <2> SUFFICES ASSUME NEW i \in 1..Len(r), NEW j \in 1..Len(r), i # j PROVE r[i] # r[j]
    BY DEF Distinct
  <2>1. CASE i \in 1..Len(q) /\ j \in 1..Len(q)
    BY <1>1, <2>1 DEF Distinct
  <2>2. CASE i = Len(q) + 1
    BY <1>1, <1>2, <1>3, <2>2
  <2>3. CASE j = Len(q) + 1
    BY <1>1, <1>2, <1>3, <2>3
  <2> QED  BY <1>2, <2>1, <2>2, <2>3
<1>6. ToSet(r) = {r[i] : i \in 1..Len(r)} /\ ToSet(q) = {q[i] : i \in 1..Len(q)}
  BY <1>1 DEF ToSet
<1>7. ToSet(r) = ToSet(q) \cup {x}
  BY <1>1, <1>2, <1>3, <1>4, <1>6
<1> QED  BY <1>1, <1>5, <1>7 DEF r

(* What find_funds on a vector keeps: the outputs that have a value, each  *)
(* once.                                                                   *)
LEMMA ValuedKeeps ==
    ASSUME NEW S, NEW s \in Seq(S), Distinct(s)
    PROVE  /\ Valued(s) \in Seq(S) /\ Distinct(Valued(s))
           /\ ToSet(Valued(s)) = {u \in ToSet(s) : u.value > 0}
<1> DEFINE n == Len(s)  f == CHOOSE f : Kept(f, s)
           Right(i) == /\ f[i] \in Seq(S) /\ Distinct(f[i])
                       /\ ToSet(f[i]) = {u \in First(s, i) : u.value > 0}
           P == {i \in Nat : i <= n => Right(i)}
<1>1. Valued(s) = f[n] /\ n \in Nat
  BY ValuedIs
<1>2. Kept(f, s)
  BY KeptDefined
<1> HIDE DEF f
<1>3. 0 \in P
  <2>1. f[0] = <<>>
    BY <1>1, <1>2 DEF Kept
  <2>2. <<>> \in Seq(S) /\ Distinct(<<>>) /\ ToSet(<<>>) = {} /\ First(s, 0) = {}
    BY FirstIs DEF Distinct, ToSet
  <2> QED  BY <2>1, <2>2
<1>4. ASSUME NEW i \in P PROVE i + 1 \in P
  <2>0. i \in Nat
    OBVIOUS
  <2> SUFFICES ASSUME i + 1 <= n PROVE Right(i + 1)
    <3> HIDE DEF Right
    <3> QED  BY <2>0
  <2>1. i + 1 \in 1..n /\ (i + 1) - 1 = i /\ i + 1 \in 0..n /\ i + 1 # 0 /\ i <= n
    BY <1>1, <2>0
  <2> DEFINE u == s[i + 1]
  <2>2. Right(i)
    <3> HIDE DEF Right
    <3> QED  BY <2>1
  <2>3. First(s, i + 1) = First(s, i) \cup {u} /\ u \notin First(s, i) /\ u \in S
    BY <2>1, FirstIs
  <2>4. f[i + 1] = IF u.value > 0 THEN Append(f[i], u) ELSE f[i]
    BY <1>2, <2>1 DEF Kept
  <2> HIDE DEF u
  <2>5. CASE u.value > 0
    <3>1. u \notin ToSet(f[i])
      BY <2>2, <2>3
    <3>2. /\ Append(f[i], u) \in Seq(S) /\ Distinct(Append(f[i], u))
          /\ ToSet(Append(f[i], u)) = ToSet(f[i]) \cup {u}
      BY <2>2, <2>3, <3>1, AppendIs
    <3>3. f[i + 1] = Append(f[i], u)
      BY <2>4, <2>5
    <3> QED  BY <2>2, <2>3, <2>5, <3>2, <3>3
  <2>6. CASE ~(u.value > 0)
    <3>1. f[i + 1] = f[i]
      BY <2>4, <2>6
    <3> QED  BY <2>2, <2>3, <2>6, <3>1
  <2> QED  BY <2>5, <2>6
<1>5. P = Nat
  <2> HIDE DEF P
  <2>1. P \in SUBSET Nat
    BY DEF P
  <2> QED  BY <1>3, <1>4, <2>1, NatSetInduction
<1>6. Right(n)
  <2> HIDE DEF Right
  <2> QED  BY <1>1, <1>5
<1> QED  BY <1>1, <1>6, FirstIs

-----------------------------------------------------------------------------
(* What find_funds promises of a list of the outputs S: it chooses some of *)
(* them, gathers what they are worth, which is enough, or chooses none     *)
(* because all are not enough or nothing was asked for.                    *)
Chosen(r, S, needed) ==
    /\ ToSet(r.utxos) \in SUBSET S
    /\ r.utxos # <<>> => /\ ToSet(r.utxos) # {}
                         /\ r.gathered = Value(ToSet(r.utxos)) /\ needed <= r.gathered
    /\ r.utxos = <<>> => Value(S) < needed \/ needed = 0

(* A list that is not empty has an element.                                *)
LEMMA SomeElement ==
    ASSUME NEW S, NEW s \in Seq(S)
    PROVE  s # <<>> <=> ToSet(s) # {}
<1>1. ToSet(s) = {s[i] : i \in 1..Len(s)} /\ Len(s) \in Nat
  BY DEF ToSet
<1>2. CASE s = <<>>
  BY <1>1, <1>2
<1>3. CASE s # <<>>
  <2>1. 1 \in 1..Len(s)
    BY <1>1, <1>3
  <2> QED  BY <1>1, <1>3, <2>1
<1> QED  BY <1>2, <1>3

(* find_funds on points promises it.                                       *)
LEMMA PointsChosen ==
    ASSUME NEW S, Priced(S), Value(S) < Modulus, NEW s \in Seq(S), Distinct(s),
           ToSet(s) = S, NEW needed \in Nat
    PROVE  Chosen(find_funds_points(needed, s), S, needed)
<1> DEFINE n == Len(s)
           Gathered(k) == Total(SubSeq(s, 1, k))
           Enough == {k \in 0..n : Gathered(k) >= needed}
           r == find_funds_points(needed, s)
           m == Min(Enough)
           p == SubSeq(s, 1, m)
<1>1. r = IF Enough = {} THEN [utxos |-> <<>>, gathered |-> Gathered(n)]
          ELSE [utxos |-> p, gathered |-> Gathered(m)]
  BY DEF find_funds_points
<1>2. n \in Nat /\ SubSeq(s, 1, n) = s
  OBVIOUS
<1>3. ASSUME NEW k \in 0..n
      PROVE  /\ SubSeq(s, 1, k) \in Seq(S) /\ Distinct(SubSeq(s, 1, k))
             /\ Gathered(k) = Value(ToSet(SubSeq(s, 1, k)))
             /\ ToSet(SubSeq(s, 1, k)) \in SUBSET S /\ Len(SubSeq(s, 1, k)) = k
  <2> DEFINE q == SubSeq(s, 1, k)
  <2>1. q \in Seq(S) /\ Len(q) = k /\ \A i \in 1..k : q[i] = s[i] /\ i \in 1..n
    BY <1>2
  <2> HIDE DEF q
  <2>2. Distinct(q)
    BY <2>1 DEF Distinct
  <2>3. Total(q) = Value(ToSet(q)) /\ ToSet(q) \in SUBSET S
    BY <2>1, <2>2, TotalIsValue, FirstIs
  <2> QED  BY <2>1, <2>2, <2>3 DEF q
<1> HIDE DEF r, Gathered
<1>4. CASE Enough = {}
  <2>1. r.utxos = <<>> /\ ToSet(<<>>) = {}
    BY <1>1, <1>4 DEF ToSet
  <2>2. ~(Gathered(n) >= needed) /\ Gathered(n) = Value(S)
    <3>1. n \in 0..n
      BY <1>2
    <3>2. ~(Gathered(n) >= needed)
      BY <1>4, <3>1
    <3>3. Gathered(n) = Value(ToSet(SubSeq(s, 1, n)))
      BY <1>3, <3>1
    <3> QED  BY <1>2, <3>2, <3>3
  <2>3. Value(S) \in Nat
    BY ValueNat
  <2>4. Value(S) < needed
    BY <2>2, <2>3
  <2>5. ToSet(r.utxos) \in SUBSET S
    BY <2>1
  <2> QED  BY <2>1, <2>4, <2>5 DEF Chosen, r
<1>5. CASE Enough # {}
  <2>1. m \in Enough
    <3>1. Enough \in SUBSET Nat
      BY <1>2
    <3> HIDE DEF Enough
    <3> QED  BY <1>5, <3>1, MinIs
  <2>2. r.utxos = p /\ r.gathered = Gathered(m)
    BY <1>1, <1>5
  <2> HIDE DEF m
  <2>3. /\ p \in Seq(S) /\ Gathered(m) = Value(ToSet(p)) /\ ToSet(p) \in SUBSET S
        /\ Len(p) = m /\ Gathered(m) >= needed /\ m \in Nat
    BY <1>2, <1>3, <2>1
  <2>4. Value(ToSet(p)) \in Nat
    BY <2>3, ValuePart
  <2> HIDE DEF p
  <2>5. CASE p = <<>>
    <3>1. ToSet(p) = {}
      BY <2>3, <2>5, SomeElement
    <3>2. needed = 0
      BY <2>3, <3>1, ValueEmpty
    <3> QED  BY <2>2, <2>3, <2>5, <3>2 DEF Chosen, r
  <2>6. CASE p # <<>>
    <3>1. ToSet(p) # {}
      BY <2>3, <2>6, SomeElement
    <3>2. needed <= r.gathered /\ r.gathered = Value(ToSet(r.utxos))
      BY <2>2, <2>3, <2>4
    <3> QED  BY <2>2, <2>3, <2>6, <3>1, <3>2 DEF Chosen, r
  <2> QED  BY <2>5, <2>6
<1> QED  BY <1>4, <1>5

(* find_funds on a vector promises it too; it chooses nothing for a        *)
(* request of nothing only when nothing is there.                          *)
LEMMA UtxosChosen ==
    ASSUME NEW S, Priced(S), Value(S) < Modulus, NEW s \in Seq(S), Distinct(s),
           ToSet(s) = S, NEW needed \in Nat
    PROVE  LET r == find_funds_utxos(needed, s) IN
           /\ Chosen(r, S, needed)
           /\ r.utxos = <<>> => Value(S) < needed \/ Value(S) = 0
<1> DEFINE r == find_funds_utxos(needed, s)  v == Valued(s)
<1>1. r = [utxos |-> IF Total(v) < needed THEN <<>> ELSE v, gathered |-> Total(v)]
  BY DEF find_funds_utxos
<1>2. /\ v \in Seq(S) /\ Distinct(v)
      /\ ToSet(v) = {u \in S : u.value > 0}
  BY ValuedKeeps
<1>3. Total(v) = Value(ToSet(v)) /\ Value(ToSet(v)) = Value(S) /\ ToSet(v) \in SUBSET S
  BY <1>2, TotalIsValue, ValueOfValued
<1>4. Value(S) \in Nat
  BY ValueNat
<1> HIDE DEF r, v
<1>5. CASE Total(v) < needed
  <2>1. r.utxos = <<>> /\ ToSet(<<>>) = {}
    BY <1>1, <1>5 DEF ToSet
  <2>2. ToSet(r.utxos) \in SUBSET S
    BY <2>1
  <2>3. Value(S) < needed
    BY <1>3, <1>5
  <2> QED  BY <2>1, <2>2, <2>3 DEF Chosen, r
<1>6. CASE ~(Total(v) < needed)
  <2>1. r.utxos = v /\ r.gathered = Value(S) /\ needed <= Value(S)
    BY <1>1, <1>3, <1>4, <1>6
  <2>2. CASE v = <<>>
    <3>1. Value(S) = 0
      BY <1>2, <1>3, <2>2, SomeElement, ValueEmpty
    <3>2. needed = 0
      BY <2>1, <3>1
    <3> QED  BY <1>3, <2>1, <2>2, <3>1, <3>2 DEF Chosen, r
  <2>3. CASE v # <<>>
    <3>1. ToSet(v) # {}
      BY <1>2, <2>3, SomeElement
    <3> QED  BY <1>3, <2>1, <2>3, <3>1 DEF Chosen, r
  <2> QED  BY <2>2, <2>3
<1> QED  BY <1>5, <1>6 DEF r

-----------------------------------------------------------------------------
(* The chain: outputs have ids that were given, and no money is made.      *)
ChainInv ==
    /\ made \in Nat /\ Priced(unspent)
    /\ \A u \in unspent : u.id \in 1..made /\ u.value \in 0..MaxMoney
    /\ Value(unspent) <= MaxMoney

CallInv ==
    /\ call \in Calls \cup {None}
    /\ reply = "fetched" \/ draft # None => call \in Calls
    /\ reply = "constructed" => draft # None

(* The answer of a server lists outputs of the source once each, and they  *)
(* are what the address held, or the answer was an error.                  *)
FetchInv ==
    /\ fetched \in Seq(ToSet(fetched)) /\ Distinct(fetched) /\ Priced(ToSet(fetched))
    /\ Value(ToSet(fetched)) <= MaxMoney
    /\ \A u \in ToSet(fetched) : call.src \in {u.owner, "mistyped"}
    /\ reply = "fetched" =>
         \/ held = Value(ToSet(fetched))
         \/ call.api = "electrum" /\ fetched = <<>> /\ held > 0

(* A transaction that was constructed spends outputs of the source that    *)
(* are worth what is needed, and gives back what they are worth above it.  *)
Refund(t) == Value(t.inputs) - satoshis_needed
Proper(t) ==
    /\ call.src \in Wallet /\ t.signer = call.key
    /\ t.inputs # {} /\ Priced(t.inputs) /\ \A u \in t.inputs : u.owner = call.src
    /\ Value(t.inputs) <= MaxMoney /\ satoshis_needed <= Value(t.inputs)
    /\ t.outputs = <<[owner |-> call.target, value |-> call.amount]>>
                   \o IF Refund(t) > 0 THEN <<[owner |-> call.src, value |-> Refund(t)]>>
                      ELSE <<>>
DraftInv == draft # None => Proper(draft)

PayInv == ChainInv /\ CallInv /\ FetchInv /\ DraftInv /\ EmptyMeansInsufficient

(* A sum of two numbers wraps around at most once.                         *)
LEMMA WrapsOnce ==
    ASSUME NEW a \in 0 .. Modulus - 1, NEW b \in 0 .. Modulus - 1
    PROVE  (a + b) % Modulus = IF a + b < Modulus THEN a + b ELSE (a + b) - Modulus
<1>1. Modulus \in Nat \ {0}
  BY ModulusAssumption
<1> QED  BY <1>1

(* The arguments of a call.                                                *)
LEMMA CallIs ==
    ASSUME call \in Calls
    PROVE  /\ call # None /\ call.api \in {"libbitcoin", "electrum"}
           /\ call.amount \in 0 .. Modulus - 1 /\ call.fee \in 0 .. Modulus - 1
           /\ satoshis_needed \in Nat
           /\ satoshis_needed = IF call.amount + call.fee < Modulus
                                THEN call.amount + call.fee
                                ELSE (call.amount + call.fee) - Modulus
<1>1. call \in Payment \cup Locking
  BY PaymentAssumption
<1>2. /\ call.api \in {"libbitcoin", "electrum"} /\ DOMAIN call # {"none"}
      /\ call.amount \in 0 .. Modulus - 1 /\ call.fee \in 0 .. Modulus - 1
  BY <1>1 DEF Payment, Locking
<1>3. DOMAIN None = {"none"}
  BY DEF None
<1>4. satoshis_needed = IF call.amount + call.fee < Modulus
                        THEN call.amount + call.fee
                        ELSE (call.amount + call.fee) - Modulus
  BY <1>2, WrapsOnce DEF satoshis_needed
<1>5. satoshis_needed \in Nat
  BY <1>2, <1>4, ModulusAssumption
<1> QED  BY <1>2, <1>3, <1>4, <1>5

(* One output is worth its value.                                          *)
LEMMA ValueOne ==
    ASSUME NEW x, x.value \in Nat
    PROVE  Priced({x}) /\ Value({x}) = x.value
<1>1. Priced({}) /\ {} \cup {x} = {x} /\ x \notin {}
  BY FS_EmptySet DEF Priced
<1>2. Priced({x}) /\ Value({x}) = Value({}) + x.value
  BY <1>1, ValueAdd
<1> QED  BY <1>2, ValueEmpty

(* The length of two lists together.                                       *)
LEMMA JoinedLength ==
    ASSUME NEW S, NEW s \in Seq(S), NEW t \in Seq(S)
    PROVE  Len(s \o t) = Len(s) + Len(t)
OBVIOUS

(* Two lists of one output, one behind the other.                          *)
LEMMA TwoOutputs ==
    ASSUME NEW x, NEW y
    PROVE  LET s == <<x>> \o <<y>> IN
           Len(s) = 2 /\ DOMAIN s = {1, 2} /\ s[1] = x /\ s[2] = y
<1> DEFINE R == {x, y}
<1>0. PICK a, b : a = <<x>> /\ b = <<y>>
  OBVIOUS
<1>1. /\ a \in Seq(R) /\ Len(a) = 1 /\ a[1] = x
      /\ b \in Seq(R) /\ Len(b) = 1 /\ b[1] = y
  BY <1>0
<1> HIDE DEF R
<1>2. a \o b \in Seq(R) /\ Len(a \o b) = 2
  <2>1. a \o b \in Seq(R)
    BY <1>1
  <2>2. Len(a \o b) = 1 + 1
    BY <1>1, JoinedLength
  <2> QED  BY <2>1, <2>2
<1>3. (a \o b)[1] = x /\ (a \o b)[2] = y
  BY <1>1
<1>4. DOMAIN (a \o b) = {1, 2}
  BY <1>2
<1> QED  BY <1>0, <1>2, <1>3, <1>4

Paying(S, a) == {u \in S : u.owner = a}

(* What the outputs of a transaction pay, in all and to each.              *)
LEMMA CreatedIs ==
    ASSUME call \in Calls, made \in Nat, NEW t, Proper(t)
    PROVE  /\ Priced(Created(t)) /\ Value(Created(t)) = call.amount + Refund(t)
           /\ Refund(t) \in Nat
           /\ \A a : Value(Paying(Created(t), a)) = (IF a = call.target THEN call.amount ELSE 0)
                                                    + (IF a = call.src THEN Refund(t) ELSE 0)
           /\ Len(t.outputs) \in Nat
           /\ \A u \in Created(t) : u.id \in made + 1 .. made + Len(t.outputs)
<1> DEFINE c == [id |-> made + 1, owner |-> call.target, value |-> call.amount]
           d == [id |-> made + 2, owner |-> call.src, value |-> Refund(t)]
           D == IF Refund(t) > 0 THEN {d} ELSE {}
<1>1. Refund(t) \in Nat /\ call.amount \in Nat
  BY CallIs, ValueNat, ModulusAssumption DEF Proper, Refund
<1>2. /\ Created(t) = {c} \cup D /\ Len(t.outputs) \in Nat
      /\ Len(t.outputs) = IF Refund(t) > 0 THEN 2 ELSE 1
  <2> DEFINE v == Refund(t)
             one == [owner |-> call.target, value |-> call.amount]
             two == [owner |-> call.src, value |-> v]
  <2>1. t.outputs = <<one>> \o IF v > 0 THEN <<two>> ELSE <<>>
    BY DEF Proper
  <2>2. CASE v > 0
    <3>1. t.outputs = <<one>> \o <<two>>
      BY <2>1, <2>2
    <3>2. DOMAIN t.outputs = {1, 2} /\ t.outputs[1] = one /\ t.outputs[2] = two /\ Len(t.outputs) = 2
      <4> HIDE DEF one, two
      <4> QED  BY <3>1, TwoOutputs
    <3> QED  BY <2>2, <3>2 DEF Created
  <2>3. CASE ~(v > 0)
    <3>1. t.outputs = <<one>>
      BY <2>1, <2>3
    <3>2. DOMAIN t.outputs = {1} /\ t.outputs[1] = one /\ Len(t.outputs) = 1
      BY <3>1
    <3> QED  BY <2>3, <3>2 DEF Created
  <2> QED  BY <2>2, <2>3
<1>3. /\ c.value = call.amount /\ c.owner = call.target /\ c.id = made + 1
      /\ d.value = Refund(t) /\ d.owner = call.src /\ d.id = made + 2
  OBVIOUS
<1> HIDE DEF c, d
<1>4. c # d
  BY <1>3
<1>5. /\ Priced({c}) /\ Value({c}) = call.amount
      /\ Priced(D) /\ Value(D) = Refund(t) /\ {c} \cap D = {}
  <2>1. Priced({c}) /\ Value({c}) = call.amount
    BY <1>1, <1>3, ValueOne
  <2>2. CASE Refund(t) > 0
    BY <1>1, <1>3, <1>4, <2>1, <2>2, ValueOne
  <2>3. CASE ~(Refund(t) > 0)
    BY <1>1, <2>1, <2>3, ValueEmpty, FS_EmptySet DEF Priced
  <2> QED  BY <2>2, <2>3
<1>6. Priced(Created(t)) /\ Value(Created(t)) = call.amount + Refund(t)
  <2> HIDE DEF D
  <2>1. Priced({c} \cup D) /\ Value({c} \cup D) = Value({c}) + Value(D)
    BY <1>5, ValueUnion
  <2> QED  BY <1>2, <1>5, <2>1
<1>7. ASSUME NEW a
      PROVE  Value(Paying(Created(t), a)) = (IF a = call.target THEN call.amount ELSE 0)
                                            + (IF a = call.src THEN Refund(t) ELSE 0)
  <2>1. Value(Paying({c}, a)) = IF a = call.target THEN call.amount ELSE 0
    <3>1. Paying({c}, a) = IF a = call.target THEN {c} ELSE {}
      BY <1>3 DEF Paying
    <3> QED  BY <1>5, <3>1, ValueEmpty
  <2>2. Value(Paying(D, a)) = IF a = call.src THEN Refund(t) ELSE 0
    <3>1. \A u \in D : u.owner = call.src
      BY <1>3
    <3>2. Paying(D, a) = IF a = call.src THEN D ELSE {}
      BY <3>1 DEF Paying
    <3> QED  BY <1>5, <3>2, ValueEmpty
  <2> HIDE DEF D
  <2>3. /\ Paying(Created(t), a) = Paying({c}, a) \cup Paying(D, a)
        /\ Paying({c}, a) \in SUBSET {c} /\ Paying(D, a) \in SUBSET D
    BY <1>2 DEF Paying
  <2>4. Priced(Paying({c}, a)) /\ Priced(Paying(D, a)) /\ Paying({c}, a) \cap Paying(D, a) = {}
    BY <1>5, <2>3, PricedPart
  <2> QED  BY <2>1, <2>2, <2>3, <2>4, ValueUnion
<1>8. \A u \in Created(t) : u.id \in made + 1 .. made + Len(t.outputs)
  BY <1>2, <1>3
<1> QED  BY <1>1, <1>2, <1>6, <1>7, <1>8

-----------------------------------------------------------------------------
(* The answers of the servers.                                             *)

(* A sequence over all elements of a finite set, each once.                *)
LEMMA ListedOnce ==
    ASSUME NEW S, IsFiniteSet(S), NEW s \in SetToSeqs(S)
    PROVE  s \in Seq(S) /\ Distinct(s) /\ ToSet(s) = S
<1> DEFINE n == Cardinality(S)
<1>1. n \in Nat /\ IsFiniteSet(1..n) /\ Cardinality(1..n) = n
  BY FS_CardinalityType, FS_Interval
<1>2. s \in [1..n -> S] /\ \A i, j \in 1..n : i # j => s[i] # s[j]
  BY DEF SetToSeqs
<1>3. s \in Injection(1..n, S)
  BY <1>2 DEF Injection, IsInjective
<1>4. s \in Surjection(1..n, S)
  BY <1>1, <1>3, FS_Injection
<1>5. \A u \in S : \E k \in 1..n : s[k] = u
  BY <1>4 DEF Surjection
<1> HIDE DEF n
<1>6. s \in Seq(S) /\ Len(s) = n
  BY <1>1, <1>2
<1>7. ToSet(s) = S
  BY <1>2, <1>5 DEF ToSet
<1> QED  BY <1>2, <1>6, <1>7 DEF Distinct

(* SetToSeq is such a sequence.                                            *)
LEMMA SomeOrder ==
    ASSUME NEW S, IsFiniteSet(S)
    PROVE  SetToSeq(S) \in SetToSeqs(S)
<1>1. PICK n \in Nat : ExistsBijection(1..n, S)
  BY FS_NatBijection
<1>2. Cardinality(S) = n
  BY <1>1, FS_CountingElements
<1>3. PICK f : f \in Bijection(1..n, S)
  BY <1>1 DEF ExistsBijection
<1>4. f \in [1..n -> S] /\ IsInjective(f)
  BY <1>3 DEF Bijection, Injection
<1> DEFINE s == SetToSeq(S)
<1>5. s \in [1..n -> S] /\ IsInjective(s)
  BY <1>2, <1>4 DEF SetToSeq
<1> HIDE DEF s
<1>6. \A i, j \in 1..n : i # j => s[i] # s[j]
  BY <1>5 DEF IsInjective
<1> QED  BY <1>2, <1>5, <1>6 DEF SetToSeqs, s

Answer(s) == /\ s \in Seq(ToSet(s)) /\ Distinct(s) /\ Priced(ToSet(s))
             /\ Value(ToSet(s)) <= MaxMoney

(* No answer lists nothing, which is worth nothing.                        *)
LEMMA NoAnswer == Answer(<<>>) /\ ToSet(<<>>) = {} /\ Value(ToSet(<<>>)) = 0
<1>1. ToSet(<<>>) = {} /\ <<>> \in Seq({}) /\ Distinct(<<>>)
  BY DEF ToSet, Distinct
<1> QED  BY <1>1, ValueEmpty, FS_EmptySet, PaymentAssumption, ModulusAssumption DEF Answer, Priced

(* The outputs of an address are part of the chain's.                      *)
LEMMA HeldIs ==
    ASSUME ChainInv, NEW a
    PROVE  /\ UtxosOf(a) \in SUBSET unspent /\ Priced(UtxosOf(a))
           /\ Held(a) = Value(UtxosOf(a)) /\ Held(a) \in Nat /\ Held(a) <= MaxMoney
<1>1. UtxosOf(a) \in SUBSET unspent /\ Held(a) = Value(UtxosOf(a)) /\ Priced(unspent)
  BY DEF UtxosOf, Held, ChainInv
<1>2. Priced(UtxosOf(a))
  BY <1>1, PricedPart
<1>3. Value(UtxosOf(a)) \in Nat /\ Value(UtxosOf(a)) <= Value(unspent) /\ Value(unspent) \in Nat
  BY <1>1, ValuePart
<1>4. Value(UtxosOf(a)) <= MaxMoney
  BY <1>3, PaymentAssumption, ModulusAssumption DEF ChainInv
<1> QED  BY <1>1, <1>2, <1>3, <1>4

(* An answer about some of them.                                           *)
LEMMA AnswerIs ==
    ASSUME ChainInv, NEW a, NEW T \in SUBSET UtxosOf(a), NEW s \in SetToSeqs(T)
    PROVE  Answer(s) /\ ToSet(s) = T
<1>1. UtxosOf(a) \in SUBSET unspent /\ Priced(UtxosOf(a)) /\ Held(a) <= MaxMoney
      /\ Held(a) = Value(UtxosOf(a)) /\ Held(a) \in Nat
  BY HeldIs
<1>2. Priced(T) /\ Value(T) <= Value(UtxosOf(a)) /\ Value(T) \in Nat
  BY <1>1, PricedPart, ValuePart
<1>3. s \in Seq(T) /\ Distinct(s) /\ ToSet(s) = T
  BY <1>2, ListedOnce DEF Priced
<1>4. Value(T) <= MaxMoney
  BY <1>1, <1>2, PaymentAssumption, ModulusAssumption
<1> QED  BY <1>2, <1>3, <1>4 DEF Answer

(* A call reads the outputs of its source.                                 *)
LEMMA FetchKeeps ==
    ASSUME PayInv, NEW arguments \in Calls, Fetch(arguments)
    PROVE  PayInv'
<1>0. ChainInv /\ unspent' = unspent /\ made' = made /\ call' = arguments /\ draft' = None
  BY DEF Fetch, PayInv
<1>1. ChainInv'
  BY <1>0 DEF ChainInv
<1>2. reply' # "constructed" /\ reply' # "InsufficientFunds"
  BY DEF Fetch, FetchFromLibbitcoin, FetchFromElectrum, FetchFails
<1>3. CallInv' /\ DraftInv' /\ EmptyMeansInsufficient'
  BY <1>0, <1>2 DEF CallInv, DraftInv, EmptyMeansInsufficient
<1>4. SUFFICES /\ Answer(fetched')
               /\ \A u \in ToSet(fetched') : arguments.src \in {u.owner, "mistyped"}
               /\ reply' = "fetched" =>
                    \/ held' = Value(ToSet(fetched'))
                    \/ arguments.api = "electrum" /\ fetched' = <<>> /\ held' > 0
  BY <1>0, <1>1, <1>3 DEF PayInv, FetchInv, Answer
<1>5. CASE fetched' = <<>> /\ held' = 0
  BY <1>5, NoAnswer
<1>6. CASE FetchFromLibbitcoin(arguments) /\ arguments.src \in Wallet
  <2> DEFINE U == UtxosOf(arguments.src)  T == {u \in U : u.value >= 1}
  <2>1. fetched' \in SetToSeqs(T) /\ held' = Held(arguments.src)
    BY <1>6 DEF FetchFromLibbitcoin, Listings
  <2>2. T \in SUBSET U /\ \A u \in T : u.owner = arguments.src
    BY DEF UtxosOf
  <2>3. T = {u \in U : u.value > 0}
    BY <1>0, HeldIs DEF Priced
  <2>4. Value(T) = Held(arguments.src)
    BY <1>0, <2>3, HeldIs, ValueOfValued
  <2> HIDE DEF T, U
  <2>5. Answer(fetched') /\ ToSet(fetched') = T
    BY <1>0, <2>1, <2>2, AnswerIs DEF U
  <2> QED  BY <2>1, <2>2, <2>4, <2>5
<1>7. CASE FetchFromElectrum(arguments)
  <2>1. PICK a \in Wallet : /\ arguments.src \in {a, "mistyped"} /\ held' = Held(a)
                            /\ fetched' \in {SetToSeq(UtxosOf(a)), <<>>}
    BY <1>7 DEF FetchFromElectrum
  <2>2. Held(a) = Value(UtxosOf(a)) /\ Held(a) \in Nat /\ IsFiniteSet(UtxosOf(a))
    BY <1>0, HeldIs DEF Priced
  <2>3. CASE fetched' = <<>>
    BY <1>7, <2>1, <2>2, <2>3, NoAnswer DEF FetchFromElectrum
  <2>4. CASE fetched' = SetToSeq(UtxosOf(a))
    <3>1. fetched' \in SetToSeqs(UtxosOf(a))
      BY <2>2, <2>4, SomeOrder
    <3>2. Answer(fetched') /\ ToSet(fetched') = UtxosOf(a)
      BY <1>0, <3>1, AnswerIs
    <3> QED  BY <2>1, <2>2, <3>2 DEF UtxosOf
  <2> QED  BY <2>1, <2>3, <2>4
<1> QED
  BY <1>5, <1>6, <1>7 DEF Fetch, FetchFromLibbitcoin, FetchFails

(* What find_funds chooses of the answer.                                  *)
LEMMA FundsChosen ==
    ASSUME FetchInv, call \in Calls
    PROVE  /\ Chosen(find_funds, ToSet(fetched), satoshis_needed)
           /\ find_funds.utxos = <<>> /\ call.api = "electrum" =>
                Value(ToSet(fetched)) < satoshis_needed \/ Value(ToSet(fetched)) = 0
<1> DEFINE S == ToSet(fetched)
<1>1. Priced(S) /\ fetched \in Seq(S) /\ Distinct(fetched) /\ Value(S) \in Nat
  BY ValueNat DEF FetchInv
<1>2. Value(S) < Modulus
  BY <1>1, PaymentAssumption, ModulusAssumption DEF FetchInv
<1>3. satoshis_needed \in Nat /\ call.api \in {"libbitcoin", "electrum"}
  BY CallIs
<1> HIDE DEF S
<1>4. CASE call.api = "libbitcoin"
  <2>1. Chosen(find_funds_points(satoshis_needed, fetched), S, satoshis_needed)
    BY <1>1, <1>2, <1>3, PointsChosen DEF S
  <2> QED  BY <1>4, <2>1 DEF find_funds, S
<1>5. CASE call.api = "electrum"
  <2> DEFINE r == find_funds_utxos(satoshis_needed, fetched)
  <2>1. Chosen(r, S, satoshis_needed) /\ (r.utxos = <<>> => Value(S) < satoshis_needed \/ Value(S) = 0)
    BY <1>1, <1>2, <1>3, UtxosChosen DEF S
  <2>2. find_funds = r
    BY <1>5 DEF find_funds
  <2> HIDE DEF r
  <2> QED  BY <2>1, <2>2 DEF S
<1> QED  BY <1>3, <1>4, <1>5

(* A call builds its transaction or says why it does not.                  *)
LEMMA ConstructKeeps ==
    ASSUME PayInv, Construct
    PROVE  PayInv'
<1> DEFINE S == ToSet(fetched)  r == find_funds
<1>1. /\ reply = "fetched" /\ call \in Calls /\ FetchInv /\ reply' # "fetched"
      /\ unspent' = unspent /\ made' = made /\ call' = call /\ fetched' = fetched /\ held' = held
  BY DEF Construct, PayInv, CallInv
<1>2. ChainInv' /\ FetchInv'
  BY <1>1 DEF PayInv, ChainInv, FetchInv
<1>3. /\ Chosen(r, S, satoshis_needed)
      /\ r.utxos = <<>> /\ call.api = "electrum" => Value(S) < satoshis_needed \/ Value(S) = 0
  BY <1>1, FundsChosen
<1>4. /\ satoshis_needed \in Nat /\ call.amount \in Nat /\ call.fee \in Nat
      /\ satoshis_needed = IF call.amount + call.fee < Modulus
                           THEN call.amount + call.fee
                           ELSE (call.amount + call.fee) - Modulus
      /\ call.api \in {"libbitcoin", "electrum"}
  BY <1>1, CallIs, ModulusAssumption
<1>5. /\ Value(S) \in Nat /\ Value(S) <= MaxMoney /\ MaxMoney \in Nat
      /\ MaxMoney < Modulus /\ Modulus \in Nat /\ Priced(S)
      /\ \A u \in S : call.src \in {u.owner, "mistyped"}
      /\ (held = Value(S) \/ (call.api = "electrum" /\ fetched = <<>> /\ held > 0))
  BY <1>1, ValueNat, PaymentAssumption, ModulusAssumption DEF FetchInv
<1> HIDE DEF S, r
<1>6. CASE r.utxos = <<>>
  <2>1. draft' = draft /\ reply' = "InsufficientFunds"
    BY <1>6 DEF Construct, r
  <2>2. CallInv' /\ DraftInv'
    BY <1>1, <2>1 DEF PayInv, CallInv, DraftInv, Proper, Refund, satoshis_needed
  <2>3. \/ held < call.amount + call.fee
        \/ call.api = "electrum" /\ fetched = <<>> /\ held > 0
        \/ call.amount + call.fee = 0 /\ (call.api = "libbitcoin" \/ held = 0)
    <3>1. Value(S) < satoshis_needed \/ satoshis_needed = 0
      BY <1>3, <1>6 DEF Chosen
    <3>2. Value(S) < satoshis_needed => Value(S) < call.amount + call.fee
      BY <1>4, <1>5
    <3>3. satoshis_needed = 0 => call.amount + call.fee = 0 \/ Value(S) < call.amount + call.fee
      BY <1>4, <1>5
    <3> QED  BY <1>3, <1>4, <1>5, <1>6, <3>1, <3>2, <3>3
  <2>4. EmptyMeansInsufficient'
    BY <1>1, <2>3 DEF EmptyMeansInsufficient
  <2> QED  BY <1>2, <2>2, <2>4 DEF PayInv
<1>7. CASE r.utxos # <<>>
  <2>0. EmptyMeansInsufficient'
    BY <1>7 DEF Construct, r, EmptyMeansInsufficient
  <2>1. CASE draft' = draft /\ reply' # "constructed"
    <3>1. CallInv' /\ DraftInv'
      BY <1>1, <2>1 DEF PayInv, CallInv, DraftInv, Proper, Refund, satoshis_needed
    <3> QED  BY <1>2, <2>0, <3>1 DEF PayInv
  <2>2. CASE call.src \in Wallet /\ draft' = Transaction(r) /\ reply' = "constructed"
    <3> DEFINE t == Transaction(r)
    <3>1. /\ t.inputs = ToSet(r.utxos) /\ t.signer = call.key
          /\ t.outputs = <<[owner |-> call.target, value |-> call.amount]>>
                 \o IF (r.gathered - satoshis_needed) % Modulus > 0
                    THEN <<[owner |-> call.src,
                            value |-> (r.gathered - satoshis_needed) % Modulus]>>
                    ELSE <<>>
          /\ DOMAIN t = {"inputs", "signer", "outputs"}
      BY DEF Transaction
    <3> HIDE DEF t
    <3>2. /\ t.inputs \in SUBSET S /\ t.inputs # {} /\ r.gathered = Value(t.inputs)
          /\ satoshis_needed <= Value(t.inputs)
      BY <1>3, <1>7, <3>1 DEF Chosen
    <3>3. /\ Priced(t.inputs) /\ Value(t.inputs) \in Nat /\ Value(t.inputs) <= MaxMoney
      <4>1. Priced(t.inputs) /\ Value(t.inputs) \in Nat /\ Value(t.inputs) <= Value(S)
        BY <1>5, <3>2, PricedPart, ValuePart
      <4> QED  BY <1>5, <4>1
    <3>4. \A u \in t.inputs : u.owner = call.src
      BY <1>5, <2>2, <3>2, PaymentAssumption
    <3>5. (r.gathered - satoshis_needed) % Modulus = Refund(t)
      <4>1. Refund(t) \in Nat /\ Refund(t) < Modulus /\ r.gathered - satoshis_needed = Refund(t)
        BY <1>4, <1>5, <3>2, <3>3 DEF Refund
      <4> QED  BY <4>1, NoWrap
    <3>6. Proper(t)
      BY <2>2, <3>1, <3>2, <3>3, <3>4, <3>5 DEF Proper
    <3>7. t # None
      <4>1. DOMAIN t = {"inputs", "signer", "outputs"} /\ DOMAIN None = {"none"}
        BY <3>1 DEF None
      <4> QED  BY <4>1
    <3>8. draft' = t
      BY <2>2 DEF t
    <3>9. CallInv' /\ DraftInv'
      BY <1>1, <2>2, <3>6, <3>7, <3>8 DEF PayInv, CallInv, DraftInv, Proper, Refund, satoshis_needed
    <3> QED  BY <1>2, <2>0, <3>9 DEF PayInv
  <2> QED  BY <1>7, <2>1, <2>2 DEF Construct, r
<1> QED  BY <1>6, <1>7

(* What a broadcast of a constructed transaction does when it is accepted. *)
LEMMA AcceptedIs ==
    ASSUME PayInv, draft # None, Accepts(draft),
           unspent' = (unspent \ draft.inputs) \cup Created(draft)
    PROVE  /\ Priced(unspent') /\ Value(unspent') <= MaxMoney
           /\ \A u \in Created(draft) : u.id \in made + 1 .. made + Len(draft.outputs)
           /\ Len(draft.outputs) \in Nat
           /\ satoshis_needed = call.amount + call.fee
           /\ \A a : Value(Paying(unspent', a)) =
                       Held(a) + (IF a = call.target THEN call.amount ELSE 0)
                               - (IF a = call.src THEN call.amount + call.fee ELSE 0)
<1> DEFINE I == draft.inputs  C == Created(draft)
<1>1. /\ call \in Calls /\ Proper(draft) /\ ChainInv /\ made \in Nat /\ Priced(unspent)
      /\ Value(unspent) <= MaxMoney
  BY DEF PayInv, CallInv, DraftInv, ChainInv
<1>2. /\ Priced(C) /\ Value(C) = call.amount + Refund(draft) /\ Refund(draft) \in Nat
      /\ \A a : Value(Paying(C, a)) = (IF a = call.target THEN call.amount ELSE 0)
                                      + (IF a = call.src THEN Refund(draft) ELSE 0)
      /\ Len(draft.outputs) \in Nat
      /\ \A u \in C : u.id \in made + 1 .. made + Len(draft.outputs)
  BY <1>1, CreatedIs
<1>3. /\ I \in SUBSET unspent /\ Value(C) <= Value(I) /\ Priced(I)
      /\ \A u \in I : u.owner = call.src
  BY <1>1 DEF Accepts, Proper
<1>4. unspent \cap C = {}
  <2>1. \A u \in unspent : u.id \in 1..made
    BY <1>1 DEF ChainInv
  <2> QED  BY <1>1, <1>2, <2>1
<1>5. Refund(draft) = Value(I) - satoshis_needed
  BY DEF Refund
<1> HIDE DEF I, C
<1>6. /\ Value(unspent) \in Nat /\ Value(I) \in Nat /\ Value(unspent \ I) \in Nat
      /\ Value(unspent) = Value(I) + Value(unspent \ I) /\ Priced(unspent \ I)
  BY <1>1, <1>3, ValuePart, PricedPart
<1>7. satoshis_needed = call.amount + call.fee
  <2>1. /\ call.amount \in 0 .. Modulus - 1 /\ call.fee \in 0 .. Modulus - 1
        /\ satoshis_needed \in Nat
        /\ satoshis_needed = IF call.amount + call.fee < Modulus
                             THEN call.amount + call.fee
                             ELSE (call.amount + call.fee) - Modulus
    BY <1>1, CallIs
  <2>2. call.amount <= satoshis_needed
    BY <1>2, <1>3, <1>5, <1>6, <2>1, ModulusAssumption
  <2> QED  BY <2>1, <2>2, ModulusAssumption
<1>8. unspent' = (unspent \ I) \cup C /\ (unspent \ I) \cap C = {}
  BY <1>4 DEF I, C
<1>9. Priced(unspent') /\ Value(unspent') = Value(unspent \ I) + Value(C)
  BY <1>2, <1>6, <1>8, ValueUnion
<1>10. Value(unspent') <= MaxMoney
  <2>1. Value(C) \in Nat /\ MaxMoney \in Nat
    BY <1>2, ValueNat, PaymentAssumption, ModulusAssumption
  <2> QED  BY <1>1, <1>3, <1>6, <1>9, <2>1
<1>11. ASSUME NEW a
       PROVE  Value(Paying(unspent', a)) =
                Held(a) + (IF a = call.target THEN call.amount ELSE 0)
                        - (IF a = call.src THEN call.amount + call.fee ELSE 0)
  <2> DEFINE U == UtxosOf(a)  V == Paying(I, a)  W == Paying(C, a)
  <2>1. /\ Paying(unspent', a) = (U \ V) \cup W /\ V \in SUBSET U
        /\ (U \ V) \cap W = {} /\ W \in SUBSET C
    BY <1>3, <1>8 DEF Paying, UtxosOf
  <2>2. /\ Priced(U) /\ Held(a) = Value(U)
    BY <1>1, HeldIs
  <2>3. Priced(W) /\ Priced(U \ V)
    BY <1>2, <2>1, <2>2, PricedPart
  <2>4. V = IF a = call.src THEN I ELSE {}
    BY <1>3 DEF Paying
  <2>5. Value(W) = (IF a = call.target THEN call.amount ELSE 0)
                   + (IF a = call.src THEN Refund(draft) ELSE 0)
    BY <1>2
  <2> HIDE DEF U, V, W
  <2>6. /\ Value(Paying(unspent', a)) = Value(U \ V) + Value(W)
        /\ Value(U) = Value(V) + Value(U \ V)
        /\ Value(U) \in Nat /\ Value(V) \in Nat /\ Value(U \ V) \in Nat
    BY <2>1, <2>2, <2>3, ValueUnion, ValuePart
  <2>7. Value(V) = IF a = call.src THEN Value(I) ELSE 0
    BY <2>4, ValueEmpty
  <2>8. call.amount \in Nat /\ call.fee \in Nat
    BY <1>1, CallIs, ModulusAssumption
  <2>9. CASE a = call.src
    <3>1. Value(V) = Value(I) /\ Refund(draft) = Value(I) - (call.amount + call.fee)
      BY <1>5, <1>7, <2>7, <2>9
    <3>2. Value(Paying(unspent', a)) = Value(U) - Value(I) + Value(W)
      BY <1>2, <2>5, <2>6, <2>8, <2>9, <3>1
    <3>3. Value(W) = (IF a = call.target THEN call.amount ELSE 0) + (Value(I) - (call.amount + call.fee))
      BY <2>5, <2>9, <3>1
    <3> QED  BY <1>6, <2>2, <2>6, <2>8, <2>9, <3>2, <3>3
  <2>10. CASE a # call.src
    <3>1. Value(V) = 0 /\ Value(W) = IF a = call.target THEN call.amount ELSE 0
      BY <2>5, <2>7, <2>8, <2>10
    <3> QED  BY <2>2, <2>6, <2>8, <2>10, <3>1
  <2> QED  BY <2>9, <2>10
<1> QED  BY <1>2, <1>7, <1>9, <1>10, <1>11 DEF C


(* No output is worth more than all.                                       *)
LEMMA NoneDearer ==
    ASSUME NEW S, Priced(S), Value(S) <= MaxMoney
    PROVE  \A u \in S : u.value \in 0..MaxMoney
<1> SUFFICES ASSUME NEW u \in S
             PROVE  u.value \in 0..MaxMoney
  OBVIOUS
<1>1. u.value \in Nat /\ Value({u}) = u.value
  BY ValueOne DEF Priced
<1>2. {u} \in SUBSET S
  OBVIOUS
<1>3. Value({u}) <= Value(S) /\ Value(S) \in Nat
  BY <1>2, ValuePart
<1>4. MaxMoney \in Nat
  BY PaymentAssumption, ModulusAssumption
<1> QED  BY <1>1, <1>3, <1>4

(* A broadcast is accepted or rejected.                                    *)
LEMMA BroadcastKeeps ==
    ASSUME PayInv, Broadcast
    PROVE  PayInv'
<1>1. /\ draft # None /\ call' = call /\ fetched' = fetched /\ held' = held /\ draft' = draft
      /\ reply' \in {"accepted", "rejected"}
  BY DEF Broadcast
<1>2. CallInv' /\ FetchInv' /\ DraftInv' /\ EmptyMeansInsufficient'
  BY <1>1 DEF PayInv, CallInv, FetchInv, DraftInv, Proper, Refund, satoshis_needed,
              EmptyMeansInsufficient
<1>3. CASE unspent' = unspent /\ made' = made
  BY <1>2, <1>3 DEF PayInv, ChainInv
<1>4. CASE /\ Accepts(draft) /\ made' = made + Len(draft.outputs)
           /\ unspent' = (unspent \ draft.inputs) \cup Created(draft)
  <2>1. /\ Priced(unspent') /\ Value(unspent') <= MaxMoney /\ Len(draft.outputs) \in Nat
        /\ \A u \in Created(draft) : u.id \in made + 1 .. made + Len(draft.outputs)
    BY <1>1, <1>4, AcceptedIs
  <2>2. made \in Nat /\ \A u \in unspent : u.id \in 1..made
    BY DEF PayInv, ChainInv
  <2>3. made' \in Nat /\ \A u \in unspent' : u.id \in 1..made'
    BY <1>4, <2>1, <2>2
  <2>4. \A u \in unspent' : u.value \in 0..MaxMoney
    BY <2>1, NoneDearer
  <2> QED  BY <1>2, <2>1, <2>3, <2>4 DEF PayInv, ChainInv
<1> QED  BY <1>3, <1>4 DEF Broadcast

(* What another party does on the chain touches nothing else.              *)
LEMMA ElsewhereKeeps ==
    ASSUME PayInv, ChainInv', UNCHANGED <<call, fetched, held, draft, reply>>
    PROVE  PayInv'
BY DEF PayInv, CallInv, FetchInv, DraftInv, Proper, Refund, satoshis_needed,
       EmptyMeansInsufficient

(* A payment arrives.                                                      *)
LEMMA ReceiveKeeps ==
    ASSUME PayInv, NEW owner \in Wallet, NEW value \in Coins, Receive(owner, value)
    PROVE  PayInv'
<1> DEFINE u == [id |-> made + 1, owner |-> owner, value |-> value]
<1>1. u.id = made + 1 /\ u.value = value
  OBVIOUS
<1>2. /\ unspent' = unspent \cup {u} /\ made' = made + 1 /\ Value(unspent) + value <= MaxMoney
      /\ UNCHANGED <<call, fetched, held, draft, reply>>
  BY DEF Receive
<1> HIDE DEF u
<1>3. made \in Nat /\ Priced(unspent) /\ \A w \in unspent : w.id \in 1..made
  BY DEF PayInv, ChainInv
<1>4. value \in Nat
  BY PaymentAssumption
<1>5. u \notin unspent
  BY <1>1, <1>3
<1>6. Priced(unspent') /\ Value(unspent') = Value(unspent) + value
  BY <1>1, <1>2, <1>3, <1>4, <1>5, ValueAdd
<1>7. Value(unspent') <= MaxMoney
  BY <1>2, <1>6
<1>8. \A w \in unspent' : w.value \in 0..MaxMoney
  BY <1>6, <1>7, NoneDearer
<1>9. made' \in Nat /\ \A w \in unspent' : w.id \in 1..made'
  BY <1>1, <1>2, <1>3
<1>10. ChainInv'
  BY <1>6, <1>7, <1>8, <1>9 DEF ChainInv
<1> QED  BY <1>2, <1>10, ElsewhereKeeps

(* An output is spent elsewhere.                                           *)
LEMMA SpendKeeps ==
    ASSUME PayInv, NEW u \in unspent, SpendElsewhere(u)
    PROVE  PayInv'
<1>1. unspent' = unspent \ {u} /\ made' = made /\ UNCHANGED <<call, fetched, held, draft, reply>>
  BY DEF SpendElsewhere
<1>2. Priced(unspent) /\ Value(unspent) <= MaxMoney /\ unspent' \in SUBSET unspent
  BY <1>1 DEF PayInv, ChainInv
<1>3. Priced(unspent')
  BY <1>2, PricedPart
<1>4. Value(unspent') <= Value(unspent) /\ Value(unspent') \in Nat /\ Value(unspent) \in Nat
  BY <1>2, ValuePart
<1>5. Value(unspent') <= MaxMoney
  BY <1>2, <1>4, PaymentAssumption, ModulusAssumption
<1>6. ChainInv'
  BY <1>1, <1>3, <1>5 DEF PayInv, ChainInv
<1> QED  BY <1>1, <1>6, ElsewhereKeeps

(* At first there is no money and no call.                                 *)
LEMMA PayInit == Init => PayInv
<1> SUFFICES ASSUME Init
             PROVE  PayInv
  OBVIOUS
<1>1. Priced({}) /\ Value({}) = 0 /\ MaxMoney \in Nat
  BY ValueEmpty, FS_EmptySet, PaymentAssumption, ModulusAssumption DEF Priced
<1>2. ChainInv
  BY <1>1 DEF Init, ChainInv
<1>3. FetchInv
  BY NoAnswer DEF Init, FetchInv, Answer
<1>4. CallInv /\ DraftInv /\ EmptyMeansInsufficient
  BY DEF Init, CallInv, DraftInv, EmptyMeansInsufficient
<1> QED  BY <1>2, <1>3, <1>4 DEF PayInv

(* Every step keeps the invariant.                                         *)
LEMMA PayNext == PayInv /\ [Next]_vars => PayInv'
<1> SUFFICES ASSUME PayInv, [Next]_vars
             PROVE  PayInv'
  OBVIOUS
<1>1. ASSUME NEW arguments \in Calls, Fetch(arguments)
      PROVE  PayInv'
  BY <1>1, FetchKeeps
<1>2. CASE Construct
  BY <1>2, ConstructKeeps
<1>3. CASE Broadcast
  BY <1>3, BroadcastKeeps
<1>4. ASSUME NEW owner \in Wallet, NEW value \in Coins, Receive(owner, value)
      PROVE  PayInv'
  BY <1>4, ReceiveKeeps
<1>5. ASSUME NEW u \in unspent, SpendElsewhere(u)
      PROVE  PayInv'
  BY <1>5, SpendKeeps
<1>6. CASE UNCHANGED vars
  <2>1. ChainInv'
    BY <1>6 DEF vars, PayInv, ChainInv
  <2> QED  BY <1>6, <2>1, ElsewhereKeeps DEF vars
<1> QED  BY <1>1, <1>2, <1>3, <1>4, <1>5, <1>6 DEF Next

(* The invariant always holds.                                             *)
LEMMA PayInvHolds == Spec => []PayInv
BY PayInit, PayNext, PTL DEF Spec

-----------------------------------------------------------------------------
(* Whatever the arguments of calls, the servers' answers and the other     *)
(* holders of the keys: the outputs on the chain have ids that were given  *)
(* and together never exceed the supply, and what a server answered are    *)
(* outputs of the source of the call.                                      *)
THEOREM PaymentsTypeCorrect == Spec => []TypeOK
<1>1. PayInv => TypeOK
  BY DEF PayInv, ChainInv, CallInv, FetchInv, TypeOK
<1> QED  BY <1>1, PayInvHolds, PTL

(* A transaction that a creator returned is one the chain accepts while    *)
(* its inputs are unspent, whenever the caller gave the key of the source  *)
(* and amount and fee do not overflow together.                            *)
THEOREM DraftsAreValid == Spec => []ConstructedIsValid
<1>1. PayInv => ConstructedIsValid
  <2> SUFFICES ASSUME PayInv, draft # None, draft.inputs \subseteq unspent,
                      call.key = call.src, call.amount + call.fee < Modulus
               PROVE  Accepts(draft)
    BY DEF ConstructedIsValid
  <2>1. call \in Calls /\ Proper(draft) /\ made \in Nat
    BY DEF PayInv, CallInv, DraftInv, ChainInv
  <2>2. draft.inputs # {} /\ \A u \in draft.inputs : u.owner = draft.signer
    BY <2>1 DEF Proper
  <2>3. Value(Created(draft)) = call.amount + Refund(draft) /\ Refund(draft) \in Nat
    BY <2>1, CreatedIs
  <2>4. /\ satoshis_needed = call.amount + call.fee
        /\ call.amount \in Nat /\ call.fee \in Nat
    BY <2>1, CallIs, ModulusAssumption
  <2>5. Refund(draft) = Value(draft.inputs) - (call.amount + call.fee) /\ Value(draft.inputs) \in Nat
    BY <2>1, <2>4, ValueNat DEF Refund, Proper
  <2>6. Value(Created(draft)) <= Value(draft.inputs)
    BY <2>3, <2>4, <2>5
  <2> QED  BY <2>2, <2>6 DEF Accepts
<1> QED  BY <1>1, PayInvHolds, PTL

(* InsufficientFunds is thrown only when all that the address held does    *)
(* not pay for amount and fee, when an error was read as an empty list, or *)
(* when nothing was asked for.                                             *)
THEOREM EmptyChoiceMeansInsufficient == Spec => []EmptyMeansInsufficient
<1>1. PayInv => EmptyMeansInsufficient
  BY DEF PayInv
<1> QED  BY <1>1, PayInvHolds, PTL

(* A transaction that is accepted moves exactly the amount to the target   *)
(* and takes exactly amount and fee from the source, even when the sum of  *)
(* the two wraps around in the code: such a transaction is not accepted.   *)
THEOREM PaymentsAreExact == Spec => ExactPayment
<1> DEFINE Exact == Broadcast /\ reply' = "accepted" =>
                      \A a \in Wallet \cup Strangers \cup {ScriptHash} :
                        Held(a)' = Held(a)
                                   + (IF a = call.target THEN call.amount ELSE 0)
                                   - (IF a = call.src THEN call.amount + call.fee ELSE 0)
<1>1. PayInv /\ [Next]_vars => [Exact]_vars
  <2> SUFFICES ASSUME PayInv, Broadcast, reply' = "accepted",
                      NEW a \in Wallet \cup Strangers \cup {ScriptHash}
               PROVE  Held(a)' = Held(a)
                                 + (IF a = call.target THEN call.amount ELSE 0)
                                 - (IF a = call.src THEN call.amount + call.fee ELSE 0)
    OBVIOUS
  <2>1. /\ draft # None /\ Accepts(draft)
        /\ unspent' = (unspent \ draft.inputs) \cup Created(draft)
    BY DEF Broadcast
  <2>2. Value(Paying(unspent', a)) = Held(a)
          + (IF a = call.target THEN call.amount ELSE 0)
          - (IF a = call.src THEN call.amount + call.fee ELSE 0)
    BY <2>1, AcceptedIs
  <2>3. Held(a)' = Value(Paying(unspent', a))
    BY DEF Held, UtxosOf, Paying
  <2> QED  BY <2>2, <2>3
<1> QED  BY <1>1, PayInvHolds, PTL DEF Spec, ExactPayment
=============================================================================
