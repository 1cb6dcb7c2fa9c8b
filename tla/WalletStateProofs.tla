--------------------------- MODULE WalletStateProofs ---------------------------
(***************************************************************************)
(* What holds of the caches of WalletState, and of what HistoryInspector   *)
(* calculates from them, for every chain of transactions, every list of    *)
(* addresses and any number of errors: a history that get_history serves   *)
(* from them is the server's, only a coinbase makes a call of              *)
(* HistoryInspector throw while nothing changes, and the balances, rows    *)
(* and sums that such a call gives are what the wallet holds.              *)
(*                                                                         *)
(* 1. Sums over finite sets: how they split, map and group.                *)
(* 2. The caches: what replies contain, and a call from address to address.*)
(* 3. Conservation: what the wallet holds is the sum of what each of its   *)
(*    transactions changed, if no output is spent twice.                   *)
(* 4. What each calculation gives for an up-to-date list of transactions.  *)
(* 5. The invariants that carry 3 and 4 through a call.                    *)
(***************************************************************************)
EXTENDS WalletState, TLAPS, FiniteSetTheorems, WellFoundedInduction

-----------------------------------------------------------------------------
(* A set of naturals has a least element.                                  *)
LEMMA NatMin ==
    ASSUME NEW T \in SUBSET Nat, T # {}
    PROVE  \E x \in T : \A y \in T : x <= y
<1> DEFINE R == {ss \in Nat \X Nat : ss[1] < ss[2]}
<1>1. IsWellFoundedOn(R, Nat)
  BY NatLessThanWellFounded, Zenon DEF OpToRel
<1>2. PICK x \in T : \A y \in T : ~ (<<y, x>> \in R)
  <2> HIDE DEF R
  <2> QED BY <1>1, WFMin, Zenon
<1>3. ASSUME NEW y \in T PROVE x <= y
  <2>1. <<y, x>> \in Nat \X Nat /\ <<y, x>>[1] = y /\ <<y, x>>[2] = x
    OBVIOUS
  <2>2. ~ (y < x)
    BY <1>2, <2>1
  <2> QED  BY <2>2
<1> QED  BY <1>3

(* Induction over the naturals, for a set of them.                         *)
LEMMA NatSetInduction ==
    ASSUME NEW P \in SUBSET Nat, 0 \in P, \A n \in P : n + 1 \in P
    PROVE  P = Nat
<1> SUFFICES ASSUME Nat \ P # {} PROVE FALSE
  OBVIOUS
<1>1. PICK x \in Nat \ P : \A y \in Nat \ P : x <= y
  BY NatMin
<1>2. x # 0 /\ x - 1 \in Nat /\ x - 1 \in P
  BY <1>1
<1> QED  BY <1>1, <1>2

(* A set without one of its elements.                                      *)
LEMMA CountOneLess ==
    ASSUME NEW S, NEW x \in S, NEW n \in Nat, IsFiniteSet(S), Cardinality(S) = n + 1
    PROVE  IsFiniteSet(S \ {x}) /\ Cardinality(S \ {x}) = n
<1>1. IsFiniteSet(S \ {x}) /\ Cardinality(S \ {x}) = Cardinality(S) - 1
  BY FS_RemoveElement
<1> QED  BY <1>1

(* Induction over the subsets of a finite set.                             *)
LEMMA SubsetInduction ==
    ASSUME NEW S, IsFiniteSet(S), NEW P \in SUBSET SUBSET S, {} \in P,
           \A T \in P : \A x \in S \ T : T \cup {x} \in P
    PROVE  S \in P
<1> DEFINE N == {n \in Nat : \A T \in SUBSET S :
                               IsFiniteSet(T) /\ Cardinality(T) = n => T \in P}
<1>1. 0 \in N
  BY FS_EmptySet
<1>2. ASSUME NEW n \in N PROVE n + 1 \in N
  <2> SUFFICES ASSUME NEW T \in SUBSET S, IsFiniteSet(T), Cardinality(T) = n + 1
               PROVE  T \in P
    OBVIOUS
  <2>1. T # {}
    BY FS_EmptySet
  <2>2. PICK x : x \in T
    BY <2>1
  <2>3. IsFiniteSet(T \ {x}) /\ Cardinality(T \ {x}) = n
    BY <2>2, CountOneLess
  <2>4. T \ {x} \in P
    BY <2>3
  <2>5. T = (T \ {x}) \cup {x} /\ x \in S \ (T \ {x})
    BY <2>2
  <2> QED  BY <2>4, <2>5
<1>3. N = Nat
  <2> HIDE DEF N
  <2>1. N \in SUBSET Nat
    BY DEF N
  <2> QED  BY <1>1, <1>2, <2>1, NatSetInduction
<1>4. Cardinality(S) \in N
  BY <1>3, FS_CardinalityType
<1> QED  BY <1>4

-----------------------------------------------------------------------------
(* The sum of w[x] for x in S, and how the library's fold computes it: it  *)
(* takes any element off, and goes on with the rest.                       *)
Sigma(w, S) == SumFunctionOnSet(w, S)
AnyOf(s) == CHOOSE x \in s : TRUE
Rest(s) == s \ {AnyOf(s)}
Sums(w, f, S) == f = [s \in SUBSET S |-> IF s = {} THEN 0 ELSE w[AnyOf(s)] + f[Rest(s)]]

(* Sigma takes the value of such a function at the whole set.              *)
LEMMA SigmaIs ==
    ASSUME NEW w, NEW S
    PROVE  Sigma(w, S) = (CHOOSE f : Sums(w, f, S))[S]
BY DEF Sigma, SumFunctionOnSet, FoldFunctionOnSet, MapThenFoldSet, Sums, AnyOf, Rest

(* The element that is taken first is one of the set.                      *)
LEMMA RestIs ==
    ASSUME NEW S, NEW s \in SUBSET S, s # {}
    PROVE  AnyOf(s) \in s /\ Rest(s) \in SUBSET S /\ Rest(s) \subseteq s
<1>1. AnyOf(s) \in s
  BY Zenon DEF AnyOf
<1> QED  BY <1>1 DEF Rest

(* There is such a function for every finite set.                          *)
LEMMA SumsDefined ==
    ASSUME NEW w, NEW S, IsFiniteSet(S)
    PROVE  Sums(w, CHOOSE f : Sums(w, f, S), S)
<1> DEFINE Sub(n) == {s \in SUBSET S : Cardinality(s) <= n}
           Next1(f, s) == IF s = {} THEN 0 ELSE w[AnyOf(s)] + f[Rest(s)]
           Upto(f, n) == f = [s \in Sub(n) |-> Next1(f, s)]
           P == {n \in Nat : \E f : Upto(f, n)}
<1>0. \A s \in SUBSET S : IsFiniteSet(s) /\ Cardinality(s) \in Nat
  BY FS_Subset, FS_CardinalityType
<1>1. 0 \in P
  <2> DEFINE z == [s \in Sub(0) |-> 0]
  <2>1. \A s \in Sub(0) : s = {}
    BY <1>0, FS_EmptySet
  <2>2. Upto(z, 0)
    BY <2>1
  <2> QED  BY <2>2
<1>2. ASSUME NEW n \in P PROVE n + 1 \in P
  <2>1. PICK f : Upto(f, n)
    OBVIOUS
  <2> DEFINE g == [s \in Sub(n + 1) |-> Next1(f, s)]
  <2>2. n \in Nat /\ \A s \in Sub(n) : s \in Sub(n + 1)
    BY <1>0
  <2>3. \A s \in Sub(n) : g[s] = f[s]
    <3> HIDE DEF Next1, Sub
    <3>1. \A s \in Sub(n) : f[s] = Next1(f, s)
      BY <2>1
    <3> QED  BY <2>2, <3>1
  <2>4. ASSUME NEW s \in Sub(n + 1), s # {} PROVE Rest(s) \in Sub(n)
    <3>1. AnyOf(s) \in s /\ Rest(s) \in SUBSET S /\ IsFiniteSet(s)
      BY <1>0, <2>4, RestIs
    <3>2. Cardinality(Rest(s)) = Cardinality(s) - 1
      BY <3>1, FS_RemoveElement DEF Rest
    <3> QED  BY <1>0, <2>2, <3>1, <3>2
  <2>5. \A s \in Sub(n + 1) : Next1(g, s) = Next1(f, s)
    <3> HIDE DEF Sub, g
    <3> QED  BY <2>3, <2>4
  <2>6. Upto(g, n + 1)
    <3>1. \A s \in Sub(n + 1) : g[s] = Next1(g, s)
      <4> HIDE DEF Next1, Sub
      <4> QED  BY <2>5
    <3> HIDE DEF Next1, Sub
    <3> QED  BY <3>1
  <2> HIDE DEF g, Upto
  <2> QED  BY <2>2, <2>6
<1>3. P = Nat
  <2> HIDE DEF P
  <2>1. P \in SUBSET Nat
    BY DEF P
  <2> QED  BY <1>1, <1>2, <2>1, NatSetInduction
<1>4. Cardinality(S) \in P
  BY <1>0, <1>3
<1>5. PICK f : Upto(f, Cardinality(S))
  BY <1>4
<1>6. \A s \in SUBSET S : Cardinality(s) <= Cardinality(S)
  BY FS_Subset
<1>7. Sub(Cardinality(S)) = SUBSET S
  BY <1>6
<1>8. Sums(w, f, S)
  <2> HIDE DEF Sub
  <2> QED  BY <1>5, <1>7 DEF Sums
<1> QED  BY <1>8

(* The sums over the subsets of a part are those over the subsets of the   *)
(* whole.                                                                  *)
LEMMA SumsAgree ==
    ASSUME NEW w, NEW S, NEW T \in SUBSET S, IsFiniteSet(S), NEW f, NEW g, Sums(w, f, S), Sums(w, g, T)
    PROVE  \A R \in SUBSET T : f[R] = g[R]
<1> DEFINE P == {n \in Nat : \A R \in SUBSET T : Cardinality(R) = n => f[R] = g[R]}
<1>0. \A R \in SUBSET T : R \in SUBSET S /\ IsFiniteSet(R) /\ Cardinality(R) \in Nat
  BY FS_Subset, FS_CardinalityType
<1>1. 0 \in P
  <2>1. \A R \in SUBSET T : Cardinality(R) = 0 => R = {}
    BY <1>0, FS_EmptySet
  <2>2. f[{}] = 0 /\ g[{}] = 0
    BY DEF Sums
  <2> QED  BY <2>1, <2>2
<1>2. ASSUME NEW n \in P PROVE n + 1 \in P
  <2> SUFFICES ASSUME NEW R \in SUBSET T, Cardinality(R) = n + 1 PROVE f[R] = g[R]
    OBVIOUS
  <2>1. R # {} /\ n \in Nat
    BY FS_EmptySet
  <2>2. AnyOf(R) \in R /\ Rest(R) \in SUBSET T /\ Rest(R) \in SUBSET S
    BY <1>0, <2>1, RestIs
  <2>3. Cardinality(Rest(R)) = n
    BY <1>0, <2>1, <2>2, CountOneLess DEF Rest
  <2>4. f[Rest(R)] = g[Rest(R)]
    BY <2>2, <2>3
  <2>5. f[R] = w[AnyOf(R)] + f[Rest(R)] /\ g[R] = w[AnyOf(R)] + g[Rest(R)]
    BY <1>0, <2>1 DEF Sums
  <2> QED  BY <2>4, <2>5
<1>3. P = Nat
  <2> HIDE DEF P
  <2>1. P \in SUBSET Nat
    BY DEF P
  <2> QED  BY <1>1, <1>2, <2>1, NatSetInduction
<1> QED  BY <1>0, <1>3

(* Sigma as a recursion over what is left of the set.                      *)
LEMMA SigmaTake ==
    ASSUME NEW w, NEW S, IsFiniteSet(S)
    PROVE  Sigma(w, S) = IF S = {} THEN 0 ELSE w[AnyOf(S)] + Sigma(w, Rest(S))
<1> DEFINE f == CHOOSE f : Sums(w, f, S)  g == CHOOSE g : Sums(w, g, Rest(S))
<1>1. Sums(w, f, S) /\ Sigma(w, S) = f[S]
  BY SumsDefined, SigmaIs
<1>2. CASE S = {}
  BY <1>1, <1>2 DEF Sums
<1>3. CASE S # {}
  <2>1. Rest(S) \in SUBSET S /\ IsFiniteSet(Rest(S))
    BY <1>3, RestIs, FS_Subset
  <2>2. Sums(w, g, Rest(S)) /\ Sigma(w, Rest(S)) = g[Rest(S)]
    BY <2>1, SumsDefined, SigmaIs
  <2> HIDE DEF f, g
  <2>3. f[Rest(S)] = g[Rest(S)]
    BY <1>1, <2>1, <2>2, SumsAgree
  <2>4. f[S] = w[AnyOf(S)] + f[Rest(S)]
    BY <1>1, <1>3 DEF Sums
  <2> QED  BY <1>1, <1>3, <2>2, <2>3, <2>4
<1> QED  BY <1>2, <1>3

(* The sum of nothing is 0.                                                *)
LEMMA SigmaEmpty ==
    ASSUME NEW w
    PROVE  Sigma(w, {}) = 0
BY SigmaTake, FS_EmptySet

(* The values to add up are integers, and finitely many.                   *)
Measured(w, S) == IsFiniteSet(S) /\ \A u \in S : w[u] \in Int

(* A part of such a set is one.                                            *)
LEMMA MeasuredPart ==
    ASSUME NEW w, NEW S, NEW T \in SUBSET S, Measured(w, S)
    PROVE  Measured(w, T)
BY FS_Subset DEF Measured

(* The sum of integers is one.                                             *)
LEMMA SigmaInt ==
    ASSUME NEW w, NEW S, Measured(w, S)
    PROVE  Sigma(w, S) \in Int
<1> DEFINE P == {n \in Nat : \A R \in SUBSET S : Cardinality(R) = n => Sigma(w, R) \in Int}
<1>0. \A R \in SUBSET S : IsFiniteSet(R) /\ Cardinality(R) \in Nat /\ \A u \in R : w[u] \in Int
  BY FS_Subset, FS_CardinalityType DEF Measured
<1>1. 0 \in P
  <2> SUFFICES ASSUME NEW R \in SUBSET S, Cardinality(R) = 0 PROVE Sigma(w, R) \in Int
    OBVIOUS
  <2>1. R = {}
    BY <1>0, FS_EmptySet
  <2> QED  BY <2>1, SigmaEmpty
<1>2. ASSUME NEW n \in P PROVE n + 1 \in P
  <2> SUFFICES ASSUME NEW R \in SUBSET S, Cardinality(R) = n + 1 PROVE Sigma(w, R) \in Int
    OBVIOUS
  <2>1. R # {} /\ n \in Nat
    BY FS_EmptySet
  <2>2. AnyOf(R) \in R /\ w[AnyOf(R)] \in Int /\ Rest(R) \in SUBSET S
    BY <1>0, <2>1, RestIs
  <2>3. Cardinality(Rest(R)) = n
    BY <1>0, <2>1, <2>2, CountOneLess DEF Rest
  <2>4. Sigma(w, Rest(R)) \in Int
    BY <2>2, <2>3
  <2> QED  BY <1>0, <2>1, <2>2, <2>4, SigmaTake
<1>3. P = Nat
  <2> HIDE DEF P
  <2>1. P \in SUBSET Nat
    BY DEF P
  <2> QED  BY <1>1, <1>2, <2>1, NatSetInduction
<1> QED  BY <1>0, <1>3

(* Whatever is taken away first, the sum counts it once: the order in      *)
(* which the elements are taken does not matter.                           *)
LEMMA SigmaStep ==
    ASSUME NEW w, NEW S, Measured(w, S)
    PROVE  \A x \in S : Sigma(w, S) = w[x] + Sigma(w, S \ {x})
<1> DEFINE Right(R) == \A x \in R : Sigma(w, R) = w[x] + Sigma(w, R \ {x})
           P == {n \in Nat : \A R \in SUBSET S : Cardinality(R) = n => Right(R)}
<1>0. \A R \in SUBSET S : /\ IsFiniteSet(R) /\ Cardinality(R) \in Nat /\ Sigma(w, R) \in Int
                          /\ \A u \in R : w[u] \in Int
  BY MeasuredPart, SigmaInt, FS_CardinalityType DEF Measured
<1>1. 0 \in P
  BY <1>0, FS_EmptySet
<1>2. ASSUME NEW n \in P PROVE n + 1 \in P
  <2> SUFFICES ASSUME NEW R \in SUBSET S, Cardinality(R) = n + 1, NEW x \in R
               PROVE  Sigma(w, R) = w[x] + Sigma(w, R \ {x})
    OBVIOUS
  <2>1. R # {} /\ n \in Nat
    BY FS_EmptySet
  <2> DEFINE a == AnyOf(R)
  <2>2. a \in R /\ w[a] \in Int /\ Rest(R) = R \ {a}
    BY <1>0, <2>1, RestIs DEF Rest
  <2>3. Sigma(w, R) = w[a] + Sigma(w, R \ {a})
    BY <1>0, <2>1, <2>2, SigmaTake
  <2> HIDE DEF a
  <2>4. \A y \in R : R \ {y} \in SUBSET S /\ Right(R \ {y})
    <3> HIDE DEF Right
    <3>1. \A y \in R : Cardinality(R \ {y}) = n
      BY <1>0, <2>1, CountOneLess
    <3> QED  BY <3>1
  <2>5. CASE x = a
    BY <2>3, <2>5
  <2>6. CASE x # a
    <3>1. Sigma(w, R \ {a}) = w[x] + Sigma(w, (R \ {a}) \ {x})
      BY <2>2, <2>4, <2>6
    <3>2. Sigma(w, R \ {x}) = w[a] + Sigma(w, (R \ {x}) \ {a})
      BY <2>2, <2>4, <2>6
    <3>3. (R \ {a}) \ {x} = (R \ {x}) \ {a} /\ (R \ {x}) \ {a} \in SUBSET S
      OBVIOUS
    <3>4. Sigma(w, (R \ {x}) \ {a}) \in Int /\ w[x] \in Int
      BY <1>0, <3>3
    <3>5. Sigma(w, R) = w[a] + (w[x] + Sigma(w, (R \ {x}) \ {a}))
      BY <2>3, <3>1, <3>3, Zenon
    <3> DEFINE v == Sigma(w, (R \ {x}) \ {a})
    <3> HIDE DEF v
    <3>6. w[a] + (w[x] + v) = w[x] + (w[a] + v)
      BY <2>2, <3>4 DEF v
    <3> QED  BY <3>2, <3>5, <3>6, Zenon DEF v
  <2> QED  BY <2>5, <2>6
<1>3. P = Nat
  <2> HIDE DEF P
  <2>1. P \in SUBSET Nat
    BY DEF P
  <2> QED  BY <1>1, <1>2, <2>1, NatSetInduction
<1> QED  BY <1>0, <1>3

(* One more element adds its value.                                        *)
LEMMA SigmaAdd ==
    ASSUME NEW w, NEW S, Measured(w, S), NEW x, x \notin S, w[x] \in Int
    PROVE  Measured(w, S \cup {x}) /\ Sigma(w, S \cup {x}) = Sigma(w, S) + w[x]
<1>1. Measured(w, S \cup {x})
  BY FS_AddElement DEF Measured
<1>2. (S \cup {x}) \ {x} = S
  OBVIOUS
<1>3. Sigma(w, S \cup {x}) = w[x] + Sigma(w, S)
  BY <1>1, <1>2, SigmaStep
<1>4. Sigma(w, S) \in Int
  BY SigmaInt
<1> QED  BY <1>1, <1>3, <1>4

(* The sums over two sets without a common element add up.                 *)
LEMMA SigmaUnion ==
    ASSUME NEW w, NEW A, NEW B, Measured(w, A), Measured(w, B), A \cap B = {}
    PROVE  Measured(w, A \cup B) /\ Sigma(w, A \cup B) = Sigma(w, A) + Sigma(w, B)
<1> DEFINE P == {T \in SUBSET B : /\ Measured(w, A \cup T)
                                  /\ Sigma(w, A \cup T) = Sigma(w, A) + Sigma(w, T)}
<1>1. {} \in P
  <2>1. A \cup {} = A
    OBVIOUS
  <2> QED  BY <2>1, SigmaInt, SigmaEmpty
<1>2. ASSUME NEW T \in P, NEW x \in B \ T PROVE T \cup {x} \in P
  <2>1. x \notin A \cup T /\ w[x] \in Int /\ A \cup (T \cup {x}) = (A \cup T) \cup {x}
    BY DEF Measured
  <2>2. Measured(w, T)
    BY MeasuredPart
  <2>3. Measured(w, (A \cup T) \cup {x}) /\ Sigma(w, (A \cup T) \cup {x}) = Sigma(w, A \cup T) + w[x]
    BY <2>1, SigmaAdd
  <2>4. Sigma(w, T \cup {x}) = Sigma(w, T) + w[x]
    BY <2>1, <2>2, SigmaAdd
  <2>5. Sigma(w, A) \in Int /\ Sigma(w, T) \in Int /\ w[x] \in Int
    BY <2>1, <2>2, SigmaInt
  <2>6. Sigma(w, A \cup (T \cup {x})) = Sigma(w, A) + Sigma(w, T \cup {x})
    <3>1. Sigma(w, A \cup (T \cup {x})) = (Sigma(w, A) + Sigma(w, T)) + w[x]
      BY <2>1, <2>3
    <3> QED  BY <2>4, <2>5, <3>1
  <2> QED  BY <2>1, <2>3, <2>6
<1>3. B \in P
  <2> HIDE DEF P
  <2>1. P \in SUBSET SUBSET B
    BY DEF P
  <2> QED  BY <1>1, <1>2, <2>1, SubsetInduction DEF Measured
<1> QED  BY <1>3

(* A sum is that over a part and that over what is left.                   *)
LEMMA SigmaPart ==
    ASSUME NEW w, NEW S, NEW T \in SUBSET S, Measured(w, S)
    PROVE  /\ Sigma(w, S) \in Int /\ Sigma(w, T) \in Int /\ Sigma(w, S \ T) \in Int
           /\ Sigma(w, S) = Sigma(w, T) + Sigma(w, S \ T)
<1>1. Measured(w, T) /\ Measured(w, S \ T) /\ T \cap (S \ T) = {} /\ T \cup (S \ T) = S
  BY MeasuredPart
<1>2. Sigma(w, S) = Sigma(w, T) + Sigma(w, S \ T)
  BY <1>1, SigmaUnion
<1>3. Sigma(w, S) \in Int /\ Sigma(w, T) \in Int /\ Sigma(w, S \ T) \in Int
  BY <1>1, SigmaInt
<1> QED  BY <1>2, <1>3

(* A sum of zeros is 0.                                                    *)
LEMMA SigmaZero ==
    ASSUME NEW w, NEW S, IsFiniteSet(S), \A u \in S : w[u] = 0
    PROVE  Sigma(w, S) = 0
<1> DEFINE P == {T \in SUBSET S : Sigma(w, T) = 0}
<1>0. Measured(w, S)
  BY DEF Measured
<1>1. {} \in P
  BY SigmaEmpty
<1>2. ASSUME NEW T \in P, NEW x \in S \ T PROVE T \cup {x} \in P
  <2>1. Measured(w, T) /\ w[x] = 0
    BY <1>0, MeasuredPart
  <2>2. Sigma(w, T \cup {x}) = Sigma(w, T) + w[x]
    BY <2>1, SigmaAdd
  <2> QED  BY <2>1, <2>2
<1>3. S \in P
  <2> HIDE DEF P
  <2>1. P \in SUBSET SUBSET S
    BY DEF P
  <2> QED  BY <1>1, <1>2, <2>1, SubsetInduction
<1> QED  BY <1>3

(* The sum depends on the values at the elements only.                     *)
LEMMA SigmaSame ==
    ASSUME NEW w, NEW v, NEW S, Measured(w, S), \A x \in S : v[x] = w[x]
    PROVE  Measured(v, S) /\ Sigma(v, S) = Sigma(w, S)
<1> DEFINE P == {T \in SUBSET S : Sigma(v, T) = Sigma(w, T)}
<1>0. Measured(v, S)
  BY DEF Measured
<1>1. {} \in P
  BY SigmaEmpty
<1>2. ASSUME NEW T \in P, NEW x \in S \ T PROVE T \cup {x} \in P
  <2>1. Measured(w, T) /\ Measured(v, T) /\ w[x] \in Int /\ v[x] = w[x]
    BY <1>0, MeasuredPart DEF Measured
  <2>2. Sigma(w, T \cup {x}) = Sigma(w, T) + w[x] /\ Sigma(v, T \cup {x}) = Sigma(v, T) + v[x]
    BY <2>1, SigmaAdd
  <2> QED  BY <2>1, <2>2
<1>3. S \in P
  <2> HIDE DEF P
  <2>1. P \in SUBSET SUBSET S
    BY DEF P
  <2> QED  BY <1>1, <1>2, <2>1, SubsetInduction DEF Measured
<1> QED  BY <1>0, <1>3

(* A sum of sums.                                                          *)
LEMMA SigmaPlus ==
    ASSUME NEW u, NEW v, NEW w, NEW S, Measured(u, S), Measured(v, S),
           \A x \in S : w[x] = u[x] + v[x]
    PROVE  Measured(w, S) /\ Sigma(w, S) = Sigma(u, S) + Sigma(v, S)
<1> DEFINE P == {T \in SUBSET S : Sigma(w, T) = Sigma(u, T) + Sigma(v, T)}
<1>0. Measured(w, S)
  BY DEF Measured
<1>1. {} \in P
  BY SigmaEmpty
<1>2. ASSUME NEW T \in P, NEW x \in S \ T PROVE T \cup {x} \in P
  <2>1. /\ Measured(u, T) /\ Measured(v, T) /\ Measured(w, T)
        /\ u[x] \in Int /\ v[x] \in Int /\ w[x] = u[x] + v[x]
    BY <1>0, MeasuredPart DEF Measured
  <2>2. /\ Sigma(u, T \cup {x}) = Sigma(u, T) + u[x]
        /\ Sigma(v, T \cup {x}) = Sigma(v, T) + v[x]
        /\ Sigma(w, T \cup {x}) = Sigma(w, T) + w[x]
    BY <2>1, SigmaAdd
  <2>3. Sigma(u, T) \in Int /\ Sigma(v, T) \in Int
    BY <2>1, SigmaInt
  <2> QED  BY <2>1, <2>2, <2>3
<1>3. S \in P
  <2> HIDE DEF P
  <2>1. P \in SUBSET SUBSET S
    BY DEF P
  <2> QED  BY <1>1, <1>2, <2>1, SubsetInduction DEF Measured
<1> QED  BY <1>0, <1>3

(* A sum of larger values is no smaller.                                   *)
LEMMA SigmaLess ==
    ASSUME NEW v, NEW w, NEW S, Measured(v, S), Measured(w, S), \A x \in S : v[x] <= w[x]
    PROVE  Sigma(v, S) <= Sigma(w, S)
<1> DEFINE P == {T \in SUBSET S : Sigma(v, T) <= Sigma(w, T)}
<1>1. {} \in P
  BY SigmaEmpty
<1>2. ASSUME NEW T \in P, NEW x \in S \ T PROVE T \cup {x} \in P
  <2>1. /\ Measured(v, T) /\ Measured(w, T)
        /\ v[x] \in Int /\ w[x] \in Int /\ v[x] <= w[x]
    BY MeasuredPart DEF Measured
  <2>2. Sigma(v, T \cup {x}) = Sigma(v, T) + v[x] /\ Sigma(w, T \cup {x}) = Sigma(w, T) + w[x]
    BY <2>1, SigmaAdd
  <2>3. Sigma(v, T) \in Int /\ Sigma(w, T) \in Int /\ Sigma(v, T) <= Sigma(w, T)
    BY <2>1, SigmaInt
  <2>4. Sigma(v, T) + v[x] <= Sigma(w, T) + w[x]
    BY <2>1, <2>3
  <2> QED  BY <2>2, <2>4
<1>3. S \in P
  <2> HIDE DEF P
  <2>1. P \in SUBSET SUBSET S
    BY DEF P
  <2> QED  BY <1>1, <1>2, <2>1, SubsetInduction DEF Measured
<1> QED  BY <1>3

(* A sum of naturals is one, and no smaller than that over a part.         *)
LEMMA SigmaNat ==
    ASSUME NEW w, NEW S, IsFiniteSet(S), \A x \in S : w[x] \in Nat, NEW T \in SUBSET S
    PROVE  /\ Measured(w, S) /\ Sigma(w, S) \in Nat /\ Sigma(w, T) \in Nat
           /\ Sigma(w, T) <= Sigma(w, S)
<1> DEFINE P == {R \in SUBSET S : Sigma(w, R) \in Nat}
<1>0. Measured(w, S)
  BY DEF Measured
<1>1. {} \in P
  BY SigmaEmpty
<1>2. ASSUME NEW R \in P, NEW x \in S \ R PROVE R \cup {x} \in P
  <2>1. Measured(w, R) /\ w[x] \in Nat
    BY <1>0, MeasuredPart
  <2>2. Sigma(w, R \cup {x}) = Sigma(w, R) + w[x]
    BY <2>1, SigmaAdd DEF Measured
  <2> QED  BY <2>1, <2>2
<1>3. ASSUME NEW R \in SUBSET S PROVE R \in P
  <2> DEFINE Q == P \cap SUBSET R
  <2>1. {} \in Q /\ \A U \in Q : \A x \in R \ U : U \cup {x} \in Q
    <3> HIDE DEF P
    <3> QED  BY <1>1, <1>2
  <2>2. IsFiniteSet(R)
    BY FS_Subset
  <2>3. R \in Q
    <3> HIDE DEF Q
    <3>1. Q \in SUBSET SUBSET R
      BY DEF Q
    <3> QED  BY <2>1, <2>2, <3>1, SubsetInduction
  <2> QED  BY <2>3
<1>4. Sigma(w, S) \in Nat /\ Sigma(w, T) \in Nat /\ Sigma(w, S \ T) \in Nat
  BY <1>3
<1>5. Sigma(w, S) = Sigma(w, T) + Sigma(w, S \ T)
  BY <1>0, SigmaPart
<1> QED  BY <1>0, <1>4, <1>5

(* The names that b gives the elements of S.                               *)
ImageOf(b, S) == {b[x] : x \in S}

(* A sum over the elements is a sum over their names.                      *)
LEMMA SigmaMap ==
    ASSUME NEW S, IsFiniteSet(S), NEW b, NEW v, NEW w,
           \A x, y \in S : x # y => b[x] # b[y],
           \A x \in S : v[x] = w[b[x]] /\ w[b[x]] \in Int
    PROVE  /\ Measured(v, S) /\ Measured(w, ImageOf(b, S))
           /\ Sigma(v, S) = Sigma(w, ImageOf(b, S))
<1> DEFINE Im(T) == ImageOf(b, T)
           P == {T \in SUBSET S : Measured(w, Im(T)) /\ Sigma(v, T) = Sigma(w, Im(T))}
<1>0. Measured(v, S)
  BY DEF Measured
<1>1. {} \in P
  <2>1. Im({}) = {}
    BY DEF ImageOf
  <2> QED  BY <2>1, SigmaEmpty, FS_EmptySet DEF Measured
<1>2. ASSUME NEW T \in P, NEW x \in S \ T PROVE T \cup {x} \in P
  <2>1. /\ Im(T \cup {x}) = Im(T) \cup {b[x]} /\ b[x] \notin Im(T)
        /\ v[x] = w[b[x]] /\ w[b[x]] \in Int
    BY DEF ImageOf
  <2>2. Measured(v, T) /\ Measured(w, Im(T)) /\ Sigma(v, T) = Sigma(w, Im(T))
    BY <1>0, MeasuredPart
  <2> HIDE DEF Im
  <2>3. Sigma(v, T \cup {x}) = Sigma(v, T) + v[x]
    BY <2>1, <2>2, SigmaAdd
  <2>4. /\ Measured(w, Im(T) \cup {b[x]})
        /\ Sigma(w, Im(T) \cup {b[x]}) = Sigma(w, Im(T)) + w[b[x]]
    BY <2>1, <2>2, SigmaAdd
  <2> QED  BY <2>1, <2>2, <2>3, <2>4
<1>3. S \in P
  <2> HIDE DEF P
  <2>1. P \in SUBSET SUBSET S
    BY DEF P
  <2> QED  BY <1>1, <1>2, <2>1, SubsetInduction
<1> QED  BY <1>0, <1>3

(* The elements of S that h puts into the group g.                         *)
Fibre(h, S, g) == {x \in S : h[x] = g}

(* A sum is the sum of the sums over the groups the elements fall into.    *)
LEMMA SigmaGroups ==
    ASSUME NEW S, NEW w, Measured(w, S), NEW G, IsFiniteSet(G), NEW h, NEW v,
           \A x \in S : h[x] \in G,
           \A g \in G : v[g] = Sigma(w, Fibre(h, S, g))
    PROVE  Measured(v, G) /\ Sigma(v, G) = Sigma(w, S)
<1> DEFINE Of(T) == {x \in S : h[x] \in T}
           One(g) == Fibre(h, S, g)
           P == {T \in SUBSET G : Sigma(v, T) = Sigma(w, Of(T))}
<1>0. Measured(v, G)
  <2>1. ASSUME NEW g \in G PROVE v[g] \in Int
    <3>1. v[g] = Sigma(w, One(g)) /\ One(g) \in SUBSET S
      BY DEF Fibre
    <3> HIDE DEF One
    <3>2. Measured(w, One(g))
      BY <3>1, MeasuredPart
    <3> QED  BY <3>1, <3>2, SigmaInt
  <2> QED  BY <2>1 DEF Measured
<1>1. {} \in P
  <2>1. Of({}) = {}
    OBVIOUS
  <2> QED  BY <2>1, SigmaEmpty
<1>2. ASSUME NEW T \in P, NEW g \in G \ T PROVE T \cup {g} \in P
  <2>1. /\ Of(T \cup {g}) = Of(T) \cup One(g) /\ Of(T) \cap One(g) = {}
        /\ Of(T) \in SUBSET S /\ One(g) \in SUBSET S
    BY DEF Fibre
  <2>2. v[g] = Sigma(w, One(g)) /\ Sigma(v, T) = Sigma(w, Of(T))
    OBVIOUS
  <2> HIDE DEF Of, One
  <2>3. Measured(v, T) /\ v[g] \in Int
    BY <1>0, MeasuredPart DEF Measured
  <2>4. Sigma(v, T \cup {g}) = Sigma(v, T) + v[g]
    BY <2>3, SigmaAdd
  <2>5. Measured(w, Of(T)) /\ Measured(w, One(g))
    BY <2>1, MeasuredPart
  <2>6. Sigma(w, Of(T) \cup One(g)) = Sigma(w, Of(T)) + Sigma(w, One(g))
    BY <2>1, <2>5, SigmaUnion
  <2> QED  BY <2>1, <2>2, <2>4, <2>6
<1>3. G \in P
  <2> HIDE DEF P
  <2>1. P \in SUBSET SUBSET G
    BY DEF P
  <2> QED  BY <1>1, <1>2, <2>1, SubsetInduction
<1>4. Of(G) = S
  OBVIOUS
<1> QED  BY <1>0, <1>3, <1>4

-----------------------------------------------------------------------------
(* The calls, by the names Begin gives them.                               *)
Ops == Balances \cup Listings \cup {"subscribe"}
(* The heights of transactions the server knows.                           *)
Heights == {-1, 0} \cup 1..MaxHeight
(* What a history may contain, and what that of an address may.            *)
AnyItem == [txid : Txids, height : Heights]
Items(a) == {i \in AnyItem : Touches(i.txid, a)}
(* A history has the items the server would list now.                      *)
Fresh(a, history) == ToSet(history) = HistoryOf(height, a)

(* The chain's part of the invariant: heights are blocks up to the bound   *)
(* or marks of the mempool, which no coinbase enters.                      *)
ChainInv ==
    /\ height \in [Txids -> {Absent} \cup Heights]
    /\ \A t \in Coinbases : height[t] \notin {0, -1}

(* Typing of the two sequences the model is about.                         *)
LEMMA SequenceTypes ==
    /\ Addresses \in Seq(Wallet) /\ Len(Addresses) \in Nat
    /\ DOMAIN Addresses = 1..Len(Addresses)
    /\ \A k \in 1..Len(Addresses) : Addresses[k] \in Wallet
    /\ \A a \in Wallet : \E k \in 1..Len(Addresses) : Addresses[k] = a
    /\ Len(Transactions) \in Nat /\ Txids = 1..Len(Transactions)
<1>1. Addresses \in Seq(Wallet) /\ Transactions \in Seq(ToSet(Transactions))
  BY TransactionAssumption DEF Wallet
<1>2. DOMAIN Addresses = 1..Len(Addresses) /\ Len(Addresses) \in Nat
  BY <1>1
<1>3. Len(Transactions) \in Nat /\ Txids = 1..Len(Transactions)
  BY <1>1 DEF Txids
<1>4. Wallet = {Addresses[k] : k \in DOMAIN Addresses}
  BY DEF Wallet, ToSet
<1> QED  BY <1>1, <1>2, <1>3, <1>4

(* The server lists transactions that touch the address.                   *)
LEMMA HistoryItems ==
    ASSUME NEW a \in Wallet, NEW h \in [Txids -> {Absent} \cup Heights]
    PROVE  HistoryOf(h, a) \subseteq Items(a)
<1> SUFFICES ASSUME NEW i \in HistoryOf(h, a) PROVE i \in Items(a)
  OBVIOUS
<1>1. PICK t \in Txids : Touches(t, a) /\ h[t] # Absent /\ i = [txid |-> t, height |-> h[t]]
  BY DEF HistoryOf, TxsOf
<1>2. h[t] \in Heights
  BY <1>1
<1> QED  BY <1>1, <1>2 DEF Items, AnyItem

(* A history is finite.                                                    *)
LEMMA HistoryFinite ==
    ASSUME NEW a \in Wallet, NEW h
    PROVE  IsFiniteSet(HistoryOf(h, a))
<1> DEFINE U == {u \in TxsOf[a] : h[u] # Absent}
           f == [t \in U |-> [txid |-> t, height |-> h[t]]]
<1>1. IsFiniteSet(Txids)
  BY SequenceTypes, FS_Interval
<1>2. U \in SUBSET Txids
  BY DEF TxsOf
<1>3. IsFiniteSet(U)
  BY <1>1, <1>2, FS_Subset
<1>4. HistoryOf(h, a) = {f[t] : t \in U}
  BY DEF HistoryOf
<1>5. f \in Surjection(U, HistoryOf(h, a))
  <2> HIDE DEF U
  <2>1. f \in [U -> HistoryOf(h, a)]
    BY <1>4
  <2>2. \A i \in HistoryOf(h, a) : \E t \in U : f[t] = i
    BY <1>4
  <2> QED  BY <2>1, <2>2 DEF Surjection
<1> HIDE DEF U, f
<1> QED  BY <1>3, <1>5, FS_Surjection

(* Every reply to get_history lists exactly the history of the address: it *)
(* has as many items as the history, all different.                        *)
LEMMA ReplyFresh ==
    ASSUME ChainInv, NEW a \in Wallet, NEW reply \in Replies(a)
    PROVE  reply \in Seq(AnyItem) /\ ToSet(reply) \subseteq Items(a) /\ Fresh(a, reply)
<1> DEFINE S == HistoryOf(height, a)  n == Cardinality(S)
<1>1. IsFiniteSet(S) /\ n \in Nat
  BY HistoryFinite, FS_CardinalityType
<1>2. S \subseteq Items(a)
  BY HistoryItems DEF ChainInv
<1>3. reply \in SetToSeqs(S)
  BY DEF Replies
<1> HIDE DEF S
<1>4. reply \in [1..n -> S] /\ \A i, j \in 1..n : i # j => reply[i] # reply[j]
  BY <1>3 DEF SetToSeqs
<1> HIDE DEF n
<1>5. IsFiniteSet(1..n) /\ Cardinality(1..n) = n
  BY <1>1, FS_Interval
<1>6. reply \in Injection(1..n, S)
  BY <1>4 DEF Injection, IsInjective
<1>7. reply \in Surjection(1..n, S)
  BY <1>1, <1>5, <1>6, FS_Injection DEF n
<1>8. \A i \in S : \E k \in 1..n : reply[k] = i
  BY <1>7 DEF Surjection
<1>9. DOMAIN reply = 1..n
  BY <1>4
<1>10. ToSet(reply) = S
  BY <1>4, <1>8, <1>9 DEF ToSet
<1>11. S \subseteq AnyItem
  BY <1>2 DEF Items
<1> QED  BY <1>2, <1>4, <1>1, <1>10, <1>11 DEF Fresh, S

(* The tip of the chain is the highest height, which exists since the      *)
(* least bound of the heights is one of them.                              *)
LEMMA TipBounded ==
    ASSUME ChainInv
    PROVE  Tip \in 0..MaxHeight /\ \A t \in Txids : height[t] <= Tip
<1> DEFINE S == {0} \cup {height[t] : t \in Txids}
           B == {b \in Nat : \A y \in S : y <= b}
<1>1. S \subseteq Int /\ 0 \in S /\ \A y \in S : y <= MaxHeight
  BY StateAssumption DEF ChainInv, Heights, Absent
<1>2. MaxHeight \in B
  BY <1>1, StateAssumption
<1>3. PICK b \in B : \A c \in B : b <= c
  <2> HIDE DEF B
  <2>1. B \in SUBSET Nat
    BY DEF B
  <2> QED  BY <1>2, <2>1, NatMin
<1>4. b \in S
  <2> SUFFICES ASSUME b \notin S PROVE FALSE
    OBVIOUS
  <2>1. b # 0 /\ b - 1 \in Nat
    BY <1>1
  <2>2. \A y \in S : y <= b - 1
    BY <1>1
  <2> QED  BY <1>3, <2>1, <2>2
<1>5. b \in S /\ \A y \in S : b >= y
  BY <1>1, <1>4
<1>6. Tip \in S /\ \A y \in S : Tip >= y
  <2> HIDE DEF S
  <2>1. Max(S) \in S /\ \A y \in S : Max(S) >= y
    BY <1>5 DEF Max
  <2> QED  BY <2>1 DEF Tip, S
<1>7. \A t \in Txids : height[t] \in S
  OBVIOUS
<1> HIDE DEF S
<1>8. Tip \in Int /\ Tip <= MaxHeight /\ Tip >= 0
  BY <1>1, <1>6
<1>9. \A t \in Txids : height[t] <= Tip
  BY <1>1, <1>6, <1>7
<1> QED  BY <1>8, <1>9, StateAssumption

-----------------------------------------------------------------------------
(* The mempool's marks are heights again, and no coinbase gets one.        *)
LEMMA RankedChain ==
    ASSUME NEW h \in [Txids -> {Absent} \cup Heights], NEW pending,
           pending \cap Coinbases = {}, \A t \in Coinbases : h[t] \notin {0, -1}
    PROVE  /\ Ranked(h, pending) \in [Txids -> {Absent} \cup Heights]
           /\ \A t \in Coinbases : Ranked(h, pending)[t] \notin {0, -1}
<1>1. \A t \in Txids : Ranked(h, pending)[t] \in {Absent} \cup Heights
  BY DEF Ranked, Heights
<1>2. Coinbases \subseteq Txids
  BY DEF Coinbases
<1>3. \A t \in Coinbases : Ranked(h, pending)[t] = h[t]
  BY <1>2 DEF Ranked
<1>4. Ranked(h, pending) = [t \in Txids |-> Ranked(h, pending)[t]]
  BY DEF Ranked
<1> HIDE DEF Ranked
<1> QED  BY <1>1, <1>3, <1>4

(* Arrivals, evictions and blocks keep the chain's part; the calls do not  *)
(* touch the chain.                                                        *)
LEMMA ChainStep ==
    ASSUME ChainInv, Next \/ UNCHANGED vars
    PROVE  ChainInv'
<1> USE DEF ChainInv
<1>1. CASE \E t \in Txids : Arrive(t)
  <2>1. PICK t \in Txids : Arrive(t)
    BY <1>1
  <2>2. height' = Ranked(height, {t}) /\ t \notin Coinbases
    BY <2>1 DEF Arrive, Change
  <2> QED  BY <2>2, RankedChain
<1>2. CASE \E t \in Txids : Evict(t)
  <2>1. PICK t \in Txids : height' = [height EXCEPT ![t] = Absent]
    BY <1>2 DEF Evict, Change
  <2>2. \A u \in Coinbases : height'[u] \in {height[u], Absent}
    BY <2>1 DEF Coinbases
  <2> QED  BY <2>1, <2>2 DEF Absent
<1>3. CASE \E block \in SUBSET (Mempool(height) \cup
                       {t \in Coinbases : height[t] = Absent}) : Mine(block)
  <2>1. PICK block \in SUBSET (Mempool(height) \cup
                       {t \in Coinbases : height[t] = Absent}) : Mine(block)
    BY <1>3
  <2> DEFINE h == [t \in Txids |-> IF t \in block THEN Tip + 1 ELSE height[t]]
  <2>2. height' = Ranked(h, Mempool(height) \ block) /\ Tip < MaxHeight
    BY <2>1 DEF Mine, Change
  <2>3. Tip + 1 \in 1..MaxHeight
    BY <2>2, TipBounded, StateAssumption
  <2>4. h \in [Txids -> {Absent} \cup Heights] /\ \A t \in Coinbases : h[t] \notin {0, -1}
    BY <2>3 DEF Heights, Coinbases
  <2>5. (Mempool(height) \ block) \cap Coinbases = {}
    BY DEF Mempool
  <2> HIDE DEF h
  <2> QED  BY <2>2, <2>4, <2>5, RankedChain
<1>4. CASE UNCHANGED height
  BY <1>4
<1>5. \/ \E t \in Txids : Arrive(t) \/ Evict(t)
      \/ \E block \in SUBSET (Mempool(height) \cup
                       {t \in Coinbases : height[t] = Absent}) : Mine(block)
      \/ UNCHANGED height
  BY DEF Next, vars, server, Begin, get_history_cached, get_history_requested,
         get_history_error, get_history_bulk, get_history_bulk_error, BulkReply,
         refresh_all_history_bulk, get_all_txs_sorted_bulk, load_txs_bulk,
         Finish, RequestFails, subscribe_address, do_addresses_subscriptions,
         do_addresses_subscriptions_bulk, HandleNotification, clear_caches
<1> QED  BY <1>1, <1>2, <1>3, <1>4, <1>5

-----------------------------------------------------------------------------
(* Nothing excuses a stale history of the address.                         *)
Good(a) == a \in subscribed /\ a \notin notified \cup unnamed \cup failed

(* The shape of a call in progress, and how far a bulk call has come.      *)
CallInv ==
    call # Idle =>
        /\ call = [op |-> call.op, next |-> call.next, seen |-> call.seen,
                   balances |-> call.balances, histories |-> call.histories]
        /\ call.op \in Ops
        /\ call.op # "bulk_rows" =>
             call.next \in 1 .. Len(Addresses) + 1 /\ call.histories = <<>>
        /\ call.op = "bulk_rows" =>
             /\ call.next \in 1 .. Len(Addresses) + 4
             /\ call.histories \in Seq(Seq(AnyItem))
             /\ Len(call.histories) =
                  IF call.next <= Len(Addresses) THEN call.next - 1 ELSE Len(Addresses)
        /\ call.op \in Balances => call.seen = {}

(* The replies a bulk call holds and has not stored yet age as the cached  *)
(* histories do: they are the server's unless something excuses them.      *)
(* refresh_all_history_bulk writes them into the cache without a look at   *)
(* what happened meanwhile, so CacheFresh is not inductive without this.   *)
BulkInv ==
    call # Idle /\ call.op = "bulk_rows" =>
        \A k \in 1..Len(call.histories) :
            /\ ToSet(call.histories[k]) \subseteq Items(Addresses[k])
            /\ Good(Addresses[k]) => Fresh(Addresses[k], call.histories[k])

(* CacheFresh, and what it needs when an address is subscribed late: what  *)
(* was cached without a subscription is counted as failed.                 *)
CacheInv ==
    /\ cache \in [Wallet -> Seq(AnyItem)] /\ empty \in [Wallet -> BOOLEAN]
    /\ \A a \in Wallet : ToSet(cache[a]) \subseteq Items(a)
    /\ \A a \in Wallet : Good(a) /\ Cached(a) => Fresh(a, Remembered(a))
    /\ \A a \in Wallet \ subscribed : Cached(a) => a \in failed

(* The sets of addresses lie in one another and the errors within their    *)
(* bound.                                                                  *)
ServerInv ==
    /\ subscribed \subseteq tried /\ notified \cup unnamed \subseteq subscribed
    /\ tried \subseteq Wallet
    /\ errors \in 0..MaxErrors /\ failed \subseteq Wallet

(* An empty history has no items.                                          *)
LEMMA NoItems == ToSet(<<>>) = {}
BY DEF ToSet

(* A change of the chain notifies the address or loses the notification,   *)
(* and either excuses what is cached or on its way.                        *)
LEMMA ChangeKeeps ==
    ASSUME NEW h, Change(h), ServerInv, CallInv, BulkInv, CacheInv
    PROVE  ServerInv' /\ CallInv' /\ BulkInv' /\ CacheInv'
<1>1. height' = h /\ UNCHANGED <<tried, subscribed, cache, empty, call, errors, failed>>
  BY DEF Change, caches
<1>2. /\ notified \subseteq notified' /\ unnamed \subseteq unnamed'
      /\ notified' \cup unnamed' \subseteq notified \cup unnamed \cup subscribed
      /\ \A a \in subscribed : HistoryOf(h, a) # HistoryOf(height, a) =>
           a \in notified' \cup unnamed'
  BY DEF Change
<1>3. \A a : Good(a)' => Good(a) /\ HistoryOf(height', a) = HistoryOf(height, a)
  BY <1>1, <1>2 DEF Good
<1>4. ServerInv'
  BY <1>1, <1>2 DEF ServerInv
<1>5. CallInv'
  BY <1>1 DEF CallInv
<1>6. BulkInv'
  BY <1>1, <1>3 DEF BulkInv, Fresh, Items, Touches
<1>7. CacheInv'
  <2>1. \A a \in Wallet : /\ Cached(a)' = Cached(a) /\ Remembered(a)' = Remembered(a)
                          /\ Items(a)' = Items(a)
    BY <1>1 DEF Cached, Remembered, Items
  <2> QED  BY <1>1, <1>3, <2>1 DEF CacheInv, Fresh
<1> QED  BY <1>4, <1>5, <1>6, <1>7

(* Steps that only add excuses keep what is said of the caches.            *)
LEMMA CachesKept ==
    ASSUME CacheInv, UNCHANGED <<height, subscribed, cache, empty>>,
           \A a : Good(a)' => Good(a), failed \subseteq failed'
    PROVE  CacheInv'
<1>1. \A a \in Wallet : /\ Cached(a)' = Cached(a) /\ Remembered(a)' = Remembered(a)
                        /\ Items(a)' = Items(a)
  BY DEF Cached, Remembered, Items
<1> QED  BY <1>1 DEF CacheInv, Fresh

(* get_history stores what is fresh, or what failed.                       *)
LEMMA StoreKeeps ==
    ASSUME CacheInv, NEW a \in Wallet, NEW history \in Seq(AnyItem),
           ToSet(history) \subseteq Items(a), Store(a, history),
           UNCHANGED server, failed \subseteq failed',
           a \in failed' \/ (Fresh(a, history) /\ a \in subscribed)
    PROVE  CacheInv'
<1>1. UNCHANGED <<height, subscribed, notified, unnamed>>
  BY DEF server
<1>2. \A b : Good(b)' => Good(b)
  BY <1>1 DEF Good
<1>3. /\ cache' = [cache EXCEPT ![a] = history]
      /\ empty' = [empty EXCEPT ![a] = (history = <<>>)]
  BY DEF Store
<1>4. cache' \in [Wallet -> Seq(AnyItem)] /\ empty' \in [Wallet -> BOOLEAN]
  BY <1>3 DEF CacheInv
<1>5. \A b \in Wallet : b # a => /\ Cached(b)' = Cached(b) /\ Remembered(b)' = Remembered(b)
                                 /\ cache'[b] = cache[b]
  BY <1>3 DEF Cached, Remembered, CacheInv
<1>6. cache'[a] = history /\ Remembered(a)' = history
  BY <1>3 DEF Remembered, CacheInv
<1>7. \A b : Items(b)' = Items(b)
  BY DEF Items
<1> QED  BY <1>1, <1>2, <1>4, <1>5, <1>6, <1>7 DEF CacheInv, Fresh, Good

(* A call that has read a history is at the next address, or over.         *)
LEMMA AbsorbKeeps ==
    ASSUME CallInv, Asking, NEW a, NEW history, Absorb(a, history)
    PROVE  CallInv' /\ BulkInv'
<1>1. /\ call # Idle /\ call.op \in Ops /\ call.op # "bulk_rows"
      /\ call.next \in 1..Len(Addresses) /\ call.histories = <<>>
  BY SequenceTypes DEF Asking, CallInv
<1>2. CASE call' = Idle
  BY <1>2 DEF CallInv, BulkInv
<1>3. CASE call' # Idle
  <2>1. PICK s, b : /\ call' = [call EXCEPT !.next = @ + 1, !.seen = s, !.balances = b]
                    /\ call.op \notin Listings => s = call.seen
    BY <1>3 DEF Absorb, Throw
  <2>2. /\ call' = [op |-> call.op, next |-> call.next + 1, seen |-> s,
                    balances |-> b, histories |-> call.histories]
    BY <1>1, <2>1 DEF CallInv
  <2>3. /\ call'.op = call.op /\ call'.next = call.next + 1 /\ call'.seen = s
        /\ call'.balances = b /\ call'.histories = call.histories
    BY <2>2
  <2>4. call.op \in Balances => call.op \notin Listings
    BY DEF Balances, Listings
  <2>5. call'.next \in 1..Len(Addresses) + 1
    BY <1>1, <2>3, SequenceTypes
  <2> QED  BY <1>1, <2>1, <2>2, <2>3, <2>4, <2>5 DEF CallInv, BulkInv
<1> QED  BY <1>2, <1>3

(* The inductive invariant.                                                *)
StateInv == ChainInv /\ ServerInv /\ CallInv /\ BulkInv /\ CacheInv

(* A call asks for an address of the wallet.                               *)
LEMMA AskingHere ==
    ASSUME CallInv, Asking \/ AskingInBulk
    PROVE  Here \in Wallet /\ call.next \in 1..Len(Addresses) /\ Here = Addresses[call.next]
BY SequenceTypes DEF Asking, AskingInBulk, CallInv, Here

(* get_history keeps the invariant, whether it serves from the cache,      *)
(* asks, or reads an error as an empty history.                            *)
LEMMA HistoryKeeps ==
    ASSUME StateInv, get_history_cached \/ get_history_requested \/ get_history_error
    PROVE  ServerInv' /\ CallInv' /\ BulkInv' /\ CacheInv'
<1> USE DEF StateInv
<1>1. CASE get_history_cached
  <2>1. Asking /\ Absorb(Here, Remembered(Here)) /\ UNCHANGED <<server, caches, errors, failed>>
    BY <1>1 DEF get_history_cached, ghosts
  <2>2. CallInv' /\ BulkInv'
    BY <2>1, AbsorbKeeps
  <2>3. CacheInv'
    BY <2>1, CachesKept DEF server, caches, Good
  <2> QED  BY <2>1, <2>2, <2>3 DEF ServerInv, server
<1>2. CASE get_history_requested
  <2>1. /\ Asking /\ UNCHANGED <<server, errors>> /\ failed' = failed \cup ({Here} \ subscribed)
        /\ \E reply \in Replies(Here) : Store(Here, reply) /\ Absorb(Here, reply)
    BY <1>2 DEF get_history_requested
  <2>2. PICK reply \in Replies(Here) : Store(Here, reply) /\ Absorb(Here, reply)
    BY <2>1
  <2>3. Here \in Wallet
    BY <2>1, AskingHere
  <2>4. reply \in Seq(AnyItem) /\ ToSet(reply) \subseteq Items(Here) /\ Fresh(Here, reply)
    BY <2>3, ReplyFresh
  <2>5. CallInv' /\ BulkInv'
    BY <2>1, <2>2, AbsorbKeeps
  <2>6. CacheInv'
    BY <2>1, <2>2, <2>3, <2>4, StoreKeeps
  <2> QED  BY <2>1, <2>3, <2>5, <2>6 DEF ServerInv, server
<1>3. CASE get_history_error
  <2>1. /\ Asking /\ UNCHANGED server /\ failed' = failed \cup {Here}
        /\ Store(Here, <<>>) /\ Absorb(Here, <<>>)
        /\ errors < MaxErrors /\ errors' = errors + 1
    BY <1>3 DEF get_history_error
  <2>2. Here \in Wallet
    BY <2>1, AskingHere
  <2>3. CallInv' /\ BulkInv'
    BY <2>1, AbsorbKeeps
  <2>4. <<>> \in Seq(AnyItem) /\ ToSet(<<>>) \subseteq Items(Here)
    BY NoItems
  <2>5. CacheInv'
    BY <2>1, <2>2, <2>4, StoreKeeps
  <2>6. errors' \in 0..MaxErrors
    BY <2>1, StateAssumption DEF ServerInv
  <2> QED  BY <2>1, <2>2, <2>3, <2>5, <2>6 DEF ServerInv, server
<1> QED  BY <1>1, <1>2, <1>3

(* What Append gives.                                                      *)
LEMMA AppendIs ==
    ASSUME NEW S, NEW s \in Seq(S), NEW e \in S
    PROVE  /\ Append(s, e) \in Seq(S) /\ Len(Append(s, e)) = Len(s) + 1
           /\ Append(s, e)[Len(s) + 1] = e
           /\ \A k \in 1..Len(s) : Append(s, e)[k] = s[k]
OBVIOUS

(* One more reply of a bulk request keeps the invariant.                   *)
LEMMA BulkReplyKeeps ==
    ASSUME CallInv, BulkInv, AskingInBulk, NEW history \in Seq(AnyItem), BulkReply(history),
           NEW a, a = Here, ToSet(history) \subseteq Items(a),
           Good(a)' => Fresh(a, history), \A b : Good(b)' => Good(b)
    PROVE  CallInv' /\ BulkInv'
<1>1. /\ call # Idle /\ call.op = "bulk_rows" /\ call.next \in 1..Len(Addresses)
      /\ call.histories \in Seq(Seq(AnyItem)) /\ Len(call.histories) = call.next - 1
  BY SequenceTypes DEF AskingInBulk, CallInv
<1>2. call' = [call EXCEPT !.next = @ + 1, !.histories = Append(@, history)]
  BY DEF BulkReply
<1>3. call' = [op |-> call.op, next |-> call.next + 1, seen |-> call.seen,
               balances |-> call.balances, histories |-> Append(call.histories, history)]
  BY <1>1, <1>2 DEF CallInv
<1>4. /\ call'.op = call.op /\ call'.next = call.next + 1 /\ call'.seen = call.seen
      /\ call'.balances = call.balances /\ call'.histories = Append(call.histories, history)
  BY <1>3
<1>5. /\ call'.histories \in Seq(Seq(AnyItem)) /\ Len(call'.histories) = call.next
      /\ call'.histories[call.next] = history
      /\ \A k \in 1 .. call.next - 1 : call'.histories[k] = call.histories[k]
  <2>1. (call.next - 1) + 1 = call.next
    BY <1>1, SequenceTypes
  <2> QED  BY <1>1, <1>4, <2>1, AppendIs
<1>6. call'.next \in 1 .. Len(Addresses) + 4
  BY <1>1, <1>4, SequenceTypes
<1>7. CallInv'
  <2>1. Len(call'.histories) = IF call'.next <= Len(Addresses) THEN call'.next - 1
                               ELSE Len(Addresses)
    BY <1>1, <1>4, <1>5, SequenceTypes
  <2> HIDE DEF Ops, Balances
  <2> QED  BY <1>1, <1>3, <1>4, <1>5, <1>6, <2>1 DEF CallInv, Balances
<1>8. BulkInv'
  <2>1. \A b : Items(b)' = Items(b)
    BY DEF Items
  <2>2. \A b, h : Fresh(b, h)' = Fresh(b, h)
    BY DEF Fresh, BulkReply, server
  <2> SUFFICES ASSUME NEW k \in 1..call.next
               PROVE  /\ ToSet(call'.histories[k]) \subseteq Items(Addresses[k])
                      /\ Good(Addresses[k])' => Fresh(Addresses[k], call'.histories[k])
    BY <1>4, <1>5, <2>1, <2>2 DEF BulkInv
  <2>3. CASE k = call.next
    BY <1>5, <2>3 DEF Here
  <2>4. CASE k # call.next
    <3>0. k \in 1 .. call.next - 1
      BY <1>1, <2>4, SequenceTypes
    <3>1. k \in 1..Len(call.histories) /\ call'.histories[k] = call.histories[k]
      BY <1>1, <1>5, <3>0
    <3> QED  BY <1>1, <3>1 DEF BulkInv
  <2> QED  BY <2>3, <2>4
<1> QED  BY <1>7, <1>8

(* So do the bulk requests, answered or failing.                           *)
LEMMA BulkKeeps ==
    ASSUME StateInv, get_history_bulk \/ get_history_bulk_error
    PROVE  ServerInv' /\ CallInv' /\ BulkInv' /\ CacheInv'
<1> USE DEF StateInv
<1>1. PICK a \in Wallet : a = Here
  BY AskingHere DEF get_history_bulk, get_history_bulk_error
<1>2. CASE get_history_bulk
  <2>1. PICK history \in Replies(a) : BulkReply(history)
    BY <1>1, <1>2 DEF get_history_bulk
  <2>2. /\ AskingInBulk
        /\ UNCHANGED <<height, tried, subscribed, notified, unnamed, cache, empty, errors, failed>>
    BY <1>2, <2>1 DEF get_history_bulk, BulkReply, server, caches, ghosts
  <2>3. history \in Seq(AnyItem) /\ ToSet(history) \subseteq Items(a) /\ Fresh(a, history)
    BY ReplyFresh
  <2>4. \A b : Good(b)' => Good(b)
    BY <2>2 DEF Good
  <2>5. CallInv' /\ BulkInv'
    BY <1>1, <2>1, <2>2, <2>3, <2>4, BulkReplyKeeps
  <2>6. CacheInv'
    BY <2>2, <2>4, CachesKept
  <2> QED  BY <2>2, <2>5, <2>6 DEF ServerInv
<1>3. CASE get_history_bulk_error
  <2>1. /\ AskingInBulk /\ BulkReply(<<>>) /\ failed' = failed \cup {a}
        /\ errors < MaxErrors /\ errors' = errors + 1
        /\ UNCHANGED <<height, tried, subscribed, notified, unnamed, cache, empty>>
    BY <1>1, <1>3 DEF get_history_bulk_error, BulkReply, server, caches
  <2>2. <<>> \in Seq(AnyItem) /\ ToSet(<<>>) \subseteq Items(a)
    BY NoItems
  <2>3. ~Good(a)' /\ \A b : Good(b)' => Good(b)
    BY <2>1 DEF Good
  <2>4. CallInv' /\ BulkInv'
    BY <1>1, <2>1, <2>2, <2>3, BulkReplyKeeps
  <2>5. CacheInv'
    BY <2>1, <2>3, CachesKept
  <2>6. errors' \in 0..MaxErrors
    BY <2>1, StateAssumption DEF ServerInv
  <2> QED  BY <2>1, <2>4, <2>5, <2>6 DEF ServerInv
<1> QED  BY <1>2, <1>3

(* A bulk call goes from one phase to the next.                            *)
LEMMA MoveOn ==
    ASSUME CallInv, call # Idle, call.op = "bulk_rows",
           call.next \in Len(Addresses) + 1 .. Len(Addresses) + 3, NEW s,
           call' = [call EXCEPT !.next = @ + 1, !.seen = s]
    PROVE  /\ CallInv' /\ call' # Idle /\ call'.op = "bulk_rows" /\ call'.next = call.next + 1
           /\ call'.seen = s /\ call'.histories = call.histories
<1>1. call' = [op |-> call.op, next |-> call.next + 1, seen |-> s,
               balances |-> call.balances, histories |-> call.histories]
  BY DEF CallInv
<1>2. /\ call'.op = call.op /\ call'.next = call.next + 1 /\ call'.seen = s
      /\ call'.balances = call.balances /\ call'.histories = call.histories
  BY <1>1
<1>3. /\ call.histories \in Seq(Seq(AnyItem))
      /\ Len(call.histories) = Len(Addresses)
      /\ call.next + 1 \in 1 .. Len(Addresses) + 4 /\ ~(call.next + 1 <= Len(Addresses))
  BY SequenceTypes DEF CallInv
<1>4. call'.op \in Ops /\ call'.op \notin Balances
  BY <1>2 DEF Ops, Balances, Listings
<1>5. call' # Idle
  BY <1>2 DEF Idle
<1> QED  BY <1>1, <1>2, <1>3, <1>4, <1>5 DEF CallInv

(* refresh_all_history_bulk stores every history at its own address.  A    *)
(* flag that it does not take back does no harm to an address that nothing *)
(* excuses: the flag is then right.                                        *)
LEMMA RefreshKeeps ==
    ASSUME StateInv, refresh_all_history_bulk
    PROVE  ServerInv' /\ CallInv' /\ BulkInv' /\ CacheInv'
<1> USE DEF StateInv
<1> DEFINE IndexOf(a) == CHOOSE i \in DOMAIN Addresses : Addresses[i] = a
           history == [a \in Wallet |-> call.histories[IndexOf(a)]]
<1>1. /\ call # Idle /\ call.op = "bulk_rows" /\ call.next = Len(Addresses) + 1
      /\ cache' = history
      /\ empty' = [a \in Wallet |-> empty[a] \/ history[a] = <<>>]
      /\ call' = [call EXCEPT !.next = @ + 1, !.seen = InsertAll(call.histories)]
      /\ failed' = failed \cup (Wallet \ subscribed)
      /\ UNCHANGED <<height, tried, subscribed, notified, unnamed, errors>>
  BY DEF refresh_all_history_bulk, server
<1>2. \A b : Good(b)' => Good(b)
  BY <1>1 DEF Good
<1>3. /\ CallInv' /\ call'.op = "bulk_rows" /\ call'.histories = call.histories
  <2>1. call.next \in Len(Addresses) + 1 .. Len(Addresses) + 3
    BY <1>1, SequenceTypes
  <2> QED  BY <1>1, <2>1, MoveOn
<1>4. \A b : Items(b)' = Items(b) /\ \A h : Fresh(b, h)' = Fresh(b, h)
  BY <1>1 DEF Items, Fresh
<1>5. BulkInv'
  BY <1>1, <1>2, <1>3, <1>4 DEF BulkInv
<1>6. /\ call.histories \in Seq(Seq(AnyItem)) /\ Len(call.histories) = Len(Addresses)
  BY <1>1, SequenceTypes DEF CallInv
<1>7. \A a \in Wallet : IndexOf(a) \in 1..Len(call.histories) /\ Addresses[IndexOf(a)] = a
  BY <1>6, SequenceTypes
<1> HIDE DEF IndexOf
<1>8. \A a \in Wallet : /\ history[a] \in Seq(AnyItem) /\ ToSet(history[a]) \subseteq Items(a)
                        /\ Good(a) => Fresh(a, history[a])
  <2> TAKE a \in Wallet
  <2>1. history[a] = call.histories[IndexOf(a)]
    OBVIOUS
  <2> HIDE DEF history
  <2>2. /\ ToSet(call.histories[IndexOf(a)]) \subseteq Items(Addresses[IndexOf(a)])
        /\ Good(Addresses[IndexOf(a)]) =>
             Fresh(Addresses[IndexOf(a)], call.histories[IndexOf(a)])
    BY <1>1, <1>7 DEF BulkInv
  <2>3. call.histories[IndexOf(a)] \in Seq(AnyItem)
    BY <1>6, <1>7
  <2> QED  BY <1>7, <2>1, <2>2, <2>3
<1> HIDE DEF history
<1>9. CacheInv'
  <2>1. cache' \in [Wallet -> Seq(AnyItem)] /\ empty' \in [Wallet -> BOOLEAN]
    <3>1. history = [a \in Wallet |-> history[a]]
      BY DEF history
    <3> QED  BY <1>1, <1>8, <3>1
  <2>2. \A a \in Wallet : ToSet(cache'[a]) \subseteq Items(a)'
    BY <1>1, <1>4, <1>8
  <2>3. ASSUME NEW a \in Wallet, Good(a)', Cached(a)' PROVE Fresh(a, Remembered(a))'
    <3>1. Good(a) /\ Fresh(a, history[a])
      BY <1>2, <1>8, <2>3
    <3>2. CASE empty[a]
      <4>1. Fresh(a, <<>>)
        BY <3>1, <3>2 DEF CacheInv, Cached, Remembered
      <4>2. Remembered(a)' = <<>>
        BY <1>1, <3>2 DEF Remembered
      <4> QED  BY <1>1, <4>1, <4>2 DEF Fresh
    <3>3. CASE ~empty[a]
      <4>1. Remembered(a)' = history[a]
        BY <1>1, <3>3 DEF Remembered, CacheInv
      <4> QED  BY <1>1, <3>1, <4>1 DEF Fresh
    <3> QED  BY <3>2, <3>3
  <2>4. \A a \in Wallet \ subscribed' : a \in failed'
    BY <1>1
  <2> QED  BY <2>1, <2>2, <2>3, <2>4 DEF CacheInv
<1>10. ServerInv'
  BY <1>1 DEF ServerInv
<1> QED  BY <1>3, <1>5, <1>9, <1>10

(* A call begins at the first address with nothing seen.                   *)
LEMMA BeginKeeps ==
    ASSUME NEW op \in Ops, Begin(op)
    PROVE  /\ CallInv' /\ BulkInv' /\ call' # Idle /\ call'.op = op /\ call'.next = 1
           /\ call'.seen = {} /\ call'.histories = <<>>
<1>1. call' = [op |-> op, next |-> 1, seen |-> {}, balances |-> <<>>, histories |-> <<>>]
  BY DEF Begin
<1>2. /\ call'.op = op /\ call'.next = 1 /\ call'.seen = {} /\ call'.balances = <<>>
      /\ call'.histories = <<>>
  BY <1>1
<1>3. call' # Idle
  BY <1>2 DEF Idle, Ops, Balances, Listings
<1>4. /\ <<>> \in Seq(Seq(AnyItem)) /\ Len(<<>>) = 0
      /\ 1 \in 1 .. Len(Addresses) + 1 /\ 1 \in 1 .. Len(Addresses) + 4
      /\ 0 = IF 1 <= Len(Addresses) THEN 1 - 1 ELSE Len(Addresses)
  BY SequenceTypes
<1> QED  BY <1>1, <1>2, <1>3, <1>4 DEF CallInv, BulkInv

(* do_addresses_subscriptions keeps the invariant: an address that is      *)
(* subscribed late has nothing in the cache that is not excused.           *)
LEMMA SubscribeKeeps ==
    ASSUME StateInv, subscribe_address
    PROVE  ServerInv' /\ CallInv' /\ BulkInv' /\ CacheInv'
<1> USE DEF StateInv
<1>1. /\ call # Idle /\ call.op = "subscribe" /\ call.next <= Len(Addresses)
      /\ call.next \in 1..Len(Addresses) + 1 /\ call.histories = <<>>
      /\ tried' = tried \cup {Here} /\ call' = [call EXCEPT !.next = @ + 1]
      /\ UNCHANGED <<height, notified, unnamed, cache, empty, failed>>
  BY DEF subscribe_address, Subscribing, CallInv, caches, ghosts
<1>2. Here \in Wallet
  BY <1>1, SequenceTypes DEF Here
<1>3. subscribed' \in {subscribed, subscribed \cup {Here}} /\ errors' \in 0..MaxErrors
  BY StateAssumption DEF subscribe_address, ServerInv
<1>4. ServerInv'
  BY <1>1, <1>2, <1>3 DEF ServerInv
<1>5. CallInv' /\ BulkInv'
  <2>1. call' = [op |-> call.op, next |-> call.next + 1, seen |-> call.seen,
                 balances |-> call.balances, histories |-> call.histories]
    BY <1>1 DEF CallInv
  <2>2. /\ call'.op = call.op /\ call'.next = call.next + 1 /\ call'.seen = call.seen
        /\ call'.balances = call.balances /\ call'.histories = call.histories
    BY <2>1
  <2>3. call'.next \in 1..Len(Addresses) + 1
    BY <1>1, <2>2, SequenceTypes
  <2>4. call.op \in Ops /\ call.op \notin Balances
    BY <1>1 DEF Ops, Balances
  <2> QED  BY <1>1, <2>1, <2>2, <2>3, <2>4 DEF CallInv, BulkInv
<1>6. CacheInv'
  <2>1. \A a \in Wallet : /\ Cached(a)' = Cached(a) /\ Remembered(a)' = Remembered(a)
                          /\ Items(a)' = Items(a)
    BY <1>1 DEF Cached, Remembered, Items
  <2>2. \A a \in Wallet : Good(a)' /\ Cached(a) => Good(a)
    BY <1>1, <1>3 DEF Good, CacheInv
  <2> QED  BY <1>1, <1>3, <2>1, <2>2 DEF CacheInv, Fresh
<1> QED  BY <1>4, <1>5, <1>6

(* clear_caches_for_address and clear_caches take the excuse away together *)
(* with what it excused.                                                   *)
LEMMA ClearKeeps ==
    ASSUME StateInv, clear_caches \/ \E a \in Wallet : HandleNotification(a)
    PROVE  ServerInv' /\ CallInv' /\ BulkInv' /\ CacheInv'
<1> USE DEF StateInv
<1>1. /\ call = Idle /\ call' = call
      /\ UNCHANGED <<height, tried, subscribed, errors>>
      /\ notified' \cup unnamed' \subseteq notified \cup unnamed
      /\ failed' \subseteq failed
  BY DEF clear_caches, HandleNotification
<1>2. ServerInv' /\ CallInv' /\ BulkInv'
  BY <1>1 DEF ServerInv, CallInv, BulkInv
<1>3. \A b : Items(b)' = Items(b) /\ \A h : Fresh(b, h)' = Fresh(b, h)
  BY <1>1 DEF Items, Fresh
<1>4. <<>> \in Seq(AnyItem) /\ \A b : ToSet(<<>>) \subseteq Items(b)
  BY NoItems
<1>5. CASE clear_caches
  <2>1. cache' = [a \in Wallet |-> <<>>] /\ empty' = [a \in Wallet |-> FALSE]
    BY <1>5 DEF clear_caches
  <2>2. \A a \in Wallet : ~Cached(a)' /\ cache'[a] = <<>>
    BY <2>1 DEF Cached
  <2>3. cache' \in [Wallet -> Seq(AnyItem)] /\ empty' \in [Wallet -> BOOLEAN]
    BY <1>4, <2>1
  <2> QED  BY <1>2, <1>3, <1>4, <2>2, <2>3 DEF CacheInv
<1>6. CASE \E a \in Wallet : HandleNotification(a)
  <2>1. PICK a \in Wallet : HandleNotification(a)
    BY <1>6
  <2>2. /\ cache' = [cache EXCEPT ![a] = <<>>] /\ empty' = [empty EXCEPT ![a] = FALSE]
        /\ notified' = notified \ {a} /\ unnamed' = unnamed \ {a} /\ failed' = failed \ {a}
    BY <2>1 DEF HandleNotification, clear_caches_for_address
  <2>3. cache' \in [Wallet -> Seq(AnyItem)] /\ empty' \in [Wallet -> BOOLEAN]
    BY <1>4, <2>2 DEF CacheInv
  <2>4. ~Cached(a)' /\ cache'[a] = <<>>
    BY <2>2 DEF Cached, CacheInv
  <2>5. \A b \in Wallet : b # a => /\ Cached(b)' = Cached(b) /\ Remembered(b)' = Remembered(b)
                                   /\ cache'[b] = cache[b] /\ Good(b)' = Good(b)
    BY <1>1, <2>2 DEF Cached, Remembered, CacheInv, Good
  <2>6. \A b \in Wallet : b # a /\ b \in failed => b \in failed'
    BY <2>2
  <2> QED  BY <1>1, <1>2, <1>3, <1>4, <2>3, <2>4, <2>5, <2>6 DEF CacheInv
<1> QED  BY <1>5, <1>6

(* Every step keeps the invariant.                                         *)
LEMMA StateNext ==
    ASSUME StateInv, Next \/ UNCHANGED vars
    PROVE  StateInv'
<1> USE DEF StateInv
<1>1. ChainInv'
  BY ChainStep
<1> SUFFICES ServerInv' /\ CallInv' /\ BulkInv' /\ CacheInv'
  BY <1>1
<1>2. ASSUME NEW h, Change(h) PROVE ServerInv' /\ CallInv' /\ BulkInv' /\ CacheInv'
  BY <1>2, ChangeKeeps
<1>3. ASSUME UNCHANGED <<server, caches, failed>>, errors' \in 0..MaxErrors, CallInv', BulkInv'
      PROVE  ServerInv' /\ CallInv' /\ BulkInv' /\ CacheInv'
  <2>1. CacheInv'
    BY <1>3, CachesKept DEF server, caches, Good
  <2> QED  BY <1>3, <2>1 DEF ServerInv, server
<1>4. errors \in 0..MaxErrors /\ (errors < MaxErrors => errors + 1 \in 0..MaxErrors)
  BY StateAssumption DEF ServerInv
<1>5. call' = Idle => CallInv' /\ BulkInv'
  BY DEF CallInv, BulkInv
<1>6. CASE \E op \in Balances \cup Listings \cup {"subscribe"} : Begin(op)
  <2>1. PICK op \in Ops : Begin(op)
    BY <1>6 DEF Ops
  <2> QED  BY <2>1, <1>3, <1>4, BeginKeeps DEF Begin
<1>7. CASE get_all_txs_sorted_bulk \/ (load_txs_bulk /\ call' # Idle)
  <2>1. /\ call # Idle /\ call.op = "bulk_rows" /\ UNCHANGED <<server, caches, failed, errors>>
        /\ call.next = Len(Addresses) + 2 \/ call.next = Len(Addresses) + 3
        /\ call' = [call EXCEPT !.next = @ + 1]
    BY <1>7 DEF get_all_txs_sorted_bulk, load_txs_bulk, Throw, ghosts
  <2>2. call' = [call EXCEPT !.next = @ + 1, !.seen = call.seen]
    BY <2>1 DEF CallInv
  <2>3. call.next \in Len(Addresses) + 1 .. Len(Addresses) + 3
    BY <2>1, SequenceTypes
  <2>4. /\ CallInv' /\ call' # Idle /\ call'.op = "bulk_rows" /\ call'.histories = call.histories
    BY <2>1, <2>2, <2>3, MoveOn
  <2>5. BulkInv'
    <3>1. /\ \A b : Items(b)' = Items(b) /\ Good(b)' = Good(b)
          /\ \A b, h : Fresh(b, h)' = Fresh(b, h)
      BY <2>1 DEF server, Items, Good, Fresh
    <3> QED  BY <2>1, <2>4, <3>1 DEF BulkInv
  <2> QED  BY <1>3, <1>4, <2>1, <2>4, <2>5
<1>8. CASE \/ load_txs_bulk /\ call' = Idle
           \/ Finish \/ RequestFails \/ do_addresses_subscriptions
           \/ do_addresses_subscriptions_bulk
  <2>1. /\ call' = Idle /\ UNCHANGED <<server, caches, failed>> /\ errors' \in 0..MaxErrors
    BY <1>4, <1>8 DEF load_txs_bulk, Finish, RequestFails, do_addresses_subscriptions,
       do_addresses_subscriptions_bulk, Throw, ghosts
  <2> QED  BY <1>3, <1>5, <2>1
<1>9. CASE UNCHANGED vars
  <2>1. UNCHANGED <<height, tried, subscribed, notified, unnamed, cache, empty, call, errors, failed>>
    BY <1>9 DEF vars, server, caches, ghosts
  <2>2. /\ \A b : Items(b)' = Items(b) /\ Good(b)' = Good(b)
        /\ \A b, h : Fresh(b, h)' = Fresh(b, h)
    BY <2>1 DEF Items, Good, Fresh
  <2>3. CallInv' /\ BulkInv'
    BY <2>1, <2>2 DEF CallInv, BulkInv
  <2> QED  BY <1>3, <1>4, <2>1, <2>3 DEF server, caches
<1> QED
  BY <1>2, <1>6, <1>7, <1>8, <1>9, HistoryKeeps, BulkKeeps, RefreshKeeps, SubscribeKeeps,
     ClearKeeps DEF Next, Arrive, Evict, Mine

(* It holds of a new wallet.                                               *)
LEMMA StateInit == Init => StateInv
<1> SUFFICES ASSUME Init PROVE StateInv
  OBVIOUS
<1> USE DEF Init
<1>1. ChainInv
  BY StateAssumption DEF ChainInv, Heights, Absent, Coinbases
<1>2. ServerInv /\ CallInv /\ BulkInv
  BY StateAssumption DEF ServerInv, CallInv, BulkInv
<1>3. CacheInv
  <2>1. \A a \in Wallet : ~Cached(a) /\ cache[a] = <<>>
    BY DEF Cached
  <2>2. <<>> \in Seq(AnyItem)
    OBVIOUS
  <2> QED  BY <2>1, <2>2, NoItems DEF CacheInv
<1> QED  BY <1>1, <1>2, <1>3 DEF StateInv

(* It implies the type invariant and CacheFresh.                           *)
LEMMA StateImplies == StateInv => TypeOK /\ CacheFresh
<1> SUFFICES ASSUME StateInv PROVE TypeOK /\ CacheFresh
  OBVIOUS
<1> USE DEF StateInv
<1>1. call # Idle => call.next \in 1 .. Len(Addresses) + 4
  BY SequenceTypes DEF CallInv
<1>2. \A a \in Wallet : \A i \in ToSet(cache[a]) :
         /\ Touches(i.txid, a) /\ i.height \in {-1, 0} \cup 1..MaxHeight
  BY DEF CacheInv, Items, AnyItem, Heights
<1>3. TypeOK
  BY <1>1, <1>2 DEF TypeOK, ServerInv, CacheInv
<1>4. CacheFresh
  BY DEF CacheFresh, CacheInv, ServerInv, Good, Fresh
<1> QED  BY <1>3, <1>4

(* What is cached for an address are transactions that touch it, at        *)
(* heights of the chain, for every chain and list of addresses.            *)
THEOREM WalletTypeCorrect == Spec => []TypeOK
BY StateInit, StateNext, StateImplies, PTL DEF Spec

(* get_history never serves a stale history from its caches unless a       *)
(* notification for the address is unhandled or was lost, or an error was  *)
(* cached: however changes, replies, failures and calls of                 *)
(* HistoryInspector interleave, with bulk refreshes on their way, and with *)
(* addresses listed twice.                                                 *)
THEOREM CachesAreFresh == Spec => []CacheFresh
BY StateInit, StateNext, StateImplies, PTL DEF Spec

-----------------------------------------------------------------------------
(* The calls that resolve the inputs of confirmed transactions.            *)
Resolving == {"scan_balances", "rows", "bulk_rows", "confirmed"}
(* What the server lists for the first n addresses.                        *)
UpTo(n) == UNION {HistoryOf(height, Addresses[k]) : k \in 1..n}

(* The inductive invariant behind CoinbaseThrows: while nothing changes, a *)
(* call has seen exactly what the server lists for the addresses it is     *)
(* past, and can read all of it.                                           *)
CalmInv ==
    calm =>
        /\ call # Idle /\ call.op \notin {"bulk_rows", "subscribe"} =>
             /\ \A a \in Wallet : Cached(a) => Fresh(a, Remembered(a))
             /\ call.op \in Listings => call.seen = UpTo(call.next - 1)
             /\ call.op = "scan_balances" => ~Unreadable(UpTo(call.next - 1))
        /\ call # Idle /\ call.op = "bulk_rows" =>
             /\ \A k \in 1..Len(call.histories) : Fresh(Addresses[k], call.histories[k])
             /\ call.next > Len(Addresses) + 1 => call.seen = WalletItems
        /\ CoinbaseThrows

(* UpTo grows by the history of the next address, from nothing to all      *)
(* items of the wallet.                                                    *)
LEMMA UpToSteps ==
    /\ UpTo(0) = {}
    /\ \A n \in Nat : UpTo(n + 1) = UpTo(n) \cup HistoryOf(height, Addresses[n + 1])
    /\ UpTo(Len(Addresses)) = WalletItems
    /\ \A n \in 0..Len(Addresses) : UpTo(n) \subseteq WalletItems
<1>1. UpTo(0) = {}
  BY DEF UpTo
<1>2. ASSUME NEW n \in Nat PROVE UpTo(n + 1) = UpTo(n) \cup HistoryOf(height, Addresses[n + 1])
  <2>1. 1 .. n + 1 = 1..n \cup {n + 1}
    OBVIOUS
  <2> QED  BY <2>1 DEF UpTo
<1>3. UpTo(Len(Addresses)) = WalletItems
  BY SequenceTypes DEF UpTo, WalletItems
<1>4. ASSUME NEW n \in 0..Len(Addresses) PROVE UpTo(n) \subseteq WalletItems
  <2>1. 1..n \subseteq 1..Len(Addresses)
    BY SequenceTypes
  <2> QED  BY <1>3, <2>1 DEF UpTo
<1> QED  BY <1>1, <1>2, <1>3, <1>4

(* An item of the wallet is determined by its transaction.                 *)
LEMMA WalletItem ==
    ASSUME NEW i \in WalletItems
    PROVE  i.txid \in Txids /\ i = [txid |-> i.txid, height |-> height[i.txid]]
           /\ height[i.txid] # Absent
<1>1. PICK a \in Wallet : i \in HistoryOf(height, a)
  BY DEF WalletItems
<1>2. PICK t \in Txids : height[t] # Absent /\ i = [txid |-> t, height |-> height[t]]
  BY <1>1 DEF HistoryOf, TxsOf
<1> QED  BY <1>2

(* The histories of the addresses make up the items of the wallet.         *)
LEMMA HistoryOfWallet ==
    ASSUME NEW a \in Wallet PROVE HistoryOf(height, a) \subseteq WalletItems
BY DEF WalletItems

(* While nothing changes, ahi_set.insert drops no item that differs from   *)
(* the one it has.                                                         *)
LEMMA InsertFresh ==
    ASSUME NEW seen \in SUBSET WalletItems, NEW items \in SUBSET WalletItems
    PROVE  Insert(seen, items) = seen \cup items
BY WalletItem DEF Insert

(* The same for the set that refresh_all_history_bulk fills.               *)
LEMMA InsertAllFresh ==
    ASSUME NEW histories \in Seq(Seq(AnyItem)), Len(histories) = Len(Addresses),
           \A k \in 1..Len(histories) : Fresh(Addresses[k], histories[k])
    PROVE  InsertAll(histories) = WalletItems
<1> DEFINE H(k) == ToSet(histories[k])
<1>1. DOMAIN histories = 1..Len(Addresses)
  OBVIOUS
<1>2. \A k \in 1..Len(Addresses) : H(k) = HistoryOf(height, Addresses[k])
  BY DEF Fresh
<1>3. UNION {H(k) : k \in DOMAIN histories} = WalletItems
  BY <1>1, <1>2, UpToSteps DEF UpTo
<1>4. ASSUME NEW i \in WalletItems
      PROVE  \E k \in DOMAIN histories :
               /\ i \in H(k)
               /\ \A j \in 1 .. k - 1 : \A s \in H(j) : s.txid # i.txid
  <2> DEFINE K == {k \in Nat : k \in 1..Len(Addresses) /\ i \in H(k)}
  <2> HIDE DEF H
  <2>1. K # {} /\ K \in SUBSET Nat
    BY <1>1, <1>3, SequenceTypes
  <2>2. PICK k \in K : \A j \in K : k <= j
    <3> HIDE DEF K
    <3> QED  BY <2>1, NatMin
  <2>3. ASSUME NEW j \in 1 .. k - 1, NEW s \in H(j), s.txid = i.txid PROVE FALSE
    <3>1. j \in 1..Len(Addresses) /\ j < k
      BY SequenceTypes
    <3>2. s \in WalletItems
      BY <1>1, <1>3, <3>1
    <3>3. s = i
      BY <2>3, <3>2, WalletItem
    <3> QED  BY <2>2, <2>3, <3>1, <3>3
  <2> QED  BY <1>1, <2>2, <2>3
<1> QED  BY <1>3, <1>4 DEF InsertAll

(* The transactions whose inputs cannot be looked up are the coinbases.    *)
LEMMA CoinbaseUnreadable ==
    ASSUME NEW t \in Txids
    PROVE  NoTx \in append_funding_txs(t) <=> t \in Coinbases
<1>1. \A p \in Transactions[t].ins : p.tx # NoTx
  BY TransactionAssumption, SequenceTypes DEF NoTx
<1>2. t \in Coinbases <=> Transactions[t].ins = {}
  BY DEF Coinbases, Parents
<1> QED  BY <1>1, <1>2 DEF append_funding_txs

(* A call meets an input it cannot look up if it resolves confirmed        *)
(* transactions and there is a coinbase among them: in the mempool there   *)
(* is none.                                                                *)
LEMMA Throws ==
    ASSUME ChainInv, NEW items \in SUBSET WalletItems, NEW op \in Ops \ {"subscribe"}
    PROVE  /\ op \in Resolving => (Unreadable(Analysed(op, items)) <=> Unreadable(items))
           /\ op \notin Resolving => ~Unreadable(Analysed(op, items))
<1>1. ASSUME NEW i \in items, NoTx \in append_funding_txs(i.txid)
      PROVE  i.height \in 1..MaxHeight
  <2>1. i.txid \in Txids /\ i.height = height[i.txid] /\ height[i.txid] # Absent
    BY WalletItem
  <2>2. i.txid \in Coinbases
    BY <1>1, <2>1, CoinbaseUnreadable
  <2> QED  BY <2>1, <2>2 DEF ChainInv, Heights
<1>2. \A i \in items : NoTx \in append_funding_txs(i.txid) =>
         (i \in Analysed(op, items) <=> op \in Resolving)
  BY <1>1, StateAssumption DEF Analysed, Resolving, Ops, Balances, Listings
<1>3. Analysed(op, items) \subseteq items
  BY DEF Analysed
<1> QED  BY <1>2, <1>3 DEF Unreadable

(* A call that reads one more history keeps the invariant.                 *)
LEMMA AbsorbCalm ==
    ASSUME StateInv, CalmInv, calm, Asking, UNCHANGED height, NEW a, a = Here,
           NEW history, Fresh(a, history), Absorb(a, history),
           \A b \in Wallet : Cached(b)' => Fresh(b, Remembered(b))'
    PROVE  CalmInv'
<1> USE DEF StateInv
<1>1. /\ call # Idle /\ call.op \in Ops \ {"bulk_rows", "subscribe"}
      /\ a \in Wallet /\ call.next \in 1..Len(Addresses) /\ a = Addresses[call.next]
      /\ call.next - 1 \in 0..Len(Addresses) /\ call.next \in 0..Len(Addresses)
      /\ (call.next - 1) + 1 = call.next
  BY AskingHere, SequenceTypes DEF Asking, CallInv
<1> DEFINE items == ToSet(history)
<1>2. items = HistoryOf(height, a) /\ items \subseteq WalletItems
  BY <1>1, HistoryOfWallet DEF Fresh
<1>3. UpTo(call.next) = UpTo(call.next - 1) \cup items
  BY <1>1, <1>2, UpToSteps
<1>4. UpTo(call.next - 1) \subseteq WalletItems
  BY <1>1, UpToSteps
<1>5. /\ \A n : UpTo(n)' = UpTo(n)
      /\ WalletItems' = WalletItems
  BY DEF UpTo, WalletItems
<1> HIDE DEF items
<1>6. CASE call.op \in Balances /\ Unreadable(Analysed(call.op, items))
  <2>1. call' = Idle /\ result' = [op |-> "exception", of |-> call.op]
    BY <1>6 DEF Absorb, Throw, items
  <2>2. call.op \in Resolving /\ Unreadable(items)
    BY <1>1, <1>2, <1>6, Throws
  <2>3. Unreadable(WalletItems)
    BY <1>2, <2>2 DEF Unreadable
  <2>4. CoinbaseThrows'
    <3>1. result'.op = "exception" /\ result'.of = call.op
      BY <2>1
    <3> QED  BY <1>5, <2>2, <2>3, <3>1 DEF CoinbaseThrows, Resolving
  <2> QED  BY <2>1, <2>4 DEF CalmInv
<1>7. CASE ~(call.op \in Balances /\ Unreadable(Analysed(call.op, items)))
  <2> DEFINE s == IF call.op \in Listings THEN Insert(call.seen, items) ELSE call.seen
  <2>1. PICK b : call' = [call EXCEPT !.next = @ + 1, !.seen = s, !.balances = b]
    <3>1. \E b : call' = [call EXCEPT !.next = @ + 1,
                            !.seen = IF call.op \in Listings THEN Insert(@, items) ELSE @,
                            !.balances = b]
      BY <1>7 DEF Absorb, items
    <3> QED  BY <1>1, <3>1 DEF CallInv
  <2> HIDE DEF s
  <2>2. call' = [op |-> call.op, next |-> call.next + 1, seen |-> s,
                 balances |-> b, histories |-> call.histories]
    BY <1>1, <2>1 DEF CallInv
  <2>3. /\ call'.op = call.op /\ call'.next = call.next + 1 /\ call'.seen = s
        /\ call'.next - 1 = call.next
    BY <1>1, <2>2, SequenceTypes
  <2>4. call' # Idle
    BY <1>1, <2>3 DEF Idle, Ops, Balances, Listings
  <2>5. call.op \in Listings => s = UpTo(call.next)
    <3> SUFFICES ASSUME call.op \in Listings PROVE s = UpTo(call.next)
      OBVIOUS
    <3>1. call.seen = UpTo(call.next - 1)
      BY <1>1 DEF CalmInv
    <3>2. Insert(call.seen, items) = call.seen \cup items
      BY <1>2, <1>4, <3>1, InsertFresh
    <3> QED  BY <1>3, <3>1, <3>2 DEF s
  <2>6. call.op = "scan_balances" => ~Unreadable(UpTo(call.next))
    <3> SUFFICES ASSUME call.op = "scan_balances" PROVE ~Unreadable(UpTo(call.next))
      OBVIOUS
    <3>1. ~Unreadable(UpTo(call.next - 1))
      BY <1>1 DEF CalmInv
    <3>2. ~Unreadable(items)
      BY <1>1, <1>2, <1>7, Throws DEF Resolving, Balances
    <3> QED  BY <1>3, <3>1, <3>2 DEF Unreadable
  <2>7. CoinbaseThrows'
    BY <2>4 DEF CoinbaseThrows
  <2> QED  BY <1>1, <1>5, <2>3, <2>4, <2>5, <2>6, <2>7 DEF CalmInv
<1> QED  BY <1>6, <1>7

(* A call that begins up to date finds fresh caches.                       *)
LEMMA BeginCalm ==
    ASSUME StateInv, NEW op \in Ops, Begin(op)
    PROVE  CalmInv'
<1> USE DEF StateInv
<1> SUFFICES ASSUME calm' PROVE CalmInv'
  BY DEF CalmInv
<1>1. /\ call' # Idle /\ call'.op = op /\ call'.next = 1
      /\ call'.seen = {} /\ call'.histories = <<>>
  BY BeginKeeps
<1>2. /\ op = "bulk_rows" \/ notified \cup unnamed \cup failed = {}
      /\ UNCHANGED <<height, cache, empty>>
  BY DEF Begin, server, caches
<1>3. CoinbaseThrows'
  BY <1>1 DEF CoinbaseThrows
<1>4. CASE op = "bulk_rows"
  <2>1. Len(call'.histories) = 0 /\ ~(call'.next > Len(Addresses) + 1)
    BY <1>1, SequenceTypes
  <2> QED  BY <1>1, <1>3, <1>4, <2>1 DEF CalmInv
<1>5. CASE op # "bulk_rows"
  <2>1. notified \cup unnamed \cup failed = {}
    BY <1>2, <1>5
  <2>2. ASSUME NEW a \in Wallet, Cached(a) PROVE Fresh(a, Remembered(a))
    BY <2>1, <2>2 DEF CacheInv, Good
  <2>3. \A a \in Wallet : Cached(a)' => Fresh(a, Remembered(a))'
    BY <1>2, <2>2 DEF Cached, Remembered, Fresh
  <2>4. UpTo(0)' = {} /\ call'.next - 1 = 0
    BY <1>1 DEF UpTo
  <2>5. ~Unreadable(UpTo(0)')
    BY <2>4 DEF Unreadable
  <2> QED  BY <1>1, <1>3, <1>5, <2>3, <2>4, <2>5 DEF CalmInv
<1> QED  BY <1>4, <1>5

(* get_history keeps them fresh, cached or asked for.                      *)
LEMMA HistoryCalm ==
    ASSUME StateInv, CalmInv, get_history_cached \/ get_history_requested
    PROVE  CalmInv'
<1> USE DEF StateInv
<1>1. Asking /\ UNCHANGED height /\ calm' = calm
  BY DEF get_history_cached, get_history_requested, server, ghosts
<1> SUFFICES ASSUME calm PROVE CalmInv'
  BY <1>1 DEF CalmInv
<1>2. PICK a \in Wallet : a = Here
  BY <1>1, AskingHere
<1>3. \A b \in Wallet : Cached(b) => Fresh(b, Remembered(b))
  BY <1>1 DEF CalmInv, Asking
<1>4. \A b, h : Fresh(b, h)' = Fresh(b, h)
  BY <1>1 DEF Fresh
<1>5. CASE get_history_cached
  <2>1. /\ Cached(a) /\ Absorb(a, Remembered(a)) /\ UNCHANGED <<cache, empty>>
    BY <1>2, <1>5 DEF get_history_cached, caches
  <2>2. \A b \in Wallet : Cached(b)' => Fresh(b, Remembered(b))'
    BY <1>1, <1>3, <2>1 DEF Cached, Remembered, Fresh
  <2> QED  BY <1>1, <1>2, <1>3, <2>1, <2>2, AbsorbCalm
<1>6. CASE get_history_requested
  <2>1. PICK reply \in Replies(a) : Store(a, reply) /\ Absorb(a, reply)
    BY <1>2, <1>6 DEF get_history_requested
  <2>2. Fresh(a, reply)
    BY ReplyFresh
  <2>3. /\ Remembered(a)' = reply
        /\ \A b \in Wallet : b # a => Cached(b)' = Cached(b) /\ Remembered(b)' = Remembered(b)
    BY <2>1 DEF Store, Remembered, Cached, CacheInv
  <2>4. \A b \in Wallet : Cached(b)' => Fresh(b, Remembered(b))'
    BY <1>1, <1>3, <2>2, <2>3 DEF Fresh
  <2> QED  BY <1>1, <1>2, <2>1, <2>2, <2>4, AbsorbCalm
<1> QED  BY <1>5, <1>6

(* The phases of a bulk call keep the invariant.                           *)
LEMMA BulkCalm ==
    ASSUME StateInv, CalmInv,
           \/ get_history_bulk \/ refresh_all_history_bulk
           \/ get_all_txs_sorted_bulk \/ load_txs_bulk
    PROVE  CalmInv'
<1> USE DEF StateInv
<1>1. /\ call # Idle /\ call.op = "bulk_rows" /\ UNCHANGED height /\ calm' = calm
      /\ call.histories \in Seq(Seq(AnyItem)) /\ call.next \in 1 .. Len(Addresses) + 4
      /\ Len(call.histories) =
           IF call.next <= Len(Addresses) THEN call.next - 1 ELSE Len(Addresses)
  BY DEF get_history_bulk, AskingInBulk, BulkReply, refresh_all_history_bulk,
         get_all_txs_sorted_bulk, load_txs_bulk, server, ghosts, CallInv
<1> SUFFICES ASSUME calm PROVE CalmInv'
  BY <1>1 DEF CalmInv
<1>2. /\ \A k \in 1..Len(call.histories) : Fresh(Addresses[k], call.histories[k])
      /\ call.next > Len(Addresses) + 1 => call.seen = WalletItems
  BY <1>1 DEF CalmInv
<1>3. WalletItems' = WalletItems /\ \A b, h : Fresh(b, h)' = Fresh(b, h)
  BY <1>1 DEF WalletItems, Fresh
<1>4. CASE get_history_bulk
  <2>1. PICK a \in Wallet : a = Here /\ call.next \in 1..Len(Addresses) /\ a = Addresses[call.next]
    BY <1>4, AskingHere DEF get_history_bulk
  <2>2. PICK history \in Replies(a) : BulkReply(history)
    BY <1>4, <2>1 DEF get_history_bulk
  <2>3. history \in Seq(AnyItem) /\ Fresh(a, history)
    BY ReplyFresh
  <2>4. call' = [op |-> call.op, next |-> call.next + 1, seen |-> call.seen,
                 balances |-> call.balances, histories |-> Append(call.histories, history)]
    BY <1>1, <2>2 DEF BulkReply, CallInv
  <2>5. /\ call'.op = "bulk_rows" /\ call'.next = call.next + 1
        /\ call'.histories = Append(call.histories, history)
    BY <1>1, <2>4
  <2>6. Len(call.histories) = call.next - 1
    BY <1>1, <2>1, SequenceTypes
  <2>7. \A k \in 1..Len(call'.histories) : Fresh(Addresses[k], call'.histories[k])
    <3> SUFFICES ASSUME NEW k \in 1..Len(call'.histories)
                 PROVE  Fresh(Addresses[k], call'.histories[k])
      OBVIOUS
    <3>1. /\ Len(call'.histories) = call.next /\ call'.histories[call.next] = history
          /\ \A j \in 1 .. call.next - 1 : call'.histories[j] = call.histories[j]
      <4>1. (call.next - 1) + 1 = call.next
        BY <2>1, SequenceTypes
      <4> QED  BY <1>1, <2>3, <2>5, <2>6, <4>1, AppendIs
    <3>2. CASE k = call.next
      BY <2>1, <2>3, <3>1, <3>2
    <3>3. CASE k # call.next
      <4>1. k \in 1 .. call.next - 1
        BY <2>1, <3>1, <3>3, SequenceTypes
      <4> QED  BY <1>2, <2>6, <3>1, <4>1
    <3> QED  BY <3>2, <3>3
  <2>8. ~(call'.next > Len(Addresses) + 1) /\ call' # Idle
    BY <2>1, <2>5, SequenceTypes DEF Idle
  <2> QED  BY <1>3, <2>5, <2>7, <2>8 DEF CalmInv, CoinbaseThrows
<1>5. CASE refresh_all_history_bulk
  <2> DEFINE s == InsertAll(call.histories)
  <2>1. call.next = Len(Addresses) + 1 /\ call' = [call EXCEPT !.next = @ + 1, !.seen = s]
    BY <1>5 DEF refresh_all_history_bulk
  <2>2. s = WalletItems
    <3>1. Len(call.histories) = Len(Addresses)
      BY <1>1, <2>1, SequenceTypes
    <3> QED  BY <1>1, <1>2, <3>1, InsertAllFresh
  <2>3. call.next \in Len(Addresses) + 1 .. Len(Addresses) + 3
    BY <2>1, SequenceTypes
  <2> HIDE DEF s
  <2>4. /\ call' # Idle /\ call'.op = "bulk_rows" /\ call'.seen = s
        /\ call'.histories = call.histories
    BY <1>1, <2>1, <2>3, MoveOn
  <2> QED  BY <1>2, <1>3, <2>2, <2>4 DEF CalmInv, CoinbaseThrows
<1>6. CASE (get_all_txs_sorted_bulk \/ load_txs_bulk) /\ call' # Idle
  <2>1. /\ call.next = Len(Addresses) + 2 \/ call.next = Len(Addresses) + 3
        /\ call' = [call EXCEPT !.next = @ + 1]
    BY <1>6 DEF get_all_txs_sorted_bulk, load_txs_bulk, Throw
  <2>2. call' = [call EXCEPT !.next = @ + 1, !.seen = call.seen]
    BY <1>1, <2>1 DEF CallInv
  <2>3. call.next \in Len(Addresses) + 1 .. Len(Addresses) + 3 /\ call.next > Len(Addresses) + 1
    BY <2>1, SequenceTypes
  <2>4. /\ call'.op = "bulk_rows" /\ call'.seen = call.seen /\ call'.histories = call.histories
    BY <1>1, <2>2, <2>3, MoveOn
  <2> QED  BY <1>2, <1>3, <1>6, <2>3, <2>4 DEF CalmInv, CoinbaseThrows
<1>7. CASE (get_all_txs_sorted_bulk \/ load_txs_bulk) /\ call' = Idle
  <2>1. /\ load_txs_bulk
    <3>1. ASSUME get_all_txs_sorted_bulk PROVE FALSE
      <4>1. call' = [call EXCEPT !.next = @ + 1]
        BY <3>1 DEF get_all_txs_sorted_bulk
      <4>2. call'.op = "bulk_rows"
        BY <1>1, <4>1 DEF CallInv
      <4> QED  BY <1>7, <4>2 DEF Idle
    <3> QED  BY <1>7, <3>1
  <2>2. call.next = Len(Addresses) + 3
    BY <2>1 DEF load_txs_bulk
  <2>3. Unreadable(call.seen) /\ result' = [op |-> "exception", of |-> "bulk_rows"]
    <3>1. ASSUME ~Unreadable(call.seen) PROVE FALSE
      <4>1. call' = [call EXCEPT !.next = @ + 1]
        BY <2>1, <3>1 DEF load_txs_bulk
      <4>2. call'.op = "bulk_rows"
        BY <1>1, <4>1 DEF CallInv
      <4> QED  BY <1>7, <4>2 DEF Idle
    <3> QED  BY <1>1, <2>1, <3>1 DEF load_txs_bulk, Throw
  <2>4. Unreadable(WalletItems)
    <3>1. call.next > Len(Addresses) + 1
      BY <2>2, SequenceTypes
    <3> QED  BY <1>2, <2>3, <3>1
  <2>5. result'.op = "exception" /\ result'.of = "bulk_rows"
    BY <2>3
  <2> QED  BY <1>3, <1>7, <2>4, <2>5 DEF CalmInv, CoinbaseThrows
<1> QED  BY <1>4, <1>5, <1>6, <1>7

(* At its end a call that nothing disturbed has seen all items.            *)
LEMMA FinishSees ==
    ASSUME StateInv, CalmInv, calm, Finish
    PROVE  /\ call.op \in Listings => call.seen = WalletItems
           /\ call.op \in Balances => call.seen = {}
           /\ call.op = "scan_balances" => ~Unreadable(WalletItems)
<1> USE DEF StateInv
<1>1. /\ call # Idle /\ call.op \in Ops \ {"subscribe"}
      /\ call.next = Len(Addresses) + (IF call.op = "bulk_rows" THEN 4 ELSE 1)
  BY DEF Finish, CallInv
<1>2. CASE call.op = "bulk_rows"
  <2>1. call.next > Len(Addresses) + 1
    BY <1>1, <1>2, SequenceTypes
  <2> QED  BY <1>1, <1>2, <2>1 DEF CalmInv, Balances
<1>3. CASE call.op # "bulk_rows"
  <2>1. call.next - 1 = Len(Addresses)
    BY <1>1, <1>3, SequenceTypes
  <2> QED  BY <1>1, <1>3, <2>1, UpToSteps DEF CalmInv, CallInv
<1> QED  BY <1>2, <1>3

(* The end of a call, with a result or with an exception, is as            *)
(* CoinbaseThrows says.                                                    *)
LEMMA FinishCalm ==
    ASSUME StateInv, CalmInv, Finish
    PROVE  CalmInv'
<1> USE DEF StateInv
<1>1. /\ call # Idle /\ call.op \in Ops \ {"subscribe"} /\ call' = Idle
      /\ UNCHANGED height /\ calm' = calm
      /\ call.next = Len(Addresses) + (IF call.op = "bulk_rows" THEN 4 ELSE 1)
  BY DEF Finish, Throw, CallInv, server
<1> SUFFICES ASSUME calm PROVE CoinbaseThrows'
  BY <1>1 DEF CalmInv
<1>2. WalletItems' = WalletItems
  BY <1>1 DEF WalletItems
<1>3. /\ call.op \in Listings => call.seen = WalletItems
      /\ call.op \in Balances => call.seen = {}
      /\ call.op = "scan_balances" => ~Unreadable(WalletItems)
  BY FinishSees
<1>4. call.op \in Listings \/ call.op \in Balances
  BY <1>1 DEF Ops
<1>5. CASE Unreadable(Analysed(call.op, call.seen))
  <2>1. result' = [op |-> "exception", of |-> call.op]
    BY <1>5 DEF Finish, Throw
  <2>2. result'.op = "exception" /\ result'.of = call.op
    BY <2>1
  <2>3. call.seen = WalletItems
    BY <1>3, <1>4, <1>5 DEF Unreadable, Analysed
  <2>4. call.op \in Resolving /\ Unreadable(WalletItems)
    BY <1>1, <1>5, <2>3, Throws
  <2> QED  BY <1>2, <2>2, <2>4 DEF CoinbaseThrows, Resolving
<1>6. CASE ~Unreadable(Analysed(call.op, call.seen))
  <2>1. PICK v : result' = [op |-> call.op, value |-> v]
    BY <1>6 DEF Finish
  <2>2. result'.op = call.op
    BY <2>1
  <2>3. call.op # "exception"
    BY <1>1 DEF Ops, Balances, Listings
  <2>4. call.op \in Resolving => ~Unreadable(WalletItems)
    <3>1. CASE call.op \in Listings
      BY <1>1, <1>3, <1>6, <3>1, Throws
    <3>2. CASE call.op \in Balances
      BY <1>3, <3>2 DEF Balances, Resolving
    <3> QED  BY <1>4, <3>1, <3>2
  <2> QED  BY <1>2, <2>2, <2>3, <2>4 DEF CoinbaseThrows, Resolving
<1> QED  BY <1>5, <1>6

(* Every step keeps the invariant.                                         *)
LEMMA CalmNext ==
    ASSUME StateInv, CalmInv, Next \/ UNCHANGED vars
    PROVE  CalmInv'
<1>1. CASE calm' = FALSE
  BY <1>1 DEF CalmInv
<1>2. CASE \E op \in Balances \cup Listings \cup {"subscribe"} : Begin(op)
  BY <1>2, BeginCalm DEF Ops
<1>3. CASE subscribe_address
  <2>1. /\ call # Idle /\ call.op = "subscribe" /\ call' = [call EXCEPT !.next = @ + 1]
    BY <1>3 DEF subscribe_address, Subscribing
  <2>2. call'.op = "subscribe" /\ call' # Idle
    BY <2>1 DEF StateInv, CallInv, Idle
  <2> QED  BY <2>2 DEF CalmInv, CoinbaseThrows
<1>4. CASE do_addresses_subscriptions \/ do_addresses_subscriptions_bulk
  <2>1. call' = Idle
    BY <1>4 DEF do_addresses_subscriptions, do_addresses_subscriptions_bulk
  <2>2. \/ result' = [op |-> "subscribe"]
        \/ result' = [op |-> "exception", of |-> "subscribe"]
    BY <1>4 DEF do_addresses_subscriptions, do_addresses_subscriptions_bulk
  <2>3. \/ result'.op = "subscribe"
        \/ result'.op = "exception" /\ result'.of = "subscribe"
    BY <2>2
  <2> QED  BY <2>1, <2>3 DEF CalmInv, CoinbaseThrows
<1>5. CASE clear_caches \/ \E a \in Wallet : HandleNotification(a)
  <2>1. call = Idle /\ UNCHANGED <<height, call, result, calm>>
    BY <1>5 DEF clear_caches, HandleNotification
  <2>2. WalletItems' = WalletItems
    BY <2>1 DEF WalletItems
  <2> QED  BY <2>1, <2>2 DEF CalmInv, CoinbaseThrows
<1>6. CASE UNCHANGED vars
  <2>1. UNCHANGED <<height, cache, empty, call, result, calm>>
    BY <1>6 DEF vars, server, caches, ghosts
  <2>2. /\ WalletItems' = WalletItems /\ \A n : UpTo(n)' = UpTo(n)
        /\ \A b, h : Fresh(b, h)' = Fresh(b, h)
        /\ \A a \in Wallet : Cached(a)' = Cached(a) /\ Remembered(a)' = Remembered(a)
    BY <2>1 DEF WalletItems, UpTo, Fresh, Cached, Remembered
  <2>3. CoinbaseThrows' = CoinbaseThrows
    BY <2>1, <2>2 DEF CoinbaseThrows
  <2> QED  BY <2>1, <2>2, <2>3 DEF CalmInv
<1>7. get_history_error \/ get_history_bulk_error \/ RequestFails => calm' = FALSE
  BY DEF get_history_error, get_history_bulk_error, RequestFails
<1>8. \/ \E t \in Txids : Arrive(t) \/ Evict(t)
      \/ \E block \in SUBSET (Mempool(height) \cup
                       {t \in Coinbases : height[t] = Absent}) : Mine(block)
      => calm' = FALSE
  BY DEF Arrive, Evict, Mine, Change
<1> QED
  BY <1>1, <1>2, <1>3, <1>4, <1>5, <1>6, <1>7, <1>8, HistoryCalm, BulkCalm, FinishCalm DEF Next

(* While nothing changes and no request fails, the calls that show         *)
(* confirmed amounts throw exactly when a coinbase has paid the wallet,    *)
(* and the others never do, for every chain and every wallet.              *)
THEOREM OnlyCoinbasesThrow == Spec => []CoinbaseThrows
<1>1. Init => CalmInv
  BY DEF Init, CalmInv
<1>2. CalmInv => CoinbaseThrows
  BY DEF CalmInv, CoinbaseThrows
<1> QED  BY <1>1, <1>2, StateInit, StateNext, CalmNext, PTL DEF Spec

-----------------------------------------------------------------------------
(* What is computed from the elements of a finite set is a finite set.     *)
LEMMA ImageFinite ==
    ASSUME NEW S, IsFiniteSet(S), NEW b
    PROVE  IsFiniteSet({b[x] : x \in S})
<1> DEFINE B == {b[x] : x \in S}  f == [x \in S |-> b[x]]
<1>1. f \in [S -> B] /\ \A y \in B : \E x \in S : f[x] = y
  OBVIOUS
<1> HIDE DEF B, f
<1>2. f \in Surjection(S, B)
  BY <1>1 DEF Surjection
<1> QED  BY <1>2, FS_Surjection DEF B

-----------------------------------------------------------------------------
(* The outputs of transactions, what each is worth, the outputs a          *)
(* transaction spends, and the transactions the server has.                *)
Outpoints(P) == UNION {{[tx |-> t, index |-> k] : k \in DOMAIN Transactions[t].outs} : t \in P}
Worth == [p \in Outpoints(Txids) |-> previous_output(p).value]
Inputs(t) == Transactions[t].ins
Present == {t \in Txids : height[t] # Absent}

(* The transactions as the assumption gives them.                          *)
LEMMA TransactionsAre ==
    /\ IsFiniteSet(Txids) /\ Txids \in SUBSET Nat
    /\ \A t \in Txids :
         /\ Len(Transactions[t].outs) \in Nat
         /\ DOMAIN Transactions[t].outs = 1..Len(Transactions[t].outs)
         /\ IsFiniteSet(DOMAIN Transactions[t].outs)
         /\ \A k \in DOMAIN Transactions[t].outs : Transactions[t].outs[k].value \in Nat
         /\ \A p \in Inputs(t) : /\ p = [tx |-> p.tx, index |-> p.index]
                                 /\ p.tx \in Txids /\ p.tx < t
                                 /\ p.index \in DOMAIN Transactions[p.tx].outs
<1>1. Transactions \in Seq(ToSet(Transactions))
  BY TransactionAssumption
<1>2. Len(Transactions) \in Nat /\ Txids = 1..Len(Transactions)
  BY <1>1 DEF Txids
<1>3. IsFiniteSet(Txids)
  BY <1>2, FS_Interval
<1>4. ASSUME NEW t \in Txids
      PROVE  /\ Len(Transactions[t].outs) \in Nat
             /\ DOMAIN Transactions[t].outs = 1..Len(Transactions[t].outs)
  <2>1. Transactions[t].outs \in Seq(ToSet(Transactions[t].outs))
    BY TransactionAssumption
  <2> QED  BY <2>1
<1>5. ASSUME NEW t \in Txids PROVE IsFiniteSet(DOMAIN Transactions[t].outs)
  <2> DEFINE n == Len(Transactions[t].outs)
  <2>1. n \in Nat
    BY <1>4
  <2>2. IsFiniteSet(1..n)
    <3> HIDE DEF n
    <3> QED  BY <2>1, FS_Interval
  <2> QED  BY <1>4, <2>2
<1>6. ASSUME NEW t \in Txids
      PROVE  /\ \A k \in DOMAIN Transactions[t].outs : Transactions[t].outs[k].value \in Nat
             /\ \A p \in Inputs(t) : /\ p = [tx |-> p.tx, index |-> p.index]
                                     /\ p.tx \in 1 .. t - 1
                                     /\ p.index \in DOMAIN Transactions[p.tx].outs
  BY TransactionAssumption DEF Inputs
<1>7. \A t \in Txids : \A p \in Inputs(t) : p.tx \in Txids /\ p.tx < t
  BY <1>2, <1>6
<1> QED  BY <1>2, <1>3, <1>4, <1>5, <1>6, <1>7

(* Their outputs.                                                          *)
LEMMA OutpointsAre ==
    ASSUME NEW P \in SUBSET Txids
    PROVE  /\ IsFiniteSet(Outpoints(P)) /\ Outpoints(P) \in SUBSET Outpoints(Txids)
           /\ \A p : p \in Outpoints(P) <=> /\ p = [tx |-> p.tx, index |-> p.index]
                                            /\ p.tx \in P
                                            /\ p.index \in DOMAIN Transactions[p.tx].outs
           /\ \A p \in Outpoints(P) : Worth[p] \in Nat /\ Worth[p] = previous_output(p).value
<1>1. IsFiniteSet(P)
  BY TransactionsAre, FS_Subset
<1> DEFINE Of == [t \in P |-> {[tx |-> t, index |-> k] : k \in DOMAIN Transactions[t].outs}]
<1>2. ASSUME NEW t \in P PROVE IsFiniteSet(Of[t])
  <2> DEFINE b == [k \in DOMAIN Transactions[t].outs |-> [tx |-> t, index |-> k]]
  <2>1. Of[t] = {b[k] : k \in DOMAIN Transactions[t].outs}
    OBVIOUS
  <2>2. IsFiniteSet(DOMAIN Transactions[t].outs)
    BY TransactionsAre
  <2> HIDE DEF b
  <2> QED  BY <2>1, <2>2, ImageFinite
<1>3. Outpoints(P) = UNION {Of[t] : t \in P}
  BY DEF Outpoints
<1>4. IsFiniteSet({Of[t] : t \in P})
  <2> HIDE DEF Of
  <2> QED  BY <1>1, ImageFinite
<1>5. IsFiniteSet(Outpoints(P))
  <2> HIDE DEF Of
  <2> QED  BY <1>2, <1>3, <1>4, FS_UNION
<1>6. ASSUME NEW p
      PROVE  p \in Outpoints(P) <=> /\ p = [tx |-> p.tx, index |-> p.index]
                                    /\ p.tx \in P
                                    /\ p.index \in DOMAIN Transactions[p.tx].outs
  <2>1. ASSUME p \in Outpoints(P)
        PROVE  /\ p = [tx |-> p.tx, index |-> p.index] /\ p.tx \in P
               /\ p.index \in DOMAIN Transactions[p.tx].outs
    <3>1. PICK t \in P : \E k \in DOMAIN Transactions[t].outs : p = [tx |-> t, index |-> k]
      BY <2>1 DEF Outpoints
    <3> QED  BY <3>1
  <2>2. ASSUME /\ p = [tx |-> p.tx, index |-> p.index] /\ p.tx \in P
               /\ p.index \in DOMAIN Transactions[p.tx].outs
        PROVE  p \in Outpoints(P)
    BY <2>2 DEF Outpoints
  <2> QED  BY <2>1, <2>2
<1>7. Outpoints(P) \in SUBSET Outpoints(Txids)
  BY DEF Outpoints
<1>8. \A p \in Outpoints(P) : Worth[p] = previous_output(p).value
  BY <1>7 DEF Worth
<1>9. \A p \in Outpoints(P) : Worth[p] \in Nat
  BY <1>6, <1>8, TransactionsAre DEF previous_output
<1> QED  BY <1>5, <1>6, <1>7, <1>8, <1>9

(* What a transaction spends are outputs.                                  *)
LEMMA InputsAre ==
    ASSUME NEW t \in Txids
    PROVE  Inputs(t) \in SUBSET Outpoints(Txids) /\ IsFiniteSet(Inputs(t))
<1>1. Inputs(t) \in SUBSET Outpoints(Txids)
  <2> SUFFICES ASSUME NEW p \in Inputs(t) PROVE p \in Outpoints(Txids)
    OBVIOUS
  <2>1. /\ p = [tx |-> p.tx, index |-> p.index] /\ p.tx \in Txids
        /\ p.index \in DOMAIN Transactions[p.tx].outs
    BY TransactionsAre
  <2> QED  BY <2>1, OutpointsAre
<1> QED  BY <1>1, OutpointsAre, FS_Subset

(* A set of outputs is worth a natural number.                             *)
LEMMA WorthMeasured ==
    ASSUME NEW S \in SUBSET Outpoints(Txids)
    PROVE  /\ IsFiniteSet(S) /\ Measured(Worth, S) /\ Sigma(Worth, S) \in Nat
           /\ \A T \in SUBSET S : Sigma(Worth, T) \in Nat /\ Sigma(Worth, T) <= Sigma(Worth, S)
<1>1. IsFiniteSet(S) /\ \A p \in S : Worth[p] \in Nat
  BY OutpointsAre, FS_Subset
<1> QED  BY <1>1, SigmaNat

(* SumFunction is the sum over the domain.                                 *)
LEMMA SumIs ==
    ASSUME NEW S, NEW w, DOMAIN w = S
    PROVE  SumFunction(w) = Sigma(w, S)
BY DEF SumFunction, Sigma

(* The outputs of a transaction to some addresses, and its inputs from     *)
(* them.                                                                   *)
OutsTo(t, A) == {p \in Outpoints({t}) : previous_output(p).to \in A}
InsFrom(t, A) == {p \in Inputs(t) : previous_output(p).to \in A}

(* A sum over output numbers is one over outputs.                          *)
LEMMA OutsWorth ==
    ASSUME NEW t \in Txids, NEW K \in SUBSET DOMAIN Transactions[t].outs
    PROVE  SumFunction([k \in K |-> Transactions[t].outs[k].value])
             = Sigma(Worth, {[tx |-> t, index |-> k] : k \in K})
<1> DEFINE b == [k \in K |-> [tx |-> t, index |-> k]]
           v == [k \in K |-> Transactions[t].outs[k].value]
<1>1. IsFiniteSet(K)
  BY TransactionsAre, FS_Subset
<1>2. ASSUME NEW k \in K
      PROVE  v[k] = Worth[b[k]] /\ Worth[b[k]] \in Int
  <2>1. b[k] = [tx |-> t, index |-> k] /\ v[k] = Transactions[t].outs[k].value
    OBVIOUS
  <2>2. b[k].tx = t /\ b[k].index = k
    BY <2>1
  <2>3. b[k] \in Outpoints(Txids)
    BY <2>1, <2>2, OutpointsAre
  <2>4. Worth[b[k]] = Transactions[t].outs[k].value /\ Worth[b[k]] \in Nat
    BY <2>2, <2>3, OutpointsAre DEF previous_output
  <2> QED  BY <2>1, <2>4
<1>3. \A x, y \in K : x # y => b[x] # b[y]
  <2> SUFFICES ASSUME NEW x \in K, NEW y \in K, b[x] = b[y] PROVE x = y
    OBVIOUS
  <2>1. b[x].index = x /\ b[y].index = y
    OBVIOUS
  <2> QED  BY <2>1
<1>4. {[tx |-> t, index |-> k] : k \in K} = ImageOf(b, K) /\ DOMAIN v = K
  BY DEF ImageOf
<1> HIDE DEF b, v
<1>5. Sigma(v, K) = Sigma(Worth, ImageOf(b, K))
  BY <1>1, <1>2, <1>3, SigmaMap
<1> QED  BY <1>4, <1>5, SumIs DEF v

(* An input as analyse_tx_balances resolves it.                            *)
Resolved(p) == [funding |-> p, value |-> previous_output(p).value,
                address |-> previous_output(p).to]

(* A sum over resolved inputs is one over the outputs they spend.          *)
LEMMA InsWorth ==
    ASSUME NEW S \in SUBSET Outpoints(Txids)
    PROVE  LET I == {Resolved(p) : p \in S} IN
           SumFunction([i \in I |-> i.value]) = Sigma(Worth, S)
<1> DEFINE b == [p \in S |-> Resolved(p)]
           I == {Resolved(p) : p \in S}
           v == [i \in I |-> i.value]
<1>1. IsFiniteSet(S)
  BY WorthMeasured
<1>2. ASSUME NEW p \in S
      PROVE  Worth[p] = v[b[p]] /\ v[b[p]] \in Int
  <2>1. b[p] = Resolved(p) /\ b[p] \in I
    OBVIOUS
  <2>2. v[b[p]] = previous_output(p).value
    BY <2>1 DEF Resolved
  <2> QED  BY <2>2, OutpointsAre
<1>3. \A x, y \in S : x # y => b[x] # b[y]
  <2> SUFFICES ASSUME NEW x \in S, NEW y \in S, b[x] = b[y] PROVE x = y
    OBVIOUS
  <2>1. b[x].funding = x /\ b[y].funding = y
    BY DEF Resolved
  <2> QED  BY <2>1
<1>4. I = ImageOf(b, S) /\ DOMAIN v = I
  BY DEF ImageOf
<1> HIDE DEF b, v, I
<1>5. Sigma(Worth, S) = Sigma(v, ImageOf(b, S))
  BY <1>1, <1>2, <1>3, SigmaMap
<1>6. SumFunction(v) = Sigma(Worth, S)
  BY <1>4, <1>5, SumIs
<1> QED  BY <1>6 DEF v, I

(* calculate_tx_wallet_impact, in outputs.                                 *)
LEMMA ImpactIs ==
    ASSUME NEW t \in Txids
    PROVE  /\ calculate_tx_wallet_impact(t).balance_delta
                = Sigma(Worth, OutsTo(t, Wallet)) - Sigma(Worth, InsFrom(t, Wallet))
           /\ calculate_tx_wallet_impact(t).funding_amount
                = (Sigma(Worth, InsFrom(t, Wallet)) - Sigma(Worth, OutsTo(t, Wallet))
                   - (Sigma(Worth, Inputs(t)) - Sigma(Worth, Outpoints({t})))) % Modulus
<1> DEFINE outs == Transactions[t].outs
           tx == analyse_tx_balances(t)
           In(I) == SumFunction([i \in I |-> i.value])
           Out(K) == SumFunction([k \in K |-> tx.outputs[k].value])
           I == {i \in tx.inputs : is_in_wallet(i.address)}
           K == {k \in DOMAIN tx.outputs : is_in_wallet(tx.outputs[k].to)}
<1>1. tx.outputs = outs /\ tx.inputs = {Resolved(p) : p \in Inputs(t)}
  BY DEF analyse_tx_balances, Resolved, Inputs
<1>2. /\ calculate_tx_wallet_impact(t).balance_delta = Out(K) - In(I)
      /\ calculate_tx_wallet_impact(t).funding_amount
           = (In(I) - Out(K) - (In(tx.inputs) - Out(DOMAIN tx.outputs))) % Modulus
  BY DEF calculate_tx_wallet_impact
<1> HIDE DEF tx
<1>3. I = {Resolved(p) : p \in InsFrom(t, Wallet)}
  BY <1>1 DEF Resolved, InsFrom, is_in_wallet, Wallet
<1>4. InsFrom(t, Wallet) \in SUBSET Outpoints(Txids) /\ Inputs(t) \in SUBSET Outpoints(Txids)
  BY InputsAre DEF InsFrom
<1>5. In(I) = Sigma(Worth, InsFrom(t, Wallet))
  BY <1>3, <1>4, InsWorth
<1>6. In(tx.inputs) = Sigma(Worth, Inputs(t))
  BY <1>1, <1>4, InsWorth
<1>7. ASSUME NEW J \in SUBSET DOMAIN outs
      PROVE  Out(J) = Sigma(Worth, {[tx |-> t, index |-> k] : k \in J})
  <2>1. [k \in J |-> tx.outputs[k].value] = [k \in J |-> Transactions[t].outs[k].value]
    BY <1>1
  <2> QED  BY <2>1, OutsWorth
<1>8. {[tx |-> t, index |-> k] : k \in DOMAIN outs} = Outpoints({t})
  BY DEF Outpoints
<1>9. {[tx |-> t, index |-> k] : k \in K} = OutsTo(t, Wallet)
  <2>1. K = {k \in DOMAIN outs : outs[k].to \in Wallet}
    BY <1>1 DEF is_in_wallet, Wallet
  <2>2. ASSUME NEW k \in DOMAIN outs PROVE previous_output([tx |-> t, index |-> k]) = outs[k]
    BY DEF previous_output
  <2> HIDE DEF outs, K
  <2>3. OutsTo(t, Wallet) = {p \in {[tx |-> t, index |-> k] : k \in DOMAIN outs} :
                               previous_output(p).to \in Wallet}
    BY <1>8 DEF OutsTo
  <2> QED  BY <2>1, <2>2, <2>3
<1>10. K \in SUBSET DOMAIN outs /\ DOMAIN tx.outputs = DOMAIN outs
  BY <1>1
<1> HIDE DEF K
<1>11. Out(K) = Sigma(Worth, OutsTo(t, Wallet)) /\ Out(DOMAIN outs) = Sigma(Worth, Outpoints({t}))
  BY <1>7, <1>8, <1>9, <1>10
<1> HIDE DEF In, Out, I, outs
<1> QED  BY <1>2, <1>5, <1>6, <1>10, <1>11

-----------------------------------------------------------------------------
(* The wallet is finite.                                                   *)
LEMMA WalletFinite == IsFiniteSet(Wallet)
<1>1. Addresses \in Seq(ToSet(Addresses))
  BY TransactionAssumption
<1>2. Len(Addresses) \in Nat /\ DOMAIN Addresses = 1..Len(Addresses)
  BY <1>1
<1>3. Wallet = {Addresses[i] : i \in 1..Len(Addresses)}
  BY <1>2 DEF Wallet, ToSet
<1>4. IsFiniteSet(1..Len(Addresses))
  BY <1>2, FS_Interval
<1> QED  BY <1>3, <1>4, ImageFinite

(* The outputs to some addresses that nobody has spent.                    *)
UnspentBy(A) == {p \in Outpoints(Present) : /\ previous_output(p).to \in A
                                            /\ \A t \in Present : p \notin Inputs(t)}

(* Unspent is what these are worth.                                        *)
LEMMA UnspentIs ==
    ASSUME NEW a
    PROVE  /\ Unspent(a) = Sigma(Worth, UnspentBy({a}))
           /\ UnspentBy({a}) \in SUBSET Outpoints(Txids)
<1> DEFINE S == {p \in Outpoints(Present) : /\ previous_output(p).to = a
                                            /\ \A t \in Present : p \notin Transactions[t].ins}
           w == [p \in S |-> previous_output(p).value]
<1>1. Unspent(a) = SumFunction(w)
  BY DEF Unspent, Outpoints, Present
<1>2. S = UnspentBy({a}) /\ DOMAIN w = S
  BY DEF UnspentBy, Inputs
<1>3. S \in SUBSET Outpoints(Txids)
  BY OutpointsAre DEF Present
<1>4. \A p \in S : w[p] = Worth[p]
  BY <1>3, OutpointsAre
<1> HIDE DEF S, w
<1>5. Sigma(w, S) = Sigma(Worth, S)
  BY <1>3, <1>4, WorthMeasured, SigmaSame
<1> QED  BY <1>1, <1>2, <1>3, <1>5, SumIs

(* So is WalletUnspent.                                                    *)
LEMMA WalletUnspentIs == WalletUnspent = Sigma(Worth, UnspentBy(Wallet))
<1> DEFINE S == UnspentBy(Wallet)
           h == [p \in S |-> previous_output(p).to]
           v == [a \in Wallet |-> Unspent(a)]
<1>1. S \in SUBSET Outpoints(Txids)
  BY OutpointsAre DEF Present, UnspentBy
<1>2. Measured(Worth, S)
  BY <1>1, WorthMeasured
<1>3. \A p \in S : h[p] \in Wallet
  BY DEF UnspentBy
<1>4. ASSUME NEW a \in Wallet
      PROVE  v[a] = Sigma(Worth, Fibre(h, S, a))
  <2>1. Fibre(h, S, a) = UnspentBy({a})
    BY DEF UnspentBy, Fibre
  <2> QED  BY <2>1, UnspentIs
<1>5. WalletUnspent = SumFunction(v) /\ DOMAIN v = Wallet
  BY DEF WalletUnspent
<1> HIDE DEF S, h, v
<1>6. Sigma(v, Wallet) = Sigma(Worth, S)
  BY <1>2, <1>3, <1>4, WalletFinite, SigmaGroups
<1> QED  BY <1>5, <1>6, SumIs DEF S

-----------------------------------------------------------------------------
(* What the server's transactions are to each other: a transaction spends  *)
(* from ones that are present, and no two spend the same output.  Delta is *)
(* what a transaction changes in the wallet's balance.                     *)
Linked == \A t \in Present : \A p \in Inputs(t) : p.tx \in Present
Apart == \A t, u \in Present : t # u => Inputs(t) \cap Inputs(u) = {}
Delta(t) == calculate_tx_wallet_impact(t).balance_delta

(* The same of some of the transactions, and what these leave unspent.     *)
LinkedIn(P) == \A t \in P : \A p \in Inputs(t) : p.tx \in P
ApartIn(P) == \A t, u \in P : t # u => Inputs(t) \cap Inputs(u) = {}
UnspentIn(A, P) == {p \in Outpoints(P) : /\ previous_output(p).to \in A
                                         /\ \A t \in P : p \notin Inputs(t)}

(* What they leave to the wallet is the sum of what they changed.          *)
LEMMA ConservedIn ==
    ASSUME NEW P \in SUBSET Txids, LinkedIn(P), ApartIn(P)
    PROVE  Sigma(Worth, UnspentIn(Wallet, P)) = Sigma([t \in P |-> Delta(t)], P)
<1> DEFINE E == {p \in Outpoints(P) : previous_output(p).to \in Wallet}
           D == {p \in E : \E t \in P : p \in Inputs(t)}
           hE == [p \in E |-> p.tx]
           hD == [p \in D |-> CHOOSE t \in P : p \in Inputs(t)]
           vE == [t \in P |-> Sigma(Worth, OutsTo(t, Wallet))]
           vD == [t \in P |-> Sigma(Worth, InsFrom(t, Wallet))]
           vN == [t \in P |-> 0 - vD[t]]
           d == [t \in P |-> Delta(t)]
<1>1. P \in SUBSET Txids /\ IsFiniteSet(P)
  BY TransactionsAre, FS_Subset
<1>2. E \in SUBSET Outpoints(Txids) /\ D \in SUBSET E /\ E \ D = UnspentIn(Wallet, P)
  BY <1>1, OutpointsAre DEF UnspentIn
<1>3. Measured(Worth, E) /\ Measured(Worth, D)
  BY <1>2, WorthMeasured
<1>4. \A p \in E : hE[p] \in P
  BY <1>1, OutpointsAre
<1>5. ASSUME NEW t \in P PROVE Fibre(hE, E, t) = OutsTo(t, Wallet)
  <2>1. ASSUME NEW p PROVE p \in Outpoints({t}) <=> p \in Outpoints(P) /\ p.tx = t
    BY <1>1, OutpointsAre
  <2> QED  BY <2>1 DEF OutsTo, Fibre
<1>6. \A t \in P : vE[t] = Sigma(Worth, Fibre(hE, E, t))
  BY <1>5
<1>7. ASSUME NEW p \in D
      PROVE  /\ hD[p] \in P /\ p \in Inputs(hD[p])
             /\ \A t \in P : p \in Inputs(t) => t = hD[p]
  <2>1. hD[p] \in P /\ p \in Inputs(hD[p])
    OBVIOUS
  <2> HIDE DEF hD
  <2> QED  BY <2>1, ApartIn(P) DEF ApartIn
<1>8. ASSUME NEW t \in P PROVE Fibre(hD, D, t) = InsFrom(t, Wallet)
  <2>1. ASSUME NEW p \in InsFrom(t, Wallet) PROVE p \in D
    <3>1. p \in Inputs(t) /\ previous_output(p).to \in Wallet
      BY DEF InsFrom
    <3>2. /\ p = [tx |-> p.tx, index |-> p.index] /\ p.tx \in P
          /\ p.index \in DOMAIN Transactions[p.tx].outs
      BY <1>1, <3>1, TransactionsAre, LinkedIn(P) DEF LinkedIn
    <3>3. p \in Outpoints(P)
      BY <1>1, <3>2, OutpointsAre
    <3> QED  BY <3>1, <3>3
  <2>2. \A p \in D : previous_output(p).to \in Wallet
    OBVIOUS
  <2> HIDE DEF D, hD
  <2> QED  BY <1>7, <2>1, <2>2 DEF InsFrom, Fibre
<1>9. \A t \in P : vD[t] = Sigma(Worth, Fibre(hD, D, t))
  BY <1>8
<1>10. \A t \in P : d[t] = vE[t] + vN[t] /\ vN[t] = 0 - vD[t]
  <2> SUFFICES ASSUME NEW t \in P PROVE d[t] = vE[t] + vN[t] /\ vN[t] = 0 - vD[t]
    OBVIOUS
  <2>1. Delta(t) = Sigma(Worth, OutsTo(t, Wallet)) - Sigma(Worth, InsFrom(t, Wallet))
    BY <1>1, ImpactIs DEF Delta
  <2>2. OutsTo(t, Wallet) \in SUBSET Outpoints(Txids) /\ InsFrom(t, Wallet) \in SUBSET Outpoints(Txids)
    BY <1>1, OutpointsAre, InputsAre DEF OutsTo, InsFrom
  <2>3. Sigma(Worth, OutsTo(t, Wallet)) \in Nat /\ Sigma(Worth, InsFrom(t, Wallet)) \in Nat
    BY <2>2, WorthMeasured
  <2>4. d[t] = Delta(t) /\ vE[t] = Sigma(Worth, OutsTo(t, Wallet))
        /\ vD[t] = Sigma(Worth, InsFrom(t, Wallet)) /\ vN[t] = 0 - vD[t]
    OBVIOUS
  <2> HIDE DEF d, vE, vD, vN
  <2> QED  BY <2>1, <2>3, <2>4
<1> HIDE DEF E, D, hE, hD, vE, vD, vN, d
<1>11. Measured(vE, P) /\ Sigma(vE, P) = Sigma(Worth, E)
  BY <1>1, <1>3, <1>4, <1>6, SigmaGroups
<1>12. Measured(vD, P) /\ Sigma(vD, P) = Sigma(Worth, D)
  <2>1. \A p \in D : hD[p] \in P
    BY <1>7
  <2> QED  BY <1>1, <1>3, <1>9, <2>1, SigmaGroups
<1>13. Measured(vN, P) /\ Sigma(vN, P) = 0 - Sigma(Worth, D)
  <2> DEFINE z == [t \in P |-> 0]
  <2>1. Measured(vN, P)
    BY <1>10, <1>12 DEF Measured
  <2>2. \A t \in P : z[t] = vN[t] + vD[t]
    BY <1>10, <1>12 DEF Measured
  <2>3. \A t \in P : z[t] = 0
    OBVIOUS
  <2> HIDE DEF z
  <2>4. Sigma(z, P) = 0
    BY <1>1, <2>3, SigmaZero
  <2>5. Sigma(z, P) = Sigma(vN, P) + Sigma(vD, P)
    BY <1>12, <2>1, <2>2, SigmaPlus
  <2>6. Sigma(vN, P) \in Int /\ Sigma(vD, P) \in Int
    BY <1>12, <2>1, SigmaInt
  <2> QED  BY <1>12, <2>1, <2>4, <2>5, <2>6
<1>14. Sigma(d, P) = Sigma(vE, P) + Sigma(vN, P)
  BY <1>10, <1>11, <1>13, SigmaPlus
<1>15. /\ Sigma(Worth, E) \in Int /\ Sigma(Worth, D) \in Int /\ Sigma(Worth, E \ D) \in Int
       /\ Sigma(Worth, E) = Sigma(Worth, D) + Sigma(Worth, E \ D)
  BY <1>2, <1>3, SigmaPart
<1>16. Sigma(d, P) = Sigma(Worth, E \ D)
  BY <1>11, <1>13, <1>14, <1>15
<1> QED  BY <1>2, <1>16 DEF d

-----------------------------------------------------------------------------
(* A list of the elements of a finite set has each of them once.           *)
LEMMA ListedOnce ==
    ASSUME NEW S, IsFiniteSet(S), NEW s \in SetToSeqs(S)
    PROVE  /\ s \in Seq(S) /\ Len(s) \in Nat /\ DOMAIN s = 1..Len(s)
           /\ ToSet(s) = S /\ S = {s[i] : i \in 1..Len(s)}
           /\ \A i, j \in 1..Len(s) : i # j => s[i] # s[j]
<1> DEFINE n == Cardinality(S)
<1>1. n \in Nat /\ IsFiniteSet(1..n) /\ Cardinality(1..n) = n
  BY FS_CardinalityType, FS_Interval
<1>2. s \in [1..n -> S] /\ \A i, j \in 1..n : i # j => s[i] # s[j]
  BY DEF SetToSeqs
<1> HIDE DEF n
<1>3. s \in Injection(1..n, S)
  BY <1>2 DEF Injection, IsInjective
<1>4. s \in Surjection(1..n, S)
  BY <1>1, <1>3, FS_Injection DEF n
<1>5. \A x \in S : \E k \in 1..n : s[k] = x
  BY <1>4 DEF Surjection
<1>6. s \in Seq(S) /\ Len(s) = n /\ DOMAIN s = 1..n
  BY <1>1, <1>2
<1>7. ToSet(s) = S
  BY <1>2, <1>5, <1>6 DEF ToSet
<1> QED  BY <1>1, <1>2, <1>5, <1>6, <1>7

(* The comparison of sort_all_history orders the items of a wallet.        *)
LEMMA BeforeOrders ==
    ASSUME NEW x \in AnyItem, NEW y \in AnyItem, NEW z \in AnyItem
    PROVE  /\ ~Before(x, x)
           /\ Before(x, y) /\ Before(y, z) => Before(x, z)
           /\ x # y => Before(x, y) \/ Before(y, x)
<1>1. \A u \in AnyItem : u.txid \in Txids /\ u.height \in Int
                         /\ u = [txid |-> u.txid, height |-> u.height]
  BY StateAssumption DEF AnyItem, Heights
<1>2. /\ \A t \in Txids : Hash[t] \in Int
      /\ \A t, u \in Txids : Hash[t] = Hash[u] => t = u
  BY TransactionAssumption
<1> QED  BY <1>1, <1>2 DEF Before

(* So they can be sorted: the place of an item is the number of those      *)
(* before it.                                                              *)
LEMMA SortListed ==
    ASSUME NEW S \in SUBSET AnyItem, IsFiniteSet(S)
    PROVE  /\ sort_all_history(S) \in SetToSeqs(S)
           /\ LET s == sort_all_history(S) IN
              \A i, j \in DOMAIN s : i < j => Before(s[i], s[j])
<1> DEFINE n == Cardinality(S)
           Down(x) == {y \in S : Before(y, x)}
           place == [x \in S |-> Cardinality(Down(x)) + 1]
<1>1. n \in Nat /\ IsFiniteSet(1..n) /\ Cardinality(1..n) = n
  BY FS_CardinalityType, FS_Interval
<1>2. ASSUME NEW x \in S
      PROVE  /\ IsFiniteSet(Down(x)) /\ Cardinality(Down(x)) \in Nat
             /\ Cardinality(Down(x)) < n
  <2>1. Down(x) \in SUBSET S /\ x \notin Down(x)
    BY BeforeOrders
  <2> HIDE DEF Down
  <2>2. IsFiniteSet(Down(x)) /\ Cardinality(Down(x)) <= n /\ Cardinality(Down(x)) # n
    BY <2>1, FS_Subset
  <2> QED  BY <1>1, <2>2, FS_CardinalityType
<1>3. ASSUME NEW x \in S, NEW y \in S, Before(x, y)
      PROVE  Cardinality(Down(x)) < Cardinality(Down(y))
  <2>1. Down(x) \in SUBSET Down(y) /\ x \in Down(y) /\ x \notin Down(x)
    BY <1>3, BeforeOrders
  <2> HIDE DEF Down
  <2>2. Cardinality(Down(x)) <= Cardinality(Down(y)) /\ Cardinality(Down(x)) # Cardinality(Down(y))
    BY <1>2, <2>1, FS_Subset
  <2> QED  BY <1>2, <2>2
<1> HIDE DEF Down, n
<1>4. \A x \in S : place[x] \in 1..n
  BY <1>1, <1>2
<1>5. ASSUME NEW x \in S, NEW y \in S, Before(x, y) PROVE place[x] < place[y]
  BY <1>2, <1>3, <1>5
<1>6. place \in [S -> 1..n] /\ \A x, y \in S : x # y => place[x] # place[y]
  <2>1. \A x \in S : place[x] \in Int
    BY <1>4
  <2>2. \A x, y \in S : x # y => place[x] # place[y]
    <3> SUFFICES ASSUME NEW x \in S, NEW y \in S, x # y PROVE place[x] # place[y]
      OBVIOUS
    <3>1. Before(x, y) \/ Before(y, x)
      BY BeforeOrders
    <3> QED  BY <1>5, <2>1, <3>1
  <2> QED  BY <1>4, <2>2
<1> HIDE DEF place
<1>7. place \in Injection(S, 1..n)
  BY <1>6 DEF Injection, IsInjective
<1>8. place \in Surjection(S, 1..n)
  BY <1>1, <1>7, FS_Injection DEF n
<1> DEFINE s == [k \in 1..n |-> CHOOSE x \in S : place[x] = k]
<1>9. \A k \in 1..n : s[k] \in S /\ place[s[k]] = k
  BY <1>8 DEF Surjection
<1>10. s \in [1..n -> S] /\ DOMAIN s = 1..n
  BY <1>9
<1> HIDE DEF s
<1>11. \A i, j \in 1..n : i # j => s[i] # s[j]
  BY <1>9
<1>12. s \in SetToSeqs(S)
  BY <1>10, <1>11 DEF SetToSeqs, n
<1>13. ASSUME NEW i \in 1..n, NEW j \in 1..n, i < j PROVE Before(s[i], s[j])
  <2>1. s[i] \in S /\ s[j] \in S /\ s[i] # s[j] /\ place[s[i]] = i /\ place[s[j]] = j
    BY <1>9, <1>11, <1>13
  <2>2. Before(s[i], s[j]) \/ Before(s[j], s[i])
    BY <2>1, BeforeOrders
  <2>3. ASSUME Before(s[j], s[i]) PROVE FALSE
    <3>1. place[s[j]] < place[s[i]]
      BY <1>5, <2>1, <2>3
    <3> QED  BY <1>13, <2>1, <3>1
  <2> QED  BY <2>2, <2>3
<1>14. \E z \in SetToSeqs(S) : \A i, j \in DOMAIN z : i < j => Before(z[i], z[j])
  BY <1>10, <1>12, <1>13
<1> QED  BY <1>14 DEF sort_all_history

-----------------------------------------------------------------------------
(* The items of the wallet are finitely many.                              *)
LEMMA WalletItemsAre ==
    ASSUME ChainInv
    PROVE  IsFiniteSet(WalletItems) /\ WalletItems \in SUBSET AnyItem
<1> DEFINE H == [a \in Wallet |-> HistoryOf(height, a)]
<1>1. WalletItems = UNION {H[a] : a \in Wallet}
  BY DEF WalletItems
<1>2. \A a \in Wallet : IsFiniteSet(H[a]) /\ H[a] \subseteq AnyItem
  BY HistoryFinite, HistoryItems DEF ChainInv, Items
<1> HIDE DEF H
<1>3. IsFiniteSet({H[a] : a \in Wallet})
  BY WalletFinite, ImageFinite
<1> QED  BY <1>1, <1>2, <1>3, FS_UNION

(* What a transaction changes is an integer, and nothing if it touches no  *)
(* address of the wallet.                                                  *)
LEMMA DeltaIs ==
    ASSUME NEW t \in Txids
    PROVE  /\ Delta(t) \in Int
           /\ (\A a \in Wallet : ~Touches(t, a)) => Delta(t) = 0
<1>1. OutsTo(t, Wallet) \in SUBSET Outpoints(Txids) /\ InsFrom(t, Wallet) \in SUBSET Outpoints(Txids)
  BY OutpointsAre, InputsAre DEF OutsTo, InsFrom
<1>2. Sigma(Worth, OutsTo(t, Wallet)) \in Nat /\ Sigma(Worth, InsFrom(t, Wallet)) \in Nat
  BY <1>1, WorthMeasured
<1>3. Delta(t) = Sigma(Worth, OutsTo(t, Wallet)) - Sigma(Worth, InsFrom(t, Wallet))
  BY ImpactIs DEF Delta
<1>4. ASSUME \A a \in Wallet : ~Touches(t, a) PROVE Delta(t) = 0
  <2>1. OutsTo(t, Wallet) = {}
    <3> SUFFICES ASSUME NEW p \in Outpoints({t}), previous_output(p).to \in Wallet PROVE FALSE
      BY DEF OutsTo
    <3>1. p.tx = t /\ p.index \in DOMAIN Transactions[t].outs
      BY OutpointsAre
    <3> QED  BY <1>4, <3>1 DEF previous_output, Touches
  <2>2. InsFrom(t, Wallet) = {}
    BY <1>4 DEF InsFrom, Touches, Inputs
  <2> QED  BY <1>3, <2>1, <2>2, SigmaEmpty
<1> QED  BY <1>2, <1>3, <1>4

(* What each item of the wallet changed.                                   *)
Deltas == [i \in WalletItems |-> Delta(i.txid)]

(* What some transactions leave to the wallet is the sum of that over      *)
(* their items.                                                            *)
ItemsIn(P) == {i \in WalletItems : i.txid \in P}
LEMMA ConservedItemsIn ==
    ASSUME ChainInv, NEW P \in SUBSET Present, LinkedIn(P), ApartIn(P)
    PROVE  Measured(Deltas, ItemsIn(P))
           /\ Sigma(Deltas, ItemsIn(P)) = Sigma(Worth, UnspentIn(Wallet, P))
<1> DEFINE T == {t \in P : \E a \in Wallet : Touches(t, a)}
           b == [t \in T |-> [txid |-> t, height |-> height[t]]]
           d == [t \in P |-> Delta(t)]
<1>1. P \in SUBSET Txids /\ IsFiniteSet(P) /\ T \in SUBSET P /\ IsFiniteSet(T)
  BY TransactionsAre, FS_Subset DEF Present
<1>2. ItemsIn(P) = ImageOf(b, T) /\ ItemsIn(P) \subseteq WalletItems
  <2>1. ItemsIn(P) = {[txid |-> t, height |-> height[t]] : t \in T}
    BY DEF ItemsIn, WalletItems, HistoryOf, TxsOf, Present
  <2> QED  BY <2>1 DEF ImageOf, ItemsIn
<1>3. Measured(d, P)
  BY <1>1, DeltaIs DEF Measured
<1>4. \A t \in P \ T : d[t] = 0
  BY <1>1, DeltaIs
<1>5. \A t \in T : b[t].txid = t /\ d[t] = Delta(t) /\ d[t] \in Int
  BY <1>1, DeltaIs
<1>6. \A t \in T : Deltas[b[t]] = d[t]
  BY <1>2, <1>5 DEF Deltas, ImageOf
<1> HIDE DEF T, b
<1>7. Sigma(d, P \ T) = 0
  <2> HIDE DEF d
  <2>1. IsFiniteSet(P \ T)
    BY <1>1, FS_Subset
  <2> QED  BY <1>4, <2>1, SigmaZero
<1>8. Sigma(Worth, UnspentIn(Wallet, P)) = Sigma(d, P)
  BY <1>1, ConservedIn
<1> HIDE DEF d
<1>9. Sigma(d, P) = Sigma(d, T)
  <2>1. /\ Sigma(d, T) \in Int
        /\ Sigma(d, P) = Sigma(d, T) + Sigma(d, P \ T)
    BY <1>1, <1>3, SigmaPart
  <2> QED  BY <1>7, <2>1
<1>10. \A x, y \in T : x # y => b[x] # b[y]
  BY <1>5
<1>11. Measured(Deltas, ItemsIn(P)) /\ Sigma(d, T) = Sigma(Deltas, ItemsIn(P))
  <2>1. \A t \in T : d[t] = Deltas[b[t]] /\ Deltas[b[t]] \in Int
    BY <1>5, <1>6
  <2> QED  BY <1>1, <1>2, <1>10, <2>1, SigmaMap
<1> QED  BY <1>8, <1>9, <1>11

(* What the wallet holds is the sum over all of them.                      *)
LEMMA ConservedItems ==
    ASSUME ChainInv, Linked, Apart
    PROVE  Measured(Deltas, WalletItems) /\ Sigma(Deltas, WalletItems) = WalletUnspent
<1>1. ItemsIn(Present) = WalletItems
  BY WalletItem DEF ItemsIn, Present
<1>2. LinkedIn(Present) /\ ApartIn(Present)
  BY DEF Linked, Apart, LinkedIn, ApartIn
<1>3. UnspentIn(Wallet, Present) = UnspentBy(Wallet)
  BY DEF UnspentIn, UnspentBy
<1> QED  BY <1>1, <1>2, <1>3, ConservedItemsIn, WalletUnspentIs

(* A sum over places of a list is one over the items there.                *)
LEMMA PlacesSum ==
    ASSUME NEW S, IsFiniteSet(S), NEW s \in SetToSeqs(S), NEW w, Measured(w, S),
           NEW K \in SUBSET (1..Len(s)), NEW v, \A k \in K : v[k] = w[s[k]]
    PROVE  /\ Measured(v, K) /\ Sigma(v, K) = Sigma(w, ImageOf(s, K))
           /\ ImageOf(s, K) \in SUBSET S
<1>1. /\ Len(s) \in Nat /\ S = {s[i] : i \in 1..Len(s)}
      /\ \A i, j \in 1..Len(s) : i # j => s[i] # s[j]
  BY ListedOnce
<1>2. IsFiniteSet(K)
  <2>1. IsFiniteSet(1..Len(s))
    BY <1>1, FS_Interval
  <2> QED  BY <2>1, FS_Subset
<1>3. \A k \in K : s[k] \in S
  BY <1>1
<1>4. \A k \in K : v[k] = w[s[k]] /\ w[s[k]] \in Int
  BY <1>3 DEF Measured
<1>5. \A x, y \in K : x # y => s[x] # s[y]
  BY <1>1
<1>6. Measured(v, K) /\ Sigma(v, K) = Sigma(w, ImageOf(s, K))
  BY <1>2, <1>4, <1>5, SigmaMap, ZenonT(60)
<1> QED  BY <1>3, <1>6 DEF ImageOf

-----------------------------------------------------------------------------
(* No set of outputs is worth more than a uint64_t holds.                  *)
LEMMA WorthFits ==
    ASSUME NEW S \in SUBSET Outpoints(Txids)
    PROVE  Sigma(Worth, S) \in Nat /\ Sigma(Worth, S) < Modulus
<1> DEFINE v == [t \in Txids |-> SumFunction([k \in DOMAIN Transactions[t].outs |->
                                                Transactions[t].outs[k].value])]
           All == Outpoints(Txids)
           h == [p \in All |-> p.tx]
<1>1. SumFunction(v) < Modulus /\ DOMAIN v = Txids
  BY MoneyAssumption
<1>2. ASSUME NEW t \in Txids PROVE v[t] = Sigma(Worth, Fibre(h, All, t))
  <2>1. {[tx |-> t, index |-> k] : k \in DOMAIN Transactions[t].outs} = Outpoints({t})
    BY DEF Outpoints
  <2>2. v[t] = Sigma(Worth, Outpoints({t}))
    BY <2>1, OutsWorth
  <2>3. Outpoints({t}) = Fibre(h, All, t)
    BY OutpointsAre DEF Fibre
  <2> QED  BY <2>2, <2>3
<1>3. \A p \in All : h[p] \in Txids
  BY OutpointsAre
<1>4. All = Outpoints(Txids)
  OBVIOUS
<1> HIDE DEF v, h, All
<1>5. Measured(Worth, All)
  BY <1>4, WorthMeasured
<1>6. Sigma(v, Txids) = Sigma(Worth, All)
  <2>1. IsFiniteSet(Txids)
    BY TransactionsAre
  <2> QED  BY <1>2, <1>3, <1>5, <2>1, SigmaGroups
<1>7. SumFunction(v) = Sigma(v, Txids)
  BY <1>1, SumIs
<1>8. Sigma(Worth, S) \in Nat /\ Sigma(Worth, S) <= Sigma(Worth, All) /\ Sigma(Worth, All) \in Nat
  BY <1>4, WorthMeasured
<1> QED  BY <1>1, <1>6, <1>7, <1>8, TransactionAssumption

(* A number below the modulus is its own remainder.                        *)
LEMMA Fits ==
    ASSUME NEW n \in Nat, n < Modulus
    PROVE  n % Modulus = n
<1>1. Modulus \in Nat /\ Modulus > 0
  BY TransactionAssumption
<1> QED  BY <1>1

(* What the wallet holds fits as well.                                     *)
LEMMA WalletUnspentFits == WalletUnspent \in Nat /\ WalletUnspent < Modulus
<1>1. UnspentBy(Wallet) \in SUBSET Outpoints(Txids)
  BY OutpointsAre DEF Present, UnspentBy
<1> QED  BY <1>1, WorthFits, WalletUnspentIs

(* What a row says was funded, if the wallet paid for it.                  *)
LEMMA FundingIs ==
    ASSUME NEW t \in Txids, \A p \in Transactions[t].ins : is_in_wallet(previous_output(p).to)
    PROVE  LET Outside == {k \in DOMAIN Transactions[t].outs :
                             ~is_in_wallet(Transactions[t].outs[k].to)}
           IN  calculate_tx_wallet_impact(t).funding_amount
                 = SumFunction([k \in Outside |-> Transactions[t].outs[k].value])
<1> DEFINE K == {k \in DOMAIN Transactions[t].outs : ~is_in_wallet(Transactions[t].outs[k].to)}
           O == {[tx |-> t, index |-> k] : k \in K}
           all == Sigma(Worth, Outpoints({t}))
           own == Sigma(Worth, OutsTo(t, Wallet))
           in == Sigma(Worth, Inputs(t))
<1>1. InsFrom(t, Wallet) = Inputs(t)
  BY DEF InsFrom, Inputs, is_in_wallet, Wallet
<1>2. O = Outpoints({t}) \ OutsTo(t, Wallet) /\ OutsTo(t, Wallet) \in SUBSET Outpoints({t})
  BY DEF Outpoints, OutsTo, previous_output, is_in_wallet, Wallet
<1>3. Outpoints({t}) \in SUBSET Outpoints(Txids) /\ Inputs(t) \in SUBSET Outpoints(Txids)
  BY OutpointsAre, InputsAre
<1>4. SumFunction([k \in K |-> Transactions[t].outs[k].value]) = Sigma(Worth, O)
  BY OutsWorth
<1>5. calculate_tx_wallet_impact(t).funding_amount = (in - own - (in - all)) % Modulus
  BY <1>1, ImpactIs
<1> HIDE DEF O
<1>6. own \in Int /\ all \in Int /\ Sigma(Worth, O) \in Int /\ all = own + Sigma(Worth, O)
  <2>1. OutsTo(t, Wallet) \in SUBSET Outpoints(Txids) /\ O \in SUBSET Outpoints(Txids)
    BY <1>2, <1>3
  <2>2. Measured(Worth, OutsTo(t, Wallet)) /\ Measured(Worth, O)
    BY <2>1, WorthMeasured
  <2>3. OutsTo(t, Wallet) \cup O = Outpoints({t}) /\ OutsTo(t, Wallet) \cap O = {}
    BY <1>2
  <2>4. own \in Int /\ all \in Int /\ Sigma(Worth, O) \in Int
    BY <1>3, <2>1, WorthMeasured
  <2>5. Sigma(Worth, OutsTo(t, Wallet) \cup O) = own + Sigma(Worth, O)
    BY <2>2, <2>3, SigmaUnion
  <2> QED  BY <2>3, <2>4, <2>5
<1>7. in \in Nat /\ Sigma(Worth, O) \in Nat /\ Sigma(Worth, O) < Modulus
  BY <1>2, <1>3, WorthFits
<1> HIDE DEF in, own, all
<1>8. in - own - (in - all) = Sigma(Worth, O)
  BY <1>6, <1>7
<1>9. calculate_tx_wallet_impact(t).funding_amount = Sigma(Worth, O)
  BY <1>5, <1>7, <1>8, Fits
<1> QED  BY <1>4, <1>9

(* What RowsExact says of the rows.                                        *)
RowsFor(rows) ==
    LET Outside(t) == {k \in DOMAIN Transactions[t].outs :
                         ~is_in_wallet(Transactions[t].outs[k].to)}
        Funds(t) == \A p \in Transactions[t].ins :
                         is_in_wallet(previous_output(p).to)
    IN  /\ {[txid |-> r.tx_id, height |-> r.height] : r \in ToSet(rows)} = WalletItems
        /\ rows # <<>> => rows[1].balance = WalletUnspent
        /\ \A r \in ToSet(rows) : Funds(r.tx_id) =>
             r.funding_amount = SumFunction([k \in Outside(r.tx_id) |->
                                               Transactions[r.tx_id].outs[k].value])

(* It is true of the rows of the wallet's items.                           *)
LEMMA RowsRight ==
    ASSUME ChainInv, Linked, Apart
    PROVE  RowsFor(history_view_rows(sort_all_history(WalletItems)))
<1> DEFINE s == sort_all_history(WalletItems)
           rows == history_view_rows(s)
           Impact(i) == calculate_tx_wallet_impact(s[i].txid)
<1>1. s \in SetToSeqs(WalletItems) /\ IsFiniteSet(WalletItems)
  BY WalletItemsAre, SortListed
<1> HIDE DEF s
<1>2. /\ Len(s) \in Nat /\ DOMAIN s = 1..Len(s) /\ WalletItems = {s[i] : i \in 1..Len(s)}
      /\ \A i, j \in 1..Len(s) : i # j => s[i] # s[j]
  BY <1>1, ListedOnce
<1>3. /\ DOMAIN rows = 1..Len(s)
      /\ \A i \in 1..Len(s) :
           /\ rows[i].tx_id = s[i].txid /\ rows[i].height = s[i].height
           /\ rows[i].funding_amount = Impact(i).funding_amount
           /\ rows[i].balance = SumFunction([j \in i..Len(s) |-> Impact(j).balance_delta]) % Modulus
  BY <1>2 DEF history_view_rows
<1> HIDE DEF rows
<1>4. \A i \in 1..Len(s) : /\ s[i] = [txid |-> s[i].txid, height |-> s[i].height]
                           /\ s[i] \in WalletItems /\ s[i].txid \in Txids
                           /\ s[i].height = height[s[i].txid]
  <2> SUFFICES ASSUME NEW i \in 1..Len(s)
               PROVE  /\ s[i] = [txid |-> s[i].txid, height |-> s[i].height]
                      /\ s[i] \in WalletItems /\ s[i].txid \in Txids
                      /\ s[i].height = height[s[i].txid]
    OBVIOUS
  <2>1. s[i] \in WalletItems
    BY <1>2
  <2>2. s[i].txid \in Txids /\ s[i] = [txid |-> s[i].txid, height |-> height[s[i].txid]]
    BY <2>1, WalletItem
  <2>3. s[i].height = height[s[i].txid]
    BY <2>2
  <2> QED  BY <2>1, <2>2, <2>3
<1>5. ToSet(rows) = {rows[i] : i \in 1..Len(s)}
  BY <1>3 DEF ToSet
<1>6. {[txid |-> r.tx_id, height |-> r.height] : r \in ToSet(rows)} = WalletItems
  <2>1. \A i \in 1..Len(s) : [txid |-> rows[i].tx_id, height |-> rows[i].height] = s[i]
    BY <1>3, <1>4
  <2> QED  BY <1>2, <1>5, <2>1
<1>8. rows # <<>> => rows[1].balance = WalletUnspent
  <2> SUFFICES ASSUME rows # <<>> PROVE rows[1].balance = WalletUnspent
    OBVIOUS
  <2>1. 1 \in 1..Len(s)
    <3>1. ASSUME Len(s) = 0 PROVE FALSE
      <4>1. DOMAIN rows = {}
        BY <1>3, <3>1
      <4>2. rows = [i \in DOMAIN s |-> rows[i]]
        BY DEF rows, history_view_rows
      <4>3. rows = <<>>
        BY <1>2, <1>3, <3>1, <4>1, <4>2
      <4> QED  BY <4>3
    <3> QED  BY <1>2, <3>1
  <2> DEFINE v == [j \in 1..Len(s) |-> Impact(j).balance_delta]
  <2>2. rows[1].balance = SumFunction(v) % Modulus /\ DOMAIN v = 1..Len(s)
    BY <1>3, <2>1
  <2>3. \A j \in 1..Len(s) : v[j] = Deltas[s[j]]
    BY <1>4 DEF Deltas, Delta
  <2> HIDE DEF v
  <2>4. ImageOf(s, 1..Len(s)) = WalletItems
    BY <1>2 DEF ImageOf
  <2>5. Measured(Deltas, WalletItems) /\ Sigma(Deltas, WalletItems) = WalletUnspent
    BY ConservedItems
  <2>6. Sigma(v, 1..Len(s)) = WalletUnspent
    BY <1>1, <2>3, <2>4, <2>5, PlacesSum
  <2> QED  BY <2>2, <2>6, SumIs, WalletUnspentFits, Fits
<1>9. ASSUME NEW r \in ToSet(rows),
             \A p \in Transactions[r.tx_id].ins : is_in_wallet(previous_output(p).to)
      PROVE  LET Outside == {k \in DOMAIN Transactions[r.tx_id].outs :
                               ~is_in_wallet(Transactions[r.tx_id].outs[k].to)}
             IN  r.funding_amount = SumFunction([k \in Outside |-> Transactions[r.tx_id].outs[k].value])
  <2>1. PICK i \in 1..Len(s) : r = rows[i]
    BY <1>5
  <2>2. r.tx_id \in Txids /\ r.funding_amount = calculate_tx_wallet_impact(r.tx_id).funding_amount
    BY <1>3, <1>4, <2>1
  <2> QED  BY <1>9, <2>2, FundingIs
<1>10. RowsFor(rows)
  BY <1>6, <1>8, <1>9 DEF RowsFor
<1> QED  BY <1>10 DEF rows, s

(* What the items of the mempool at height 0, or all others, changed.      *)
ImpactOf(pending) ==
    SumFunction([i \in {j \in WalletItems : (j.height = 0) = pending} |->
                   calculate_tx_wallet_impact(i.txid).balance_delta])

(* The two sums over the wallet's items are as SplitExact says.            *)
LEMMA SplitRight ==
    ASSUME ChainInv, Linked, Apart
    PROVE  LET s == sort_all_history(WalletItems) IN
           /\ confirmed_balance(s) = (WalletUnspent - ImpactOf(TRUE)) % Modulus
           /\ unconfirmed_impact(s) = WalletUnspent - ImpactOf(FALSE)
<1> DEFINE s == sort_all_history(WalletItems)
           Part(pending) == {j \in WalletItems : (j.height = 0) = pending}
           Impact(pending) == SumFunction([i \in Part(pending) |->
                                 calculate_tx_wallet_impact(i.txid).balance_delta])
           K(pending) == {k \in 1..Len(s) : (s[k].height = 0) = pending}
           v(pending) == [k \in K(pending) |->
                            calculate_tx_wallet_impact(s[k].txid).balance_delta]
<1>1. s \in SetToSeqs(WalletItems) /\ IsFiniteSet(WalletItems)
  BY WalletItemsAre, SortListed
<1>2. Impact(TRUE) = ImpactOf(TRUE) /\ Impact(FALSE) = ImpactOf(FALSE)
  BY DEF ImpactOf
<1> HIDE DEF s
<1>3. Len(s) \in Nat /\ DOMAIN s = 1..Len(s) /\ WalletItems = {s[i] : i \in 1..Len(s)}
  BY <1>1, ListedOnce
<1>4. confirmed_balance(s) = SumFunction(v(FALSE)) % Modulus /\ unconfirmed_impact(s) = SumFunction(v(TRUE))
  <2>1. {j \in DOMAIN s : s[j].height # 0} = K(FALSE) /\ {j \in DOMAIN s : s[j].height = 0} = K(TRUE)
    BY <1>3
  <2> QED  BY <2>1 DEF confirmed_balance, unconfirmed_impact
<1>5. Measured(Deltas, WalletItems) /\ Sigma(Deltas, WalletItems) = WalletUnspent
  BY ConservedItems
<1>6. ASSUME NEW pending \in BOOLEAN
      PROVE  /\ SumFunction(v(pending)) = Sigma(Deltas, Part(pending))
             /\ Impact(pending) = Sigma(Deltas, Part(pending))
  <2>1. ImageOf(s, K(pending)) = Part(pending)
    BY <1>3 DEF ImageOf
  <2>2. /\ K(pending) \in SUBSET (1..Len(s)) /\ DOMAIN v(pending) = K(pending)
        /\ Part(pending) \in SUBSET WalletItems
    OBVIOUS
  <2>3. \A k \in K(pending) : v(pending)[k] = Deltas[s[k]]
    BY <1>3 DEF Deltas, Delta
  <2> DEFINE w == [i \in Part(pending) |-> calculate_tx_wallet_impact(i.txid).balance_delta]
  <2>4. Impact(pending) = SumFunction(w) /\ DOMAIN w = Part(pending)
    OBVIOUS
  <2>5. \A i \in Part(pending) : w[i] = Deltas[i]
    BY DEF Deltas, Delta
  <2> HIDE DEF w, v, K, Part, Impact
  <2>6. Sigma(v(pending), K(pending)) = Sigma(Deltas, Part(pending))
    BY <1>1, <1>5, <2>1, <2>2, <2>3, PlacesSum
  <2>7. Measured(Deltas, Part(pending))
    BY <1>5, <2>2, MeasuredPart
  <2>8. Sigma(w, Part(pending)) = Sigma(Deltas, Part(pending))
    BY <2>5, <2>7, SigmaSame
  <2> QED  BY <2>2, <2>4, <2>6, <2>8, SumIs
<1>7. Part(FALSE) = WalletItems \ Part(TRUE) /\ Part(TRUE) \in SUBSET WalletItems
  OBVIOUS
<1> HIDE DEF Part, Impact, v
<1>8. PICK one, other : one = Part(TRUE) /\ other = Part(FALSE)
  OBVIOUS
<1>9. one \in SUBSET WalletItems /\ other = WalletItems \ one
  BY <1>7, <1>8
<1>10. /\ Sigma(Deltas, one) \in Int /\ Sigma(Deltas, other) \in Int
       /\ WalletUnspent = Sigma(Deltas, one) + Sigma(Deltas, other)
  BY <1>5, <1>9, SigmaPart
<1>11. /\ SumFunction(v(TRUE)) = Sigma(Deltas, one) /\ Impact(TRUE) = Sigma(Deltas, one)
       /\ SumFunction(v(FALSE)) = Sigma(Deltas, other) /\ Impact(FALSE) = Sigma(Deltas, other)
  BY <1>6, <1>8, Zenon
<1>12. /\ Sigma(Deltas, other) = WalletUnspent - Sigma(Deltas, one)
       /\ Sigma(Deltas, one) = WalletUnspent - Sigma(Deltas, other)
  BY <1>10, WalletUnspentFits
<1>13. /\ confirmed_balance(s) = (WalletUnspent - ImpactOf(TRUE)) % Modulus
       /\ unconfirmed_impact(s) = WalletUnspent - ImpactOf(FALSE)
  BY <1>2, <1>4, <1>11, <1>12, Zenon
<1> QED  BY <1>13 DEF s

-----------------------------------------------------------------------------
(* The chain's invariant behind the balances: what a transaction spends    *)
(* from is present, in the same block or one below it if it is confirmed   *)
(* itself, confirmed if it is at height 0; and no output is spent twice.   *)
LinkInv ==
    /\ \A t \in Present : \A p \in Inputs(t) :
         /\ p.tx \in Present
         /\ height[t] > 0 => height[p.tx] > 0 /\ height[p.tx] <= height[t]
         /\ height[t] = 0 => height[p.tx] > 0
    /\ Apart

(* It holds at the start.                                                  *)
LEMMA LinkInit == Init => LinkInv
<1> SUFFICES ASSUME Init PROVE LinkInv
  OBVIOUS
<1>1. height = Initially
  BY DEF Init
<1>2. ASSUME NEW t \in Present, NEW p \in Inputs(t)
      PROVE  /\ p.tx \in Present /\ height[p.tx] > 0 /\ height[p.tx] <= height[t]
             /\ height[t] > 0
  <2>1. t \in Txids /\ Initially[t] # Absent
    BY <1>1 DEF Present
  <2>2. Initially[t] \in 1..MaxHeight /\ Initially[p.tx] \in 1..Initially[t] /\ MaxHeight \in Nat
    BY <2>1, StateAssumption DEF Inputs
  <2>3. p.tx \in Txids
    BY <2>1, TransactionsAre
  <2> QED  BY <1>1, <2>2, <2>3 DEF Present, Absent
<1>3. Apart
  <2> SUFFICES ASSUME NEW t \in Present, NEW u \in Present, t # u
               PROVE  Inputs(t) \cap Inputs(u) = {}
    BY DEF Apart
  <2>1. t \in Txids /\ u \in Txids \ {t} /\ Initially[t] # Absent /\ Initially[u] # Absent
    BY <1>1 DEF Present
  <2> QED  BY <2>1, StateAssumption DEF Inputs
<1>4. \A t \in Present : \A p \in Inputs(t) :
         /\ p.tx \in Present
         /\ height[t] > 0 => height[p.tx] > 0 /\ height[p.tx] <= height[t]
         /\ height[t] = 0 => height[p.tx] > 0
  BY <1>2
<1> QED  BY <1>3, <1>4 DEF LinkInv

(* Heights are integers, Absent none of the others.                        *)
LEMMA HeightsAre ==
    ASSUME ChainInv
    PROVE  \A t \in Txids : height[t] \in Int /\ height[t] >= -2
                            /\ (height[t] # Absent => height[t] >= -1)
BY StateAssumption DEF ChainInv, Heights, Absent

(* A transaction that arrives is linked, and spends what nobody spends.    *)
LEMMA ArriveLinked ==
    ASSUME ChainInv, LinkInv, NEW t \in Txids, Arrive(t)
    PROVE  LinkInv'
<1>1. /\ height' = Ranked(height, {t}) /\ height[t] = Absent
      /\ \A p \in Inputs(t) : height[p.tx] # Absent
      /\ \A u \in Txids : height[u] # Absent => Inputs(t) \cap Inputs(u) = {}
  BY DEF Arrive, Change, Parents, Inputs
<1>2. \A u \in Txids : height'[u] = IF u # t THEN height[u]
                                    ELSE IF \A p \in Inputs(t) : height[p.tx] > 0 THEN 0 ELSE -1
  BY <1>1 DEF Ranked, Parents, Inputs
<1>3. Present' = Present \cup {t} /\ t \notin Present /\ Present \in SUBSET Txids
  BY <1>1, <1>2 DEF Present, Absent
<1>4. \A u \in Txids : \A p \in Inputs(u) : p.tx \in Txids /\ p.tx < u /\ u \in Nat /\ p.tx \in Nat
  BY TransactionsAre
<1>5. ASSUME NEW u \in Present', NEW p \in Inputs(u)
      PROVE  /\ p.tx \in Present'
             /\ height'[u] > 0 => height'[p.tx] > 0 /\ height'[p.tx] <= height'[u]
             /\ height'[u] = 0 => height'[p.tx] > 0
  <2>1. CASE u = t
    <3>1. p.tx # t /\ p.tx \in Present /\ height'[p.tx] = height[p.tx]
      BY <1>1, <1>2, <1>4, <2>1 DEF Present
    <3>2. height'[t] = 0 => height[p.tx] > 0
      BY <1>2, <2>1
    <3>3. height'[t] \in {0, -1}
      BY <1>2
    <3> QED  BY <1>3, <2>1, <3>1, <3>2, <3>3
  <2>2. CASE u # t
    <3>1. u \in Present /\ p.tx \in Present /\ p.tx # t
      BY <1>3, <2>2 DEF LinkInv
    <3>2. height'[u] = height[u] /\ height'[p.tx] = height[p.tx]
      BY <1>2, <1>3, <2>2, <3>1
    <3> QED  BY <1>3, <3>1, <3>2 DEF LinkInv
  <2> QED  BY <2>1, <2>2
<1>6. Apart'
  BY <1>1, <1>3 DEF Apart, LinkInv, Present, Inputs
<1> QED  BY <1>5, <1>6 DEF LinkInv, Inputs

(* Nothing present spends from a transaction that is evicted.              *)
LEMMA EvictLinked ==
    ASSUME ChainInv, LinkInv, NEW t \in Txids, Evict(t)
    PROVE  LinkInv'
<1>1. /\ height' = [height EXCEPT ![t] = Absent]
      /\ \A u \in Txids : t \in Parents(u) => height[u] = Absent
  BY DEF Evict, Change
<1>2. Present' \in SUBSET Present /\ t \notin Present'
      /\ \A u \in Present \ {t} : u \in Present' /\ height'[u] = height[u]
  BY <1>1 DEF Present, ChainInv
<1>3. ASSUME NEW u \in Present', NEW p \in Inputs(u)
      PROVE  /\ p.tx \in Present'
             /\ height'[u] > 0 => height'[p.tx] > 0 /\ height'[p.tx] <= height'[u]
             /\ height'[u] = 0 => height'[p.tx] > 0
  <2>1. u \in Present /\ u # t /\ p.tx \in Present
    BY <1>2 DEF LinkInv
  <2>2. p.tx # t
    BY <1>1, <2>1 DEF Present, Parents, Inputs
  <2> QED  BY <1>2, <2>1, <2>2 DEF LinkInv
<1>4. Apart'
  BY <1>2 DEF Apart, LinkInv, Inputs
<1> QED  BY <1>3, <1>4 DEF LinkInv, Inputs

(* A block takes what it spends from with it, and what stays in the        *)
(* mempool is ranked again.                                                *)
LEMMA MineLinked ==
    ASSUME ChainInv, LinkInv,
           NEW block \in SUBSET (Mempool(height) \cup {t \in Coinbases : height[t] = Absent}),
           Mine(block)
    PROVE  LinkInv'
<1> DEFINE h == [t \in Txids |-> IF t \in block THEN Tip + 1 ELSE height[t]]
           pending == Mempool(height) \ block
<1>1. height' = Ranked(h, pending)
  BY DEF Mine, Change
<1>2. \A t \in block : \A p \in Inputs(t) : height[p.tx] > 0 \/ p.tx \in block
  BY DEF Mine, Parents, Inputs
<1>3. Tip \in Nat /\ \A t \in Txids : height[t] <= Tip
  BY TipBounded, StateAssumption
<1>4. \A t \in Coinbases : Inputs(t) = {}
  BY DEF Coinbases, Parents, Inputs
<1>5. \A t \in Txids : height[t] \in Int /\ (t \in Mempool(height) <=> height[t] \in {0, -1})
  BY HeightsAre DEF Mempool
<1>6. \A t \in Txids : /\ t \in block => height'[t] = Tip + 1
                       /\ t \notin block /\ height[t] \notin {0, -1} => height'[t] = height[t]
                       /\ t \in pending =>
                            /\ height'[t] \in {0, -1}
                            /\ height'[t] = 0 => \A p \in Inputs(t) : h[p.tx] > 0
  <2> SUFFICES ASSUME NEW t \in Txids
               PROVE  /\ t \in block => height'[t] = Tip + 1
                      /\ t \notin block /\ height[t] \notin {0, -1} => height'[t] = height[t]
                      /\ t \in pending =>
                            /\ height'[t] \in {0, -1}
                            /\ height'[t] = 0 => \A p \in Inputs(t) : h[p.tx] > 0
    OBVIOUS
  <2>1. height'[t] = IF t \notin pending THEN h[t]
                     ELSE IF \A p \in Inputs(t) : h[p.tx] > 0 THEN 0 ELSE -1
    <3> HIDE DEF h, pending
    <3> QED  BY <1>1 DEF Ranked, Parents, Inputs
  <2> QED  BY <1>5, <2>1
<1>7. \A t \in Txids : h[t] > 0 => t \in block \/ height[t] > 0
  OBVIOUS
<1> HIDE DEF h
<1>8. /\ Present \in SUBSET Txids /\ Present \in SUBSET Present'
      /\ \A t \in Present' : t \in Txids /\ (t \in Present \/ t \in Coinbases)
  BY <1>3, <1>5, <1>6 DEF Present, Absent
<1>9. ASSUME NEW t \in Present', NEW p \in Inputs(t)
      PROVE  /\ p.tx \in Present'
             /\ height'[t] > 0 => height'[p.tx] > 0 /\ height'[p.tx] <= height'[t]
             /\ height'[t] = 0 => height'[p.tx] > 0
  <2> DEFINE u == p.tx
  <2>1. t \in Present /\ t \in Txids
    BY <1>4, <1>8
  <2>2. u \in Present /\ u \in Txids
    BY <1>8, <2>1 DEF LinkInv
  <2>3. u \in Present'
    BY <1>8, <2>2
  <2> HIDE DEF u
  <2>4. /\ height[t] > 0 => height[u] > 0 /\ height[u] <= height[t]
        /\ height[t] = 0 => height[u] > 0
        /\ height[t] \in Int /\ height[u] \in Int /\ height[u] <= Tip
    BY <1>3, <1>5, <2>1, <2>2 DEF LinkInv, u
  <2>5. height[u] > 0 /\ u \notin block => height'[u] = height[u]
    BY <1>6, <2>2
  <2>6. u \in block => height'[u] = Tip + 1
    BY <1>6, <2>2
  <2>7. CASE t \in block
    <3>1. height'[t] = Tip + 1 /\ (height[u] > 0 \/ u \in block)
      BY <1>2, <1>6, <2>1, <2>7 DEF u
    <3> QED  BY <1>3, <2>3, <2>4, <2>5, <2>6, <3>1 DEF u
  <2>8. CASE t \in pending
    <3>1. height'[t] \in {0, -1} /\ (height'[t] = 0 => h[u] > 0)
      BY <1>6, <2>1, <2>8 DEF u
    <3>2. h[u] > 0 => height'[u] > 0
      BY <1>3, <1>7, <2>2, <2>5, <2>6
    <3> QED  BY <2>3, <3>1, <3>2 DEF u
  <2>9. CASE t \notin block /\ t \notin pending
    <3>1. height[t] \notin {0, -1}
      BY <1>5, <2>1, <2>9
    <3>2. height'[t] = height[t] /\ height[t] > 0
      BY <1>6, <2>1, <2>9, <3>1, HeightsAre DEF Present
    <3>3. u \notin block
      <4>1. ASSUME u \in block PROVE FALSE
        <5>1. height[u] \in {0, -1} \/ height[u] = Absent
          BY <1>5, <2>2, <4>1
        <5> QED  BY <2>4, <3>2, <5>1 DEF Absent
      <4> QED  BY <4>1
    <3> QED  BY <2>3, <2>4, <2>5, <3>2, <3>3 DEF u
  <2> QED  BY <2>7, <2>8, <2>9
<1>10. Apart'
  <2> SUFFICES ASSUME NEW t \in Present', NEW u \in Present', t # u
               PROVE  Inputs(t) \cap Inputs(u) = {}
    BY DEF Apart, Inputs
  <2>1. CASE t \in Present /\ u \in Present
    BY <2>1 DEF LinkInv, Apart
  <2>2. CASE t \in Coinbases \/ u \in Coinbases
    BY <1>4, <2>2
  <2> QED  BY <1>8, <2>1, <2>2
<1> QED  BY <1>9, <1>10 DEF LinkInv, Inputs

(* Every step keeps it; the calls do not touch the chain.                  *)
LEMMA LinkStep ==
    ASSUME ChainInv, LinkInv, Next \/ UNCHANGED vars
    PROVE  LinkInv'
<1>1. CASE UNCHANGED height
  BY <1>1 DEF LinkInv, Present, Apart, Inputs
<1>2. \/ \E t \in Txids : Arrive(t) \/ Evict(t)
      \/ \E block \in SUBSET (Mempool(height) \cup
                       {t \in Coinbases : height[t] = Absent}) : Mine(block)
      \/ UNCHANGED height
  BY DEF Next, vars, server, Begin, get_history_cached, get_history_requested,
         get_history_error, get_history_bulk, get_history_bulk_error, BulkReply,
         refresh_all_history_bulk, get_all_txs_sorted_bulk, load_txs_bulk,
         Finish, RequestFails, subscribe_address, do_addresses_subscriptions,
         do_addresses_subscriptions_bulk, HandleNotification, clear_caches
<1> QED  BY <1>1, <1>2, ArriveLinked, EvictLinked, MineLinked

(* With it the wallet's holdings are the sum of its transactions.          *)
LEMMA LinkLinks == LinkInv => Linked /\ Apart
BY DEF LinkInv, Linked

-----------------------------------------------------------------------------
(* A history as get_history gives it: no transaction twice, and in the     *)
(* order of the server.                                                    *)
Ordered(history) ==
    \A i, j \in 1..Len(history) :
        i < j => MayPrecede(history[i], history[j]) /\ history[i].txid # history[j].txid

(* The place of a transaction in it; whether an output is spent by a later *)
(* item; what was ever paid to an address, and what calc_address_balance   *)
(* leaves of each output.                                                  *)
At(history, t) == CHOOSE k \in 1..Len(history) : history[k].txid = t
Later(history, p) ==
    \E j \in At(history, p.tx) + 1 .. Len(history) : p \in Inputs(history[j].txid)
Paid(a) == {p \in Outpoints(Present) : previous_output(p).to = a}
Remains(history, a) == [p \in Paid(a) |-> IF Later(history, p) THEN 0 ELSE Worth[p]]

(* A fresh history lists each transaction that touches the address once.   *)
LEMMA Places ==
    ASSUME ChainInv, NEW a \in Wallet, NEW history \in Seq(AnyItem),
           Fresh(a, history), Ordered(history)
    PROVE  /\ Len(history) \in Nat /\ DOMAIN history = 1..Len(history)
           /\ \A k \in 1..Len(history) :
                /\ history[k].txid \in Present /\ history[k].txid \in Txids
                /\ history[k].height = height[history[k].txid]
           /\ \A t \in Present : Touches(t, a) =>
                At(history, t) \in 1..Len(history) /\ history[At(history, t)].txid = t
           /\ \A k \in 1..Len(history) : At(history, history[k].txid) = k
<1> DEFINE n == Len(history)
<1>1. n \in Nat /\ DOMAIN history = 1..n
  OBVIOUS
<1>2. {history[k] : k \in 1..n} = HistoryOf(height, a)
  BY <1>1 DEF Fresh, ToSet
<1>3. ASSUME NEW k \in 1..n
      PROVE  /\ history[k].txid \in Present /\ history[k].txid \in Txids
             /\ history[k].height = height[history[k].txid]
             /\ history[k] = [txid |-> history[k].txid, height |-> height[history[k].txid]]
  <2>1. PICK t \in Txids : height[t] # Absent /\ history[k] = [txid |-> t, height |-> height[t]]
    BY <1>2 DEF HistoryOf, TxsOf
  <2> QED  BY <2>1 DEF Present
<1>4. ASSUME NEW t \in Present, Touches(t, a)
      PROVE  At(history, t) \in 1..n /\ history[At(history, t)].txid = t
  <2>1. [txid |-> t, height |-> height[t]] \in HistoryOf(height, a)
    BY <1>4 DEF HistoryOf, TxsOf, Present
  <2>2. \E k \in 1..n : history[k] = [txid |-> t, height |-> height[t]]
    BY <1>2, <2>1
  <2>3. \E k \in 1..n : history[k].txid = t
    BY <2>2
  <2> QED  BY <2>3 DEF At
<1>5. ASSUME NEW i \in 1..n, NEW j \in 1..n, history[i].txid = history[j].txid PROVE i = j
  <2>1. history[i] = history[j]
    BY <1>3, <1>5
  <2>2. ~(i < j) /\ ~(j < i)
    BY <2>1 DEF Ordered
  <2> QED  BY <1>1, <2>2
<1>6. ASSUME NEW k \in 1..n PROVE At(history, history[k].txid) = k
  <2>1. At(history, history[k].txid) \in 1..n /\ history[At(history, history[k].txid)].txid = history[k].txid
    BY DEF At
  <2> QED  BY <1>5, <2>1
<1> QED  BY <1>1, <1>3, <1>4, <1>6

(* What was paid to the address was paid by transactions of its history.   *)
LEMMA PaidPlaces ==
    ASSUME ChainInv, NEW a \in Wallet, NEW history \in Seq(AnyItem),
           Fresh(a, history), Ordered(history)
    PROVE  /\ Paid(a) \in SUBSET Outpoints(Txids) /\ UnspentBy({a}) \in SUBSET Paid(a)
           /\ \A p \in Paid(a) : /\ p.tx \in Present /\ At(history, p.tx) \in 1..Len(history)
                                 /\ history[At(history, p.tx)].txid = p.tx
           /\ \A k \in 1..Len(history) :
                \A p : p \in Paid(a) /\ At(history, p.tx) = k <=> p \in OutsTo(history[k].txid, {a})
<1>1. Present \in SUBSET Txids
  BY DEF Present
<1>2. Paid(a) \in SUBSET Outpoints(Txids) /\ UnspentBy({a}) \in SUBSET Paid(a)
  BY <1>1, OutpointsAre DEF Paid, UnspentBy
<1>3. ASSUME NEW p \in Paid(a)
      PROVE  /\ p.tx \in Present /\ At(history, p.tx) \in 1..Len(history)
             /\ history[At(history, p.tx)].txid = p.tx
  <2>1. p.tx \in Present /\ p.index \in DOMAIN Transactions[p.tx].outs
    BY <1>1, OutpointsAre DEF Paid
  <2>2. Touches(p.tx, a)
    BY <2>1 DEF Paid, Touches, previous_output
  <2> QED  BY <2>1, <2>2, Places
<1>4. ASSUME NEW k \in 1..Len(history), NEW p
      PROVE  p \in Paid(a) /\ At(history, p.tx) = k <=> p \in OutsTo(history[k].txid, {a})
  <2> DEFINE t == history[k].txid
  <2>1. t \in Present /\ At(history, t) = k
    BY Places
  <2>2. p \in Outpoints({t}) <=> p \in Outpoints(Present) /\ p.tx = t
    BY <1>1, <2>1, OutpointsAre
  <2>3. p \in OutsTo(t, {a}) <=> p \in Paid(a) /\ p.tx = t
    BY <2>2 DEF OutsTo, Paid
  <2>4. p \in Paid(a) => (p.tx = t <=> At(history, p.tx) = k)
    BY <1>3, <2>1
  <2> QED  BY <2>3, <2>4
<1> QED  BY <1>2, <1>3, <1>4

(* What calc_address_balance takes off an output: the inputs of later      *)
(* items that spend it.                                                    *)
SpentAfter(history, pos, k) ==
    LET items == [i \in 1..Len(history) |-> analyse_tx_balances(history[i].txid)]
        Spends == UNION {{i \in items[j].inputs :
                            i.funding = [tx |-> history[pos].txid, index |-> k]} :
                            j \in pos + 1 .. Len(history)}
    IN  SumFunction([i \in Spends |-> i.value])

(* An output that a later item spends leaves nothing, any other all of it. *)
LEMMA LeftOver ==
    ASSUME ChainInv, NEW a \in Wallet, NEW history \in Seq(AnyItem),
           Fresh(a, history), Ordered(history),
           NEW pos \in 1..Len(history), NEW k \in DOMAIN Transactions[history[pos].txid].outs,
           Transactions[history[pos].txid].outs[k].to = a
    PROVE  LET p == [tx |-> history[pos].txid, index |-> k] IN
           /\ p \in Paid(a)
           /\ Remains(history, a)[p] = Transactions[history[pos].txid].outs[k].value
                                       - SpentAfter(history, pos, k)
<1> DEFINE n == Len(history)  t == history[pos].txid
           p == [tx |-> t, index |-> k]
           items == [i \in 1..n |-> analyse_tx_balances(history[i].txid)]
           Spends == UNION {{i \in items[j].inputs : i.funding = p} : j \in pos + 1 .. n}
           S == {q \in {p} : Later(history, q)}
<1>1. t \in Txids /\ t \in Present /\ n \in Nat /\ At(history, t) = pos
  BY Places
<1>2. p.tx = t /\ p.index = k
  OBVIOUS
<1>3. p \in Outpoints({t})
  BY <1>1, <1>2, OutpointsAre
<1>4. p \in OutsTo(t, {a})
  BY <1>2, <1>3 DEF OutsTo, previous_output
<1>5. p \in Paid(a) /\ p \in Outpoints(Txids)
  BY <1>4, PaidPlaces
<1>6. Worth[p] = Transactions[t].outs[k].value /\ Worth[p] \in Nat
  BY <1>2, <1>5, OutpointsAre DEF previous_output
<1>7. ASSUME NEW j \in pos + 1 .. n
      PROVE  {i \in items[j].inputs : i.funding = p} = {Resolved(q) : q \in {r \in Inputs(history[j].txid) : r = p}}
  <2>1. j \in 1..n
    BY <1>1
  <2>2. items[j].inputs = {Resolved(q) : q \in Inputs(history[j].txid)}
    BY <2>1 DEF analyse_tx_balances, Resolved, Inputs
  <2>3. \A q : Resolved(q).funding = q
    BY DEF Resolved
  <2> HIDE DEF items, p
  <2> QED  BY <2>2, <2>3
<1>8. Later(history, p) <=> \E j \in pos + 1 .. n : p \in Inputs(history[j].txid)
  BY <1>1, <1>2 DEF Later
<1>9. Spends = {Resolved(q) : q \in S}
  <2> HIDE DEF items, p, n
  <2> QED  BY <1>7, <1>8
<1>10. S \in SUBSET Outpoints(Txids)
  BY <1>5
<1>11. SumFunction([i \in Spends |-> i.value]) = Sigma(Worth, S)
  <2> HIDE DEF S, Spends
  <2> QED  BY <1>9, <1>10, InsWorth
<1>12. Sigma(Worth, S) = IF Later(history, p) THEN Worth[p] ELSE 0
  <2> HIDE DEF p
  <2>1. CASE Later(history, p)
    <3>1. S = {} \cup {p} /\ p \notin {}
      BY <2>1
    <3>2. Measured(Worth, {}) /\ Worth[p] \in Int
      BY <1>6, FS_EmptySet DEF Measured
    <3> HIDE DEF S
    <3>3. Sigma(Worth, {} \cup {p}) = Sigma(Worth, {}) + Worth[p]
      BY <3>1, <3>2, SigmaAdd
    <3> QED  BY <1>6, <2>1, <3>1, <3>3, SigmaEmpty
  <2>2. CASE ~Later(history, p)
    <3>1. S = {}
      BY <2>2
    <3> QED  BY <2>2, <3>1, SigmaEmpty
  <2> QED  BY <2>1, <2>2
<1>13. Remains(history, a)[p] = IF Later(history, p) THEN 0 ELSE Worth[p]
  BY <1>5 DEF Remains
<1>14. SpentAfter(history, pos, k) = SumFunction([i \in Spends |-> i.value])
  BY DEF SpentAfter
<1> HIDE DEF p, S, Spends, items
<1>15. Remains(history, a)[p] = Transactions[t].outs[k].value - SpentAfter(history, pos, k)
  BY <1>6, <1>11, <1>12, <1>13, <1>14
<1> QED  BY <1>5, <1>15 DEF p

(* What calc_address_balance leaves of the outputs of one item.            *)
LEMMA LeftIs ==
    ASSUME ChainInv, NEW a \in Wallet, NEW history \in Seq(AnyItem),
           Fresh(a, history), Ordered(history), NEW pos \in 1..Len(history)
    PROVE  LET t == history[pos].txid
               Own == {k \in DOMAIN Transactions[t].outs : Transactions[t].outs[k].to = a}
           IN  SumFunction([k \in Own |-> Transactions[t].outs[k].value - SpentAfter(history, pos, k)])
                 = Sigma(Remains(history, a), OutsTo(t, {a}))
<1> DEFINE t == history[pos].txid
           Own == {k \in DOMAIN Transactions[t].outs : Transactions[t].outs[k].to = a}
           v == [k \in Own |-> Transactions[t].outs[k].value - SpentAfter(history, pos, k)]
           b == [k \in Own |-> [tx |-> t, index |-> k]]
           w == Remains(history, a)
<1>1. t \in Txids
  BY Places
<1>2. IsFiniteSet(Own)
  BY <1>1, TransactionsAre, FS_Subset
<1>3. ASSUME NEW k \in Own PROVE b[k] \in Paid(a) /\ v[k] = w[b[k]]
  <2>1. k \in DOMAIN Transactions[t].outs /\ Transactions[t].outs[k].to = a
    OBVIOUS
  <2>2. /\ [tx |-> t, index |-> k] \in Paid(a)
        /\ w[[tx |-> t, index |-> k]] = Transactions[t].outs[k].value
                                       - SpentAfter(history, pos, k)
    BY <2>1, LeftOver
  <2>3. b[k] = [tx |-> t, index |-> k] /\ v[k] = Transactions[t].outs[k].value
                                       - SpentAfter(history, pos, k)
    OBVIOUS
  <2> HIDE DEF v, b, w
  <2> QED  BY <2>2, <2>3
<1>4. ASSUME NEW k \in Own PROVE w[b[k]] \in Int
  <2> HIDE DEF b
  <2>1. b[k] \in Outpoints(Txids) /\ b[k] \in Paid(a)
    BY <1>3, PaidPlaces
  <2> QED  BY <2>1, OutpointsAre DEF Remains
<1>5. \A x, y \in Own : x # y => b[x] # b[y]
  <2> SUFFICES ASSUME NEW x \in Own, NEW y \in Own, b[x] = b[y] PROVE x = y
    OBVIOUS
  <2>1. b[x].index = x /\ b[y].index = y
    OBVIOUS
  <2> QED  BY <2>1
<1>6. ImageOf(b, Own) = OutsTo(t, {a})
  <2>1. ImageOf(b, Own) = {[tx |-> t, index |-> k] : k \in Own}
    BY DEF ImageOf
  <2>2. Outpoints({t}) = {[tx |-> t, index |-> k] : k \in DOMAIN Transactions[t].outs}
    BY DEF Outpoints
  <2>3. \A k \in DOMAIN Transactions[t].outs :
           previous_output([tx |-> t, index |-> k]).to = Transactions[t].outs[k].to
    BY DEF previous_output
  <2> HIDE DEF b, v, w, t
  <2> QED  BY <2>1, <2>2, <2>3 DEF OutsTo
<1>7. DOMAIN v = Own
  OBVIOUS
<1> HIDE DEF v, b, w, Own
<1>8. Sigma(v, Own) = Sigma(w, ImageOf(b, Own))
  BY <1>2, <1>3, <1>4, <1>5, SigmaMap
<1>9. SumFunction(v) = Sigma(w, OutsTo(t, {a}))
  BY <1>6, <1>7, <1>8, SumIs
<1> QED  BY <1>9 DEF v, w, Own

(* The balance of an address is what is left of all outputs to it.         *)
LEMMA BalanceIs ==
    ASSUME ChainInv, NEW a \in Wallet, NEW history \in Seq(AnyItem),
           Fresh(a, history), Ordered(history)
    PROVE  /\ Measured(Remains(history, a), Paid(a))
           /\ address_balance(a, history, FALSE) = Sigma(Remains(history, a), Paid(a)) % Modulus
<1> DEFINE n == Len(history)
           items == [i \in 1..n |-> analyse_tx_balances(history[i].txid)]
           T(pos) == history[pos].txid
           Own(pos) == {k \in DOMAIN Transactions[T(pos)].outs : Transactions[T(pos)].outs[k].to = a}
           Left(pos) == SumFunction([k \in Own(pos) |-> Transactions[T(pos)].outs[k].value
                                                        - SpentAfter(history, pos, k)])
           v == [pos \in 1..n |-> Left(pos)]
           h == [p \in Paid(a) |-> At(history, p.tx)]
           w == Remains(history, a)
<1>1. n \in Nat /\ DOMAIN history = 1..n
  BY Places
<1>2. address_balance(a, history, FALSE) = calc_address_balance(a, items)
  BY <1>1 DEF address_balance
<1>3. DOMAIN items = 1..n /\ Len(items) = n
  BY <1>1
<1>4. \A pos \in 1..n : items[pos].tx_id = T(pos) /\ items[pos].outputs = Transactions[T(pos)].outs
  BY DEF analyse_tx_balances
<1>5. calc_address_balance(a, items) = SumFunction(v) % Modulus /\ DOMAIN v = 1..n
  <2> DEFINE Spends2(pos, k) == UNION {{i \in items[j].inputs :
                                   i.funding = [tx |-> items[pos].tx_id, index |-> k]} :
                                   j \in pos + 1 .. Len(items)}
             Own2(pos) == {k \in DOMAIN items[pos].outputs : items[pos].outputs[k].to = a}
             Left2(pos) == SumFunction([k \in Own2(pos) |-> items[pos].outputs[k].value
                                         - SumFunction([i \in Spends2(pos, k) |-> i.value])])
  <2>1. calc_address_balance(a, items) = SumFunction([pos \in 1..n |-> Left2(pos)]) % Modulus
    <3> HIDE DEF items
    <3> QED  BY <1>3 DEF calc_address_balance
  <2>2. ASSUME NEW pos \in 1..n PROVE Left2(pos) = Left(pos)
    <3>1. Own2(pos) = Own(pos)
      BY <1>4
    <3>2. \A k : SumFunction([i \in Spends2(pos, k) |-> i.value]) = SpentAfter(history, pos, k)
      <4> SUFFICES ASSUME NEW k
                   PROVE  SumFunction([i \in Spends2(pos, k) |-> i.value]) = SpentAfter(history, pos, k)
        OBVIOUS
      <4> DEFINE Sp == UNION {{i \in items[j].inputs : i.funding = [tx |-> T(pos), index |-> k]} :
                                j \in pos + 1 .. n}
      <4>1. SpentAfter(history, pos, k) = SumFunction([i \in Sp |-> i.value])
        BY DEF SpentAfter
      <4>2. Spends2(pos, k) = Sp
        <5> HIDE DEF items, T, n
        <5> QED  BY <1>3, <1>4
      <4> HIDE DEF Sp, Spends2
      <4> QED  BY <4>1, <4>2
    <3> HIDE DEF Own, Own2, Spends2, items
    <3>3. \A k \in Own(pos) : items[pos].outputs[k].value - SumFunction([i \in Spends2(pos, k) |-> i.value])
             = Transactions[T(pos)].outs[k].value - SpentAfter(history, pos, k)
      BY <1>4, <3>2
    <3> QED  BY <3>1, <3>3
  <2> HIDE DEF Left, Left2
  <2>3. [pos \in 1..n |-> Left2(pos)] = v
    BY <2>2
  <2> QED  BY <2>1, <2>3
<1>6. Measured(w, Paid(a))
  <2>1. Paid(a) \in SUBSET Outpoints(Txids)
    BY PaidPlaces
  <2>2. IsFiniteSet(Paid(a))
    BY <2>1, WorthMeasured
  <2>3. \A p \in Paid(a) : w[p] \in Int
    BY <2>1, OutpointsAre DEF Remains
  <2> HIDE DEF w
  <2> QED  BY <2>2, <2>3 DEF Measured
<1>7. \A p \in Paid(a) : h[p] \in 1..n
  BY PaidPlaces
<1>8. ASSUME NEW pos \in 1..n PROVE v[pos] = Sigma(w, Fibre(h, Paid(a), pos))
  <2>1. Left(pos) = Sigma(w, OutsTo(T(pos), {a}))
    BY LeftIs
  <2>2. Fibre(h, Paid(a), pos) = OutsTo(T(pos), {a})
    <3>1. \A p : p \in Paid(a) /\ At(history, p.tx) = pos <=> p \in OutsTo(T(pos), {a})
      BY PaidPlaces
    <3> QED  BY <3>1 DEF Fibre
  <2>3. v[pos] = Left(pos)
    OBVIOUS
  <2> HIDE DEF Left, v, w, h
  <2> QED  BY <2>1, <2>2, <2>3
<1> HIDE DEF v, w, h, Left
<1>9. IsFiniteSet(1..n)
  BY <1>1, FS_Interval
<1>10. Sigma(v, 1..n) = Sigma(w, Paid(a))
  <2> DEFINE G == 1..n  Q == Paid(a)
  <2>1. /\ IsFiniteSet(G) /\ Measured(w, Q) /\ \A p \in Q : h[p] \in G
        /\ \A pos \in G : v[pos] = Sigma(w, Fibre(h, Q, pos))
    BY <1>6, <1>7, <1>8, <1>9
  <2> HIDE DEF G, Q
  <2>2. Sigma(v, G) = Sigma(w, Q)
    BY <2>1, SigmaGroups
  <2> QED  BY <2>2 DEF G, Q
<1>11. SumFunction(v) = Sigma(w, Paid(a))
  BY <1>5, <1>10, SumIs
<1> QED  BY <1>2, <1>5, <1>6, <1>11 DEF w

(* A balance that is not too small, and right if no transaction spends     *)
(* from an unconfirmed one.                                                *)
BalanceFor(a, v) ==
    /\ v >= Unspent(a)
    /\ (\A t \in Txids : height[t] # -1) => v = Unspent(a)

(* The spender of an output comes after the transaction that paid it, if   *)
(* none is at height -1.                                                   *)
LEMMA SpenderLater ==
    ASSUME ChainInv, LinkInv, NEW a \in Wallet, NEW history \in Seq(AnyItem),
           Fresh(a, history), Ordered(history), \A t \in Txids : height[t] # -1,
           NEW p \in Paid(a), NEW t \in Present, p \in Inputs(t)
    PROVE  Later(history, p)
<1> DEFINE u == p.tx  n == Len(history)
           i == At(history, t)  j == At(history, u)
<1>1. /\ u \in Present /\ j \in 1..n /\ history[j].txid = u
      /\ previous_output(p).to = a
  BY PaidPlaces DEF Paid
<1>2. Touches(t, a)
  BY <1>1 DEF Touches, Inputs
<1>3. i \in 1..n /\ history[i].txid = t /\ n \in Nat
  BY <1>2, Places
<1>4. history[i].height = height[t] /\ history[j].height = height[u]
  BY <1>1, <1>3, Places
<1>5. t \in Txids /\ u \in Txids /\ u < t /\ t \in Nat /\ u \in Nat
  BY TransactionsAre DEF Present
<1>6. height[t] \in Int /\ height[u] \in Int /\ height[t] >= -1 /\ height[t] # -1
  BY <1>1, <1>5, HeightsAre DEF Present
<1>7. height[u] > 0 /\ (height[t] > 0 => height[u] <= height[t])
  BY <1>6 DEF LinkInv
<1>8. ~MayPrecede(history[i], history[j])
  BY <1>1, <1>3, <1>4, <1>5, <1>6, <1>7 DEF MayPrecede
<1> HIDE DEF u, i, j
<1>9. i # j
  BY <1>1, <1>3, <1>5
<1>10. ~(i < j)
  BY <1>1, <1>3, <1>8 DEF Ordered
<1>11. i \in j + 1 .. n
  BY <1>1, <1>3, <1>9, <1>10
<1> QED  BY <1>3, <1>11 DEF Later, u, i, j

(* calculate_address_balance gives an address with a fresh history what    *)
(* its unspent outputs are worth.                                          *)
LEMMA BalanceRight ==
    ASSUME ChainInv, LinkInv, NEW a \in Wallet, NEW history \in Seq(AnyItem),
           Fresh(a, history), Ordered(history)
    PROVE  /\ address_balance(a, history, FALSE) \in Nat
           /\ BalanceFor(a, address_balance(a, history, FALSE))
<1> DEFINE w == Remains(history, a)
           U == UnspentBy({a})
           P == Paid(a)
<1>1. P \in SUBSET Outpoints(Txids) /\ U \in SUBSET P
  BY PaidPlaces
<1>2. \A p \in P : w[p] = IF Later(history, p) THEN 0 ELSE Worth[p]
  BY DEF Remains
<1>3. \A p \in P : Worth[p] \in Nat /\ w[p] \in Nat /\ w[p] <= Worth[p]
  BY <1>1, <1>2, OutpointsAre
<1>4. \A p \in U : w[p] = Worth[p]
  <2> SUFFICES ASSUME NEW p \in U, Later(history, p) PROVE FALSE
    BY <1>1, <1>2
  <2>1. PICK j \in At(history, p.tx) + 1 .. Len(history) : p \in Inputs(history[j].txid)
    BY DEF Later
  <2>2. At(history, p.tx) \in 1..Len(history) /\ Len(history) \in Nat
    <3>1. p \in Paid(a)
      BY <1>1
    <3>2. \A q \in Paid(a) : At(history, q.tx) \in 1..Len(history)
      BY PaidPlaces
    <3> QED  BY <3>1, <3>2
  <2>3. j \in 1..Len(history)
    BY <2>2
  <2>4. history[j].txid \in Present
    BY <2>3, Places
  <2> QED  BY <2>1, <2>4 DEF UnspentBy
<1>5. address_balance(a, history, FALSE) = Sigma(w, P) % Modulus
  BY BalanceIs
<1>6. Unspent(a) = Sigma(Worth, U)
  BY UnspentIs
<1>7. (\A t \in Txids : height[t] # -1) => \A p \in P \ U : w[p] = 0
  <2> SUFFICES ASSUME \A t \in Txids : height[t] # -1, NEW p \in P \ U PROVE w[p] = 0
    OBVIOUS
  <2>1. PICK t \in Present : p \in Inputs(t)
    BY DEF Paid, UnspentBy
  <2>2. Later(history, p)
    BY <2>1, SpenderLater
  <2> QED  BY <1>2, <2>2
<1> HIDE DEF w, U, P
<1>8. IsFiniteSet(P) /\ Measured(Worth, P) /\ Measured(Worth, U) /\ IsFiniteSet(P \ U)
  BY <1>1, WorthMeasured, FS_Subset
<1>9. /\ Measured(w, P) /\ Sigma(w, P) \in Nat /\ Sigma(w, U) \in Nat
      /\ Sigma(w, U) <= Sigma(w, P)
  BY <1>1, <1>3, <1>8, SigmaNat
<1>10. Sigma(w, U) = Sigma(Worth, U)
  BY <1>4, <1>8, SigmaSame
<1>11. Sigma(w, P) <= Sigma(Worth, P)
  BY <1>3, <1>8, <1>9, SigmaLess
<1>12. Sigma(Worth, P) \in Nat /\ Sigma(Worth, P) < Modulus
  BY <1>1, WorthFits
<1>13. Sigma(w, P) < Modulus
  BY <1>9, <1>11, <1>12, TransactionAssumption
<1>14. address_balance(a, history, FALSE) = Sigma(w, P)
  BY <1>5, <1>9, <1>13, Fits
<1>15. (\A t \in Txids : height[t] # -1) => Sigma(w, P) = Sigma(w, U)
  <2> SUFFICES ASSUME \A t \in Txids : height[t] # -1 PROVE Sigma(w, P) = Sigma(w, U)
    OBVIOUS
  <2>1. Sigma(w, P \ U) = 0
    BY <1>7, <1>8, SigmaZero
  <2>2. Sigma(w, P) = Sigma(w, U) + Sigma(w, P \ U)
    BY <1>1, <1>9, SigmaPart
  <2> QED  BY <1>9, <2>1, <2>2
<1> QED  BY <1>6, <1>9, <1>10, <1>14, <1>15 DEF BalanceFor

-----------------------------------------------------------------------------
(* What is cached, or held by a bulk call, keeps the order of the reply it *)
(* came in, even after the chain has changed.                              *)
OrderInv ==
    /\ \A a \in Wallet : Ordered(cache[a])
    /\ call # Idle => \A k \in 1..Len(call.histories) : Ordered(call.histories[k])

(* The empty history is in order.                                          *)
LEMMA NothingOrdered == Ordered(<<>>)
BY DEF Ordered

(* So is every reply.                                                      *)
LEMMA ReplyOrdered ==
    ASSUME ChainInv, NEW a \in Wallet, NEW reply \in Replies(a)
    PROVE  Ordered(reply)
<1>1. reply \in SetToSeqs(HistoryOf(height, a)) /\ IsFiniteSet(HistoryOf(height, a))
  BY HistoryFinite DEF Replies
<1>2. /\ DOMAIN reply = 1..Len(reply) /\ Len(reply) \in Nat
      /\ \A i, j \in 1..Len(reply) : i # j => reply[i] # reply[j]
  BY <1>1, ListedOnce
<1>3. \A i, j \in DOMAIN reply : i < j => MayPrecede(reply[i], reply[j])
  BY DEF Replies
<1>4. \A i \in 1..Len(reply) : reply[i] \in WalletItems
  BY <1>1, <1>2, ListedOnce, HistoryOfWallet
<1>5. \A x, y \in WalletItems : x.txid = y.txid => x = y
  BY WalletItem
<1>6. \A i, j \in 1..Len(reply) : i # j => reply[i].txid # reply[j].txid
  BY <1>2, <1>4, <1>5
<1> QED  BY <1>2, <1>3, <1>6 DEF Ordered

(* get_history stores an ordered history.                                  *)
LEMMA HistoryOrdered ==
    ASSUME StateInv, OrderInv, get_history_cached \/ get_history_requested \/ get_history_error
    PROVE  OrderInv'
<1> USE DEF StateInv
<1>1. /\ call # Idle /\ call.op # "bulk_rows" /\ Here \in Wallet
      /\ \E history : Absorb(Here, history)
  BY AskingHere DEF get_history_cached, get_history_requested, get_history_error, Asking
<1>2. call.histories = <<>>
  BY <1>1 DEF CallInv
<1>3. call' # Idle => call'.histories = <<>>
  <2> SUFFICES ASSUME call' # Idle PROVE call'.histories = <<>>
    OBVIOUS
  <2>1. PICK history : Absorb(Here, history)
    BY <1>1
  <2> DEFINE s == IF call.op \in Listings THEN Insert(call.seen, ToSet(history)) ELSE call.seen
             b == IF call.op \in Balances
                  THEN Append(call.balances, address_balance(Here, history,
                                                 call.op = "unconfirmed_balances"))
                  ELSE call.balances
  <2>2. call' = [call EXCEPT !.next = @ + 1, !.seen = s, !.balances = b]
    BY <2>1 DEF Absorb, Throw
  <2> HIDE DEF s, b
  <2> QED  BY <1>1, <1>2, <2>2 DEF CallInv
<1>4. call' # Idle => \A k \in 1..Len(call'.histories) : Ordered(call'.histories[k])
  BY <1>3
<1>5. \/ UNCHANGED cache
      \/ \E history : Ordered(history) /\ cache' = [cache EXCEPT ![Here] = history]
  <2>1. CASE get_history_cached
    BY <2>1 DEF get_history_cached, caches
  <2>2. CASE get_history_requested
    BY <1>1, <2>2, ReplyOrdered DEF get_history_requested, Store
  <2>3. CASE get_history_error
    BY <2>3, NothingOrdered DEF get_history_error, Store
  <2> QED  BY <2>1, <2>2, <2>3
<1>6. \A a \in Wallet : Ordered(cache'[a])
  BY <1>1, <1>5 DEF OrderInv, CacheInv
<1> QED  BY <1>4, <1>6 DEF OrderInv, Ordered

(* A bulk call collects ordered histories and stores them as they are.     *)
LEMMA BulkOrdered ==
    ASSUME StateInv, OrderInv,
           \/ get_history_bulk \/ get_history_bulk_error \/ refresh_all_history_bulk
    PROVE  OrderInv'
<1> USE DEF StateInv
<1>1. /\ call # Idle /\ call.op = "bulk_rows" /\ call.histories \in Seq(Seq(AnyItem))
      /\ \A k \in 1..Len(call.histories) : Ordered(call.histories[k])
  BY DEF get_history_bulk, get_history_bulk_error, AskingInBulk, refresh_all_history_bulk, CallInv,
         OrderInv
<1>2. CASE get_history_bulk \/ get_history_bulk_error
  <2>1. PICK history \in Seq(AnyItem) : Ordered(history) /\ BulkReply(history)
    <3>1. Here \in Wallet
      BY <1>2, AskingHere DEF get_history_bulk, get_history_bulk_error
    <3>2. <<>> \in Seq(AnyItem)
      OBVIOUS
    <3> QED  BY <1>2, <3>1, <3>2, ReplyFresh, ReplyOrdered, NothingOrdered
             DEF get_history_bulk, get_history_bulk_error
  <2>2. call' = [call EXCEPT !.next = @ + 1, !.histories = Append(@, history)] /\ UNCHANGED cache
    BY <2>1 DEF BulkReply, caches
  <2>3. call'.histories = Append(call.histories, history)
    BY <1>1, <2>2 DEF CallInv
  <2>4. \A k \in 1..Len(call'.histories) : Ordered(call'.histories[k])
    <3> SUFFICES ASSUME NEW k \in 1..Len(call'.histories) PROVE Ordered(call'.histories[k])
      OBVIOUS
    <3>1. /\ Len(call'.histories) = Len(call.histories) + 1 /\ Len(call.histories) \in Nat
          /\ call'.histories[Len(call.histories) + 1] = history
          /\ \A j \in 1..Len(call.histories) : call'.histories[j] = call.histories[j]
      BY <1>1, <2>3, AppendIs
    <3>2. CASE k = Len(call.histories) + 1
      BY <2>1, <3>1, <3>2
    <3>3. CASE k # Len(call.histories) + 1
      <4>1. k \in 1..Len(call.histories)
        BY <3>1, <3>3
      <4> QED  BY <1>1, <3>1, <4>1
    <3> QED  BY <3>2, <3>3
  <2> QED  BY <2>2, <2>4 DEF OrderInv, Ordered
<1>3. CASE refresh_all_history_bulk
  <2> DEFINE IndexOf(a) == CHOOSE i \in DOMAIN Addresses : Addresses[i] = a
  <2>1. /\ cache' = [a \in Wallet |-> call.histories[IndexOf(a)]]
        /\ call.next = Len(Addresses) + 1
        /\ call' = [call EXCEPT !.next = @ + 1, !.seen = InsertAll(call.histories)]
    BY <1>3 DEF refresh_all_history_bulk
  <2>2. Len(call.histories) = Len(Addresses)
    BY <1>1, <2>1, SequenceTypes DEF CallInv
  <2>3. \A a \in Wallet : IndexOf(a) \in 1..Len(call.histories)
    BY <2>2, SequenceTypes
  <2>4. \A a \in Wallet : Ordered(cache'[a])
    <3> HIDE DEF IndexOf
    <3> QED  BY <1>1, <2>1, <2>3
  <2>5. call'.histories = call.histories
    BY <1>1, <2>1 DEF CallInv
  <2> QED  BY <1>1, <2>4, <2>5 DEF OrderInv, Ordered
<1> QED  BY <1>2, <1>3

(* Every step keeps the order.                                             *)
LEMMA OrderStep ==
    ASSUME StateInv, OrderInv, Next \/ UNCHANGED vars
    PROVE  OrderInv'
<1> USE DEF StateInv
<1>1. ASSUME \A a \in Wallet : Ordered(cache'[a]),
             call' # Idle => call # Idle /\ call'.histories = call.histories
      PROVE  OrderInv'
  BY <1>1 DEF OrderInv, Ordered
<1>2. CASE \E op \in Balances \cup Listings \cup {"subscribe"} : Begin(op)
  <2>1. call'.histories = <<>> /\ UNCHANGED cache
    BY <1>2, BeginKeeps DEF Ops, Begin, caches
  <2>2. \A k \in 1..Len(call'.histories) : Ordered(call'.histories[k])
    BY <2>1
  <2> QED  BY <2>1, <2>2 DEF OrderInv, Ordered
<1>3. CASE get_all_txs_sorted_bulk \/ load_txs_bulk \/ subscribe_address
  <2>1. UNCHANGED cache /\ call # Idle /\ (call' = Idle \/ call' = [call EXCEPT !.next = @ + 1])
    BY <1>3 DEF get_all_txs_sorted_bulk, load_txs_bulk, subscribe_address, Subscribing, Throw, caches
  <2>2. call' # Idle => call'.histories = call.histories
    BY <2>1 DEF CallInv
  <2> QED  BY <1>1, <2>1, <2>2 DEF OrderInv
<1>4. CASE Finish \/ RequestFails \/ do_addresses_subscriptions
  <2>1. UNCHANGED cache /\ call' = Idle
    BY <1>4 DEF Finish, RequestFails, do_addresses_subscriptions, Throw, caches
  <2> QED  BY <1>1, <2>1 DEF OrderInv
<1>5. CASE \/ \E t \in Txids : Arrive(t) \/ Evict(t)
           \/ \E block \in SUBSET (Mempool(height) \cup
                       {t \in Coinbases : height[t] = Absent}) : Mine(block)
           \/ do_addresses_subscriptions_bulk \/ UNCHANGED vars
  <2>1. UNCHANGED <<cache, call>>
    BY <1>5 DEF Arrive, Evict, Mine, Change, do_addresses_subscriptions_bulk, vars, caches
  <2> QED  BY <1>1, <2>1 DEF OrderInv
<1>6. CASE clear_caches \/ \E a \in Wallet : HandleNotification(a)
  <2>1. UNCHANGED call /\ \A a \in Wallet : cache'[a] \in {<<>>, cache[a]}
    BY <1>6 DEF clear_caches, HandleNotification, clear_caches_for_address, CacheInv
  <2> QED  BY <1>1, <2>1, NothingOrdered DEF OrderInv
<1> QED  BY <1>2, <1>3, <1>4, <1>5, <1>6, HistoryOrdered, BulkOrdered DEF Next

(* It holds at the start.                                                  *)
LEMMA OrderInit == Init => OrderInv
BY NothingOrdered DEF Init, OrderInv

-----------------------------------------------------------------------------
(* No transaction is in a set of items twice, at two heights.              *)
Once(S) == \A x, y \in S : x.txid = y.txid => x = y

(* The inductive invariant behind RowsOnce: it is so of what a call has    *)
(* gathered, whatever happened to the chain since it began.                *)
OnceInv ==
    /\ call # Idle => call.seen \in SUBSET AnyItem /\ Once(call.seen)
    /\ RowsOnce

(* Such a set is finite, as there are finitely many transactions.          *)
LEMMA OnceFinite ==
    ASSUME NEW S \in SUBSET AnyItem, Once(S)
    PROVE  IsFiniteSet(S)
<1> DEFINE T == {t \in Txids : \E x \in S : x.txid = t}
           f == [t \in T |-> CHOOSE x \in S : x.txid = t]
<1>1. IsFiniteSet(T)
  BY TransactionsAre, FS_Subset
<1>2. \A x \in S : x.txid \in T
  BY DEF AnyItem
<1>3. \A t \in T : f[t] \in S /\ f[t].txid = t
  OBVIOUS
<1> HIDE DEF f, T
<1>4. S = {f[t] : t \in T}
  <2>1. \A x \in S : x.txid \in T /\ f[x.txid] = x
    BY <1>2, <1>3 DEF Once
  <2> QED  BY <1>3, <2>1
<1> QED  BY <1>1, <1>4, ImageFinite

(* Its rows show every transaction once.                                   *)
LEMMA RowsOfOnce ==
    ASSUME NEW S \in SUBSET AnyItem, Once(S)
    PROVE  LET rows == history_view_rows(sort_all_history(S)) IN
           \A i, j \in DOMAIN rows : rows[i].tx_id = rows[j].tx_id => i = j
<1> DEFINE s == sort_all_history(S)
           rows == history_view_rows(s)
<1>1. s \in SetToSeqs(S) /\ IsFiniteSet(S)
  BY OnceFinite, SortListed
<1> HIDE DEF s
<1>2. /\ DOMAIN s = 1..Len(s) /\ S = {s[i] : i \in 1..Len(s)}
      /\ \A i, j \in 1..Len(s) : i # j => s[i] # s[j]
  BY <1>1, ListedOnce
<1>3. DOMAIN rows = 1..Len(s) /\ \A i \in 1..Len(s) : rows[i].tx_id = s[i].txid
  BY <1>2 DEF history_view_rows
<1> HIDE DEF rows
<1>4. \A i, j \in DOMAIN rows : rows[i].tx_id = rows[j].tx_id => i = j
  BY <1>2, <1>3 DEF Once
<1> QED  BY <1>4 DEF rows, s

(* A history in order lists every transaction once.                        *)
LEMMA OrderedOnce ==
    ASSUME NEW history \in Seq(AnyItem), Ordered(history)
    PROVE  Once(ToSet(history)) /\ ToSet(history) \in SUBSET AnyItem
<1>1. /\ DOMAIN history = 1..Len(history) /\ Len(history) \in Nat
      /\ \A k \in 1..Len(history) : history[k] \in AnyItem
  OBVIOUS
<1>2. \A i, j \in 1..Len(history) : i # j => history[i].txid # history[j].txid
  <2> SUFFICES ASSUME NEW i \in 1..Len(history), NEW j \in 1..Len(history), i # j
               PROVE  history[i].txid # history[j].txid
    OBVIOUS
  <2>1. i < j \/ j < i
    OBVIOUS
  <2> QED  BY <2>1 DEF Ordered
<1> QED  BY <1>1, <1>2 DEF Once, ToSet

(* ahi_set.insert keeps it so, for one history and for one after another.  *)
LEMMA InsertOnce ==
    ASSUME NEW seen \in SUBSET AnyItem, Once(seen), NEW items \in SUBSET AnyItem, Once(items)
    PROVE  Once(Insert(seen, items)) /\ Insert(seen, items) \in SUBSET AnyItem
BY DEF Once, Insert

LEMMA InsertAllOnce ==
    ASSUME NEW histories \in Seq(Seq(AnyItem)),
           \A k \in 1..Len(histories) : Ordered(histories[k])
    PROVE  Once(InsertAll(histories)) /\ InsertAll(histories) \in SUBSET AnyItem
<1>1. /\ DOMAIN histories = 1..Len(histories) /\ Len(histories) \in Nat
      /\ \A k \in 1..Len(histories) : histories[k] \in Seq(AnyItem)
  OBVIOUS
<1>2. \A k \in 1..Len(histories) :
        Once(ToSet(histories[k])) /\ ToSet(histories[k]) \in SUBSET AnyItem
  BY <1>1, OrderedOnce
<1>3. InsertAll(histories) \in SUBSET AnyItem
  <2> SUFFICES ASSUME NEW x \in InsertAll(histories) PROVE x \in AnyItem
    OBVIOUS
  <2>1. PICK k \in 1..Len(histories) : x \in ToSet(histories[k])
    BY <1>1 DEF InsertAll
  <2> QED  BY <1>2, <2>1
<1>4. ASSUME NEW x \in InsertAll(histories), NEW y \in InsertAll(histories), x.txid = y.txid
      PROVE  x = y
  <2>1. PICK k \in 1..Len(histories) :
          /\ x \in ToSet(histories[k])
          /\ \A j \in 1 .. k - 1 : \A z \in ToSet(histories[j]) : z.txid # x.txid
    BY <1>1 DEF InsertAll
  <2>2. PICK l \in 1..Len(histories) :
          /\ y \in ToSet(histories[l])
          /\ \A j \in 1 .. l - 1 : \A z \in ToSet(histories[j]) : z.txid # y.txid
    BY <1>1 DEF InsertAll
  <2>3. k = l
    <3>1. k \in 1 .. l - 1 \/ l \in 1 .. k - 1 \/ k = l
      BY <1>1
    <3> QED  BY <1>4, <2>1, <2>2, <3>1
  <2> QED  BY <1>2, <1>4, <2>1, <2>2, <2>3 DEF Once
<1> QED  BY <1>3, <1>4 DEF Once

(* get_history gathers every transaction once.                             *)
LEMMA HistoryOnce ==
    ASSUME StateInv, OrderInv, OnceInv,
           get_history_cached \/ get_history_requested \/ get_history_error
    PROVE  OnceInv'
<1> USE DEF StateInv
<1>1. call # Idle /\ Here \in Wallet
  BY AskingHere DEF get_history_cached, get_history_requested, get_history_error, Asking
<1>2. PICK history \in Seq(AnyItem) : Ordered(history) /\ Absorb(Here, history)
  <2>1. CASE get_history_cached
    <3>1. Remembered(Here) \in Seq(AnyItem) /\ Ordered(Remembered(Here))
      BY <1>1, NothingOrdered DEF Remembered, CacheInv, OrderInv
    <3> QED  BY <2>1, <3>1 DEF get_history_cached
  <2>2. CASE get_history_requested
    BY <1>1, <2>2, ReplyFresh, ReplyOrdered DEF get_history_requested
  <2>3. CASE get_history_error
    <3>1. <<>> \in Seq(AnyItem)
      OBVIOUS
    <3> QED  BY <2>3, <3>1, NothingOrdered DEF get_history_error
  <2> QED  BY <2>1, <2>2, <2>3
<1>3. CASE call' = Idle /\ result' = [op |-> "exception", of |-> call.op]
  <2>1. result'.op = "exception"
    BY <1>3
  <2> QED  BY <1>3, <2>1 DEF OnceInv, RowsOnce
<1>4. CASE ~(call' = Idle /\ result' = [op |-> "exception", of |-> call.op])
  <2> DEFINE s == IF call.op \in Listings THEN Insert(call.seen, ToSet(history)) ELSE call.seen
             b == IF call.op \in Balances
                  THEN Append(call.balances, address_balance(Here, history,
                                                 call.op = "unconfirmed_balances"))
                  ELSE call.balances
  <2>1. call' = [call EXCEPT !.next = @ + 1, !.seen = s, !.balances = b] /\ UNCHANGED result
    BY <1>2, <1>4 DEF Absorb, Throw
  <2>2. s \in SUBSET AnyItem /\ Once(s)
    BY <1>1, <1>2, OrderedOnce, InsertOnce DEF OnceInv
  <2> HIDE DEF s, b
  <2>3. call'.seen = s
    BY <1>1, <2>1 DEF CallInv
  <2> QED  BY <2>1, <2>2, <2>3 DEF OnceInv, RowsOnce, Once
<1> QED  BY <1>3, <1>4

(* Every step keeps it so.                                                 *)
LEMMA OnceStep ==
    ASSUME StateInv, OrderInv, OnceInv, Next \/ UNCHANGED vars
    PROVE  OnceInv'
<1> USE DEF StateInv
<1>1. ASSUME UNCHANGED result \/ result'.op \in {"none", "exception", "subscribe"},
             call' # Idle => call # Idle /\ call'.seen = call.seen
      PROVE  OnceInv'
  BY <1>1 DEF OnceInv, RowsOnce, Once
<1>2. CASE \E op \in Balances \cup Listings \cup {"subscribe"} : Begin(op)
  <2>1. call'.seen = {} /\ result'.op = "none"
    BY <1>2 DEF Begin, Nothing
  <2> QED  BY <2>1 DEF OnceInv, RowsOnce, Once
<1>3. CASE get_history_bulk \/ get_history_bulk_error
  <2>1. PICK history : call # Idle /\ BulkReply(history)
    BY <1>3 DEF get_history_bulk, get_history_bulk_error, AskingInBulk
  <2>2. call' = [call EXCEPT !.next = @ + 1, !.histories = Append(@, history)] /\ UNCHANGED result
    BY <2>1 DEF BulkReply
  <2>3. call'.seen = call.seen
    BY <2>1, <2>2 DEF CallInv
  <2> QED  BY <1>1, <2>1, <2>2, <2>3
<1>4. CASE refresh_all_history_bulk
  <2>1. /\ call # Idle /\ call.op = "bulk_rows" /\ UNCHANGED result
        /\ call' = [call EXCEPT !.next = @ + 1, !.seen = InsertAll(call.histories)]
    BY <1>4 DEF refresh_all_history_bulk
  <2>2. call'.seen = InsertAll(call.histories)
    BY <2>1 DEF CallInv
  <2>3. InsertAll(call.histories) \in SUBSET AnyItem /\ Once(InsertAll(call.histories))
    BY <2>1, InsertAllOnce DEF CallInv, OrderInv
  <2> QED  BY <2>1, <2>2, <2>3 DEF OnceInv, RowsOnce, Once
<1>5. CASE get_all_txs_sorted_bulk \/ load_txs_bulk \/ subscribe_address
  <2>1. /\ call # Idle
        /\ \/ call' = [call EXCEPT !.next = @ + 1] /\ UNCHANGED result
           \/ call' = Idle /\ result' = [op |-> "exception", of |-> call.op]
    BY <1>5 DEF get_all_txs_sorted_bulk, load_txs_bulk, subscribe_address, Subscribing, Throw
  <2>2. call' # Idle => call'.seen = call.seen
    BY <2>1 DEF CallInv
  <2>3. UNCHANGED result \/ result'.op = "exception"
    BY <2>1
  <2> QED  BY <1>1, <2>1, <2>2, <2>3
<1>6. CASE Finish
  <2>1. /\ call # Idle /\ call' = Idle
        /\ result' \in {[op |-> "exception", of |-> call.op], [op |-> call.op, value |-> Answer]}
    BY <1>6 DEF Finish, Throw
  <2>2. CASE result' = [op |-> "exception", of |-> call.op]
    <3>1. result'.op = "exception"
      BY <2>2
    <3> QED  BY <1>1, <2>1, <3>1
  <2>3. CASE result' = [op |-> call.op, value |-> Answer]
    <3>1. result'.op = call.op /\ result'.value = Answer
      BY <2>3
    <3>2. call.op \in {"rows", "bulk_rows"} =>
            Answer = history_view_rows(sort_all_history(call.seen))
      BY DEF Answer
    <3>3. LET rows == history_view_rows(sort_all_history(call.seen)) IN
          \A i, j \in DOMAIN rows : rows[i].tx_id = rows[j].tx_id => i = j
      BY <2>1, RowsOfOnce DEF OnceInv
    <3> QED  BY <2>1, <3>1, <3>2, <3>3 DEF OnceInv, RowsOnce
  <2> QED  BY <2>1, <2>2, <2>3
<1>7. CASE \/ RequestFails \/ do_addresses_subscriptions \/ do_addresses_subscriptions_bulk
  <2>1. /\ call' # Idle => call # Idle /\ call' = call
        /\ \/ result' = [op |-> "exception", of |-> call.op]
           \/ result' \in {[op |-> "subscribe"], [op |-> "exception", of |-> "subscribe"]}
    BY <1>7 DEF RequestFails, do_addresses_subscriptions, do_addresses_subscriptions_bulk, Throw
  <2>2. result'.op \in {"exception", "subscribe"}
    BY <2>1
  <2> QED  BY <1>1, <2>1, <2>2
<1>8. CASE \/ \E t \in Txids : Arrive(t) \/ Evict(t)
           \/ \E block \in SUBSET (Mempool(height) \cup
                       {t \in Coinbases : height[t] = Absent}) : Mine(block)
           \/ clear_caches \/ (\E a \in Wallet : HandleNotification(a)) \/ UNCHANGED vars
  <2>1. UNCHANGED call /\ (UNCHANGED result \/ result' = Nothing)
    BY <1>8 DEF Arrive, Evict, Mine, Change, clear_caches, HandleNotification, vars
  <2>2. UNCHANGED result \/ result'.op = "none"
    BY <2>1 DEF Nothing
  <2> QED  BY <1>1, <2>1, <2>2
<1> QED
  BY <1>2, <1>3, <1>4, <1>5, <1>6, <1>7, <1>8, HistoryOnce DEF Next

-----------------------------------------------------------------------------
(* Holds is what the transactions leave to the wallet.                     *)
LEMMA HoldsIs ==
    ASSUME NEW P \in SUBSET Txids
    PROVE  /\ Holds(P) = Sigma(Worth, UnspentIn(Wallet, P))
           /\ UnspentIn(Wallet, P) \in SUBSET Outpoints(Txids)
<1> DEFINE S == {p \in Outpoints(P) : /\ is_in_wallet(previous_output(p).to)
                                      /\ \A t \in P : p \notin Transactions[t].ins}
           w == [p \in S |-> previous_output(p).value]
<1>1. Holds(P) = SumFunction(w)
  BY DEF Holds, Outpoints
<1>2. S = UnspentIn(Wallet, P) /\ DOMAIN w = S
  BY DEF UnspentIn, Inputs, is_in_wallet, Wallet
<1>3. S \in SUBSET Outpoints(Txids)
  BY OutpointsAre
<1>4. \A p \in S : w[p] = Worth[p]
  BY <1>3, OutpointsAre
<1> HIDE DEF S, w
<1>5. Sigma(w, S) = Sigma(Worth, S)
  BY <1>3, <1>4, WorthMeasured, SigmaSame
<1> QED  BY <1>1, <1>2, <1>3, <1>5, SumIs

(* The transactions in blocks up to h.                                     *)
InBlocks(h) == {t \in Txids : height[t] \in 1..h}

(* What BlockBalances says of the rows.                                    *)
BlocksFor(rows) ==
    (\A t \in Txids : height[t] # -1) =>
        \A i \in DOMAIN rows :
            (rows[i].height > 0 /\ (i > 1 => rows[i - 1].height # rows[i].height)) =>
                rows[i].balance = Holds(InBlocks(rows[i].height))

(* From the topmost row of a block downwards there are the items of the    *)
(* blocks up to it.                                                        *)
LEMMA BlocksBelow ==
    ASSUME ChainInv, \A t \in Txids : height[t] # -1, NEW n \in Nat, NEW s,
           \A j \in 1..n : s[j] \in WalletItems, WalletItems = {s[j] : j \in 1..n},
           \A j, k \in 1..n : j < k => Before(s[j], s[k]),
           NEW i \in 1..n, s[i].height > 0, i > 1 => s[i - 1].height # s[i].height
    PROVE  ImageOf(s, i..n) = ItemsIn(InBlocks(s[i].height))
<1> DEFINE h == s[i].height
<1>1. ASSUME NEW j \in 1..n
      PROVE  /\ s[j].txid \in Txids /\ s[j].height = height[s[j].txid]
             /\ s[j].height \in Int /\ s[j].height >= 0
  <2>1. s[j].txid \in Txids /\ s[j] = [txid |-> s[j].txid, height |-> height[s[j].txid]]
        /\ height[s[j].txid] # Absent
    BY WalletItem
  <2>2. s[j].height = height[s[j].txid]
    BY <2>1
  <2> QED  BY <2>1, <2>2, HeightsAre
<1>2. h \in Int /\ h > 0
  BY <1>1
<1>3. ASSUME NEW j \in i..n PROVE s[j].height \in 1..h
  <2>1. j \in 1..n /\ (j = i \/ i < j)
    OBVIOUS
  <2>2. CASE j = i
    BY <1>2, <2>2
  <2>3. CASE i < j
    BY <1>1, <1>2, <2>1, <2>3 DEF Before
  <2> QED  BY <2>1, <2>2, <2>3
<1>4. ASSUME NEW j \in 1..n, s[j].height \in 1..h PROVE j \in i..n
  <2> SUFFICES ASSUME j < i PROVE FALSE
    OBVIOUS
  <2>1. s[j].height = h
    BY <1>1, <1>2, <1>4 DEF Before
  <2>2. i - 1 \in 1..n /\ i - 1 < i /\ i > 1 /\ (j = i - 1 \/ j < i - 1)
    OBVIOUS
  <2>3. s[i - 1].height # h /\ j < i - 1
    BY <2>1, <2>2
  <2>4. Before(s[j], s[i - 1]) /\ Before(s[i - 1], s[i])
    BY <2>2, <2>3
  <2>5. s[i - 1].height \in Int
    BY <1>1, <2>2
  <2> QED  BY <1>2, <2>1, <2>3, <2>4, <2>5 DEF Before
<1> HIDE DEF h
<1>5. \A j \in 1..n : j \in i..n <=> s[j].txid \in InBlocks(h)
  BY <1>1, <1>3, <1>4 DEF InBlocks
<1>6. i..n \subseteq 1..n
  OBVIOUS
<1> QED  BY <1>5, <1>6 DEF h, ImageOf, ItemsIn

(* So the running balances are those of the blocks.                        *)
LEMMA BlocksRight ==
    ASSUME ChainInv, LinkInv
    PROVE  BlocksFor(history_view_rows(sort_all_history(WalletItems)))
<1> DEFINE s == sort_all_history(WalletItems)
           rows == history_view_rows(s)
           Impact(i) == calculate_tx_wallet_impact(s[i].txid)
<1>1. /\ s \in SetToSeqs(WalletItems) /\ IsFiniteSet(WalletItems)
      /\ \A i, j \in DOMAIN s : i < j => Before(s[i], s[j])
  BY WalletItemsAre, SortListed
<1> HIDE DEF s
<1>2. Len(s) \in Nat /\ DOMAIN s = 1..Len(s) /\ WalletItems = {s[i] : i \in 1..Len(s)}
  BY <1>1, ListedOnce
<1>3. /\ DOMAIN rows = 1..Len(s)
      /\ \A i \in 1..Len(s) :
           /\ rows[i].height = s[i].height
           /\ rows[i].balance = SumFunction([j \in i..Len(s) |-> Impact(j).balance_delta]) % Modulus
  BY <1>2 DEF history_view_rows
<1> HIDE DEF rows
<1>4. SUFFICES ASSUME \A t \in Txids : height[t] # -1, NEW i \in 1..Len(s), rows[i].height > 0,
                      i > 1 => rows[i - 1].height # rows[i].height
               PROVE  rows[i].balance = Holds(InBlocks(rows[i].height))
  BY <1>3 DEF BlocksFor, rows, s
<1> DEFINE P == InBlocks(s[i].height)
           v == [j \in i..Len(s) |-> Impact(j).balance_delta]
<1>5. s[i].height > 0 /\ (i > 1 => s[i - 1].height # s[i].height)
  <2>1. i > 1 => i - 1 \in 1..Len(s)
    OBVIOUS
  <2> QED  BY <1>3, <1>4, <2>1
<1>6. ImageOf(s, i..Len(s)) = ItemsIn(P)
  BY <1>1, <1>2, <1>4, <1>5, BlocksBelow
<1>7. P \in SUBSET Present /\ P \in SUBSET Txids
  <2>1. \A t \in P : t \in Txids /\ height[t] # Absent
    BY HeightsAre DEF InBlocks, Absent
  <2> QED  BY <2>1 DEF Present
<1>8. LinkedIn(P)
  <2> SUFFICES ASSUME NEW t \in P, NEW p \in Inputs(t) PROVE p.tx \in P
    BY DEF LinkedIn
  <2>1. t \in Present /\ t \in Txids /\ height[t] \in 1..s[i].height
    BY <1>7 DEF InBlocks
  <2>2. s[i].height \in Int
    BY <1>2, WalletItem, HeightsAre
  <2>3. p.tx \in Txids /\ height[p.tx] \in Int /\ height[t] \in Int
    BY <2>1, TransactionsAre, HeightsAre
  <2>4. height[p.tx] > 0 /\ height[p.tx] <= height[t]
    BY <2>1, <2>2, <2>3 DEF LinkInv
  <2> QED  BY <2>1, <2>2, <2>3, <2>4 DEF InBlocks
<1>9. ApartIn(P)
  BY <1>7 DEF ApartIn, LinkInv, Apart
<1> HIDE DEF P
<1>10. /\ Sigma(Deltas, ItemsIn(P)) = Sigma(Worth, UnspentIn(Wallet, P))
       /\ Holds(P) = Sigma(Worth, UnspentIn(Wallet, P))
       /\ UnspentIn(Wallet, P) \in SUBSET Outpoints(Txids)
  BY <1>7, <1>8, <1>9, ConservedItemsIn, HoldsIs
<1>11. Measured(Deltas, WalletItems)
  BY LinkLinks, ConservedItems
<1>12. \A j \in i..Len(s) : v[j] = Deltas[s[j]] /\ i..Len(s) \in SUBSET (1..Len(s))
  BY <1>2 DEF Deltas, Delta
<1>13. rows[i].balance = SumFunction(v) % Modulus /\ DOMAIN v = i..Len(s)
  BY <1>3
<1> HIDE DEF v
<1>14. Sigma(v, i..Len(s)) = Sigma(Deltas, ItemsIn(P))
  <2>1. i..Len(s) \in SUBSET (1..Len(s))
    OBVIOUS
  <2> QED  BY <1>1, <1>6, <1>11, <1>12, <2>1, PlacesSum
<1>15. Sigma(Worth, UnspentIn(Wallet, P)) \in Nat /\ Sigma(Worth, UnspentIn(Wallet, P)) < Modulus
  BY <1>10, WorthFits
<1>16. SumFunction(v) = Holds(P)
  BY <1>10, <1>13, <1>14, SumIs
<1>17. rows[i].balance = Holds(P)
  BY <1>10, <1>13, <1>15, <1>16, Fits
<1> QED  BY <1>3, <1>17 DEF P

-----------------------------------------------------------------------------
(* The results are as they should be.                                      *)
ResultsRight == BalancesExact /\ RowsExact /\ BlockBalances /\ SplitExact

(* The inductive invariant behind them: while nothing changes, the    *)
(* balances that scan_balances has so far are right for their addresses,   *)
(* and what was returned stays right.                                      *)
ExactInv ==
    calm =>
        /\ call # Idle /\ call.op = "scan_balances" =>
             /\ call.balances \in Seq(Nat) /\ Len(call.balances) = call.next - 1
             /\ \A k \in 1..Len(call.balances) : BalanceFor(Addresses[k], call.balances[k])
        /\ ResultsRight

(* What an address holds depends only on the chain.                        *)
LEMMA HoldingsKept ==
    ASSUME UNCHANGED height
    PROVE  /\ WalletUnspent' = WalletUnspent /\ WalletItems' = WalletItems
           /\ \A a : Unspent(a)' = Unspent(a)
           /\ \A a, v : BalanceFor(a, v)' = BalanceFor(a, v)
           /\ \A rows : RowsFor(rows)' = RowsFor(rows)
           /\ \A rows : BlocksFor(rows)' = BlocksFor(rows)
           /\ ImpactOf(TRUE)' = ImpactOf(TRUE) /\ ImpactOf(FALSE)' = ImpactOf(FALSE)
<1>1. WalletItems' = WalletItems
  BY DEF WalletItems
<1>2. \A a : Unspent(a)' = Unspent(a)
  BY DEF Unspent
<1>3. WalletUnspent' = WalletUnspent
  BY DEF WalletUnspent, Unspent
<1>4. \A a, v : BalanceFor(a, v)' = BalanceFor(a, v)
  BY <1>2 DEF BalanceFor
<1>5. \A rows : RowsFor(rows)' = RowsFor(rows)
  BY <1>1, <1>3 DEF RowsFor
<1>6. ImpactOf(TRUE)' = ImpactOf(TRUE) /\ ImpactOf(FALSE)' = ImpactOf(FALSE)
  BY <1>1 DEF ImpactOf
<1>7. \A rows : BlocksFor(rows)' = BlocksFor(rows)
  BY DEF BlocksFor, InBlocks, Holds
<1> QED  BY <1>1, <1>2, <1>3, <1>4, <1>5, <1>6, <1>7

(* The properties in these terms.                                          *)
RightIfCalm ==
    calm => /\ result.op = "scan_balances" =>
                 \A i \in 1..Len(Addresses) : BalanceFor(Addresses[i], result.value[i])
            /\ result.op \in {"rows", "bulk_rows"} =>
                 RowsFor(result.value) /\ BlocksFor(result.value)
            /\ result.op = "confirmed" =>
                 result.value = (WalletUnspent - ImpactOf(TRUE)) % Modulus
            /\ result.op = "unconfirmed" =>
                 result.value = WalletUnspent - ImpactOf(FALSE)

(* They say the same.                                                      *)
LEMMA ResultsAre == ResultsRight <=> RightIfCalm
<1>1. BalancesExact <=> (result.op = "scan_balances" /\ calm =>
                           \A i \in 1..Len(Addresses) : BalanceFor(Addresses[i], result.value[i]))
  BY SequenceTypes DEF BalancesExact, BalanceFor
<1>2. RowsExact <=> (result.op \in {"rows", "bulk_rows"} /\ calm => RowsFor(result.value))
  BY DEF RowsExact, RowsFor
<1>3. SplitExact <=> (calm => /\ result.op = "confirmed" =>
                                   result.value = (WalletUnspent - ImpactOf(TRUE)) % Modulus
                              /\ result.op = "unconfirmed" =>
                                   result.value = WalletUnspent - ImpactOf(FALSE))
  BY DEF SplitExact, ImpactOf
<1>4. BlockBalances <=> (result.op \in {"rows", "bulk_rows"} /\ calm => BlocksFor(result.value))
  BY DEF BlockBalances, BlocksFor, InBlocks
<1> QED  BY <1>1, <1>2, <1>3, <1>4 DEF ResultsRight, RightIfCalm

(* They are the same in the next state.                                    *)
LEMMA ResultsAreNext == ResultsRight' <=> RightIfCalm'
BY ResultsAre, PTL

(* A result stays right while nothing changes, and an exception or no      *)
(* result at all says nothing.                                             *)
LEMMA ResultsKept ==
    ASSUME \/ ResultsRight /\ UNCHANGED <<height, result, calm>>
           \/ result'.op \in {"none", "exception", "subscribe"}
    PROVE  ResultsRight'
<1>1. CASE ResultsRight /\ UNCHANGED <<height, result, calm>>
  <2>1. RightIfCalm
    BY <1>1, ResultsAre
  <2>2. RightIfCalm'
    BY <1>1, <2>1, HoldingsKept DEF RightIfCalm
  <2> QED  BY <2>2, ResultsAreNext
<1>2. CASE result'.op \in {"none", "exception", "subscribe"}
  <2>1. RightIfCalm'
    BY <1>2 DEF RightIfCalm
  <2> QED  BY <2>1, ResultsAreNext
<1> QED  BY <1>1, <1>2

(* What a call that was not disturbed pushes or returns is right.          *)
LEMMA FinishRight ==
    ASSUME StateInv, CalmInv, LinkInv, ExactInv, Finish
    PROVE  ExactInv'
<1> USE DEF StateInv
<1>1. /\ call # Idle /\ call.op \in Ops \ {"subscribe"} /\ call' = Idle
      /\ UNCHANGED height /\ calm' = calm
      /\ call.next = Len(Addresses) + (IF call.op = "bulk_rows" THEN 4 ELSE 1)
  BY DEF Finish, Throw, CallInv, server
<1> SUFFICES ASSUME calm PROVE ResultsRight'
  BY <1>1 DEF ExactInv
<1>2. CASE result' = [op |-> "exception", of |-> call.op]
  <2>1. result'.op = "exception"
    BY <1>2
  <2> QED  BY <2>1, ResultsKept
<1>3. CASE result' = [op |-> call.op, value |-> Answer]
  <2> DEFINE s == sort_all_history(WalletItems)
  <2>1. result'.op = call.op /\ result'.value = Answer
    BY <1>3
  <2>2. call.op \in Listings => call.seen = WalletItems
    BY FinishSees
  <2>3. Linked /\ Apart /\ ChainInv
    BY LinkLinks
  <2>4. call.op \in {"rows", "bulk_rows"} => RowsFor(result'.value) /\ BlocksFor(result'.value)
    <3>1. call.op \in {"rows", "bulk_rows"} => Answer = history_view_rows(s)
      BY <2>2 DEF Answer, Listings
    <3> QED  BY <2>1, <2>3, <3>1, RowsRight, BlocksRight
  <2>5. call.op = "confirmed" => result'.value = (WalletUnspent - ImpactOf(TRUE)) % Modulus
    <3>1. call.op = "confirmed" => Answer = confirmed_balance(s)
      BY <2>2 DEF Answer, Listings
    <3>2. confirmed_balance(s) = (WalletUnspent - ImpactOf(TRUE)) % Modulus
      BY <2>3, SplitRight
    <3> QED  BY <2>1, <3>1, <3>2
  <2>6. call.op = "unconfirmed" => result'.value = WalletUnspent - ImpactOf(FALSE)
    <3>1. call.op = "unconfirmed" => Answer = unconfirmed_impact(s)
      BY <2>2 DEF Answer, Listings
    <3>2. unconfirmed_impact(s) = WalletUnspent - ImpactOf(FALSE)
      BY <2>3, SplitRight
    <3> QED  BY <2>1, <3>1, <3>2
  <2>7. call.op = "scan_balances" =>
          \A i \in 1..Len(Addresses) : BalanceFor(Addresses[i], result'.value[i])
    <3> SUFFICES ASSUME call.op = "scan_balances"
                 PROVE  \A i \in 1..Len(Addresses) : BalanceFor(Addresses[i], result'.value[i])
      OBVIOUS
    <3>1. Answer = call.balances
      BY DEF Answer
    <3>2. /\ Len(call.balances) = call.next - 1
          /\ \A k \in 1..Len(call.balances) : BalanceFor(Addresses[k], call.balances[k])
      BY <1>1 DEF ExactInv
    <3>3. Len(call.balances) = Len(Addresses)
      BY <1>1, <3>2, SequenceTypes
    <3> QED  BY <2>1, <3>1, <3>2, <3>3
  <2>8. RightIfCalm'
    <3>1. /\ WalletUnspent' = WalletUnspent
          /\ \A b, v : BalanceFor(b, v)' = BalanceFor(b, v)
          /\ \A rows : RowsFor(rows)' = RowsFor(rows)
          /\ \A rows : BlocksFor(rows)' = BlocksFor(rows)
          /\ ImpactOf(TRUE)' = ImpactOf(TRUE) /\ ImpactOf(FALSE)' = ImpactOf(FALSE)
      BY <1>1, HoldingsKept
    <3>2. result'.op \in {"rows", "bulk_rows"} =>
            RowsFor(result.value)' /\ BlocksFor(result.value)'
      BY <2>1, <2>4, <3>1
    <3>3. result'.op = "scan_balances" =>
            \A i \in 1..Len(Addresses) : BalanceFor(Addresses[i], result.value[i])'
      BY <2>1, <2>7, <3>1
    <3>4. /\ result'.op = "confirmed" => result'.value = (WalletUnspent' - ImpactOf(TRUE)') % Modulus
          /\ result'.op = "unconfirmed" => result'.value = WalletUnspent' - ImpactOf(FALSE)'
      BY <2>1, <2>5, <2>6, <3>1, Zenon
    <3> QED  BY <3>2, <3>3, <3>4, Zenon DEF RightIfCalm
  <2> QED  BY <2>8, ResultsAreNext
<1>4. result' \in {[op |-> "exception", of |-> call.op], [op |-> call.op, value |-> Answer]}
  BY DEF Finish, Throw
<1> QED  BY <1>2, <1>3, <1>4

(* One more balance of scan_balances is right.                             *)
LEMMA AbsorbRight ==
    ASSUME StateInv, LinkInv, ExactInv, calm, Asking, UNCHANGED <<height, calm>>,
           NEW a \in Wallet, a = Here, NEW history \in Seq(AnyItem), Fresh(a, history),
           Ordered(history), Absorb(a, history)
    PROVE  ExactInv'
<1> USE DEF StateInv
<1>1. /\ call # Idle /\ call.op \in Ops \ {"bulk_rows", "subscribe"}
      /\ call.next \in 1..Len(Addresses) /\ a = Addresses[call.next]
  BY AskingHere DEF Asking, CallInv
<1>2. CASE call' = Idle /\ result' = [op |-> "exception", of |-> call.op]
  <2>1. result'.op = "exception"
    BY <1>2
  <2>2. ResultsRight'
    BY <2>1, ResultsKept
  <2> QED  BY <1>2, <2>2 DEF ExactInv
<1>3. CASE ~(call' = Idle /\ result' = [op |-> "exception", of |-> call.op])
  <2> DEFINE s == IF call.op \in Listings THEN Insert(call.seen, ToSet(history)) ELSE call.seen
             b == IF call.op \in Balances
                  THEN Append(call.balances, address_balance(a, history,
                                                 call.op = "unconfirmed_balances"))
                  ELSE call.balances
  <2>1. call' = [call EXCEPT !.next = @ + 1, !.seen = s, !.balances = b] /\ UNCHANGED result
    BY <1>3 DEF Absorb, Throw
  <2>2. ResultsRight'
    BY <2>1, ResultsKept DEF ExactInv
  <2>3. call.op = "scan_balances" => b = Append(call.balances, address_balance(a, history, FALSE))
    <3> SUFFICES ASSUME call.op = "scan_balances"
                 PROVE  b = Append(call.balances, address_balance(a, history, FALSE))
      OBVIOUS
    <3>1. (call.op = "unconfirmed_balances") = FALSE
      OBVIOUS
    <3> QED  BY <3>1 DEF Balances
  <2> HIDE DEF s, b
  <2>4. call'.op = call.op /\ call'.next = call.next + 1 /\ call'.balances = b
    BY <1>1, <2>1 DEF CallInv
  <2>5. ASSUME call.op = "scan_balances"
        PROVE  /\ b \in Seq(Nat) /\ Len(b) = call'.next - 1
               /\ \A k \in 1..Len(b) : BalanceFor(Addresses[k], b[k])
    <3> DEFINE v == address_balance(a, history, FALSE)
    <3>1. v \in Nat /\ BalanceFor(a, v)
      BY BalanceRight
    <3>2. /\ call.balances \in Seq(Nat) /\ Len(call.balances) = call.next - 1
          /\ \A k \in 1..Len(call.balances) : BalanceFor(Addresses[k], call.balances[k])
      BY <1>1, <2>5 DEF ExactInv
    <3>3. b = Append(call.balances, v)
      BY <2>3, <2>5
    <3> HIDE DEF v
    <3>4. /\ b \in Seq(Nat) /\ Len(b) = Len(call.balances) + 1 /\ b[Len(call.balances) + 1] = v
          /\ \A k \in 1..Len(call.balances) : b[k] = call.balances[k]
      BY <3>1, <3>2, <3>3, AppendIs
    <3>5. Len(call.balances) + 1 = call.next /\ Len(b) = call.next
      BY <1>1, <3>2, <3>4, SequenceTypes
    <3>6. ASSUME NEW k \in 1..Len(b) PROVE BalanceFor(Addresses[k], b[k])
      <4>1. CASE k = call.next
        BY <1>1, <3>1, <3>4, <3>5, <4>1
      <4>2. CASE k # call.next
        <5>1. k \in 1..Len(call.balances)
          BY <1>1, <3>2, <3>5, <4>2, SequenceTypes
        <5> QED  BY <3>2, <3>4, <5>1
      <4> QED  BY <4>1, <4>2
    <3>7. Len(b) = call'.next - 1
      BY <1>1, <2>4, <3>5, SequenceTypes
    <3> QED  BY <3>4, <3>6, <3>7
  <2> QED  BY <2>2, <2>4, <2>5, HoldingsKept DEF ExactInv
<1> QED  BY <1>2, <1>3

(* get_history takes every balance from a fresh history in order.          *)
LEMMA HistoryRight ==
    ASSUME StateInv, CalmInv, LinkInv, OrderInv, ExactInv,
           get_history_cached \/ get_history_requested
    PROVE  ExactInv'
<1> USE DEF StateInv
<1>1. Asking /\ UNCHANGED height /\ calm' = calm
  BY DEF get_history_cached, get_history_requested, server, ghosts
<1> SUFFICES ASSUME calm PROVE ExactInv'
  BY <1>1 DEF ExactInv
<1>2. PICK a \in Wallet : a = Here
  BY <1>1, AskingHere
<1>3. CASE get_history_cached
  <2>1. Cached(a) /\ Absorb(a, Remembered(a))
    BY <1>2, <1>3 DEF get_history_cached
  <2>2. Fresh(a, Remembered(a))
    BY <1>1, <2>1 DEF CalmInv, Asking
  <2>3. Remembered(a) \in Seq(AnyItem) /\ Ordered(Remembered(a))
    BY NothingOrdered DEF Remembered, CacheInv, OrderInv
  <2> QED  BY <1>1, <1>2, <2>1, <2>2, <2>3, AbsorbRight
<1>4. CASE get_history_requested
  <2>1. PICK reply \in Replies(a) : Absorb(a, reply)
    BY <1>2, <1>4 DEF get_history_requested
  <2>2. reply \in Seq(AnyItem) /\ Fresh(a, reply) /\ Ordered(reply)
    BY ReplyFresh, ReplyOrdered
  <2> QED  BY <1>1, <1>2, <2>1, <2>2, AbsorbRight
<1> QED  BY <1>3, <1>4

(* Every step keeps the results right.                                     *)
LEMMA ExactNext ==
    ASSUME StateInv, CalmInv, LinkInv, OrderInv, ExactInv, Next \/ UNCHANGED vars
    PROVE  ExactInv'
<1> USE DEF StateInv
<1>1. CASE calm' = FALSE
  BY <1>1 DEF ExactInv
<1>2. CASE \E op \in Balances \cup Listings \cup {"subscribe"} : Begin(op)
  <2>1. PICK op \in Ops : Begin(op)
    BY <1>2 DEF Ops
  <2>2. call'.balances = <<>> /\ call'.next = 1 /\ result' = Nothing
    BY <2>1 DEF Begin
  <2>3. ResultsRight'
    BY <2>2, ResultsKept DEF Nothing
  <2>4. <<>> \in Seq(Nat) /\ Len(<<>>) = 1 - 1
    OBVIOUS
  <2> QED  BY <2>2, <2>3, <2>4 DEF ExactInv
<1>3. CASE get_history_bulk \/ refresh_all_history_bulk \/ get_all_txs_sorted_bulk \/ load_txs_bulk
  <2>1. call # Idle /\ call.op = "bulk_rows" /\ UNCHANGED height /\ calm' = calm
    <3>1. CASE get_history_bulk
      BY <3>1 DEF get_history_bulk, AskingInBulk, BulkReply, server, ghosts
    <3>2. CASE refresh_all_history_bulk \/ get_all_txs_sorted_bulk \/ load_txs_bulk
      BY <3>2 DEF refresh_all_history_bulk, get_all_txs_sorted_bulk, load_txs_bulk, server, ghosts
    <3> QED  BY <1>3, <3>1, <3>2
  <2>2. /\ call' = Idle \/ call'.op = "bulk_rows"
        /\ UNCHANGED result \/ result' = [op |-> "exception", of |-> call.op]
    <3>1. CASE get_history_bulk
      <4>1. PICK h : UNCHANGED result /\ call' = [call EXCEPT !.next = @ + 1, !.histories = h]
        BY <3>1 DEF get_history_bulk, BulkReply
      <4> QED  BY <2>1, <4>1 DEF CallInv
    <3>2. CASE refresh_all_history_bulk
      <4>1. PICK s : UNCHANGED result /\ call' = [call EXCEPT !.next = @ + 1, !.seen = s]
        BY <3>2 DEF refresh_all_history_bulk
      <4> QED  BY <2>1, <4>1 DEF CallInv
    <3>3. CASE get_all_txs_sorted_bulk
      <4>1. UNCHANGED result /\ call' = [call EXCEPT !.next = @ + 1]
        BY <3>3 DEF get_all_txs_sorted_bulk
      <4> QED  BY <2>1, <4>1 DEF CallInv
    <3>4. CASE load_txs_bulk
      <4>1. \/ UNCHANGED result /\ call' = [call EXCEPT !.next = @ + 1]
            \/ call' = Idle /\ result' = [op |-> "exception", of |-> call.op]
        BY <3>4 DEF load_txs_bulk, Throw
      <4> QED  BY <2>1, <4>1 DEF CallInv
    <3> QED  BY <1>3, <3>1, <3>2, <3>3, <3>4
  <2>3. result' = [op |-> "exception", of |-> call.op] => result'.op = "exception"
    OBVIOUS
  <2>4. calm => ResultsRight'
    BY <2>1, <2>2, <2>3, ResultsKept DEF ExactInv
  <2> QED  BY <2>1, <2>2, <2>4 DEF ExactInv
<1>4. CASE subscribe_address
  <2>1. /\ call # Idle /\ call.op = "subscribe" /\ call' = [call EXCEPT !.next = @ + 1]
        /\ UNCHANGED <<height, result, calm>>
    BY <1>4 DEF subscribe_address, Subscribing, ghosts
  <2>2. call'.op = "subscribe"
    BY <2>1 DEF CallInv
  <2> QED  BY <2>1, <2>2, ResultsKept DEF ExactInv
<1>5. CASE do_addresses_subscriptions \/ do_addresses_subscriptions_bulk
  <2>1. call' = Idle
    BY <1>5 DEF do_addresses_subscriptions, do_addresses_subscriptions_bulk
  <2>2. \/ result' = [op |-> "subscribe"]
        \/ result' = [op |-> "exception", of |-> "subscribe"]
    BY <1>5 DEF do_addresses_subscriptions, do_addresses_subscriptions_bulk
  <2>3. result'.op \in {"subscribe", "exception"}
    BY <2>2
  <2> QED  BY <2>1, <2>3, ResultsKept DEF ExactInv
<1>6. CASE clear_caches \/ (\E a \in Wallet : HandleNotification(a)) \/ UNCHANGED vars
  <2>1. UNCHANGED <<height, call, result, calm>>
    BY <1>6 DEF clear_caches, HandleNotification, vars, server, ghosts
  <2> QED  BY <2>1, ResultsKept, HoldingsKept DEF ExactInv
<1>7. get_history_error \/ get_history_bulk_error \/ RequestFails => calm' = FALSE
  BY DEF get_history_error, get_history_bulk_error, RequestFails
<1>8. \/ \E t \in Txids : Arrive(t) \/ Evict(t)
      \/ \E block \in SUBSET (Mempool(height) \cup
                       {t \in Coinbases : height[t] = Absent}) : Mine(block)
      => calm' = FALSE
  BY DEF Arrive, Evict, Mine, Change
<1> QED
  BY <1>1, <1>2, <1>3, <1>4, <1>5, <1>6, <1>7, <1>8, HistoryRight, FinishRight DEF Next

(* All parts of the invariant together.                                    *)
WholeInv == StateInv /\ CalmInv /\ LinkInv /\ OrderInv /\ OnceInv /\ ExactInv

(* It holds in every reachable state.                                      *)
LEMMA WholeAlways == Spec => []WholeInv
<1>1. Init => WholeInv
  <2>1. Init => CalmInv /\ ExactInv
    BY DEF Init, CalmInv, ExactInv
  <2>2. Init => OnceInv
    BY DEF Init, OnceInv, RowsOnce, Nothing
  <2> QED  BY <2>1, <2>2, StateInit, LinkInit, OrderInit DEF WholeInv
<1>2. WholeInv /\ [Next]_vars => WholeInv'
  <2> SUFFICES ASSUME WholeInv, Next \/ UNCHANGED vars PROVE WholeInv'
    OBVIOUS
  <2>1. StateInv' /\ CalmInv' /\ OrderInv' /\ ExactInv'
    BY StateNext, CalmNext, OrderStep, ExactNext DEF WholeInv
  <2>2. LinkInv'
    BY LinkStep DEF WholeInv, StateInv
  <2>3. OnceInv'
    BY OnceStep DEF WholeInv
  <2> QED  BY <2>1, <2>2, <2>3 DEF WholeInv
<1> QED  BY <1>1, <1>2, PTL DEF Spec

(* BalancesExact for every chain of transactions, list of addresses and    *)
(* order of steps: what scan_balances pushes for an address, the sum that  *)
(* calc_address_balance takes over the cached or requested histories, is   *)
(* what the outputs to the address that nobody spent are worth, if nothing *)
(* changed since the call began with caches that were up to date; where an *)
(* unconfirmed transaction spends from an unconfirmed one, at least that.  *)
THEOREM BalancesAreExact == Spec => []BalancesExact
<1>1. WholeInv => BalancesExact
  BY DEF WholeInv, ExactInv, ResultsRight, BalancesExact
<1> QED  BY <1>1, WholeAlways, PTL

(* RowsExact, likewise: create_history_view_rows pushes rows for exactly   *)
(* the transactions of the wallet, the running balance of the newest is    *)
(* what the wallet holds, and funding_amount is what left the wallet in a  *)
(* transaction that it funds alone.  get_all_txs_sorted and its bulk form  *)
(* give the same.                                                          *)
THEOREM RowsAreExact == Spec => []RowsExact
<1>1. WholeInv => RowsExact
  BY DEF WholeInv, ExactInv, ResultsRight, RowsExact
<1> QED  BY <1>1, WholeAlways, PTL

(* RowsOnce, even if the chain changes while a call is under way: the      *)
(* ahi_set of refresh_all_history and refresh_all_history_bulk lets no     *)
(* transaction in twice, so that it has one row, at the height that the    *)
(* first of its histories gave it.                                         *)
THEOREM EveryRowOnce == Spec => []RowsOnce
<1>1. WholeInv => RowsOnce
  BY DEF WholeInv, OnceInv
<1> QED  BY <1>1, WholeAlways, PTL

(* BlockBalances, likewise: with the rows sorted by sort_all_history, the  *)
(* running balance that create_history_view_rows gives the topmost row of  *)
(* a block is what the wallet held after that block, unless a transaction  *)
(* with an unconfirmed parent is about.                                    *)
THEOREM BlockBalancesAreRight == Spec => []BlockBalances
<1>1. WholeInv => BlockBalances
  BY DEF WholeInv, ExactInv, ResultsRight, BlockBalances
<1> QED  BY <1>1, WholeAlways, PTL

(* SplitExact, likewise: calculate_confirmed_balance and                   *)
(* unconfirmed_txs_wallet_impact count each transaction in exactly one of  *)
(* them, so that together they give what the wallet holds.                 *)
THEOREM SplitIsExact == Spec => []SplitExact
<1>1. WholeInv => SplitExact
  BY DEF WholeInv, ExactInv, ResultsRight, SplitExact
<1> QED  BY <1>1, WholeAlways, PTL
=============================================================================
