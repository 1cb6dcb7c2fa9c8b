------------------------ MODULE UpdatesProofs ------------------------
(***************************************************************************)
(* RonghuaInputQueue loses, duplicates and invents no message and is a box *)
(* of replies and a stack of notifications (ReplyBox), for any poppers,    *)
(* pushers, messages and calls; on the way from the socket to the screen   *)
(* (Updates) both of its queues keep their promises.                       *)
(*                                                                         *)
(* Provers do not induct over data by themselves.  The least element of a  *)
(* set of naturals (WFMin of WellFoundedInduction, a first-order fact)     *)
(* gives induction for sets of naturals and, from that, for sets of        *)
(* sequences; with it the lemmas say what Keep returns for every sequence. *)
(***************************************************************************)
EXTENDS Updates, TLAPS, WellFoundedInduction

(* A set of naturals that is not empty has a least element.                *)
LEMMA NatMin ==
    ASSUME NEW T \in SUBSET Nat, T # {}
    PROVE  \E x \in T : \A y \in T : x <= y
<1> DEFINE R == {ss \in Nat \X Nat : ss[1] < ss[2]}
<1>1. IsWellFoundedOn(R, Nat)
  BY NatLessThanWellFounded, Zenon DEF OpToRel
<1>2. PICK x \in T : \A y \in T : ~ (<<y, x>> \in R)
  <2> HIDE DEF R
  <2> QED BY <1>1, WFMin, Zenon
<1>3. ASSUME NEW y \in T PROVE x <= y
  <2>1. <<y, x>> \in Nat \X Nat /\ <<y, x>>[1] = y /\ <<y, x>>[2] = x
    OBVIOUS
  <2>2. ~ (y < x)
    BY <1>2, <2>1
  <2> QED  BY <2>2
<1> QED  BY <1>3

(* Induction over the naturals, for a set of them.                         *)
LEMMA NatSetInduction ==
    ASSUME NEW P \in SUBSET Nat, 0 \in P, \A n \in P : n + 1 \in P
    PROVE  P = Nat
<1> SUFFICES ASSUME Nat \ P # {} PROVE FALSE
  OBVIOUS
<1>1. PICK x \in Nat \ P : \A y \in Nat \ P : x <= y
  BY NatMin
<1>2. x # 0 /\ x - 1 \in Nat /\ x - 1 \in P
  BY <1>1
<1> QED  BY <1>1, <1>2

(* A sequence that is not empty is its front with its last element         *)
(* appended.                                                               *)
LEMMA LastAppended ==
    ASSUME NEW S, NEW n \in Nat, NEW s \in Seq(S), Len(s) = n + 1
    PROVE  /\ SubSeq(s, 1, n) \in Seq(S) /\ s[n + 1] \in S
           /\ Len(SubSeq(s, 1, n)) = n /\ s = Append(SubSeq(s, 1, n), s[n + 1])
<1> DEFINE f == SubSeq(s, 1, n)  a == Append(f, s[n + 1])
<1>1. f \in Seq(S) /\ Len(f) = n /\ s[n + 1] \in S /\ \A i \in 1..n : f[i] = s[i]
  OBVIOUS
<1> HIDE DEF f
<1>2. a \in Seq(S) /\ Len(a) = n + 1
  BY <1>1
<1>3. \A i \in 1..n + 1 : a[i] = s[i]
  BY <1>1
<1>4. a = s
  BY <1>2, <1>3
<1> QED  BY <1>1, <1>4 DEF f

(* Induction over sequences, for a set of them.                            *)
LEMMA SeqSetInduction ==
    ASSUME NEW S, NEW P \in SUBSET Seq(S), <<>> \in P,
           \A s \in P, x \in S : Append(s, x) \in P
    PROVE  P = Seq(S)
<1> DEFINE N == {n \in Nat : \A s \in Seq(S) : Len(s) = n => s \in P}
<1>1. 0 \in N
  OBVIOUS
<1>2. ASSUME NEW n \in Nat, n \in N PROVE n + 1 \in N
  <2>1. ASSUME NEW s \in Seq(S), Len(s) = n + 1 PROVE s \in P
    <3>1. \A f \in Seq(S) : Len(f) = n => f \in P
      BY <1>2
    <3>2. /\ SubSeq(s, 1, n) \in Seq(S) /\ s[n + 1] \in S
          /\ Len(SubSeq(s, 1, n)) = n /\ s = Append(SubSeq(s, 1, n), s[n + 1])
      BY <2>1, LastAppended
    <3> QED  BY <3>1, <3>2
  <2> QED  BY <2>1
<1>3. N = Nat
  <2> HIDE DEF N
  <2>1. N \in SUBSET Nat
    BY DEF N
  <2>2. \A n \in N : n + 1 \in N
    BY <1>2, <2>1
  <2> QED  BY <1>1, <2>1, <2>2, NatSetInduction
<1>4. ASSUME NEW s \in Seq(S) PROVE s \in P
  <2>1. Len(s) \in N
    BY <1>3
  <2> QED  BY <2>1
<1> QED  BY <1>4

(* What makes f the function of the definition of Keep.                    *)
Keeps(f, s, R) == f = [i \in 0..Len(s) |->
            IF i = 0 THEN <<>>
            ELSE IF s[i] \in R THEN Append(f[i - 1], s[i]) ELSE f[i - 1]]

(* Keep takes the value of that function at the length of the sequence.    *)
LEMMA KeepIs ==
    ASSUME NEW s, NEW R
    PROVE Keep(s, R) = (CHOOSE f : Keeps(f, s, R))[Len(s)]
BY DEF Keep, Keeps

(* The same, as one equation for each argument.                            *)
KeepEqs(f, s, R) ==
    /\ f = [i \in 0..Len(s) |-> f[i]]
    /\ f[0] = <<>>
    /\ \A i \in 1..Len(s) :
         f[i] = IF s[i] \in R THEN Append(f[i - 1], s[i]) ELSE f[i - 1]

(* The two forms agree.                                                    *)
LEMMA KeepsEquations ==
    ASSUME NEW S, NEW R, NEW s \in Seq(S), NEW f
    PROVE  Keeps(f, s, R) <=> KeepEqs(f, s, R)
<1> DEFINE e(i) == IF i = 0 THEN <<>>
                   ELSE IF s[i] \in R THEN Append(f[i - 1], s[i]) ELSE f[i - 1]
<1>1. Keeps(f, s, R) <=> f = [i \in 0..Len(s) |-> e(i)]
  BY DEF Keeps
<1>2. /\ e(0) = <<>>
      /\ \A i \in 1..Len(s) : e(i) = IF s[i] \in R THEN Append(f[i - 1], s[i]) ELSE f[i - 1]
      /\ 0..Len(s) = {0} \cup 1..Len(s)
  OBVIOUS
<1> HIDE DEF e
<1>3. f = [i \in 0..Len(s) |-> e(i)] <=>
        f = [i \in 0..Len(s) |-> f[i]] /\ \A i \in 0..Len(s) : f[i] = e(i)
  OBVIOUS
<1>4. (\A i \in 0..Len(s) : f[i] = e(i)) <=> f[0] = e(0) /\ \A i \in 1..Len(s) : f[i] = e(i)
  BY <1>2
<1> QED  BY <1>1, <1>2, <1>3, <1>4 DEF KeepEqs

(* The function for a sequence gives one for a longer sequence.            *)
LEMMA KeepExtends ==
    ASSUME NEW S, NEW R, NEW s \in Seq(S), NEW x \in S, NEW f, Keeps(f, s, R)
    PROVE  \E g : Keeps(g, Append(s, x), R)
<1> DEFINE n == Len(s)  a == Append(s, x)
           g == [i \in 0..n + 1 |-> IF i <= n THEN f[i]
                  ELSE IF x \in R THEN Append(f[n], x) ELSE f[n]]
<1>1. n \in Nat /\ a \in Seq(S) /\ Len(a) = n + 1
      /\ (\A i \in 1..n : a[i] = s[i]) /\ a[n + 1] = x
  OBVIOUS
<1>2. f[0] = <<>> /\ \A i \in 1..n :
          f[i] = IF s[i] \in R THEN Append(f[i - 1], s[i]) ELSE f[i - 1]
  <2>1. KeepEqs(f, s, R)
    BY KeepsEquations
  <2> QED  BY <2>1 DEF KeepEqs
<1>3. g[0] = <<>> /\ g[n] = f[n]
      /\ g[n + 1] = IF x \in R THEN Append(f[n], x) ELSE f[n]
  BY <1>1, <1>2
<1>4. \A i \in 0..n : g[i] = f[i]
  BY <1>1
<1>5. g = [i \in 0..Len(a) |-> g[i]]
  BY <1>1
<1> HIDE DEF g, a
<1>6. ASSUME NEW i \in 1..n + 1
      PROVE  g[i] = IF a[i] \in R THEN Append(g[i - 1], a[i]) ELSE g[i - 1]
  <2>1. CASE i = n + 1
    BY <1>1, <1>3, <2>1
  <2>2. CASE i # n + 1
    <3>1. i \in 1..n /\ i \in 0..n /\ i - 1 \in 0..n
      BY <1>1, <2>2
    <3> QED  BY <1>1, <1>2, <1>4, <3>1
  <2> QED  BY <2>1, <2>2
<1>7. KeepEqs(g, a, R)
  BY <1>1, <1>3, <1>5, <1>6 DEF KeepEqs
<1> QED  BY <1>1, <1>7, KeepsEquations DEF a

(* So there is one for every sequence: the recursion of Keep is sound.     *)
LEMMA KeepDefined ==
    ASSUME NEW S, NEW R, NEW s \in Seq(S)
    PROVE  Keeps(CHOOSE f : Keeps(f, s, R), s, R)
<1> DEFINE P == {t \in Seq(S) : \E f : Keeps(f, t, R)}
<1>1. <<>> \in P
  <2> DEFINE z == [i \in 0..0 |-> <<>>]
  <2>1. <<>> \in Seq(S) /\ Len(<<>>) = 0 /\ z[0] = <<>> /\ z = [i \in 0..0 |-> z[i]]
        /\ 1..0 = {}
    OBVIOUS
  <2> HIDE DEF z
  <2>2. KeepEqs(z, <<>>, R)
    BY <2>1 DEF KeepEqs
  <2>3. Keeps(z, <<>>, R)
    BY <2>1, <2>2, KeepsEquations
  <2> QED  BY <2>1, <2>3
<1>2. ASSUME NEW t \in P, NEW x \in S PROVE Append(t, x) \in P
  BY KeepExtends
<1>3. P = Seq(S)
  <2> HIDE DEF P
  <2>1. P \in SUBSET Seq(S)  BY DEF P
  <2> QED  BY <1>1, <1>2, <2>1, SeqSetInduction
<1> QED  BY <1>3

(* Nothing is kept of an empty sequence.                                   *)
LEMMA KeepEmpty == \A R : Keep(<<>>, R) = <<>>
<1> SUFFICES ASSUME NEW R PROVE Keep(<<>>, R) = <<>>  OBVIOUS
<1> DEFINE f == CHOOSE f : Keeps(f, <<>>, R)
<1>1. <<>> \in Seq({}) /\ Len(<<>>) = 0
  OBVIOUS
<1>2. Keeps(f, <<>>, R)
  BY <1>1, KeepDefined
<1>3. Keep(<<>>, R) = f[0]
  BY <1>1, KeepIs
<1> HIDE DEF f
<1>4. KeepEqs(f, <<>>, R)
  BY <1>1, <1>2, KeepsEquations
<1>5. f[0] = <<>>
  BY <1>4 DEF KeepEqs
<1> QED  BY <1>3, <1>5

(* The last element is kept, after the others, if it is in R.              *)
LEMMA KeepAppend ==
    ASSUME NEW S, NEW R, NEW s \in Seq(S), NEW x \in S
    PROVE  Keep(Append(s, x), R) = IF x \in R THEN Append(Keep(s, R), x) ELSE Keep(s, R)
<1> DEFINE n == Len(s)  a == Append(s, x)
           f == CHOOSE h : Keeps(h, s, R)
           g == CHOOSE h : Keeps(h, a, R)
           E == {i \in Nat : i <= n => f[i] = g[i]}
<1>1. n \in Nat /\ a \in Seq(S) /\ Len(a) = n + 1
      /\ (\A i \in 1..n : a[i] = s[i]) /\ a[n + 1] = x
  OBVIOUS
<1> HIDE DEF a
<1>2. Keeps(f, s, R) /\ Keeps(g, a, R)
  BY <1>1, KeepDefined
<1>3. Keep(s, R) = f[n] /\ Keep(a, R) = g[n + 1]
  BY <1>1, KeepIs
<1> HIDE DEF f, g
<1>4. f[0] = <<>> /\ \A i \in 1..n :
          f[i] = IF s[i] \in R THEN Append(f[i - 1], s[i]) ELSE f[i - 1]
  <2>1. KeepEqs(f, s, R)
    BY <1>2, KeepsEquations
  <2> QED  BY <2>1 DEF KeepEqs
<1>5. g[0] = <<>> /\ \A i \in 1..n + 1 :
          g[i] = IF a[i] \in R THEN Append(g[i - 1], a[i]) ELSE g[i - 1]
  <2>1. KeepEqs(g, a, R)
    BY <1>1, <1>2, KeepsEquations
  <2> QED  BY <1>1, <2>1 DEF KeepEqs
<1>6. 0 \in E
  BY <1>4, <1>5
<1>7. ASSUME NEW i \in E PROVE i + 1 \in E
  <2> SUFFICES ASSUME i + 1 <= n PROVE f[i + 1] = g[i + 1]
    OBVIOUS
  <2>1. i + 1 \in 1..n /\ i + 1 \in 1..n + 1 /\ (i + 1) - 1 = i /\ f[i] = g[i]
    BY <1>1
  <2> QED  BY <1>1, <1>4, <1>5, <2>1
<1>8. E = Nat
  <2> HIDE DEF E
  <2>1. E \in SUBSET Nat  BY DEF E
  <2> QED  BY <1>6, <1>7, <2>1, NatSetInduction
<1>9. f[n] = g[n]
  BY <1>1, <1>8
<1>10. n + 1 \in 1..n + 1 /\ (n + 1) - 1 = n
  BY <1>1
<1> QED  BY <1>1, <1>3, <1>5, <1>9, <1>10 DEF a

-----------------------------------------------------------------------------
(* Appending to the right part of a concatenation.                         *)
LEMMA ConcatAppend ==
    ASSUME NEW S, NEW s \in Seq(S), NEW t \in Seq(S), NEW x \in S
    PROVE  s \o Append(t, x) = Append(s \o t, x)
<1> DEFINE l == s \o Append(t, x)  r == Append(s \o t, x)
<1>1. Append(t, x) \in Seq(S) /\ s \o t \in Seq(S)
      /\ Len(Append(t, x)) = Len(t) + 1 /\ Len(s \o t) = Len(s) + Len(t)
  OBVIOUS
<1>2. l \in Seq(S) /\ r \in Seq(S) /\ Len(l) = Len(s) + Len(t) + 1 /\ Len(r) = Len(l)
  BY <1>1
<1>3. ASSUME NEW i \in 1..Len(s) + Len(t) + 1 PROVE l[i] = r[i]
  BY <1>1
<1> QED  BY <1>2, <1>3

(* Appending adds one element.                                             *)
LEMMA ToSetAppend ==
    ASSUME NEW S, NEW s \in Seq(S), NEW x \in S
    PROVE  ToSet(Append(s, x)) = ToSet(s) \cup {x}
<1> DEFINE a == Append(s, x)  n == Len(s)
<1>1. n \in Nat /\ DOMAIN s = 1..n /\ DOMAIN a = 1..n + 1
      /\ (\A i \in 1..n : a[i] = s[i]) /\ a[n + 1] = x
  OBVIOUS
<1> HIDE DEF a
<1>2. 1..n + 1 = 1..n \cup {n + 1}
  BY <1>1
<1> QED  BY <1>1, <1>2 DEF ToSet, a

(* The elements of a sequence are the ones at its positions.               *)
LEMMA ToSetSeq ==
    ASSUME NEW S, NEW s \in Seq(S)
    PROVE  /\ ToSet(s) \subseteq S
           /\ \A x : x \in ToSet(s) <=> \E i \in 1..Len(s) : s[i] = x
BY DEF ToSet

(* Keep returns the elements that are in R and no other.                   *)
LEMMA KeepElements ==
    ASSUME NEW S, NEW R, NEW s \in Seq(S)
    PROVE  Keep(s, R) \in Seq(S) /\ ToSet(Keep(s, R)) = ToSet(s) \cap R
<1> DEFINE P == {t \in Seq(S) : Keep(t, R) \in Seq(S) /\ ToSet(Keep(t, R)) = ToSet(t) \cap R}
<1>1. <<>> \in P
  <2>1. <<>> \in Seq(S) /\ ToSet(<<>>) = {}
    BY DEF ToSet
  <2> QED  BY <2>1, KeepEmpty
<1>2. ASSUME NEW t \in P, NEW x \in S PROVE Append(t, x) \in P
  <2>1. t \in Seq(S) /\ Keep(t, R) \in Seq(S) /\ ToSet(Keep(t, R)) = ToSet(t) \cap R
        /\ Append(t, x) \in Seq(S)
    OBVIOUS
  <2>2. Keep(Append(t, x), R) = IF x \in R THEN Append(Keep(t, R), x) ELSE Keep(t, R)
    BY <2>1, KeepAppend
  <2>3. ToSet(Append(t, x)) = ToSet(t) \cup {x}
    BY <2>1, ToSetAppend
  <2>4. ToSet(Append(Keep(t, R), x)) = ToSet(Keep(t, R)) \cup {x}
        /\ Append(Keep(t, R), x) \in Seq(S)
    BY <2>1, ToSetAppend
  <2> HIDE DEF P
  <2>5. ToSet(Keep(Append(t, x), R)) = ToSet(Append(t, x)) \cap R
    BY <2>1, <2>2, <2>3, <2>4
  <2>6. Keep(Append(t, x), R) \in Seq(S)
    BY <2>1, <2>2, <2>4
  <2> QED  BY <2>1, <2>5, <2>6 DEF P
<1>3. P = Seq(S)
  <2> HIDE DEF P
  <2>1. P \in SUBSET Seq(S)  BY DEF P
  <2> QED  BY <1>1, <1>2, <2>1, SeqSetInduction
<1> QED  BY <1>3

(* Keep does not repeat what occurs once: an erase from the deque leaves   *)
(* no duplicate behind.                                                    *)
LEMMA KeepInjective ==
    ASSUME NEW S, NEW R, NEW s \in Seq(S), IsInjective(s)
    PROVE  IsInjective(Keep(s, R))
<1> DEFINE P == {t \in Seq(S) : IsInjective(t) => IsInjective(Keep(t, R))}
<1>1. <<>> \in P
  <2>1. <<>> \in Seq(S) /\ IsInjective(<<>>)
    BY DEF IsInjective
  <2> QED  BY <2>1, KeepEmpty
<1>2. ASSUME NEW t \in P, NEW x \in S PROVE Append(t, x) \in P
  <2> DEFINE a == Append(t, x)  k == Keep(t, R)  b == Append(k, x)
  <2>1. t \in Seq(S) /\ a \in Seq(S) /\ k \in Seq(S) /\ ToSet(k) = ToSet(t) \cap R
    BY KeepElements
  <2>2. Keep(a, R) = IF x \in R THEN b ELSE k
    BY <2>1, KeepAppend
  <2>3. ASSUME IsInjective(a) PROVE IsInjective(Keep(a, R))
    <3>1. /\ Len(t) \in Nat /\ DOMAIN t = 1..Len(t) /\ DOMAIN a = 1..Len(t) + 1
          /\ (\A i \in 1..Len(t) : a[i] = t[i]) /\ a[Len(t) + 1] = x
      BY <2>1
    <3>2. IsInjective(t) /\ x \notin ToSet(t)
      <4> HIDE DEF a
      <4> QED  BY <2>3, <3>1 DEF IsInjective, ToSet
    <3>3. IsInjective(k) /\ x \notin ToSet(k)
      BY <2>1, <3>2
    <3>4. /\ Len(k) \in Nat /\ DOMAIN k = 1..Len(k) /\ DOMAIN b = 1..Len(k) + 1
          /\ (\A i \in 1..Len(k) : b[i] = k[i]) /\ b[Len(k) + 1] = x
      <4> HIDE DEF k
      <4> QED  BY <2>1
    <3> HIDE DEF b, k
    <3>5. IsInjective(b)
      BY <3>3, <3>4 DEF IsInjective, ToSet
    <3> QED  BY <2>2, <3>3, <3>5
  <2> HIDE DEF P, a
  <2> QED  BY <2>1, <2>3 DEF P, a
<1>3. P = Seq(S)
  <2> HIDE DEF P
  <2>1. P \in SUBSET Seq(S)  BY DEF P
  <2> QED  BY <1>1, <1>2, <2>1, SeqSetInduction
<1> QED  BY <1>3

(* Keep depends only on which of the elements that occur are in R.         *)
LEMMA KeepSame ==
    ASSUME NEW S, NEW Q, NEW R, NEW s \in Seq(S), ToSet(s) \cap Q = ToSet(s) \cap R
    PROVE  Keep(s, Q) = Keep(s, R)
<1> DEFINE P == {t \in Seq(S) : ToSet(t) \cap Q = ToSet(t) \cap R => Keep(t, Q) = Keep(t, R)}
<1>1. <<>> \in P
  BY KeepEmpty
<1>2. ASSUME NEW t \in P, NEW x \in S PROVE Append(t, x) \in P
  <2>1. t \in Seq(S) /\ Append(t, x) \in Seq(S)
    OBVIOUS
  <2>2. ASSUME ToSet(Append(t, x)) \cap Q = ToSet(Append(t, x)) \cap R
        PROVE  Keep(Append(t, x), Q) = Keep(Append(t, x), R)
    <3>1. ToSet(Append(t, x)) = ToSet(t) \cup {x}
      BY <2>1, ToSetAppend
    <3>2. ToSet(t) \cap Q = ToSet(t) \cap R /\ (x \in Q <=> x \in R)
      BY <2>2, <3>1
    <3>3. Keep(t, Q) = Keep(t, R)
      BY <3>2
    <3>4. /\ Keep(Append(t, x), Q) = IF x \in Q THEN Append(Keep(t, Q), x) ELSE Keep(t, Q)
          /\ Keep(Append(t, x), R) = IF x \in R THEN Append(Keep(t, R), x) ELSE Keep(t, R)
      BY <2>1, KeepAppend
    <3> QED  BY <3>2, <3>3, <3>4
  <2> QED  BY <2>1, <2>2
<1>3. P = Seq(S)
  <2> HIDE DEF P
  <2>1. P \in SUBSET Seq(S)  BY DEF P
  <2> QED  BY <1>1, <1>2, <2>1, SeqSetInduction
<1> QED  BY <1>3

(* Keeping twice is keeping what both sets have.                           *)
LEMMA KeepKeep ==
    ASSUME NEW S, NEW Q, NEW R, NEW s \in Seq(S)
    PROVE  Keep(Keep(s, Q), R) = Keep(s, Q \cap R)
<1> DEFINE P == {t \in Seq(S) : Keep(Keep(t, Q), R) = Keep(t, Q \cap R)}
<1>1. <<>> \in P
  BY KeepEmpty
<1>2. ASSUME NEW t \in P, NEW x \in S PROVE Append(t, x) \in P
  <2> DEFINE k == Keep(t, Q)
  <2>1. t \in Seq(S) /\ Append(t, x) \in Seq(S) /\ Keep(k, R) = Keep(t, Q \cap R)
    OBVIOUS
  <2>2. k \in Seq(S)
    BY <2>1, KeepElements
  <2>3. Keep(Append(t, x), Q) = IF x \in Q THEN Append(k, x) ELSE k
    BY <2>1, KeepAppend
  <2>4. Keep(Append(t, x), Q \cap R) =
          IF x \in Q \cap R THEN Append(Keep(t, Q \cap R), x) ELSE Keep(t, Q \cap R)
    BY <2>1, KeepAppend
  <2> HIDE DEF k, P
  <2>5. Keep(Append(k, x), R) = IF x \in R THEN Append(Keep(k, R), x) ELSE Keep(k, R)
    BY <2>2, KeepAppend
  <2>6. Keep(Keep(Append(t, x), Q), R) = Keep(Append(t, x), Q \cap R)
    <3>1. CASE x \in Q
      <4>1. Keep(Keep(Append(t, x), Q), R) = Keep(Append(k, x), R)
        BY <2>3, <3>1
      <4> QED  BY <2>1, <2>4, <2>5, <3>1, <4>1
    <3>2. CASE x \notin Q
      BY <2>1, <2>3, <2>4, <3>2
    <3> QED  BY <3>1, <3>2
  <2> QED  BY <2>1, <2>6 DEF P
<1>3. P = Seq(S)
  <2> HIDE DEF P
  <2>1. P \in SUBSET Seq(S)  BY DEF P
  <2> QED  BY <1>1, <1>2, <2>1, SeqSetInduction
<1> QED  BY <1>3

(* Keep goes through a concatenation.                                      *)
LEMMA KeepConcat ==
    ASSUME NEW S, NEW R, NEW s \in Seq(S), NEW u \in Seq(S)
    PROVE  Keep(s \o u, R) = Keep(s, R) \o Keep(u, R)
<1> DEFINE P == {t \in Seq(S) : Keep(s \o t, R) = Keep(s, R) \o Keep(t, R)}
<1>0. Keep(s, R) \in Seq(S)
  BY KeepElements
<1>a. \A w \in Seq(S), x \in S :
         Keep(Append(w, x), R) = IF x \in R THEN Append(Keep(w, R), x) ELSE Keep(w, R)
  BY KeepAppend
<1>1. <<>> \in P
  <2>1. s \o <<>> = s /\ <<>> \in Seq(S)
    OBVIOUS
  <2>2. Keep(s, R) \o <<>> = Keep(s, R)
    BY <1>0
  <2> QED  BY <2>1, <2>2, KeepEmpty
<1>2. ASSUME NEW t \in P, NEW x \in S PROVE Append(t, x) \in P
  <2> DEFINE c == s \o t
  <2>1. /\ t \in Seq(S) /\ Append(t, x) \in Seq(S) /\ c \in Seq(S)
        /\ Keep(c, R) = Keep(s, R) \o Keep(t, R)
    OBVIOUS
  <2>2. Keep(t, R) \in Seq(S)
    BY <2>1, KeepElements
  <2>3. s \o Append(t, x) = Append(c, x)
    BY <2>1, ConcatAppend
  <2> HIDE DEF P, c
  <2>4. Keep(s, R) \o Append(Keep(t, R), x) = Append(Keep(s, R) \o Keep(t, R), x)
    BY <1>0, <2>2, ConcatAppend
  <2>5. Keep(Append(t, x), R) = IF x \in R THEN Append(Keep(t, R), x) ELSE Keep(t, R)
    BY <1>a, <2>1, Zenon
  <2>6. Keep(Append(c, x), R) = IF x \in R THEN Append(Keep(c, R), x) ELSE Keep(c, R)
    BY <1>a, <2>1, Zenon
  <2>7. Keep(s \o Append(t, x), R) = Keep(s, R) \o Keep(Append(t, x), R)
    <3>1. CASE x \in R
      BY <2>1, <2>3, <2>4, <2>5, <2>6, <3>1, Zenon
    <3>2. CASE x \notin R
      BY <2>1, <2>3, <2>5, <2>6, <3>2, Zenon
    <3> QED  BY <3>1, <3>2
  <2> QED  BY <2>1, <2>7 DEF P
<1>3. P = Seq(S)
  <2> HIDE DEF P
  <2>1. P \in SUBSET Seq(S)  BY DEF P
  <2> QED  BY <1>1, <1>2, <2>1, SeqSetInduction
<1> QED  BY <1>3

(* Nothing is kept when no element is in R.                                *)
LEMMA KeepNone ==
    ASSUME NEW S, NEW R, NEW s \in Seq(S), ToSet(s) \cap R = {}
    PROVE  Keep(s, R) = <<>>
<1>1. Keep(s, R) \in Seq(S) /\ ToSet(Keep(s, R)) = {}
  BY KeepElements
<1> QED  BY <1>1 DEF ToSet

(* A sequence that starts with c and goes on with b is their               *)
(* concatenation.                                                          *)
LEMMA Joined ==
    ASSUME NEW S, NEW s \in Seq(S), NEW c \in Seq(S), NEW b \in Seq(S),
           Len(s) = Len(c) + Len(b),
           \A i \in 1..Len(c) : c[i] = s[i],
           \A i \in 1..Len(b) : b[i] = s[Len(c) + i]
    PROVE  s = c \o b
<1>1. c \o b \in Seq(S) /\ Len(c \o b) = Len(s) /\ Len(c) \in Nat /\ Len(b) \in Nat
  OBVIOUS
<1>2. ASSUME NEW i \in 1..Len(s) PROVE (c \o b)[i] = s[i]
  <2>1. CASE i <= Len(c)
    BY <1>1, <2>1
  <2>2. CASE ~(i <= Len(c))
    <3>1. i - Len(c) \in 1..Len(b) /\ Len(c) + (i - Len(c)) = i
      BY <1>1, <2>2
    <3>2. (c \o b)[i] = b[i - Len(c)]
      BY <1>1, <2>2
    <3> QED  BY <3>1, <3>2
  <2> QED  BY <2>1, <2>2
<1> QED  BY <1>1, <1>2

(* The first element in R is the head of what is kept, and keeping the     *)
(* others gives the tail: erasing the first match from the deque takes the *)
(* newest notification off the stack.                                      *)
LEMMA KeepFirst ==
    ASSUME NEW S, NEW R, NEW s \in Seq(S), IsInjective(s),
           NEW k \in 1..Len(s), s[k] \in R, \A i \in 1..k - 1 : s[i] \notin R
    PROVE  /\ Keep(s, R) # <<>> /\ Head(Keep(s, R)) = s[k]
           /\ Keep(s, R \ {s[k]}) = Tail(Keep(s, R))
<1> DEFINE x == s[k]  a == SubSeq(s, 1, k - 1)  b == SubSeq(s, k + 1, Len(s))
           c == Append(a, x)  kb == Keep(b, R)
<1>1. /\ a \in Seq(S) /\ Len(a) = k - 1 /\ (\A i \in 1..k - 1 : a[i] = s[i])
      /\ b \in Seq(S) /\ Len(b) = Len(s) - k
      /\ (\A i \in 1..Len(s) - k : b[i] = s[k + i]) /\ x \in S
  OBVIOUS
<1> HIDE DEF a, b, x
<1>2. c \in Seq(S) /\ Len(c) = k /\ (\A i \in 1..k - 1 : c[i] = s[i]) /\ c[k] = x
  BY <1>1
<1> HIDE DEF c
<1>3. s = c \o b
  <2>1. Len(s) = Len(c) + Len(b) /\ Len(s) \in Nat
    BY <1>1, <1>2
  <2>2. \A i \in 1..Len(c) : c[i] = s[i]
    BY <1>2 DEF x
  <2>3. \A i \in 1..Len(b) : b[i] = s[Len(c) + i]
    BY <1>1, <1>2
  <2>4. c \in Seq(S) /\ b \in Seq(S)
    BY <1>1, <1>2
  <2> QED  BY <2>1, <2>2, <2>3, <2>4, Joined
<1>4. ToSet(a) \cap R = {} /\ ToSet(a) \cap (R \ {x}) = {}
  <2>1. ASSUME NEW y \in ToSet(a) PROVE y \notin R
    <3>1. PICK i \in 1..Len(a) : a[i] = y
      BY <1>1, ToSetSeq
    <3>2. i \in 1..k - 1
      BY <1>1, <3>1
    <3> QED  BY <1>1, <3>1, <3>2
  <2> QED  BY <2>1
<1>5. Keep(a, R) = <<>> /\ Keep(a, R \ {x}) = <<>>
  BY <1>1, <1>4, KeepNone
<1>6. Keep(c, R) = <<x>> /\ Keep(c, R \ {x}) = <<>>
  <2>1. Keep(c, R) = IF x \in R THEN Append(Keep(a, R), x) ELSE Keep(a, R)
    BY <1>1, KeepAppend DEF c
  <2>2. Keep(c, R \ {x}) = IF x \in R \ {x} THEN Append(Keep(a, R \ {x}), x) ELSE Keep(a, R \ {x})
    BY <1>1, KeepAppend DEF c
  <2> QED  BY <1>5, <2>1, <2>2 DEF x
<1>7. x \notin ToSet(b)
  <2> SUFFICES ASSUME NEW i \in 1..Len(s) - k, b[i] = x PROVE FALSE
    BY <1>1 DEF ToSet
  <2>1. k + i \in DOMAIN s /\ k \in DOMAIN s /\ s[k + i] = s[k] /\ k + i # k
    BY <1>1 DEF x
  <2> QED  BY <2>1 DEF IsInjective
<1>8. Keep(b, R \ {x}) = kb
  <2>1. ToSet(b) \cap (R \ {x}) = ToSet(b) \cap R
    BY <1>7
  <2> QED  BY <1>1, <2>1, KeepSame
<1>9. kb \in Seq(S)
  BY <1>1, KeepElements
<1>9b. c \in Seq(S) /\ b \in Seq(S)
  BY <1>1, <1>2
<1>10. Keep(c \o b, R) = <<x>> \o kb
  <2>1. Keep(c \o b, R) = Keep(c, R) \o Keep(b, R)
    BY <1>9b, KeepConcat, ZenonT(60)
  <2> QED  BY <1>6, <2>1
<1>11. Keep(c \o b, R \ {x}) = <<>> \o kb
  <2>1. Keep(c \o b, R \ {x}) = Keep(c, R \ {x}) \o Keep(b, R \ {x})
    BY <1>9b, KeepConcat, ZenonT(60)
  <2> QED  BY <1>6, <1>8, <2>1
<1> HIDE DEF kb
<1>12. <<>> \o kb = kb /\ Len(<<x>> \o kb) # 0 /\ Head(<<x>> \o kb) = x
       /\ Tail(<<x>> \o kb) = kb
  BY <1>1, <1>9
<1>13. <<x>> \o kb # <<>>
  BY <1>12
<1>14. Keep(s, R) = <<x>> \o kb /\ Keep(s, R \ {x}) = kb
  BY <1>3, <1>10, <1>11, <1>12
<1> QED  BY <1>12, <1>13, <1>14 DEF x

-----------------------------------------------------------------------------
(* find_msg_with_id returns the position of the first match, or 0 when     *)
(* there is none.                                                          *)
LEMMA FindFirst ==
    ASSUME NEW q \in Seq(Messages), NEW id
    PROVE  LET k == find_msg_with_id(q, id) IN
           /\ k \in 0..Len(q)
           /\ k = 0 => \A i \in 1..Len(q) : ~Matches(q[i], id)
           /\ k # 0 => Matches(q[k], id) /\ \A i \in 1..k - 1 : ~Matches(q[i], id)
<1> DEFINE I == {i \in 1..Len(q) : Matches(q[i], id)}
           k == find_msg_with_id(q, id)
<1>1. k = IF I # {} THEN Min(I) ELSE 0
  BY DEF find_msg_with_id, SelectInSeq
<1>2. I \subseteq 1..Len(q) /\ Len(q) \in Nat
  OBVIOUS
<1>3. CASE I = {}
  BY <1>1, <1>3
<1>4. CASE I # {}
  <2>1. I \in SUBSET Nat
    BY <1>2
  <2> HIDE DEF I
  <2>2. \E x \in I : \A y \in I : x <= y
    BY <1>4, <2>1, NatMin
  <2>3. k \in I /\ \A y \in I : k <= y
    BY <1>1, <1>4, <2>2 DEF Min
  <2>4. k \in 1..Len(q) /\ Matches(q[k], id)
    BY <2>3 DEF I
  <2>5. ASSUME NEW i \in 1..k - 1 PROVE ~Matches(q[i], id)
    BY <1>2, <2>3, <2>4 DEF I
  <2> QED  BY <2>4, <2>5
<1> QED  BY <1>3, <1>4

(* The loop of pop_reply_bulk ends at the first id without a match, and    *)
(* has taken the first match of every id before it.                        *)
LEMMA TakenIs ==
    ASSUME NEW q \in Seq(Messages), NEW ids \in Seq(Int)
    PROVE  \E n \in 0..Len(ids) :
             /\ \A i \in 1..n : find_msg_with_id(q, ids[i]) # 0
             /\ n < Len(ids) => find_msg_with_id(q, ids[n + 1]) = 0
             /\ Taken(q, ids) = [i \in 1..n |-> q[find_msg_with_id(q, ids[i])]]
<1> DEFINE There(i) == find_msg_with_id(q, ids[i]) # 0
           Stop(n) == (\A i \in 1..n : There(i)) /\ (n < Len(ids) => ~There(n + 1))
           N == CHOOSE n \in 0..Len(ids) : Stop(n)
           C == {n \in Nat : n < Len(ids) => ~There(n + 1)}
<1>1. Taken(q, ids) = [i \in 1..N |-> q[find_msg_with_id(q, ids[i])]]
  BY DEF Taken
<1>2. \E n \in 0..Len(ids) : Stop(n)
  <2>1. Len(ids) \in C /\ C \in SUBSET Nat /\ Len(ids) \in Nat
    OBVIOUS
  <2>2. C # {}
    BY <2>1
  <2>3. PICK n \in C : \A y \in C : n <= y
    <3> HIDE DEF C
    <3> QED  BY <2>1, <2>2, NatMin
  <2> HIDE DEF There
  <2>4. n \in 0..Len(ids)
    BY <2>1, <2>3
  <2>5. ASSUME NEW i \in 1..n PROVE There(i)
    <3>1. i - 1 \in Nat /\ ~(i - 1 \in C) /\ (i - 1) + 1 = i
      BY <2>1, <2>3
    <3> QED  BY <3>1
  <2> QED  BY <2>3, <2>4, <2>5
<1>3. N \in 0..Len(ids) /\ Stop(N)
  <2> HIDE DEF Stop
  <2> QED  BY <1>2
<1> QED  BY <1>1, <1>3

-----------------------------------------------------------------------------
(* The types of the variables of InputQueue.                               *)
QueueTypeOK ==
    /\ queue_ \in Seq(Messages)
    /\ want \in [Poppers -> Wants]
    /\ pc \in [Poppers -> {"idle", "check", "asleep", "expired", "returned"}]
    /\ ret \in [Poppers -> Seq(Messages)]
    /\ pushed \in SUBSET Messages
    /\ waiting \in SUBSET Poppers

(* The inductive invariant behind Accounted: a popper holds messages only  *)
(* between its return and the end of its use of them, only a call with a   *)
(* timeout expires, and a thread in the wait set is asleep.                *)
QueueInv ==
    /\ QueueTypeOK
    /\ \A t \in Poppers : pc[t] # "returned" => ret[t] = <<>>
    /\ \A t \in Poppers : pc[t] = "expired" => want[t].timed
    /\ \A t \in waiting : pc[t] = "asleep"
    /\ Accounted

(* push adds its message at the front and, if it is new, leaves no message *)
(* in the deque twice.                                                     *)
LEMMA PushIs ==
    ASSUME NEW S, NEW m \in S, NEW q \in Seq(S)
    PROVE  /\ <<m>> \o q \in Seq(S)
           /\ ToSet(<<m>> \o q) = ToSet(q) \cup {m}
           /\ IsInjective(q) /\ m \notin ToSet(q) => IsInjective(<<m>> \o q)
<1> DEFINE r == <<m>> \o q  n == Len(q)
<1>1. r \in Seq(S) /\ n \in Nat /\ DOMAIN q = 1..n /\ DOMAIN r = 1..n + 1
      /\ r[1] = m /\ \A i \in 1..n : r[i + 1] = q[i]
  OBVIOUS
<1> HIDE DEF r
<1>2. ASSUME NEW j \in 1..n + 1, j # 1 PROVE j - 1 \in 1..n /\ r[j] = q[j - 1]
  <2>1. j - 1 \in 1..n /\ (j - 1) + 1 = j
    BY <1>1, <1>2
  <2> QED  BY <1>1, <2>1
<1>3. ToSet(r) = ToSet(q) \cup {m}
  <2>1. ASSUME NEW x \in ToSet(r) PROVE x \in ToSet(q) \cup {m}
    BY <1>1, <1>2 DEF ToSet
  <2>2. m \in ToSet(r)
    BY <1>1 DEF ToSet
  <2>3. ASSUME NEW x \in ToSet(q) PROVE x \in ToSet(r)
    <3>1. PICK i \in 1..n : x = q[i]
      BY <1>1 DEF ToSet
    <3>2. i + 1 \in 1..n + 1 /\ r[i + 1] = x
      BY <1>1, <3>1
    <3> QED  BY <1>1, <3>2 DEF ToSet
  <2> QED  BY <2>1, <2>2, <2>3
<1>4. ASSUME IsInjective(q), m \notin ToSet(q) PROVE IsInjective(r)
  <2> SUFFICES ASSUME NEW i \in 1..n + 1, NEW j \in 1..n + 1, r[i] = r[j] PROVE i = j
    BY <1>1 DEF IsInjective
  <2>1. ASSUME NEW k \in 1..n + 1, k # 1 PROVE r[k] # m
    BY <1>1, <1>2, <1>4, <2>1 DEF ToSet
  <2>2. CASE i = 1 \/ j = 1
    BY <1>1, <2>1, <2>2
  <2>3. CASE i # 1 /\ j # 1
    <3>1. q[i - 1] = q[j - 1] /\ i - 1 \in DOMAIN q /\ j - 1 \in DOMAIN q
      BY <1>1, <1>2, <2>3
    <3>2. i - 1 = j - 1
      BY <1>4, <3>1 DEF IsInjective
    <3> QED  BY <3>2
  <2> QED  BY <2>2, <2>3
<1> QED  BY <1>1, <1>3, <1>4 DEF r

(* A call without an id waits for a notification and has no timeout; the   *)
(* ids of the others are naturals.                                         *)
LEMMA WantIds ==
    ASSUME NEW w \in Wants
    PROVE  /\ w.ids \in Seq(Int)
           /\ w.ids # <<-1>> => w.ids \in Seq(Nat) /\ IsInjective(w.ids)
           /\ w.timed \in BOOLEAN
           /\ w.timed => w.ids # <<-1>>
<1>1. CASE w.ids = <<-1>> /\ w.timed = FALSE
  <2>1. <<-1>> \in Seq(Int)
    OBVIOUS
  <2> QED  BY <1>1, <2>1
<1>2. CASE w.ids \in Seq(Nat) /\ IsInjective(w.ids) /\ w.timed \in BOOLEAN
  <2>1. <<-1>> \notin Seq(Nat)
    <3>1. <<-1>>[1] = -1 /\ 1 \in DOMAIN <<-1>>
      OBVIOUS
    <3> QED  BY <3>1
  <2>2. w.ids \in Seq(Int)
    BY <1>2
  <2> QED  BY <1>2, <2>1, <2>2
<1> QED  BY <1>1, <1>2, QueueAssumption DEF QueueAssumption

(* What a call returns comes from the deque.                               *)
LEMMA TakenFromQueue ==
    ASSUME NEW q \in Seq(Messages), NEW ids \in Seq(Int)
    PROVE  /\ Taken(q, ids) \in Seq(Messages)
           /\ ToSet(Taken(q, ids)) \subseteq ToSet(q)
<1>1. PICK n \in 0..Len(ids) :
             /\ \A i \in 1..n : find_msg_with_id(q, ids[i]) # 0
             /\ Taken(q, ids) = [i \in 1..n |-> q[find_msg_with_id(q, ids[i])]]
  BY TakenIs
<1>2. ASSUME NEW i \in 1..n
      PROVE  /\ q[find_msg_with_id(q, ids[i])] \in ToSet(q)
             /\ q[find_msg_with_id(q, ids[i])] \in Messages
  <2>1. find_msg_with_id(q, ids[i]) \in 0..Len(q)
    BY FindFirst
  <2>2. find_msg_with_id(q, ids[i]) \in 1..Len(q)
    BY <1>1, <2>1
  <2> QED  BY <2>2 DEF ToSet
<1> QED  BY <1>1, <1>2 DEF ToSet

(* The erases of a call leave exactly the messages it did not take.        *)
LEMMA LeftIs ==
    ASSUME NEW q \in Seq(Messages), IsInjective(q), NEW taken
    PROVE  /\ Left(q, taken) \in Seq(Messages)
           /\ ToSet(Left(q, taken)) = ToSet(q) \ ToSet(taken)
           /\ IsInjective(Left(q, taken))
<1> DEFINE R == ToSet(q) \ ToSet(taken)
<1>1. Keep(q, R) \in Seq(Messages) /\ ToSet(Keep(q, R)) = ToSet(q) \cap R
  BY KeepElements
<1>2. IsInjective(Keep(q, R))
  BY KeepInjective
<1> QED  BY <1>1, <1>2 DEF Left

(* A call that returns moves its messages from the deque to its caller.    *)
LEMMA ReturnEffect ==
    ASSUME QueueInv, NEW t \in Poppers, Return(t), pc[t] # "returned"
    PROVE  /\ ret' = [ret EXCEPT ![t] = Taken(queue_, want[t].ids)]
           /\ ret'[t] \in Seq(Messages) /\ ToSet(ret'[t]) \subseteq ToSet(queue_)
           /\ queue_' \in Seq(Messages) /\ IsInjective(queue_')
           /\ ToSet(queue_') = ToSet(queue_) \ ToSet(ret'[t])
<1>1. queue_ \in Seq(Messages) /\ IsInjective(queue_) /\ want[t] \in Wants
      /\ ret \in [Poppers -> Seq(Messages)]
  BY DEF QueueInv, QueueTypeOK, Accounted
<1>2. want[t].ids \in Seq(Int)
  BY <1>1, WantIds
<1>3. ret' = [ret EXCEPT ![t] = Taken(queue_, want[t].ids)] /\ queue_' = Left(queue_, ret'[t])
  BY DEF Return
<1>4. ret'[t] = Taken(queue_, want[t].ids)
  BY <1>1, <1>3
<1>5. ret'[t] \in Seq(Messages) /\ ToSet(ret'[t]) \subseteq ToSet(queue_)
  BY <1>1, <1>2, <1>4, TakenFromQueue
<1> QED  BY <1>1, <1>3, <1>5, LeftIs

(* The invariant holds of a new queue.                                     *)
LEMMA InvInit == Init => QueueInv
<1> SUFFICES ASSUME Init PROVE QueueInv  OBVIOUS
<1>1. QueueTypeOK
  BY DEF Init, QueueTypeOK
<1>2. ToSet(<<>>) = {} /\ IsInjective(<<>>)
  BY DEF ToSet, IsInjective
<1>3. Accounted
  BY <1>2 DEF Init, Accounted
<1> QED  BY <1>1, <1>3 DEF Init, QueueInv

(* The critical section of a call that returns keeps the invariant.        *)
LEMMA InvReturn ==
    ASSUME QueueInv, NEW t \in Poppers, Return(t), pc[t] # "returned",
           UNCHANGED <<want, pushed, handled, waiting>>, t \notin waiting
    PROVE  QueueInv'
<1>1. /\ QueueTypeOK /\ Accounted /\ ret[t] = <<>>
  BY DEF QueueInv
<1>2. /\ ret' = [ret EXCEPT ![t] = Taken(queue_, want[t].ids)]
      /\ ret'[t] \in Seq(Messages) /\ ToSet(ret'[t]) \subseteq ToSet(queue_)
      /\ queue_' \in Seq(Messages) /\ IsInjective(queue_')
      /\ ToSet(queue_') = ToSet(queue_) \ ToSet(ret'[t])
  BY ReturnEffect
<1>3. /\ ret' \in [Poppers -> Seq(Messages)]
      /\ \A u \in Poppers : u # t => ret'[u] = ret[u]
  BY <1>1, <1>2 DEF QueueTypeOK
<1>4. pc' = [pc EXCEPT ![t] = "returned"]
  BY DEF Return
<1>5. QueueTypeOK'
  BY <1>1, <1>2, <1>3, <1>4 DEF QueueTypeOK
<1>6. Accounted'
  <2>1. ToSet(ret[t]) = {}
    BY <1>1 DEF ToSet
  <2>2. UNION {ToSet(ret'[u]) : u \in Poppers}
          = (UNION {ToSet(ret[u]) : u \in Poppers}) \cup ToSet(ret'[t])
    BY <1>3, <2>1
  <2>3. pushed' = ToSet(queue_') \cup handled' \cup UNION {ToSet(ret'[u]) : u \in Poppers}
    BY <1>1, <1>2, <2>2 DEF Accounted
  <2>4. handled' \cap ToSet(queue_') = {}
    BY <1>1, <1>2 DEF Accounted
  <2>5. ASSUME NEW u \in Poppers
        PROVE  ToSet(ret'[u]) \cap (ToSet(queue_') \cup handled') = {}
    BY <1>1, <1>2, <1>3 DEF Accounted
  <2>6. ASSUME NEW u \in Poppers, NEW v \in Poppers, u # v
        PROVE  ToSet(ret'[u]) \cap ToSet(ret'[v]) = {}
    BY <1>1, <1>2, <1>3, <2>6 DEF Accounted
  <2> QED  BY <1>2, <2>3, <2>4, <2>5, <2>6 DEF Accounted
<1> QED  BY <1>1, <1>3, <1>4, <1>5, <1>6 DEF QueueInv, QueueTypeOK

(* Every step of every thread keeps the invariant.                         *)
LEMMA InvNext == QueueInv /\ [Next]_vars => QueueInv'
<1> SUFFICES ASSUME QueueInv, [Next]_vars PROVE QueueInv'  OBVIOUS
<1>0. QueueTypeOK /\ Accounted
  BY DEF QueueInv
<1>1. ASSUME NEW t \in Poppers, Call(t) PROVE QueueInv'
  BY <1>1 DEF Call, QueueInv, QueueTypeOK, Accounted
<1>2. ASSUME NEW t \in Poppers, Check(t) PROVE QueueInv'
  <2>1. CASE contains_msg_with_id_bulk(queue_, want[t].ids)
    <3>1. Return(t) /\ pc[t] = "check" /\ UNCHANGED <<want, pushed, handled, waiting>>
      BY <1>2, <2>1 DEF Check
    <3>2. t \notin waiting
      BY <3>1 DEF QueueInv
    <3> QED  BY <3>1, <3>2, InvReturn
  <2>2. CASE ~contains_msg_with_id_bulk(queue_, want[t].ids)
    BY <1>2, <2>2 DEF Check, QueueInv, QueueTypeOK, Accounted
  <2> QED  BY <2>1, <2>2
<1>3. ASSUME NEW t \in Poppers, Expire(t) PROVE QueueInv'
  BY <1>3 DEF Expire, QueueInv, QueueTypeOK, Accounted
<1>4. ASSUME NEW t \in Poppers, ReturnExpired(t) PROVE QueueInv'
  <2>1. Return(t) /\ pc[t] = "expired" /\ UNCHANGED <<want, pushed, handled, waiting>>
    BY <1>4 DEF ReturnExpired
  <2>2. t \notin waiting
    BY <2>1 DEF QueueInv
  <2> QED  BY <2>1, <2>2, InvReturn
<1>5. ASSUME NEW t \in Poppers, SpuriousWakeup(t) PROVE QueueInv'
  BY <1>5 DEF SpuriousWakeup, QueueInv, QueueTypeOK, Accounted
<1>6. ASSUME NEW t \in Poppers, Done(t) PROVE QueueInv'
  <2>1. QueueTypeOK'
    BY <1>0, <1>6 DEF Done, QueueTypeOK
  <2>2. ret'[t] = <<>> /\ \A u \in Poppers : u # t => ret'[u] = ret[u]
    BY <1>0, <1>6 DEF Done, QueueTypeOK
  <2>3. ToSet(ret'[t]) = {}
    BY <2>2 DEF ToSet
  <2>4. /\ handled' = handled \cup ToSet(ret[t]) /\ queue_' = queue_ /\ pushed' = pushed
    BY <1>6 DEF Done
  <2>5. Accounted'
    <3>1. UNION {ToSet(ret[u]) : u \in Poppers}
            = (UNION {ToSet(ret'[u]) : u \in Poppers}) \cup ToSet(ret[t])
      BY <2>2, <2>3
    <3>2. pushed' = ToSet(queue_') \cup handled' \cup UNION {ToSet(ret'[u]) : u \in Poppers}
      BY <1>0, <2>4, <3>1 DEF Accounted
    <3>3. IsInjective(queue_') /\ handled' \cap ToSet(queue_') = {}
      BY <1>0, <2>4 DEF Accounted
    <3>4. ASSUME NEW u \in Poppers
          PROVE  ToSet(ret'[u]) \cap (ToSet(queue_') \cup handled') = {}
      BY <1>0, <2>2, <2>3, <2>4 DEF Accounted
    <3>5. ASSUME NEW u \in Poppers, NEW v \in Poppers, u # v
          PROVE  ToSet(ret'[u]) \cap ToSet(ret'[v]) = {}
      BY <1>0, <2>2, <2>3, <3>5 DEF Accounted
    <3> QED  BY <3>2, <3>3, <3>4, <3>5 DEF Accounted
  <2> QED  BY <1>6, <2>1, <2>2, <2>5 DEF Done, QueueInv, QueueTypeOK
<1>7. ASSUME NEW p \in Pushers, notify_all(p) PROVE QueueInv'
  BY <1>7 DEF notify_all, QueueInv, QueueTypeOK, Accounted
<1>8. ASSUME NEW p \in Pushers, NEW m \in Messages, push(p, m) PROVE QueueInv'
  <2>1. queue_' = <<m>> \o queue_ /\ pushed' = pushed \cup {m} /\ m \notin pushed
        /\ UNCHANGED <<waiting, want, pc, ret, handled>>
    BY <1>8 DEF push
  <2>2. queue_ \in Seq(Messages) /\ IsInjective(queue_)
        /\ m \notin ToSet(queue_)
    BY <1>0, <2>1 DEF QueueTypeOK, Accounted
  <2>3. queue_' \in Seq(Messages) /\ ToSet(queue_') = ToSet(queue_) \cup {m}
        /\ IsInjective(queue_')
    BY <2>1, <2>2, PushIs
  <2>4. QueueTypeOK'
    BY <1>0, <2>1, <2>3 DEF QueueTypeOK
  <2>5. Accounted'
    <3>1. pushed' = ToSet(queue_') \cup handled' \cup UNION {ToSet(ret'[u]) : u \in Poppers}
      BY <1>0, <2>1, <2>3 DEF Accounted
    <3>2. m \notin handled /\ \A u \in Poppers : m \notin ToSet(ret[u])
      BY <1>0, <2>1 DEF Accounted
    <3>3. handled' \cap ToSet(queue_') = {}
      BY <1>0, <2>1, <2>3, <3>2 DEF Accounted
    <3>4. ASSUME NEW u \in Poppers
          PROVE  ToSet(ret'[u]) \cap (ToSet(queue_') \cup handled') = {}
      BY <1>0, <2>1, <2>3, <3>2 DEF Accounted
    <3>5. ASSUME NEW u \in Poppers, NEW v \in Poppers, u # v
          PROVE  ToSet(ret'[u]) \cap ToSet(ret'[v]) = {}
      BY <1>0, <2>1, <3>5 DEF Accounted
    <3> QED  BY <2>3, <3>1, <3>3, <3>4, <3>5 DEF Accounted
  <2> QED  BY <2>1, <2>4, <2>5 DEF QueueInv
<1>9. CASE UNCHANGED vars
  BY <1>9 DEF vars, QueueInv, QueueTypeOK, Accounted
<1> QED
  BY <1>1, <1>2, <1>3, <1>4, <1>5, <1>6, <1>7, <1>8, <1>9 DEF Next, PopperStep

-----------------------------------------------------------------------------
(* The two parts of the box: the messages with a correlation id and the    *)
(* ones without.                                                           *)
Replies(q) == {m \in ToSet(q) : m.has_correlation_id}
EventMessages == {m \in Messages : ~m.has_correlation_id}

(* A call that returns was pending.                                        *)
LEMMA ReturnState ==
    ASSUME QueueInv, NEW t \in Poppers, Return(t), pc[t] \in {"check", "expired"}
    PROVE  /\ State[t] = "pending"
           /\ State' = [State EXCEPT ![t] = "returned"]
<1>1. pc \in [Poppers -> {"idle", "check", "asleep", "expired", "returned"}]
      /\ pc' = [pc EXCEPT ![t] = "returned"]
  BY DEF QueueInv, QueueTypeOK, Return
<1> QED  BY <1>1 DEF State

(* A call without an id returns the first message of the deque that has    *)
(* none, and erases it.                                                    *)
LEMMA EventTaken ==
    ASSUME QueueInv, NEW t \in Poppers, Return(t),
           contains_msg_with_id_bulk(queue_, want[t].ids), want[t].ids = <<-1>>
    PROVE  \E k \in 1..Len(queue_) :
             /\ queue_[k] \in EventMessages
             /\ \A i \in 1..k - 1 : queue_[i] \notin EventMessages
             /\ ret' = [ret EXCEPT ![t] = <<queue_[k]>>] /\ ret'[t] = <<queue_[k]>>
             /\ queue_' = Left(queue_, <<queue_[k]>>)
<1> DEFINE k == find_msg_with_id(queue_, -1)  m == queue_[k]
<1>1. queue_ \in Seq(Messages) /\ IsInjective(queue_) /\ ret \in [Poppers -> Seq(Messages)]
  BY DEF QueueInv, QueueTypeOK, Accounted
<1>2. k # 0
  <2>1. 1 \in DOMAIN want[t].ids /\ want[t].ids[1] = -1
    OBVIOUS
  <2> QED  BY <2>1 DEF contains_msg_with_id_bulk
<1>3. k \in 1..Len(queue_) /\ Matches(m, -1) /\ \A i \in 1..k - 1 : ~Matches(queue_[i], -1)
  <2>1. k \in 0..Len(queue_) /\ (k # 0 => Matches(m, -1) /\ \A i \in 1..k - 1 : ~Matches(queue_[i], -1))
    BY <1>1, FindFirst
  <2> QED  BY <1>2, <2>1
<1>4. m \in EventMessages /\ \A i \in 1..k - 1 : queue_[i] \notin EventMessages
  BY <1>1, <1>3 DEF Matches, EventMessages
<1>5. Taken(queue_, <<-1>>) = <<m>>
  <2>1. <<-1>> \in Seq(Int) /\ Len(<<-1>>) = 1 /\ <<-1>>[1] = -1
    OBVIOUS
  <2>2. PICK n \in 0..1 :
             /\ n < 1 => find_msg_with_id(queue_, <<-1>>[n + 1]) = 0
             /\ Taken(queue_, <<-1>>) = [i \in 1..n |-> queue_[find_msg_with_id(queue_, <<-1>>[i])]]
    BY <1>1, <2>1, TakenIs
  <2>3. n = 1
    BY <1>2, <2>1, <2>2
  <2>4. Taken(queue_, <<-1>>) = [i \in 1..1 |-> m]
    BY <2>1, <2>2, <2>3
  <2> HIDE DEF m
  <2> QED  BY <2>4
<1> HIDE DEF k, m
<1>6. ret' = [ret EXCEPT ![t] = <<m>>] /\ ret'[t] = <<m>> /\ queue_' = Left(queue_, <<m>>)
  BY <1>1, <1>5 DEF Return
<1> QED  BY <1>3, <1>4, <1>6 DEF m

(* For ReplyBox such a return takes the newest notification.               *)
LEMMA TakesEvent ==
    ASSUME QueueInv, NEW t \in Poppers, Return(t), pc[t] = "check",
           contains_msg_with_id_bulk(queue_, want[t].ids), want[t].ids = <<-1>>,
           UNCHANGED want
    PROVE  Box!TakeEvent(t)
<1>1. queue_ \in Seq(Messages) /\ IsInjective(queue_) /\ ret \in [Poppers -> Seq(Messages)]
  BY DEF QueueInv, QueueTypeOK, Accounted
<1>2. PICK k \in 1..Len(queue_) :
             /\ queue_[k] \in EventMessages
             /\ \A i \in 1..k - 1 : queue_[i] \notin EventMessages
             /\ ret' = [ret EXCEPT ![t] = <<queue_[k]>>]
             /\ queue_' = Left(queue_, <<queue_[k]>>)
  BY EventTaken
<1> DEFINE m == queue_[k]
           A == ToSet(queue_) \ {m}
<1>4. m \in EventMessages
  BY <1>2
<1>6. ret' = [ret EXCEPT ![t] = <<m>>] /\ queue_' = Left(queue_, <<m>>)
  BY <1>2
<1> HIDE DEF m
<1>7. ToSet(<<m>>) = {m}
  BY DEF ToSet
<1>8. queue_' = Keep(queue_, A) /\ ToSet(queue_') = A
  <2>1. queue_' = Keep(queue_, A)
    BY <1>6, <1>7 DEF Left
  <2> QED  BY <1>1, <2>1, KeepElements
<1>9. /\ Keep(queue_, EventMessages) # <<>> /\ Head(Keep(queue_, EventMessages)) = m
      /\ Keep(queue_, EventMessages \ {m}) = Tail(Keep(queue_, EventMessages))
  <2>1. queue_[k] \in EventMessages
    BY <1>4 DEF m
  <2> QED  BY <1>1, <1>2, <2>1, KeepFirst DEF m
<1>10. Keep(queue_', EventMessages) = Tail(Keep(queue_, EventMessages))
  <2>1. Keep(Keep(queue_, A), EventMessages) = Keep(queue_, A \cap EventMessages)
    BY <1>1, KeepKeep
  <2>2. ToSet(queue_) \cap (A \cap EventMessages) = ToSet(queue_) \cap (EventMessages \ {m})
    OBVIOUS
  <2>3. Keep(queue_, A \cap EventMessages) = Keep(queue_, EventMessages \ {m})
    BY <1>1, <2>2, KeepSame
  <2> QED  BY <1>8, <1>9, <2>1, <2>3
<1>11. Replies(queue_') = Replies(queue_)
  BY <1>4, <1>8 DEF Replies, EventMessages
<1>12. State[t] = "pending" /\ State' = [State EXCEPT ![t] = "returned"]
  BY ReturnState
<1> QED  BY <1>6, <1>9, <1>10, <1>11, <1>12
         DEF Box!TakeEvent, Box!Return, Replies, EventMessages

(* A return with replies takes, for each id, a reply to it, and touches no *)
(* notification.                                                           *)
LEMMA TakesReplies ==
    ASSUME QueueInv, NEW t \in Poppers, Return(t), pc[t] \in {"check", "expired"},
           UNCHANGED want, NEW ids \in Seq(Nat), NEW n \in Nat, Len(ids) = n,
           Taken(queue_, want[t].ids) = [i \in 1..n |-> queue_[find_msg_with_id(queue_, ids[i])]],
           \A i \in 1..n : find_msg_with_id(queue_, ids[i]) # 0
    PROVE  Box!TakeReplies(t, ids)
<1> DEFINE msgs == Taken(queue_, want[t].ids)
           A == ToSet(queue_) \ ToSet(msgs)
<1>1. queue_ \in Seq(Messages) /\ IsInjective(queue_) /\ ret \in [Poppers -> Seq(Messages)]
  BY DEF QueueInv, QueueTypeOK, Accounted
<1>2. ASSUME NEW i \in 1..n
      PROVE  /\ msgs[i] \in Replies(queue_)
             /\ msgs[i].correlation_id = ids[i]
  <2> DEFINE k == find_msg_with_id(queue_, ids[i])
  <2>1. k \in 0..Len(queue_) /\ (k # 0 => Matches(queue_[k], ids[i]))
    BY <1>1, FindFirst
  <2>2. k \in 1..Len(queue_) /\ Matches(queue_[k], ids[i]) /\ msgs[i] = queue_[k] /\ ids[i] \in Nat
    BY <2>1
  <2>3. msgs[i] \in ToSet(queue_)
    BY <1>1, <2>2 DEF ToSet
  <2> HIDE DEF k, msgs
  <2> QED  BY <2>2, <2>3 DEF Matches, Replies
<1>3. msgs \in [DOMAIN ids -> Replies(queue_)] /\ DOMAIN ids = 1..n /\ DOMAIN msgs = 1..n
  BY <1>2
<1>4. ret' = [ret EXCEPT ![t] = msgs] /\ queue_' = Left(queue_, msgs)
  <2>1. ret' = [ret EXCEPT ![t] = msgs] /\ queue_' = Left(queue_, ret'[t])
    BY DEF Return
  <2> HIDE DEF msgs
  <2> QED  BY <1>1, <2>1
<1> HIDE DEF msgs
<1>5. queue_' = Keep(queue_, A) /\ ToSet(queue_') = A
  <2>1. queue_' = Keep(queue_, A)
    BY <1>4 DEF Left
  <2> QED  BY <1>1, <2>1, KeepElements
<1>6. Replies(queue_') = {m \in Replies(queue_) : \A i \in DOMAIN ids : m # msgs[i]}
  BY <1>3, <1>5 DEF Replies, ToSet
<1>7. Keep(queue_', EventMessages) = Keep(queue_, EventMessages)
  <2>1. Keep(Keep(queue_, A), EventMessages) = Keep(queue_, A \cap EventMessages)
    BY <1>1, KeepKeep
  <2>2. ToSet(msgs) \cap EventMessages = {}
    BY <1>2, <1>3 DEF ToSet, Replies, EventMessages
  <2>3. ToSet(queue_) \cap (A \cap EventMessages) = ToSet(queue_) \cap EventMessages
    BY <2>2
  <2>4. Keep(queue_, A \cap EventMessages) = Keep(queue_, EventMessages)
    BY <1>1, <2>3, KeepSame
  <2> QED  BY <1>5, <2>1, <2>4
<1>8. State' = [State EXCEPT ![t] = "returned"]
  BY ReturnState
<1>9. /\ \A i \in DOMAIN ids : msgs[i].correlation_id = ids[i]
      /\ Replies(queue_') = {m \in Replies(queue_) : \A i \in DOMAIN ids : m # msgs[i]}
      /\ Box!Return(t, msgs)
      /\ Keep(queue_', EventMessages) = Keep(queue_, EventMessages)
  BY <1>2, <1>3, <1>4, <1>6, <1>7, <1>8 DEF Box!Return
<1> QED  BY <1>3, <1>9 DEF Box!TakeReplies, Replies, EventMessages

(* Every return, of a call whose messages are all there or of one whose    *)
(* time is over, is a return of ReplyBox.                                  *)
LEMMA ReturnImplements ==
    ASSUME QueueInv, NEW t \in Poppers, Return(t), UNCHANGED want,
           \/ pc[t] = "check" /\ contains_msg_with_id_bulk(queue_, want[t].ids)
           \/ pc[t] = "expired"
    PROVE  Box!TakeEvent(t) \/ Box!TakeAll(t) \/ Box!TakeSome(t)
<1>0. PICK ids : ids = want[t].ids
  OBVIOUS
<1>1. queue_ \in Seq(Messages) /\ want[t] \in Wants
  BY DEF QueueInv, QueueTypeOK
<1>2. ids \in Seq(Int) /\ (ids # <<-1>> => ids \in Seq(Nat)) /\ want[t].timed \in BOOLEAN
      /\ (want[t].timed => ids # <<-1>>)
  BY <1>0, <1>1, WantIds
<1>3. pc[t] = "expired" => want[t].timed
  BY DEF QueueInv
<1>4. State[t] = "pending"
  BY ReturnState
<1>7. pc[t] \in {"check", "expired"}
  OBVIOUS
<1>5. CASE ids = <<-1>>
  <2>1. pc[t] = "check" /\ contains_msg_with_id_bulk(queue_, want[t].ids)
    BY <1>2, <1>3, <1>5
  <2> QED  BY <1>0, <1>5, <2>1, TakesEvent
<1>6. CASE ids # <<-1>>
  <2>1. ids \in Seq(Nat) /\ Len(ids) \in Nat
    BY <1>2, <1>6
  <2>2. PICK n \in 0..Len(ids) :
             /\ \A i \in 1..n : find_msg_with_id(queue_, ids[i]) # 0
             /\ n < Len(ids) => find_msg_with_id(queue_, ids[n + 1]) = 0
             /\ Taken(queue_, ids) = [i \in 1..n |-> queue_[find_msg_with_id(queue_, ids[i])]]
    BY <1>1, <1>2, TakenIs
  <2>3. CASE n = Len(ids)
    <3>0. n \in Nat /\ Len(ids) = n
      BY <2>1, <2>3
    <3>1. Box!TakeReplies(t, ids)
      BY <1>0, <1>7, <2>1, <2>2, <3>0, TakesReplies
    <3>2. Box!TakeReplies(t, want[t].ids)
      BY <1>0, <3>1 DEF Box!TakeReplies, Box!Return
    <3> QED  BY <1>0, <1>4, <1>6, <3>2 DEF Box!TakeAll
  <2>4. CASE n # Len(ids)
    <3>1. n < Len(ids) /\ n + 1 \in DOMAIN ids /\ n \in 0..Len(ids) - 1 /\ n \in Nat
      BY <2>1, <2>4
    <3>2. want[t].timed
      <4>1. ~contains_msg_with_id_bulk(queue_, ids)
        BY <2>2, <3>1 DEF contains_msg_with_id_bulk
      <4> QED  BY <1>0, <1>3, <4>1
    <3>3. ASSUME NEW m \in Replies(queue_) PROVE m.correlation_id # ids[n + 1]
      <4>1. PICK i \in 1..Len(queue_) : queue_[i] = m
        BY <1>1 DEF Replies, ToSet
      <4>2. ~Matches(m, ids[n + 1])
        BY <1>1, <2>2, <3>1, <4>1, FindFirst
      <4>3. ids[n + 1] \in Nat /\ m.has_correlation_id
        BY <2>1, <3>1 DEF Replies
      <4> QED  BY <4>2, <4>3 DEF Matches
    <3>4. Box!TakeReplies(t, SubSeq(ids, 1, n))
      <4> DEFINE some == SubSeq(ids, 1, n)
      <4>0. ids \in Seq(Nat) /\ n \in 0..Len(ids)
        BY <2>1, <3>1
      <4>1. some \in Seq(Nat) /\ Len(some) = n /\ \A i \in 1..n : some[i] = ids[i]
        BY <4>0
      <4> HIDE DEF some
      <4>2. Taken(queue_, ids) = [i \in 1..n |-> queue_[find_msg_with_id(queue_, some[i])]]
            /\ \A i \in 1..n : find_msg_with_id(queue_, some[i]) # 0
        BY <2>2, <4>1
      <4>3. Box!TakeReplies(t, some)
        BY <1>0, <1>7, <3>1, <4>1, <4>2, TakesReplies
      <4> QED  BY <4>3 DEF some
    <3>5. Box!TakeReplies(t, SubSeq(want[t].ids, 1, n))
      BY <1>0, <3>4 DEF Box!TakeReplies, Box!Return
    <3> QED  BY <1>0, <1>4, <3>1, <3>2, <3>3, <3>5 DEF Box!TakeSome, Replies
  <2> QED  BY <2>3, <2>4
<1> QED  BY <1>5, <1>6

(* Every step of the deque, its condition variable and its timeouts is a   *)
(* step of ReplyBox or changes nothing its users can see.                  *)
LEMMA StepImplements == QueueInv /\ [Next]_vars => [Box!Next]_(Box!vars)
<1> SUFFICES ASSUME QueueInv, [Next]_vars
             PROVE  Box!Next \/ UNCHANGED Box!vars
  OBVIOUS
<1>0. QueueTypeOK
  BY DEF QueueInv
<1>1. ASSUME NEW t \in Poppers, Call(t) PROVE Box!Call(t)
  <2>1. State[t] = "idle" /\ State' = [State EXCEPT ![t] = "pending"]
    BY <1>0, <1>1 DEF Call, State, QueueTypeOK
  <2> QED  BY <1>1, <2>1 DEF Call, Box!Call
<1>2. ASSUME NEW t \in Poppers, Check(t)
      PROVE  Box!TakeEvent(t) \/ Box!TakeAll(t) \/ Box!TakeSome(t) \/ UNCHANGED Box!vars
  <2>1. CASE contains_msg_with_id_bulk(queue_, want[t].ids)
    <3>1. Return(t) /\ pc[t] = "check" /\ UNCHANGED want
      BY <1>2, <2>1 DEF Check
    <3> QED  BY <2>1, <3>1, ReturnImplements
  <2>2. CASE ~contains_msg_with_id_bulk(queue_, want[t].ids)
    <3>1. State' = State
      BY <1>0, <1>2, <2>2 DEF Check, State, QueueTypeOK
    <3> QED  BY <1>2, <2>2, <3>1 DEF Check, Box!vars
  <2> QED  BY <2>1, <2>2
<1>3. ASSUME NEW t \in Poppers, Expire(t) PROVE UNCHANGED Box!vars
  <2>1. State' = State
    BY <1>0, <1>3 DEF Expire, State, QueueTypeOK
  <2> QED  BY <1>3, <2>1 DEF Expire, Box!vars
<1>4. ASSUME NEW t \in Poppers, ReturnExpired(t)
      PROVE  Box!TakeEvent(t) \/ Box!TakeAll(t) \/ Box!TakeSome(t)
  BY <1>4, ReturnImplements DEF ReturnExpired
<1>5. ASSUME NEW t \in Poppers, SpuriousWakeup(t) PROVE UNCHANGED Box!vars
  <2>1. State' = State
    BY <1>0, <1>5 DEF SpuriousWakeup, State, QueueTypeOK
  <2> QED  BY <1>5, <2>1 DEF SpuriousWakeup, Box!vars
<1>6. ASSUME NEW t \in Poppers, Done(t) PROVE Box!Done(t)
  <2>1. State[t] = "returned" /\ State' = [State EXCEPT ![t] = "idle"]
    BY <1>0, <1>6 DEF Done, State, QueueTypeOK
  <2> QED  BY <1>6, <2>1 DEF Done, Box!Done
<1>7. ASSUME NEW p \in Pushers, notify_all(p) PROVE UNCHANGED Box!vars
  <2>1. State' = State
    BY <1>0, <1>7 DEF notify_all, State, QueueTypeOK, QueueInv
  <2> QED  BY <1>7, <2>1 DEF notify_all, Box!vars
<1>8. ASSUME NEW p \in Pushers, NEW m \in Messages, push(p, m) PROVE Box!Put(m)
  <2>1. queue_ \in Seq(Messages) /\ queue_' = <<m>> \o queue_ /\ UNCHANGED <<want, pc, ret>>
        /\ State' = State
    BY <1>0, <1>8 DEF push, QueueTypeOK, State
  <2>2. ToSet(queue_') = ToSet(queue_) \cup {m}
    BY <2>1, PushIs
  <2>3. Keep(queue_', EventMessages) = Keep(<<m>>, EventMessages) \o Keep(queue_, EventMessages)
    <3>1. <<m>> \in Seq(Messages)
      OBVIOUS
    <3> QED  BY <2>1, <3>1, KeepConcat
  <2>4. Keep(<<m>>, EventMessages) = IF m \in EventMessages THEN <<m>> ELSE <<>>
    <3> DEFINE e == <<>>
    <3>1. e \in Seq(Messages) /\ <<m>> = Append(e, m) /\ Keep(e, EventMessages) = <<>>
      BY KeepEmpty
    <3> HIDE DEF e
    <3>2. Keep(Append(e, m), EventMessages) =
            IF m \in EventMessages THEN Append(Keep(e, EventMessages), m)
                                   ELSE Keep(e, EventMessages)
      BY <3>1, KeepAppend
    <3>3. Append(<<>>, m) = <<m>>
      OBVIOUS
    <3> QED  BY <3>1, <3>2, <3>3
  <2>5. Keep(queue_, EventMessages) \in Seq(Messages)
    BY <2>1, KeepElements
  <2>6. CASE m.has_correlation_id
    <3>1. Replies(queue_') = Replies(queue_) \cup {m}
      BY <2>2, <2>6 DEF Replies
    <3>2. Keep(queue_', EventMessages) = Keep(queue_, EventMessages)
      <4>1. <<>> \o Keep(queue_, EventMessages) = Keep(queue_, EventMessages)
        BY <2>5
      <4>2. m \notin EventMessages
        BY <2>6 DEF EventMessages
      <4> QED  BY <2>3, <2>4, <4>1, <4>2
    <3> QED  BY <2>1, <2>6, <3>1, <3>2 DEF Box!Put, Replies, EventMessages
  <2>7. CASE ~m.has_correlation_id
    <3>1. Replies(queue_') = Replies(queue_)
      BY <2>2, <2>7 DEF Replies
    <3>2. Keep(queue_', EventMessages) = <<m>> \o Keep(queue_, EventMessages)
      BY <2>3, <2>4, <2>7 DEF EventMessages
    <3> QED  BY <2>1, <2>7, <3>1, <3>2 DEF Box!Put, Replies, EventMessages
  <2> QED  BY <2>6, <2>7
<1>9. CASE UNCHANGED vars
  <2>1. State' = State
    BY <1>9 DEF vars, State
  <2> QED  BY <1>9, <2>1 DEF vars, Box!vars
<1> QED
  BY <1>1, <1>2, <1>3, <1>4, <1>5, <1>6, <1>7, <1>8, <1>9 DEF Next, PopperStep, Box!Next

(* A new queue is an empty box.                                            *)
LEMMA InitImplements == Init => Box!Init
<1> SUFFICES ASSUME Init PROVE Box!Init  OBVIOUS
<1>1. ToSet(<<>>) = {} /\ Keep(<<>>, {m \in Messages : ~m.has_correlation_id}) = <<>>
  BY KeepEmpty DEF ToSet
<1>2. State = [t \in Poppers |-> "idle"]
  BY DEF Init, State
<1> QED  BY <1>1, <1>2 DEF Init, Box!Init

(* No message is lost, returned twice or kept after it was returned, for   *)
(* any number of poppers and pushers on one RonghuaInputQueue, with        *)
(* timeouts and spurious wake-ups in between.                              *)
THEOREM QueueAccounts == Spec => []Accounted
<1>1. QueueInv => Accounted
  BY DEF QueueInv
<1> QED  BY <1>1, InvInit, InvNext, PTL DEF Spec

(* What RonghuaInputQueue does is what ReplyBox allows, for any threads,   *)
(* messages and calls (the safety part): replies are handed out by id,     *)
(* each once, in the order of the ids, and only a call with a timeout      *)
(* returns without all of them.                                            *)
THEOREM QueueIsReplyBox == Spec => Box!Init /\ [][Box!Next]_(Box!vars)
BY InitImplements, InvInit, InvNext, StepImplements, PTL DEF Spec

-----------------------------------------------------------------------------
(* The listener waits for notifications and, once it has returned, holds   *)
(* one.                                                                    *)
ListenerInv ==
    /\ want[Listener].ids = <<-1>>
    /\ pc[Listener] = "returned" =>
         \E m \in Messages : ret[Listener] = <<m>>

(* A step of the way from the socket to the screen is a step of            *)
(* RonghuaInputQueue or leaves it alone.                                   *)
LEMMA UpdatesQueueStep ==
    UpdatesNext \/ UNCHANGED updatesVars => [Next]_vars
<1> SUFFICES ASSUME UpdatesNext \/ UNCHANGED updatesVars PROVE Next \/ UNCHANGED vars
  OBVIOUS
<1> USE UpdatesAssumption DEF UpdatesAssumption, Next, PopperStep
<1>1. ASSUME NEW p \in Pushers, NEW m \in Messages, Receive(p, m) PROVE Next
  BY <1>1 DEF Receive
<1>2. CASE do_interrupt
  BY <1>2 DEF do_interrupt
<1>3. CASE FirstScan \/ push_balance_update
  BY <1>3 DEF FirstScan, push_balance_update
<1>4. CASE Listen \/ scan_balances
  BY <1>4 DEF Listen, scan_balances
<1>5. ASSUME NEW t \in Poppers, Request(t) PROVE Next
  BY <1>5 DEF Request
<1>6. ASSUME NEW v \in Viewers, get_balance_update(v) PROVE UNCHANGED vars
  BY <1>6 DEF get_balance_update
<1>7. CASE Inside
  BY <1>7 DEF Inside
<1>8. CASE UNCHANGED updatesVars
  BY <1>8 DEF updatesVars
<1> QED
  BY <1>1, <1>2, <1>3, <1>4, <1>5, <1>6, <1>7, <1>8 DEF UpdatesNext

(* No message of the socket, notification or reply, is lost or handed out  *)
(* twice on its way to the listener and the callers.                       *)
THEOREM UpdatesAccounted == UpdatesSpec => []Accounted
<1>1. QueueInv => Accounted
  BY DEF QueueInv
<1>2. UpdatesInit => Init
  BY DEF UpdatesInit
<1>3. QueueInv /\ [UpdatesNext]_updatesVars => QueueInv'
  BY UpdatesQueueStep, InvNext
<1> QED  BY <1>1, <1>2, <1>3, InvInit, PTL DEF UpdatesSpec

(* In the composition, too, RonghuaInputQueue is a ReplyBox: do_interrupt, *)
(* the listener and the callers cannot make it break its promise.          *)
THEOREM UpdatesReplyBox == UpdatesSpec => Box!Init /\ [][Box!Next]_(Box!vars)
<1>1. UpdatesInit => QueueInv /\ Box!Init
  BY InvInit, InitImplements DEF UpdatesInit
<1>2. QueueInv /\ [UpdatesNext]_updatesVars => QueueInv' /\ [Box!Next]_(Box!vars)
  BY UpdatesQueueStep, InvNext, StepImplements
<1> QED  BY <1>1, <1>2, PTL DEF UpdatesSpec

-----------------------------------------------------------------------------
(* The listener starts idle, and only it waits for notifications.          *)
LEMMA ListenerInit == UpdatesInit => ListenerInv
BY UpdatesAssumption DEF UpdatesAssumption, UpdatesInit, Init, ListenerInv

(* The listener never returns empty-handed: the first element of what it   *)
(* got, which get_subscription_event reads, is there.                      *)
LEMMA ListenerNext == QueueInv /\ ListenerInv /\ [Next]_vars => ListenerInv'
<1> SUFFICES ASSUME QueueInv, ListenerInv, [Next]_vars PROVE ListenerInv'
  OBVIOUS
<1> USE DEF ListenerInv
<1>0. QueueTypeOK /\ Listener \in Poppers
  BY UpdatesAssumption DEF QueueInv, UpdatesAssumption
<1>1. ASSUME NEW t \in Poppers, Call(t) \/ Expire(t) \/ SpuriousWakeup(t) \/ Done(t)
      PROVE  ListenerInv'
  BY <1>0, <1>1 DEF Call, Expire, SpuriousWakeup, Done, QueueTypeOK
<1>2. ASSUME NEW t \in Poppers, Check(t) PROVE ListenerInv'
  <2>1. CASE t = Listener /\ contains_msg_with_id_bulk(queue_, want[t].ids)
    <3>1. Return(t) /\ pc[t] = "check" /\ want' = want
      BY <1>2, <2>1 DEF Check
    <3>2. \E m \in Messages : ret'[t] = <<m>>
      BY <1>0, <2>1, <3>1, EventTaken DEF EventMessages
    <3> QED  BY <2>1, <3>1, <3>2
  <2>2. CASE t # Listener
    BY <1>0, <1>2, <2>2 DEF Check, Return, QueueTypeOK
  <2>3. CASE ~contains_msg_with_id_bulk(queue_, want[t].ids)
    BY <1>0, <1>2, <2>3 DEF Check, QueueTypeOK
  <2> QED  BY <2>1, <2>2, <2>3
<1>3. ASSUME NEW t \in Poppers, ReturnExpired(t) PROVE ListenerInv'
  <2>1. want[t].timed /\ want[t] \in Wants
    BY <1>0, <1>3 DEF ReturnExpired, QueueInv, QueueTypeOK
  <2>2. t # Listener
    BY <2>1, WantIds
  <2> QED  BY <1>0, <1>3, <2>2 DEF ReturnExpired, Return, QueueTypeOK
<1>4. ASSUME NEW p \in Pushers, notify_all(p) PROVE ListenerInv'
  BY <1>0, <1>4 DEF notify_all, QueueTypeOK
<1>5. ASSUME NEW p \in Pushers, NEW m \in Messages, push(p, m) PROVE ListenerInv'
  BY <1>5 DEF push
<1>6. CASE UNCHANGED vars
  BY <1>6 DEF vars
<1> QED
  BY <1>1, <1>2, <1>3, <1>4, <1>5, <1>6 DEF Next, PopperStep

(* A step of the way from the socket to the screen is a step of            *)
(* balance_queue_ or leaves it alone: what the listener pushes is a scan.  *)
LEMMA UpdatesBalanceStep ==
    ListenerInv /\ (UpdatesNext \/ UNCHANGED updatesVars) => [Balance!Next]_(Balance!vars)
<1> SUFFICES ASSUME ListenerInv, UpdatesNext \/ UNCHANGED updatesVars
             PROVE  Balance!Next \/ UNCHANGED balances
  BY DEF balances, Balance!vars
<1> USE UpdatesAssumption DEF UpdatesAssumption, Balance!Next, Balance!PopperStep
<1>1. ASSUME NEW p \in Pushers, NEW m \in Messages, Receive(p, m) PROVE UNCHANGED balances
  BY <1>1 DEF Receive
<1>2. CASE do_interrupt
  BY <1>2 DEF do_interrupt
<1>3. CASE FirstScan
  BY <1>3 DEF FirstScan, Scans
<1>4. CASE Listen
  BY <1>4 DEF Listen
<1>5. CASE scan_balances
  <2>1. PICK m \in Messages : ret[Listener] = <<m>>
    BY <1>5 DEF scan_balances, ListenerInv
  <2>2. Event = m
    <3>1. <<m>>[1] = m
      OBVIOUS
    <3> QED  BY <2>1, <3>1 DEF Event
  <2>3. Event.n \in Scans
    BY <1>5, <2>2 DEF scan_balances, is_scripthash_update, Scans, UpdateMessages
  <2> QED  BY <1>5, <2>3 DEF scan_balances
<1>6. CASE push_balance_update
  BY <1>6 DEF push_balance_update
<1>7. ASSUME NEW t \in Poppers, Request(t) PROVE UNCHANGED balances
  BY <1>7 DEF Request
<1>8. ASSUME NEW v \in Viewers, get_balance_update(v) PROVE Balance!Next
  BY <1>8 DEF get_balance_update
<1>9. CASE Inside
  BY <1>9 DEF Inside
<1>10. CASE UNCHANGED updatesVars
  BY <1>10 DEF updatesVars
<1> QED
  BY <1>1, <1>2, <1>3, <1>4, <1>5, <1>6, <1>7, <1>8, <1>9, <1>10 DEF UpdatesNext

(* balance_queue_ once more, with what is proved of blocking_queue.         *)
Deque == INSTANCE BlockingQueueProofs WITH
    Poppers <- Viewers, Pushers <- {Listener}, Values <- Scans,
    queue_ <- balance_queue_, pc <- viewer, got <- shown, notifying <- telling

(* The viewers get the balances in the order in which the listener has     *)
(* pushed them, each to one viewer, whatever RonghuaInputQueue and its     *)
(* threads do meanwhile.                                                   *)
THEOREM UpdatesChannel ==
    UpdatesSpec => Balance!Abstract!Init /\ [][Balance!Abstract!Next]_(Balance!Abstract!vars)
<1>1. UpdatesInit => QueueInv /\ ListenerInv /\ Deque!TypeInv /\ Deque!Abstract!Init
  <2>1. UpdatesInit => Init /\ Deque!Init
    BY DEF UpdatesInit, Balance!Init, Deque!Init
  <2> QED  BY <2>1, InvInit, ListenerInit, Deque!TypeInvInit, Deque!InitMaps
<1>2. /\ QueueInv /\ ListenerInv /\ Deque!TypeInv /\ [UpdatesNext]_updatesVars
      => /\ QueueInv' /\ ListenerInv' /\ Deque!TypeInv'
         /\ [Deque!Abstract!Next]_(Deque!Abstract!vars)
  <2>1. [Balance!Next]_(Balance!vars) => [Deque!Next]_(Deque!vars)
    <3>1. \A t : Balance!pop(t) => Deque!pop(t)
      BY DEF Balance!pop, Deque!pop
    <3>2. \A t : Balance!Check(t) => Deque!Check(t)
      BY DEF Balance!Check, Deque!Check, Balance!Last, Deque!Last, Balance!Front, Deque!Front
    <3>3. \A t : Balance!SpuriousWakeup(t) => Deque!SpuriousWakeup(t)
      BY DEF Balance!SpuriousWakeup, Deque!SpuriousWakeup
    <3>4. \A p : Balance!notify_one(p) => Deque!notify_one(p)
      BY DEF Balance!notify_one, Deque!notify_one, Balance!Asleep, Deque!Asleep
    <3>5. \A p, v : Balance!push(p, v) => Deque!push(p, v)
      BY DEF Balance!push, Deque!push
    <3>6. Balance!Next => Deque!Next
      BY <3>1, <3>2, <3>3, <3>4, <3>5
         DEF Balance!Next, Deque!Next, Balance!PopperStep, Deque!PopperStep
    <3> QED  BY <3>6 DEF Balance!vars, Deque!vars
  <2> QED  BY <2>1, UpdatesQueueStep, UpdatesBalanceStep, InvNext, ListenerNext,
              Deque!TypeInvNext, Deque!StepImplements
<1>3. Deque!Abstract!Init => Balance!Abstract!Init
  BY DEF Deque!Abstract!Init, Balance!Abstract!Init, Deque!Reverse, Balance!Reverse
<1>4. [Deque!Abstract!Next]_(Deque!Abstract!vars) => [Balance!Abstract!Next]_(Balance!Abstract!vars)
  BY DEF Deque!Abstract!Next, Deque!Abstract!vars, Balance!Abstract!Next, Balance!Abstract!vars,
         Deque!Abstract!Put, Balance!Abstract!Put, Deque!Abstract!Ask, Balance!Abstract!Ask,
         Deque!Abstract!Take, Balance!Abstract!Take, Deque!Reverse, Balance!Reverse
<1> QED  BY <1>1, <1>2, <1>3, <1>4, PTL DEF UpdatesSpec
=============================================================================
