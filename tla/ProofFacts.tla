----------------------------- MODULE ProofFacts -----------------------------
(***************************************************************************)
(* Facts about numbers, finite sets and sequences that the proofs of        *)
(* several modules use.                                                    *)
(***************************************************************************)
EXTENDS Integers, SequencesExt, FiniteSetTheorems, SequenceTheorems,
        WellFoundedInduction, TLAPS

-----------------------------------------------------------------------------
(***************************************************************************)
(* The natural numbers.                                                    *)
(***************************************************************************)

\* A set of natural numbers that is not empty has a least element.
LEMMA LeastNat ==
  ASSUME NEW T \in SUBSET Nat, T # {}
  PROVE  \E t \in T : \A u \in T : t <= u
<1> DEFINE R == OpToRel(<, Nat)
<1>1. R = {p \in Nat \X Nat : p[1] < p[2]}
  BY DEF OpToRel
<1>2. IsWellFoundedOn(R, Nat)
  BY NatLessThanWellFounded
<1> HIDE DEF R
<1>3. PICK t \in T : \A u \in T : ~ (<<u, t>> \in R)
  BY <1>2, WFMin, Zenon
<1>4. ASSUME NEW u \in T PROVE t <= u
  <2>1. <<u, t>> \notin R
    BY <1>3
  <2>2. ~(u < t)
    BY <2>1, <1>1
  <2> QED BY <2>2
<1> QED BY <1>4

\* Induction, for a set of natural numbers instead of a formula.
LEMMA SetInduction ==
  ASSUME NEW T, 0 \in T, \A n \in Nat : n \in T => n + 1 \in T
  PROVE  Nat \subseteq T
<1> SUFFICES ASSUME Nat \ T # {} PROVE FALSE
  OBVIOUS
<1>1. PICK n \in Nat \ T : \A u \in Nat \ T : n <= u
  BY LeastNat
<1>2. n - 1 \in Nat /\ n - 1 \notin Nat \ T
  BY <1>1
<1>3. (n - 1) + 1 \in T
  BY <1>2
<1> QED BY <1>1, <1>3

\* Min of SequencesExt and what tells that a number is it.
LEMMA MinFacts ==
  ASSUME NEW S \in SUBSET Nat, S # {}
  PROVE  /\ Min(S) \in S /\ \A y \in S : Min(S) <= y
         /\ \A x \in S : (\A y \in S : x <= y) => x = Min(S)
<1>1. PICK x \in S : \A y \in S : x <= y
  BY LeastNat
<1>2. Min(S) \in S /\ \A y \in S : Min(S) <= y
  BY <1>1, Zenon DEF Min
<1> DEFINE m == Min(S)
<1>3. m \in S /\ \A y \in S : m <= y
  BY <1>2
<1> HIDE DEF m
<1>4. ASSUME NEW z \in S, \A y \in S : z <= y PROVE z = m
  <2>1. z \in Nat /\ m \in Nat
    BY <1>3
  <2>2. z <= m /\ m <= z
    BY <1>3, <1>4, Zenon
  <2> QED BY <2>1, <2>2
<1> QED BY <1>2, <1>4 DEF m

LEMMA MaxFacts ==
  ASSUME NEW S \in SUBSET Nat, S # {}, NEW n \in Nat, \A y \in S : y <= n
  PROVE  /\ Max(S) \in S /\ \A y \in S : y <= Max(S)
         /\ \A x \in S : (\A y \in S : y <= x) => x = Max(S)
<1> DEFINE T == {n - y : y \in S}
<1>1. T \in SUBSET Nat /\ T # {}
  <2>1. ASSUME NEW y \in S PROVE n - y \in Nat
    <3>1. y \in Nat /\ y <= n
      OBVIOUS
    <3> QED BY <3>1
  <2>2. PICK y \in S : TRUE
    OBVIOUS
  <2>3. n - y \in T
    OBVIOUS
  <2> QED BY <2>1, <2>3
<1>2. PICK t \in T : \A u \in T : t <= u
  BY <1>1, LeastNat
<1>3. PICK x \in S : t = n - x
  BY <1>2
<1>4. ASSUME NEW y \in S PROVE x >= y
  <2>1. x \in Nat /\ y \in Nat
    OBVIOUS
  <2>2. n - y \in T
    OBVIOUS
  <2>3. n - x <= n - y
    BY <1>2, <1>3, <2>2, Zenon
  <2> QED BY <2>1, <2>3
<1>5. Max(S) \in S /\ \A y \in S : Max(S) >= y
  BY <1>4, Zenon DEF Max
<1> DEFINE m == Max(S)
<1>6. m \in S /\ \A y \in S : y <= m
  BY <1>5
<1> HIDE DEF m
<1>7. ASSUME NEW z \in S, \A y \in S : y <= z PROVE z = m
  <2>1. z \in Nat /\ m \in Nat
    BY <1>6
  <2>2. z <= m /\ m <= z
    BY <1>6, <1>7, Zenon
  <2> QED BY <2>1, <2>2
<1> QED BY <1>6, <1>7 DEF m

-----------------------------------------------------------------------------
(***************************************************************************)
(* Sequences.                                                              *)
(***************************************************************************)

\* What SubSeq takes out of a sequence.
LEMMA SubSeqFacts ==
  ASSUME NEW S, NEW s \in Seq(S), NEW m \in Int, NEW k \in Int,
         1 <= m, m <= k + 1, k <= Len(s)
  PROVE  /\ SubSeq(s, m, k) \in Seq(S)
         /\ Len(SubSeq(s, m, k)) = k - m + 1
         /\ \A i \in 1..(k - m + 1) : SubSeq(s, m, k)[i] = s[m + i - 1]
<1>1. Len(s) \in Nat /\ \A i \in m..k : s[i] \in S
  BY LenProperties, ElementOfSeq
<1>2. /\ SubSeq(s, m, k) \in Seq(S)
      /\ Len(SubSeq(s, m, k)) = IF m <= k THEN k - m + 1 ELSE 0
      /\ \A i \in 1..(k - m + 1) : SubSeq(s, m, k)[i] = s[m + i - 1]
  BY <1>1, SubSeqProperties
<1>3. (IF m <= k THEN k - m + 1 ELSE 0) = k - m + 1
  OBVIOUS
<1>4. Len(SubSeq(s, m, k)) = k - m + 1
  BY <1>2, <1>3, Zenon
<1> QED
  BY <1>2, <1>4, Zenon

\* The first n elements of a sequence, and the others.
LEMMA PrefixFacts ==
  ASSUME NEW S, NEW s \in Seq(S), NEW n \in 0..Len(s)
  PROVE  /\ SubSeq(s, 1, n) \in Seq(S) /\ Len(SubSeq(s, 1, n)) = n
         /\ \A i \in 1..n : SubSeq(s, 1, n)[i] = s[i]
         /\ SubSeq(s, n + 1, Len(s)) \in Seq(S)
         /\ Len(SubSeq(s, n + 1, Len(s))) = Len(s) - n
         /\ \A i \in 1..(Len(s) - n) : SubSeq(s, n + 1, Len(s))[i] = s[n + i]
<1>1. Len(s) \in Nat /\ n \in Nat
  BY LenProperties
<1> DEFINE f == SubSeq(s, 1, n)
           m == n + 1
           r == SubSeq(s, m, Len(s))
<1>2. /\ f \in Seq(S) /\ Len(f) = n - 1 + 1
      /\ \A i \in 1..(n - 1 + 1) : f[i] = s[1 + i - 1]
  BY <1>1, SubSeqFacts
<1>3. m \in Int /\ 1 <= m /\ m <= Len(s) + 1
  BY <1>1
<1> HIDE DEF m, f
<1>4. /\ r \in Seq(S) /\ Len(r) = Len(s) - m + 1
      /\ \A i \in 1..(Len(s) - m + 1) : r[i] = s[m + i - 1]
  BY <1>1, <1>3, SubSeqFacts
<1> HIDE DEF r
<1>5. n - 1 + 1 = n /\ \A i \in 1..n : 1 + i - 1 = i
  BY <1>1
<1>6. Len(s) - m + 1 = Len(s) - n /\ \A i \in 1..(Len(s) - n) : m + i - 1 = n + i
  BY <1>1 DEF m
<1> QED BY <1>2, <1>4, <1>5, <1>6 DEF f, r, m

\* RemoveAt: what comes after the place moves down by one.
LEMMA RemoveAtFacts ==
  ASSUME NEW S, NEW s \in Seq(S), NEW n \in 1..Len(s)
  PROVE  /\ RemoveAt(s, n) \in Seq(S)
         /\ Len(RemoveAt(s, n)) = Len(s) - 1
         /\ \A m \in 1..(Len(s) - 1) : RemoveAt(s, n)[m] = IF m < n THEN s[m] ELSE s[m + 1]
<1>1. Len(s) \in Nat /\ n \in Nat /\ n - 1 \in 0..Len(s) /\ n \in 0..Len(s)
  BY LenProperties
<1> DEFINE f == SubSeq(s, 1, n - 1)
           r == SubSeq(s, n + 1, Len(s))
<1>2. f \in Seq(S) /\ Len(f) = n - 1 /\ \A i \in 1..(n - 1) : f[i] = s[i]
  BY <1>1, PrefixFacts
<1>3. r \in Seq(S) /\ Len(r) = Len(s) - n /\ \A i \in 1..(Len(s) - n) : r[i] = s[n + i]
  BY <1>1, PrefixFacts
<1>4. RemoveAt(s, n) = f \o r
  BY DEF RemoveAt
<1> HIDE DEF f, r
<1>5. /\ f \o r \in Seq(S)
      /\ Len(f \o r) = Len(f) + Len(r)
      /\ \A i \in 1..(Len(f) + Len(r)) : (f \o r)[i] = IF i <= Len(f) THEN f[i] ELSE r[i - Len(f)]
  BY <1>2, <1>3, ConcatProperties
<1>6. Len(f) + Len(r) = Len(s) - 1
  BY <1>1, <1>2, <1>3
<1>7. ASSUME NEW m \in 1..(Len(s) - 1)
      PROVE  (f \o r)[m] = IF m < n THEN s[m] ELSE s[m + 1]
  <2>1. CASE m < n
    <3>1. m \in 1..(n - 1) /\ m <= Len(f)
      BY <2>1, <1>1, <1>2
    <3> QED BY <3>1, <2>1, <1>2, <1>5, <1>6
  <2>2. CASE ~(m < n)
    <3>1. m - Len(f) \in 1..(Len(s) - n) /\ n + (m - Len(f)) = m + 1 /\ ~(m <= Len(f))
      BY <2>2, <1>1, <1>2
    <3> QED BY <3>1, <2>2, <1>3, <1>5, <1>6
  <2> QED BY <2>1, <2>2
<1> QED BY <1>4, <1>5, <1>6, <1>7

\* InsertAt: what comes from the place on moves up by one.
LEMMA InsertAtFacts ==
  ASSUME NEW S, NEW s \in Seq(S), NEW n \in 1..(Len(s) + 1), NEW e \in S
  PROVE  /\ InsertAt(s, n, e) \in Seq(S)
         /\ Len(InsertAt(s, n, e)) = Len(s) + 1
         /\ \A m \in 1..(Len(s) + 1) :
              InsertAt(s, n, e)[m] = IF m < n THEN s[m] ELSE IF m = n THEN e ELSE s[m - 1]
<1>1. Len(s) \in Nat /\ n \in Nat /\ n - 1 \in 0..Len(s) /\ (n - 1) + 1 = n
  BY LenProperties
<1> DEFINE f == SubSeq(s, 1, n - 1)
           r == SubSeq(s, n, Len(s))
           o == <<e>>
<1>2. f \in Seq(S) /\ Len(f) = n - 1 /\ \A i \in 1..(n - 1) : f[i] = s[i]
  BY <1>1, PrefixFacts
<1>3. /\ r \in Seq(S) /\ Len(r) = Len(s) - (n - 1)
      /\ \A i \in 1..(Len(s) - (n - 1)) : r[i] = s[(n - 1) + i]
  <2> DEFINE k == n - 1
  <2>1. k \in 0..Len(s) /\ k + 1 = n
    BY <1>1
  <2> HIDE DEF k
  <2>2. /\ SubSeq(s, k + 1, Len(s)) \in Seq(S) /\ Len(SubSeq(s, k + 1, Len(s))) = Len(s) - k
        /\ \A i \in 1..(Len(s) - k) : SubSeq(s, k + 1, Len(s))[i] = s[k + i]
    BY <2>1, PrefixFacts
  <2> QED BY <2>1, <2>2 DEF k
<1>4. InsertAt(s, n, e) = f \o o \o r
  BY DEF InsertAt
<1>5. o \in Seq(S) /\ Len(o) = 1 /\ o[1] = e
  OBVIOUS
<1> HIDE DEF f, r, o
<1>6. /\ f \o o \in Seq(S)
      /\ Len(f \o o) = Len(f) + Len(o)
      /\ \A i \in 1..(Len(f) + Len(o)) : (f \o o)[i] = IF i <= Len(f) THEN f[i] ELSE o[i - Len(f)]
  BY <1>2, <1>5, ConcatProperties
<1> DEFINE g == f \o o
<1>7. /\ g \in Seq(S) /\ Len(g) = n
      /\ \A i \in 1..(n - 1) : g[i] = s[i]
      /\ g[n] = e
  <2>1. Len(f) + Len(o) = n
    BY <1>1, <1>2, <1>5
  <2>2. ASSUME NEW i \in 1..(n - 1) PROVE g[i] = s[i]
    <3>1. i \in 1..(Len(f) + Len(o)) /\ i <= Len(f)
      BY <1>1, <1>2, <1>5
    <3> QED BY <3>1, <1>2, <1>6
  <2>3. n \in 1..(Len(f) + Len(o)) /\ ~(n <= Len(f)) /\ n - Len(f) = 1
    BY <1>1, <1>2, <1>5
  <2>4. g[n] = o[1]
    BY <2>3, <1>6
  <2> QED BY <2>1, <2>2, <2>4, <1>5, <1>6
<1> HIDE DEF g
<1>8. /\ g \o r \in Seq(S)
      /\ Len(g \o r) = Len(g) + Len(r)
      /\ \A i \in 1..(Len(g) + Len(r)) : (g \o r)[i] = IF i <= Len(g) THEN g[i] ELSE r[i - Len(g)]
  BY <1>3, <1>7, ConcatProperties
<1>9. Len(g) + Len(r) = Len(s) + 1
  BY <1>1, <1>3, <1>7
<1>10. ASSUME NEW m \in 1..(Len(s) + 1)
       PROVE  (g \o r)[m] = IF m < n THEN s[m] ELSE IF m = n THEN e ELSE s[m - 1]
  <2>1. CASE m < n
    <3>1. m \in 1..(n - 1) /\ m <= Len(g)
      BY <2>1, <1>1, <1>7
    <3> QED BY <3>1, <2>1, <1>7, <1>8, <1>9
  <2>2. CASE m = n
    BY <2>2, <1>1, <1>7, <1>8, <1>9
  <2>3. CASE m > n
    <3>1. /\ m - Len(g) \in 1..(Len(s) - (n - 1)) /\ (n - 1) + (m - Len(g)) = m - 1
          /\ ~(m <= Len(g)) /\ ~(m < n) /\ m # n
      BY <2>3, <1>1, <1>7
    <3> QED BY <3>1, <1>3, <1>8, <1>9
  <2>4. m < n \/ m = n \/ m > n
    BY <1>1
  <2> QED BY <2>1, <2>2, <2>3, <2>4, Zenon
<1> QED BY <1>4, <1>8, <1>9, <1>10 DEF g

\* What is left of a sequence without its last element, and that one.
LEMMA FrontOfSeq ==
  ASSUME NEW S, NEW q \in Seq(S), q # <<>>
  PROVE  Front(q) \in Seq(S) /\ Last(q) \in S
<1>1. Len(q) \in Nat /\ Len(q) # 0
  BY LenProperties, EmptySeq
<1>2. Len(q) - 1 \in 0..Len(q) /\ Len(q) \in 1..Len(q)
  BY <1>1
<1>3. Front(q) \in Seq(S)
  BY <1>2, PrefixFacts DEF Front
<1>4. Last(q) \in S
  BY <1>2, ElementOfSeq DEF Last
<1> QED BY <1>3, <1>4

\* RemoveFirst leaves a sequence over the same set.
LEMMA RemoveFirstFacts ==
  ASSUME NEW S, NEW q \in Seq(S), NEW e
  PROVE  RemoveFirst(q, e) \in Seq(S)
<1> DEFINE I == {i \in 1..Len(q) : q[i] = e}
<1>1. CASE \E i \in 1..Len(q) : q[i] = e
  <2>1. I \in SUBSET Nat /\ I # {}
    BY <1>1
  <2>2. Min(I) \in I
    BY <2>1, MinFacts
  <2>3. RemoveFirst(q, e) = RemoveAt(q, Min(I))
    BY <1>1, <2>1 DEF RemoveFirst, SelectInSeq
  <2>4. Min(I) \in 1..Len(q)
    BY <2>2
  <2> HIDE DEF I
  <2> QED BY <2>3, <2>4, RemoveAtFacts
<1>2. CASE ~ \E i \in 1..Len(q) : q[i] = e
  BY <1>2 DEF RemoveFirst
<1> QED BY <1>1, <1>2

\* SetToSeq lists a finite set.
LEMMA ListOfSet ==
  ASSUME NEW S, IsFiniteSet(S)
  PROVE  /\ Cardinality(S) \in Nat
         /\ SetToSeq(S) \in [1..Cardinality(S) -> S] /\ IsInjective(SetToSeq(S))
         /\ SetToSeq(S) \in Seq(S)
<1>1. PICK n \in Nat : ExistsBijection(1..n, S)
  BY FS_NatBijection
<1>2. n = Cardinality(S)
  BY <1>1, FS_CountingElements
<1>3. \E f \in [1..Cardinality(S) -> S] : IsInjective(f)
  BY <1>1, <1>2 DEF ExistsBijection, Bijection, Injection
<1>4. SetToSeq(S) \in [1..Cardinality(S) -> S] /\ IsInjective(SetToSeq(S))
  BY <1>3, Zenon DEF SetToSeq
<1>5. SetToSeq(S) \in Seq(S)
  BY <1>2, <1>4
<1> QED BY <1>2, <1>4, <1>5

-----------------------------------------------------------------------------
(***************************************************************************)
(* Folds.  FoldLeft is a recursive function on the sets of indices, which  *)
(* its definition names with CHOOSE: to say anything about a fold one has  *)
(* to show that there is such a function, and then follow its values from  *)
(* one initial interval of the indices to the next.                        *)
(***************************************************************************)

\* g[x] is what F makes of s and the elements of x, in their order.
Iterates(g, s, n, F) ==
  \A x \in SUBSET (1..n) : g[x] = IF x = {} THEN s ELSE F[<<g[x \ {Max(x)}], Max(x)>>]

\* There is such a function, by induction on n.
LEMMA FoldExists ==
  ASSUME NEW C, NEW s \in C, NEW n \in Nat, NEW F \in [C \X (1..n) -> C]
  PROVE  \E g \in [SUBSET (1..n) -> C] : Iterates(g, s, n, F)
<1> DEFINE Runs(g, k) == Iterates(g, s, k, F)
           T == {k \in Nat : k <= n => \E g \in [SUBSET (1..k) -> C] : Runs(g, k)}
<1> HIDE DEF Runs
<1>1. 0 \in T
  <2> DEFINE g == [x \in SUBSET (1..0) |-> s]
  <2>1. g \in [SUBSET (1..0) -> C]
    OBVIOUS
  <2>2. \A x \in SUBSET (1..0) : x = {} /\ g[x] = s
    OBVIOUS
  <2>3. Runs(g, 0)
    BY <2>2 DEF Runs, Iterates
  <2> QED BY <2>1, <2>3
<1>2. ASSUME NEW k \in Nat, k \in T PROVE k + 1 \in T
  <2> SUFFICES ASSUME k + 1 <= n
               PROVE \E g \in [SUBSET (1..k+1) -> C] : Runs(g, k+1)
    <3>1. k + 1 \in Nat
      OBVIOUS
    <3> QED BY <3>1, Zenon
  <2>1. PICK g \in [SUBSET (1..k) -> C] : Runs(g, k)
    <3>1. k <= n
      OBVIOUS
    <3> QED BY <1>2, <3>1
  <2> DEFINE h == [x \in SUBSET (1..k+1) |->
                     IF k + 1 \in x THEN F[<<g[x \ {k+1}], k+1>>] ELSE g[x]]
  <2>2. \A x \in SUBSET (1..k+1) : x \ {k+1} \in SUBSET (1..k) /\ (k+1 \notin x => x \in SUBSET (1..k))
    OBVIOUS
  <2>3. h \in [SUBSET (1..k+1) -> C]
    <3>1. ASSUME NEW x \in SUBSET (1..k+1) PROVE h[x] \in C
      <4>1. CASE k + 1 \in x
        <5>1. g[x \ {k+1}] \in C
          BY <2>2
        <5>2. <<g[x \ {k+1}], k+1>> \in C \X (1..n)
          BY <5>1
        <5> QED BY <4>1, <5>2
      <4>2. CASE k + 1 \notin x
        BY <4>2, <2>2
      <4> QED BY <4>1, <4>2
    <3> QED BY <3>1
  <2>4. ASSUME NEW x \in SUBSET (1..k+1)
        PROVE h[x] = IF x = {} THEN s ELSE F[<<h[x \ {Max(x)}], Max(x)>>]
    <3>1. CASE k + 1 \in x
      <4>1. x \in SUBSET Nat /\ x # {} /\ \A y \in x : y <= k + 1
        BY <3>1
      <4>2. Max(x) = k + 1
        BY <4>1, <3>1, MaxFacts
      <4>3. h[x \ {k+1}] = g[x \ {k+1}]
        BY <2>2
      <4> QED BY <4>1, <4>2, <4>3, <3>1
    <3>2. CASE k + 1 \notin x
      <4>1. x \in SUBSET (1..k) /\ h[x] = g[x]
        BY <3>2, <2>2
      <4>2. CASE x = {}
        BY <4>1, <4>2, <2>1 DEF Runs, Iterates
      <4>3. CASE x # {}
        <5>1. x \ {Max(x)} \in SUBSET (1..k) /\ x \ {Max(x)} \in SUBSET (1..k+1)
              /\ k + 1 \notin x \ {Max(x)}
          BY <4>1, <3>2
        <5>2. h[x \ {Max(x)}] = g[x \ {Max(x)}]
          BY <5>1
        <5>3. g[x] = F[<<g[x \ {Max(x)}], Max(x)>>]
          BY <4>1, <4>3, <2>1 DEF Runs, Iterates
        <5> QED BY <4>1, <4>3, <5>2, <5>3
      <4> QED BY <4>2, <4>3
    <3> QED BY <3>1, <3>2
  <2> HIDE DEF h
  <2>5. Runs(h, k+1)
    BY <2>4 DEF Runs, Iterates
  <2> QED BY <2>3, <2>5
<1>3. Nat \subseteq T
  <2> HIDE DEF T
  <2> QED BY <1>1, <1>2, SetInduction
<1>4. n \in T /\ n <= n
  <2> HIDE DEF T
  <2> QED BY <1>3
<1>5. \E g \in [SUBSET (1..n) -> C] : Runs(g, n)
  BY <1>4
<1> QED BY <1>5 DEF Runs, Iterates

\* The greatest element is one of them.
LEMMA MaxInRange ==
  ASSUME NEW n \in Nat, NEW x \in SUBSET (1..n), x # {}
  PROVE  Max(x) \in 1..n
<1>1. x \in SUBSET Nat /\ \A y \in x : y <= n
  OBVIOUS
<1>2. Max(x) \in x
  BY <1>1, MaxFacts
<1> QED BY <1>2

\* g is the function that a fold of F over 1..n builds, with values in C.
FoldGraph(g, s, C, n, F) ==
  /\ g = [x \in SUBSET (1..n) |-> g[x]]
  /\ \A x \in SUBSET (1..n) : x = {} => g[x] = s
  /\ \A x \in SUBSET (1..n) :
       x # {} => /\ Max(x) \in 1..n /\ g[x \ {Max(x)}] \in C
                 /\ g[x] = F[<<g[x \ {Max(x)}], Max(x)>>]

\* There is such a function.
LEMMA FoldGraphExists ==
  ASSUME NEW C, NEW s \in C, NEW n \in Nat, NEW F \in [C \X (1..n) -> C]
  PROVE  \E g : FoldGraph(g, s, C, n, F)
<1>1. PICK g \in [SUBSET (1..n) -> C] : Iterates(g, s, n, F)
  BY FoldExists
<1>2. ASSUME NEW x \in SUBSET (1..n), x # {}
      PROVE  /\ Max(x) \in 1..n /\ g[x \ {Max(x)}] \in C
             /\ g[x] = F[<<g[x \ {Max(x)}], Max(x)>>]
  <2>1. Max(x) \in 1..n
    BY <1>2, MaxInRange
  <2> QED BY <1>1, <1>2, <2>1 DEF Iterates
<1>3. FoldGraph(g, s, C, n, F)
  BY <1>1, <1>2 DEF FoldGraph, Iterates
<1> QED BY <1>3

\* What holds before the first step of r, and after each step when it held
\* before it, holds at the end.  C[k] is what is to hold after k steps.
LEMMA TraceInduction ==
  ASSUME NEW n \in Nat, NEW C, NEW r, r[0] \in C[0],
         \A k \in 1..n : r[k-1] \in C[k-1] => r[k] \in C[k]
  PROVE  \A k \in 0..n : r[k] \in C[k]
<1> DEFINE T == {k \in Nat : k <= n => r[k] \in C[k]}
<1>1. 0 \in T
  OBVIOUS
<1>2. ASSUME NEW k \in Nat, k \in T PROVE k + 1 \in T
  <2> SUFFICES ASSUME k + 1 <= n PROVE r[k+1] \in C[k+1]
    OBVIOUS
  <2>1. k + 1 \in 1..n /\ (k + 1) - 1 = k /\ r[k] \in C[k]
    BY <1>2
  <2> QED BY <2>1
<1>3. Nat \subseteq T
  <2> HIDE DEF T
  <2> QED BY <1>1, <1>2, SetInduction
<1> QED BY <1>3

\* r goes through the values that a fold's function h has on the way.
Follows(r, h, n) ==
  /\ r[0] = h[{}] /\ r[n] = h[1..n]
  /\ \A k \in 1..n : \E x \in SUBSET (1..n) :
       x # {} /\ Max(x) = k /\ r[k] = h[x] /\ r[k-1] = h[x \ {Max(x)}]

\* A fold goes step by step, and stays where each of its steps stays.
LEMMA FoldTrace ==
  ASSUME NEW C, NEW n \in Nat, NEW h, h[{}] \in C,
         \A x \in SUBSET (1..n) :
           x # {} /\ Max(x) \in 1..n /\ h[x \ {Max(x)}] \in C => h[x] \in C
  PROVE  \E r \in [0..n -> C] : Follows(r, h, n)
<1>1. ASSUME NEW k \in 1..n
      PROVE  LET x == 1..k
             IN  x \in SUBSET (1..n) /\ x # {} /\ Max(x) = k /\ x \ {Max(x)} = 1..(k-1)
  <2> DEFINE x == 1..k
  <2>1. x \in SUBSET Nat /\ x \in SUBSET (1..n) /\ k \in x /\ \A y \in x : y <= k
    OBVIOUS
  <2>2. x # {} /\ Max(x) = k
    <3> HIDE DEF x
    <3> QED BY <2>1, MaxFacts
  <2>3. x \ {k} = 1..(k-1)
    OBVIOUS
  <2> QED BY <2>1, <2>2, <2>3
<1> DEFINE r == [k \in 0..n |-> h[1..k]]
           D == [k \in 0..n |-> C]
<1>2. 1..0 = {}
  OBVIOUS
<1>3. \A k \in 0..n : r[k] \in D[k]
  <2>1. r[0] \in D[0]
    BY <1>2
  <2>2. ASSUME NEW k \in 1..n, r[k-1] \in D[k-1] PROVE r[k] \in D[k]
    <3>1. k - 1 \in 0..n /\ k \in 0..n
      OBVIOUS
    <3> QED BY <1>1, <2>2, <3>1
  <2> HIDE DEF r, D
  <2> QED BY <2>1, <2>2, TraceInduction
<1>4. r \in [0..n -> C] /\ r[0] = h[{}] /\ r[n] = h[1..n]
  BY <1>2, <1>3
<1>5. ASSUME NEW k \in 1..n
      PROVE  \E x \in SUBSET (1..n) :
               x # {} /\ Max(x) = k /\ r[k] = h[x] /\ r[k-1] = h[x \ {Max(x)}]
  <2>1. k - 1 \in 0..n /\ k \in 0..n
    OBVIOUS
  <2>2. r[k] = h[1..k] /\ r[k-1] = h[1..(k-1)]
    BY <2>1
  <2> QED BY <1>1, <2>2
<1> QED BY <1>4, <1>5 DEF Follows

-----------------------------------------------------------------------------
(***************************************************************************)
(* Sequences in which nothing is twice.                                    *)
(***************************************************************************)

\* What a concatenation has, and when nothing is twice in it.
LEMMA ConcatFacts ==
  ASSUME NEW S, NEW f \in Seq(S), NEW g \in Seq(S)
  PROVE  /\ ToSet(f \o g) = ToSet(f) \cup ToSet(g)
         /\ IsInjective(f \o g) <=>
              IsInjective(f) /\ IsInjective(g) /\ ToSet(f) \cap ToSet(g) = {}
<1>1. /\ Len(f) \in Nat /\ Len(g) \in Nat
      /\ DOMAIN f = 1..Len(f) /\ DOMAIN g = 1..Len(g)
      /\ DOMAIN (f \o g) = 1..(Len(f) + Len(g))
      /\ \A i \in 1..(Len(f) + Len(g)) :
           (f \o g)[i] = IF i <= Len(f) THEN f[i] ELSE g[i - Len(f)]
  BY ConcatProperties, LenProperties
<1> DEFINE h == f \o g
           n == Len(f)
           m == Len(g)
<1>2. \A i \in 1..n : i \in 1..(n+m) /\ h[i] = f[i]
  BY <1>1
<1>3. \A j \in 1..m : n + j \in 1..(n+m) /\ h[n+j] = g[j]
  BY <1>1
<1>4. \A i \in 1..(n+m) : \/ i \in 1..n /\ h[i] = f[i]
                          \/ i - n \in 1..m /\ h[i] = g[i-n]
  BY <1>1
<1>5. DOMAIN h = 1..(n+m) /\ n \in Nat /\ m \in Nat /\ DOMAIN f = 1..n /\ DOMAIN g = 1..m
  BY <1>1
<1> HIDE DEF h, n, m
<1>6. ToSet(h) = ToSet(f) \cup ToSet(g)
  <2>1. ASSUME NEW x \in ToSet(h) PROVE x \in ToSet(f) \cup ToSet(g)
    <3>1. PICK i \in 1..(n+m) : x = h[i]
      BY <1>5 DEF ToSet
    <3> QED BY <1>4, <1>5, <3>1 DEF ToSet
  <2>2. ASSUME NEW x \in ToSet(f) PROVE x \in ToSet(h)
    BY <1>2, <1>5 DEF ToSet
  <2>3. ASSUME NEW x \in ToSet(g) PROVE x \in ToSet(h)
    BY <1>3, <1>5 DEF ToSet
  <2> QED BY <2>1, <2>2, <2>3
<1>7. ASSUME IsInjective(h) PROVE IsInjective(f) /\ IsInjective(g) /\ ToSet(f) \cap ToSet(g) = {}
  <2>0. \A i, j \in 1..(n+m) : h[i] = h[j] => i = j
    BY <1>5, <1>7 DEF IsInjective
  <2>1. IsInjective(f)
    BY <1>2, <1>5, <2>0 DEF IsInjective
  <2>2. IsInjective(g)
    <3> SUFFICES ASSUME NEW i \in 1..m, NEW j \in 1..m, g[i] = g[j] PROVE i = j
      BY <1>5 DEF IsInjective
    <3>1. n + i = n + j
      BY <1>3, <2>0
    <3> QED BY <1>5, <3>1
  <2>3. ASSUME NEW x \in ToSet(f), x \in ToSet(g) PROVE FALSE
    <3>1. PICK i \in 1..n, j \in 1..m : x = f[i] /\ x = g[j]
      BY <1>5, <2>3 DEF ToSet
    <3>2. i = n + j
      BY <1>2, <1>3, <2>0, <3>1
    <3> QED BY <1>5, <3>2
  <2> QED BY <2>1, <2>2, <2>3
<1>8. ASSUME IsInjective(f), IsInjective(g), ToSet(f) \cap ToSet(g) = {} PROVE IsInjective(h)
  <2> SUFFICES ASSUME NEW i \in 1..(n+m), NEW j \in 1..(n+m), h[i] = h[j] PROVE i = j
    BY <1>5 DEF IsInjective
  <2>1. CASE i \in 1..n /\ h[i] = f[i] /\ j \in 1..n /\ h[j] = f[j]
    BY <1>5, <1>8, <2>1 DEF IsInjective
  <2>2. CASE i - n \in 1..m /\ h[i] = g[i-n] /\ j - n \in 1..m /\ h[j] = g[j-n]
    <3>1. i - n = j - n
      BY <1>5, <1>8, <2>2 DEF IsInjective
    <3> QED BY <1>5, <3>1
  <2>3. CASE i \in 1..n /\ h[i] = f[i] /\ j - n \in 1..m /\ h[j] = g[j-n]
    BY <1>5, <1>8, <2>3 DEF ToSet
  <2>4. CASE i - n \in 1..m /\ h[i] = g[i-n] /\ j \in 1..n /\ h[j] = f[j]
    BY <1>5, <1>8, <2>4 DEF ToSet
  <2> QED BY <1>4, <2>1, <2>2, <2>3, <2>4
<1> QED BY <1>6, <1>7, <1>8 DEF h

\* The same, of one more element.
LEMMA AppendElement ==
  ASSUME NEW S, NEW f \in Seq(S), NEW e \in S
  PROVE  /\ Append(f, e) \in Seq(S) /\ <<e>> \o f \in Seq(S)
         /\ \A x : x \in ToSet(Append(f, e)) <=> x \in ToSet(f) \/ x = e
         /\ \A x : x \in ToSet(<<e>> \o f) <=> x \in ToSet(f) \/ x = e
         /\ IsInjective(Append(f, e)) <=> IsInjective(f) /\ e \notin ToSet(f)
         /\ IsInjective(<<e>> \o f) <=> IsInjective(f) /\ e \notin ToSet(f)
<1> DEFINE g == <<e>>
<1>1. g \in Seq(S) /\ Append(f, e) = f \o g /\ Append(f, e) \in Seq(S) /\ g \o f \in Seq(S)
  OBVIOUS
<1>2. ToSet(g) = {e} /\ IsInjective(g)
  BY DEF ToSet, IsInjective
<1> HIDE DEF g
<1>3. /\ ToSet(f \o g) = ToSet(f) \cup ToSet(g)
      /\ IsInjective(f \o g) <=> IsInjective(f) /\ IsInjective(g) /\ ToSet(f) \cap ToSet(g) = {}
  BY <1>1, ConcatFacts
<1>4. /\ ToSet(g \o f) = ToSet(g) \cup ToSet(f)
      /\ IsInjective(g \o f) <=> IsInjective(g) /\ IsInjective(f) /\ ToSet(g) \cap ToSet(f) = {}
  BY <1>1, ConcatFacts
<1>5. (ToSet(f) \cap {e} = {} <=> e \notin ToSet(f)) /\ ({e} \cap ToSet(f) = {} <=> e \notin ToSet(f))
  OBVIOUS
<1> QED BY <1>1, <1>2, <1>3, <1>4, <1>5 DEF g

\* A list of a finite set that is as long as the set and has nothing twice has
\* every element.
LEMMA ListIsWhole ==
  ASSUME NEW S, IsFiniteSet(S), NEW f \in [1..Cardinality(S) -> S], IsInjective(f)
  PROVE  {f[j] : j \in 1..Cardinality(S)} = S
<1>1. Cardinality(S) \in Nat
  BY FS_CardinalityType
<1>2. IsFiniteSet(1..Cardinality(S)) /\ Cardinality(1..Cardinality(S)) = Cardinality(S)
  BY <1>1, FS_Interval
<1>3. f \in Injection(1..Cardinality(S), S)
  BY DEF Injection, IsInjective
<1>4. f \in Surjection(1..Cardinality(S), S)
  BY <1>2, <1>3, FS_Injection
<1> QED BY <1>4 DEF Surjection

\* A sequence in which nothing is twice, cut in two around its n-th element.
LEMMA CutFacts ==
  ASSUME NEW S, NEW d \in Seq(S), IsInjective(d), NEW n \in 1..Len(d),
         NEW f \in Seq(S), NEW g \in Seq(S), Len(f) = n - 1, Len(g) = Len(d) - n,
         \A i \in 1..(n-1) : f[i] = d[i], \A i \in 1..(Len(d)-n) : g[i] = d[n+i]
  PROVE  /\ IsInjective(f) /\ IsInjective(g) /\ ToSet(f) \cap ToSet(g) = {}
         /\ d[n] \notin ToSet(f) /\ d[n] \notin ToSet(g)
         /\ \A x : x \in ToSet(d) <=> x \in ToSet(f) \/ x \in ToSet(g) \/ x = d[n]
<1> DEFINE m == Len(d)
<1>1. /\ m \in Nat /\ DOMAIN d = 1..m /\ DOMAIN f = 1..(n-1) /\ DOMAIN g = 1..(m-n)
  BY LenProperties
<1>2. \A i, j \in 1..m : d[i] = d[j] => i = j
  BY <1>1 DEF IsInjective
<1> HIDE DEF m
<1>3. \A i \in 1..(n-1) : i \in 1..m /\ i # n /\ f[i] = d[i]
  BY <1>1 DEF m
<1>4. \A i \in 1..(m-n) : n + i \in 1..m /\ n + i > n /\ g[i] = d[n+i]
  BY <1>1 DEF m
<1>5. \A i \in 1..m : i \in 1..(n-1) \/ i = n \/ (i - n \in 1..(m-n) /\ n + (i - n) = i)
  BY <1>1
<1>6. \A x : x \in ToSet(f) <=> \E i \in 1..(n-1) : x = d[i]
  BY <1>1, <1>3, ZenonT(30) DEF ToSet
<1>7. \A x : x \in ToSet(g) <=> \E i \in 1..(m-n) : x = d[n+i]
  BY <1>1, <1>4 DEF ToSet
<1>8. n \in 1..m
  BY DEF m
<1>9. IsInjective(f)
  BY <1>1, <1>2, <1>3 DEF IsInjective
<1>10. IsInjective(g)
  <2> SUFFICES ASSUME NEW i \in 1..(m-n), NEW j \in 1..(m-n), g[i] = g[j] PROVE i = j
    BY <1>1 DEF IsInjective
  <2>1. n + i \in 1..m /\ n + j \in 1..m /\ d[n+i] = d[n+j]
    BY <1>4
  <2>2. n + i = n + j
    BY <1>2, <2>1
  <2> QED BY <1>1, <2>2
<1>11. ToSet(f) \cap ToSet(g) = {}
  <2> SUFFICES ASSUME NEW x \in ToSet(f), x \in ToSet(g) PROVE FALSE
    OBVIOUS
  <2>1. PICK i \in 1..(n-1) : x = d[i]
    BY <1>6
  <2>2. PICK j \in 1..(m-n) : x = d[n+j]
    BY <1>7
  <2>3. i \in 1..m /\ n + j \in 1..m /\ d[i] = d[n+j]
    BY <1>3, <1>4, <2>1, <2>2
  <2>4. i = n + j
    BY <1>2, <2>3
  <2> QED BY <1>1, <2>4
<1>12. d[n] \notin ToSet(f)
  <2> SUFFICES ASSUME NEW j \in 1..(n-1), d[n] = d[j] PROVE FALSE
    BY <1>6
  <2> QED BY <1>2, <1>3, <1>8
<1>13. d[n] \notin ToSet(g)
  <2> SUFFICES ASSUME NEW j \in 1..(m-n), d[n] = d[n+j] PROVE FALSE
    BY <1>7
  <2>1. n + j \in 1..m /\ n + j > n
    BY <1>4
  <2>2. n = n + j
    BY <1>2, <1>8, <2>1
  <2> QED BY <1>1, <2>1, <2>2
<1>14. \A x : x \in ToSet(d) <=> x \in ToSet(f) \/ x \in ToSet(g) \/ x = d[n]
  <2>1. \A x : x \in ToSet(d) <=> \E i \in 1..m : x = d[i]
    BY <1>1 DEF ToSet
  <2>2. ASSUME NEW x \in ToSet(d) PROVE x \in ToSet(f) \/ x \in ToSet(g) \/ x = d[n]
    <3>1. PICK i \in 1..m : x = d[i]
      BY <2>1
    <3>2. CASE i \in 1..(n-1)
      BY <1>6, <3>1, <3>2
    <3>3. CASE i - n \in 1..(m-n) /\ n + (i - n) = i
      BY <1>7, <3>1, <3>3
    <3> QED BY <1>5, <3>1, <3>2, <3>3
  <2>3. ASSUME NEW x \in ToSet(f) PROVE x \in ToSet(d)
    BY <1>3, <1>6, <2>1
  <2>4. ASSUME NEW x \in ToSet(g) PROVE x \in ToSet(d)
    <3>1. PICK i \in 1..(m-n) : x = d[n+i]
      BY <1>7
    <3> QED BY <1>4, <2>1, <3>1
  <2> QED BY <1>8, <2>1, <2>2, <2>3, <2>4
<1> QED BY <1>9, <1>10, <1>11, <1>12, <1>13, <1>14

\* A sequence in which nothing is twice, without its n-th element.
LEMMA RemoveFacts ==
  ASSUME NEW S, NEW d \in Seq(S), IsInjective(d), NEW n \in 1..Len(d),
         NEW f \in Seq(S), Len(f) = Len(d) - 1,
         \A i \in 1..(Len(d)-1) : f[i] = IF i < n THEN d[i] ELSE d[i+1]
  PROVE  /\ IsInjective(f) /\ d[n] \in ToSet(d)
         /\ \A x : x \in ToSet(f) <=> x \in ToSet(d) /\ x # d[n]
<1> DEFINE m == Len(d)
           h(i) == IF i < n THEN i ELSE i + 1
<1>1. m \in Nat /\ DOMAIN d = 1..m /\ DOMAIN f = 1..(m-1)
  BY LenProperties
<1>2. \A i, j \in 1..m : d[i] = d[j] => i = j
  BY <1>1 DEF IsInjective
<1>3. n \in 1..m
  OBVIOUS
<1>4. \A i \in 1..(m-1) : h(i) \in 1..m /\ h(i) # n /\ f[i] = d[h(i)]
  BY <1>1, <1>3
<1>5. \A i, j \in 1..(m-1) : h(i) = h(j) => i = j
  BY <1>1, <1>3
<1>6. \A j \in 1..m : j # n => \E i \in 1..(m-1) : h(i) = j
  <2> SUFFICES ASSUME NEW j \in 1..m, j # n PROVE \E i \in 1..(m-1) : h(i) = j
    OBVIOUS
  <2>1. CASE j < n
    <3>1. j \in 1..(m-1) /\ h(j) = j
      BY <1>1, <1>3, <2>1
    <3> QED BY <3>1
  <2>2. CASE j > n
    <3>1. j - 1 \in 1..(m-1) /\ h(j-1) = j
      BY <1>1, <1>3, <2>2
    <3> QED BY <3>1
  <2> QED BY <1>1, <1>3, <2>1, <2>2
<1> HIDE DEF m, h
<1>7. IsInjective(f)
  <2> SUFFICES ASSUME NEW i \in 1..(m-1), NEW j \in 1..(m-1), f[i] = f[j] PROVE i = j
    BY <1>1 DEF IsInjective
  <2>1. h(i) = h(j)
    BY <1>2, <1>4
  <2> QED BY <1>5, <2>1
<1>8. d[n] \in ToSet(d)
  BY <1>1, <1>3 DEF ToSet
<1>9. \A x : x \in ToSet(d) <=> \E i \in 1..m : x = d[i]
  BY <1>1 DEF ToSet
<1>10. \A x : x \in ToSet(f) <=> \E i \in 1..(m-1) : x = f[i]
  BY <1>1 DEF ToSet
<1>11. ASSUME NEW x \in ToSet(f) PROVE x \in ToSet(d) /\ x # d[n]
  <2>1. PICK i \in 1..(m-1) : x = f[i]
    BY <1>10
  <2>2. h(i) \in 1..m /\ h(i) # n /\ x = d[h(i)]
    BY <1>4, <2>1
  <2> QED BY <1>2, <1>3, <1>9, <2>2
<1>12. ASSUME NEW x \in ToSet(d), x # d[n] PROVE x \in ToSet(f)
  <2>1. PICK j \in 1..m : x = d[j]
    BY <1>9
  <2>2. j # n
    BY <1>12, <2>1
  <2>3. PICK i \in 1..(m-1) : h(i) = j
    BY <1>6, <2>2
  <2> QED BY <1>4, <1>10, <2>1, <2>3
<1> QED BY <1>7, <1>8, <1>11, <1>12

=============================================================================
