----------------------------- MODULE OrderLemmas -----------------------------
(***************************************************************************)
(* Least and greatest elements of sets of numbers, smallest members of     *)
(* collections of sets, and sums.  The library's induction principles take *)
(* an operator as a parameter; here a least element is derived from the    *)
(* well-foundedness of strict inclusion of finite sets, by representing a  *)
(* number n by the interval 0..n-1, and what induction would show follows  *)
(* from a least or smallest counterexample.                                *)
(***************************************************************************)
EXTENDS Integers, FiniteSetTheorems, WellFoundedInduction, TLAPS

\* Every nonempty set of natural numbers has a least element.
LEMMA LeastElement ==
    ASSUME NEW S \in SUBSET Nat, S # {}
    PROVE  \E x \in S : \A y \in S : x <= y
<1> DEFINE seg(n) == 0..(n - 1)
           T == {seg(n) : n \in S}
<1>1. T \subseteq FiniteSubsetsOf(Nat)
  <2>1. ASSUME NEW n \in S PROVE seg(n) \in SUBSET Nat /\ IsFiniteSet(seg(n))
    <3>1. n \in Int /\ 0 \in Int /\ n - 1 \in Int
      OBVIOUS
    <3>2. IsFiniteSet(0..(n - 1))
      BY <3>1, FS_Interval
    <3> QED
      BY <3>2
  <2> QED
    BY <2>1 DEF FiniteSubsetsOf
<1>2. T # {}
  OBVIOUS
<1>3. PICK t \in T : \A u \in T : ~ (<<u, t>> \in StrictSubsetOrdering(Nat))
  <2> HIDE DEF T
  <2> QED
    BY <1>1, <1>2, FS_StrictSubsetOrderingWellFounded, WFMin
<1>4. PICK x \in S : t = seg(x)
  OBVIOUS
<1>5. ASSUME NEW y \in S, y < x PROVE FALSE
  <2>1. seg(y) \subseteq seg(x) /\ seg(y) # seg(x)
    <3>1. y \in seg(x) /\ y \notin seg(y)
      BY <1>5
    <3> QED
      BY <3>1, <1>5
  <2>2. <<seg(y), seg(x)>> \in StrictSubsetOrdering(Nat)
    BY <2>1 DEF StrictSubsetOrdering
  <2> QED
    BY <1>3, <1>4, <2>2
<1> QED
  BY <1>5

\* A nonempty set of natural numbers below a bound has a greatest element.
LEMMA GreatestElement ==
    ASSUME NEW S \in SUBSET Nat, S # {}, NEW b \in Nat, \A x \in S : x <= b
    PROVE  \E x \in S : \A y \in S : y <= x
<1> DEFINE R == {b - x : x \in S}
<1>1. R \in SUBSET Nat /\ R # {}
  <2>1. ASSUME NEW x \in S PROVE b - x \in Nat
    <3>1. x \in Nat /\ x <= b
      OBVIOUS
    <3> QED
      BY <3>1
  <2>2. R \subseteq Nat
    BY <2>1, Zenon
  <2>3. R # {}
    OBVIOUS
  <2> QED
    BY <2>2, <2>3
<1>2. PICK r \in R : \A q \in R : r <= q
  <2> HIDE DEF R
  <2> QED
    BY <1>1, LeastElement
<1>3. PICK x \in S : r = b - x
  OBVIOUS
<1>4. \A y \in S : y <= x
  BY <1>2, <1>3
<1> QED
  BY <1>4

-------------------------------------------------------------------------------
\* Every nonempty collection of subsets of a finite set has a member that
\* contains no other member: what holds of a set when it holds of its proper
\* subsets holds of all.
LEMMA SmallestSet ==
    ASSUME NEW D, IsFiniteSet(D), NEW C \in SUBSET SUBSET D, C # {}
    PROVE  \E s \in C : \A t \in C : t \subseteq s => t = s
<1>1. C \subseteq FiniteSubsetsOf(D)
  BY FS_FiniteSubsetsOfFinite
<1>2. PICK s \in C : \A t \in C : ~ (<<t, s>> \in StrictSubsetOrdering(D))
  BY <1>1, FS_StrictSubsetOrderingWellFounded, WFMin
<1>3. ASSUME NEW t \in C, t \subseteq s, t # s PROVE FALSE
  <2>1. <<t, s>> \in StrictSubsetOrdering(D)
    BY <1>3 DEF StrictSubsetOrdering
  <2> QED
    BY <1>2, <2>1
<1> QED
  BY <1>3

\* The element a fold over a function takes first.
First(s) == CHOOSE i \in s : TRUE

LEMMA FirstType == \A s : s # {} => First(s) \in s
BY DEF First

\* A function from the subsets of D to their sums under f.
OneMore(f, D, g) ==
    [s \in SUBSET D |-> IF s = {} THEN 0 ELSE f[First(s)] + g[s \ {First(s)}]]

SumsUnder(f, D) == CHOOSE g : g = OneMore(f, D, g)

LEMMA FoldIsSum ==
    ASSUME NEW D, NEW f \in [D -> Nat]
    PROVE  FoldFunction(+, 0, f) = SumsUnder(f, D)[D]
BY DEF FoldFunction, FoldFunctionOnSet, MapThenFoldSet, SumsUnder, OneMore, First

\* The sums exist: those of sets with at most n elements define those of sets
\* with one more.
LEMMA SumsExist ==
    ASSUME NEW D, IsFiniteSet(D), NEW f \in [D -> Nat]
    PROVE  \E g \in [SUBSET D -> Nat] : g = OneMore(f, D, g)
<1> DEFINE small(n) == {s \in SUBSET D : Cardinality(s) <= n}
           sums(n) == {g \in [small(n) -> Nat] :
                         g = [s \in small(n) |->
                                IF s = {} THEN 0 ELSE f[First(s)] + g[s \ {First(s)}]]}
           missing == {n \in Nat : sums(n) = {}}
<1>1. \A s \in SUBSET D : IsFiniteSet(s) /\ Cardinality(s) \in Nat
  BY FS_Subset, FS_CardinalityType
<1>2. small(0) = {{}}
  BY <1>1, FS_EmptySet
<1>3. sums(0) # {}
  <2> DEFINE g == [s \in small(0) |-> 0]
  <2>1. g \in [small(0) -> Nat]
    OBVIOUS
  <2>2. g = [s \in small(0) |-> IF s = {} THEN 0 ELSE f[First(s)] + g[s \ {First(s)}]]
    BY <1>2
  <2> QED
    BY <2>1, <2>2
<1>4. ASSUME NEW n \in Nat, sums(n) # {} PROVE sums(n + 1) # {}
  <2>1. PICK g \in [small(n) -> Nat] :
           g = [s \in small(n) |-> IF s = {} THEN 0 ELSE f[First(s)] + g[s \ {First(s)}]]
    BY <1>4
  <2> DEFINE h == [s \in small(n + 1) |->
                     IF s = {} THEN 0 ELSE f[First(s)] + g[s \ {First(s)}]]
  <2>2. ASSUME NEW s \in small(n + 1), s # {}
        PROVE  First(s) \in D /\ s \ {First(s)} \in small(n)
    <3>1. First(s) \in s /\ s \subseteq D
      BY <2>2, FirstType
    <3>2. Cardinality(s \ {First(s)}) = Cardinality(s) - 1
      BY <1>1, <3>1, FS_RemoveElement
    <3> QED
      BY <1>1, <3>1, <3>2
  <2>3. h \in [small(n + 1) -> Nat]
    <3>1. ASSUME NEW s \in small(n + 1)
          PROVE  (IF s = {} THEN 0 ELSE f[First(s)] + g[s \ {First(s)}]) \in Nat
      <4>1. CASE s = {}
        BY <4>1
      <4>2. CASE s # {}
        <5> HIDE DEF small
        <5>1. f[First(s)] \in Nat /\ g[s \ {First(s)}] \in Nat
          BY <4>2, <2>2
        <5> QED
          BY <4>2, <5>1
      <4> QED
        BY <4>1, <4>2
    <3> HIDE DEF small
    <3> QED
      BY <3>1
  <2>4. \A s \in small(n) : s \in small(n + 1) /\ h[s] = g[s]
    <3>1. small(n) \subseteq small(n + 1)
      BY <1>1
    <3> HIDE DEF small
    <3> QED
      BY <2>1, <3>1
  <2>5. h = [s \in small(n + 1) |-> IF s = {} THEN 0 ELSE f[First(s)] + h[s \ {First(s)}]]
    <3>1. \A s \in small(n + 1) : s # {} => h[s \ {First(s)}] = g[s \ {First(s)}]
      BY <2>2, <2>4
    <3> HIDE DEF small
    <3> QED
      BY <3>1
  <2> QED
    BY <2>3, <2>5
<1>5. missing = {}
  <2>1. SUFFICES ASSUME missing # {} PROVE FALSE
    OBVIOUS
  <2> HIDE DEF sums
  <2>2. PICK n \in missing : \A m \in missing : n <= m
    BY <2>1, LeastElement
  <2>3. n # 0
    BY <1>3
  <2>4. n - 1 \in Nat /\ n - 1 \notin missing
    BY <2>2, <2>3
  <2> QED
    BY <2>2, <2>4, <1>4
<1>6. Cardinality(D) \in Nat /\ small(Cardinality(D)) = SUBSET D
  BY <1>1, FS_CardinalityType, FS_Subset
<1>7. sums(Cardinality(D)) # {}
  <2> HIDE DEF sums
  <2> QED
    BY <1>5, <1>6
<1> QED
  BY <1>6, <1>7 DEF OneMore

\* Every sum is that of the set without one of its elements, plus that element.
LEMMA SumStep ==
    ASSUME NEW D, IsFiniteSet(D), NEW f \in [D -> Nat]
    PROVE  \A s \in SUBSET D :
              SumsUnder(f, D)[s] =
                 IF s = {} THEN 0 ELSE f[First(s)] + SumsUnder(f, D)[s \ {First(s)}]
<1>1. SumsUnder(f, D) = OneMore(f, D, SumsUnder(f, D))
  BY SumsExist DEF SumsUnder
<1> QED
  BY <1>1 DEF OneMore

LEMMA SumType ==
    ASSUME NEW D, IsFiniteSet(D), NEW f \in [D -> Nat]
    PROVE  \A s \in SUBSET D : SumsUnder(f, D)[s] \in Nat
<1> DEFINE G == SumsUnder(f, D)
           bad == {s \in SUBSET D : G[s] \notin Nat}
<1>1. SUFFICES ASSUME bad # {} PROVE FALSE
  OBVIOUS
<1>2. PICK s \in bad : \A t \in bad : t \subseteq s => t = s
  <2>1. bad \in SUBSET SUBSET D
    OBVIOUS
  <2> HIDE DEF bad
  <2> QED
    BY <1>1, <2>1, SmallestSet
<1>3. G[s] = IF s = {} THEN 0 ELSE f[First(s)] + G[s \ {First(s)}]
  BY SumStep
<1> HIDE DEF G
<1>4. CASE s = {}
  BY <1>3, <1>4
<1>5. CASE s # {}
  <2>1. First(s) \in s /\ First(s) \in D
    BY <1>5, FirstType
  <2>2. s \ {First(s)} \notin bad
    BY <1>2, <2>1
  <2>3. G[s \ {First(s)}] \in Nat
    BY <2>2
  <2> QED
    BY <1>3, <1>5, <2>1, <2>3
<1> QED
  BY <1>4, <1>5

\* A sum grows with its terms.
LEMMA SumMonotone ==
    ASSUME NEW D, IsFiniteSet(D), NEW f \in [D -> Nat], NEW h \in [D -> Nat],
           \A i \in D : f[i] <= h[i]
    PROVE  \A s \in SUBSET D : SumsUnder(f, D)[s] <= SumsUnder(h, D)[s]
<1> DEFINE F == SumsUnder(f, D)
           H == SumsUnder(h, D)
           bad == {s \in SUBSET D : ~ (F[s] <= H[s])}
<1>1. SUFFICES ASSUME bad # {} PROVE FALSE
  OBVIOUS
<1>2. PICK s \in bad : \A t \in bad : t \subseteq s => t = s
  <2>1. bad \in SUBSET SUBSET D
    OBVIOUS
  <2> HIDE DEF bad
  <2> QED
    BY <1>1, <2>1, SmallestSet
<1>3. /\ F[s] = IF s = {} THEN 0 ELSE f[First(s)] + F[s \ {First(s)}]
      /\ H[s] = IF s = {} THEN 0 ELSE h[First(s)] + H[s \ {First(s)}]
  BY SumStep
<1>4. \A t \in SUBSET D : F[t] \in Nat /\ H[t] \in Nat
  BY SumType
<1> HIDE DEF F, H
<1>5. CASE s = {}
  BY <1>3, <1>5
<1>6. CASE s # {}
  <2>1. First(s) \in s /\ First(s) \in D
    BY <1>6, FirstType
  <2>2. s \ {First(s)} \notin bad /\ s \ {First(s)} \in SUBSET D
    BY <1>2, <2>1
  <2>3. F[s \ {First(s)}] <= H[s \ {First(s)}]
    BY <2>2
  <2>4. f[First(s)] <= h[First(s)] /\ f[First(s)] \in Nat /\ h[First(s)] \in Nat
    BY <2>1
  <2> QED
    BY <1>3, <1>4, <1>6, <2>2, <2>3, <2>4
<1> QED
  BY <1>5, <1>6

\* A sum is at least any three of its terms.
LEMMA SumOfThree ==
    ASSUME NEW D, IsFiniteSet(D), NEW f \in [D -> Nat],
           NEW i \in D, NEW j \in D, NEW k \in D, i # j, j # k, i # k
    PROVE  f[i] + f[j] + f[k] <= SumsUnder(f, D)[D]
<1> DEFINE F == SumsUnder(f, D)
           part(s, l) == IF l \in s THEN f[l] ELSE 0
           bad == {s \in SUBSET D : ~ (part(s, i) + part(s, j) + part(s, k) <= F[s])}
<1>1. SUFFICES ASSUME bad # {} PROVE FALSE
  OBVIOUS
<1>2. PICK s \in bad : \A t \in bad : t \subseteq s => t = s
  <2>1. bad \in SUBSET SUBSET D
    OBVIOUS
  <2> HIDE DEF bad
  <2> QED
    BY <1>1, <2>1, SmallestSet
<1>3. F[s] = IF s = {} THEN 0 ELSE f[First(s)] + F[s \ {First(s)}]
  BY SumStep
<1>4. \A t \in SUBSET D : F[t] \in Nat
  BY SumType
<1>5. \A l \in D : f[l] \in Nat
  OBVIOUS
<1> HIDE DEF F
<1>6. CASE s = {}
  BY <1>3, <1>6
<1>7. CASE s # {}
  <2> DEFINE e == First(s)
             t == s \ {e}
  <2>1. e \in s /\ e \in D
    BY <1>7, FirstType
  <2>2. t \notin bad /\ t \in SUBSET D
    BY <1>2, <2>1
  <2>3. part(t, i) + part(t, j) + part(t, k) <= F[t]
    BY <2>2
  <2>4. \A l \in D : part(s, l) = IF l = e THEN f[e] ELSE part(t, l)
    BY <2>1
  <2>5. \A l \in D : part(s, l) \in Nat /\ part(t, l) \in Nat
    BY <1>5
  <2>6. part(t, e) = 0
    OBVIOUS
  <2>7. part(s, i) + part(s, j) + part(s, k) <= f[e] + (part(t, i) + part(t, j) + part(t, k))
    <3> HIDE DEF part, t, e
    <3> QED
      BY <1>5, <2>1, <2>4, <2>5, <2>6
  <2> QED
    <3>1. F[s] = f[e] + F[t]
      BY <1>3, <1>7
    <3>2. ~ (part(s, i) + part(s, j) + part(s, k) <= F[s])
      BY <1>2
    <3> HIDE DEF part, t, e
    <3> QED
      BY <1>4, <1>5, <2>1, <2>2, <2>3, <2>5, <2>7, <3>1, <3>2
<1> QED
  BY <1>6, <1>7
===============================================================================
