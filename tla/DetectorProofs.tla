---------------------------- MODULE DetectorProofs ----------------------------
(***************************************************************************)
(* Proofs about Multiturn, for any size of the window, any thresholds and  *)
(* any turns, and about RulesFile, for any rules, any saves and any clock. *)
(***************************************************************************)
EXTENDS Multiturn, RulesFile, OrderLemmas, SequenceTheorems

-------------------------------------------------------------------------------
(***************************************************************************)
(* Multiturn.  The decayed sum is a fold over a function and the weights a *)
(* recursive function: what they compute is shown by least counterexamples *)
(* (OrderLemmas).                                                          *)
(***************************************************************************)
\* The weights of the turns: one round of their definition, from the newest to
\* the n-th before it.
Decay(n, g) == [i \in 0..n |-> IF i = 0 THEN MaxScore \div 20 ELSE (g[i - 1] * 17) \div 20]

LEMMA UnitType == MaxScore \div 20 \in Nat /\ MaxScore \div 400 \in Nat
                  /\ MaxScore = 400 * (MaxScore \div 400)
BY TurnsTyped, ThresholdsOrdered

LEMMA DecayedType == \A x \in Nat : (x * 17) \div 20 \in Nat /\ (x * 17) \div 20 <= x
OBVIOUS

LEMMA WeightsExist == \A n \in Nat : \E g \in [0..n -> Nat] : g = Decay(n, g)
<1> DEFINE weights(n) == {g \in [0..n -> Nat] : g = Decay(n, g)}
           missing == {n \in Nat : weights(n) = {}}
<1>1. weights(0) # {}
  <2> DEFINE g == [i \in 0..0 |-> MaxScore \div 20]
  <2>1. g \in [0..0 -> Nat]
    BY UnitType
  <2>2. g = Decay(0, g)
    BY DEF Decay
  <2> QED
    BY <2>1, <2>2
<1>2. ASSUME NEW n \in Nat, weights(n) # {} PROVE weights(n + 1) # {}
  <2>1. PICK g \in [0..n -> Nat] : g = Decay(n, g)
    BY <1>2
  <2> DEFINE h == Decay(n + 1, g)
  <2>2. h \in [0..(n + 1) -> Nat]
    BY UnitType, DecayedType DEF Decay
  <2>3. ASSUME NEW i \in 0..n PROVE h[i] = g[i]
    <3> DEFINE next == IF i = 0 THEN MaxScore \div 20 ELSE (g[i - 1] * 17) \div 20
    <3>1. Decay(n, g)[i] = next
      BY DEF Decay
    <3>2. Decay(n + 1, g)[i] = next
      BY DEF Decay
    <3> HIDE DEF next
    <3> QED
      BY <2>1, <3>1, <3>2
  <2>4. h = Decay(n + 1, h)
    <3>1. \A i \in 0..(n + 1) : i # 0 => h[i - 1] = g[i - 1]
      <4> HIDE DEF h
      <4> QED
        BY <2>3
    <3> QED
      BY <3>1 DEF Decay
  <2> HIDE DEF h
  <2> QED
    BY <2>2, <2>4
<1>3. missing = {}
  <2>1. SUFFICES ASSUME missing # {} PROVE FALSE
    OBVIOUS
  <2> HIDE DEF weights
  <2>2. PICK n \in missing : \A m \in missing : n <= m
    BY <2>1, LeastElement
  <2>3. n # 0
    BY <1>1
  <2>4. n - 1 \in Nat /\ n - 1 \notin missing
    BY <2>2, <2>3
  <2> QED
    BY <2>2, <2>4, <1>2
<1>4. ASSUME NEW n \in Nat PROVE weights(n) # {}
  <2> HIDE DEF weights
  <2> QED
    BY <1>3
<1> QED
  BY <1>4

LEMMA WeightStep ==
    \A i \in 0..WindowSize - 1 :
       Weight[i] = IF i = 0 THEN MaxScore \div 20 ELSE (Weight[i - 1] * 17) \div 20
<1>1. WindowSize - 1 \in Nat
  BY TurnsTyped
<1>2. Weight = Decay(WindowSize - 1, Weight)
  BY <1>1, WeightsExist DEF Weight, Decay
<1> QED
  BY <1>2 DEF Decay

LEMMA WeightType == \A i \in 0..WindowSize - 1 : Weight[i] \in Nat
<1> DEFINE bad == {i \in 0..WindowSize - 1 : Weight[i] \notin Nat}
<1>1. SUFFICES ASSUME bad # {} PROVE FALSE
  OBVIOUS
<1>2. bad \in SUBSET Nat
  BY TurnsTyped
<1>3. PICK i \in bad : \A j \in bad : i <= j
  BY <1>1, <1>2, LeastElement
<1>4. i # 0
  BY WeightStep, UnitType
<1>5. i - 1 \in 0..WindowSize - 1 /\ i - 1 \notin bad
  BY <1>3, <1>4, TurnsTyped
<1>6. Weight[i - 1] \in Nat
  BY <1>5
<1>7. Weight[i] = (Weight[i - 1] * 17) \div 20
  BY <1>4, WeightStep
<1> QED
  BY <1>6, <1>7, DecayedType

\* An older turn never weighs more than a newer one.
LEMMA WeightFalls ==
    \A i, j \in 0..WindowSize - 1 : i <= j => Weight[j] <= Weight[i]
<1> SUFFICES ASSUME NEW i \in 0..WindowSize - 1
             PROVE  \A j \in 0..WindowSize - 1 : i <= j => Weight[j] <= Weight[i]
  OBVIOUS
<1> DEFINE bad == {j \in 0..WindowSize - 1 : i <= j /\ ~ (Weight[j] <= Weight[i])}
<1>1. SUFFICES ASSUME bad # {} PROVE FALSE
  OBVIOUS
<1>2. bad \in SUBSET Nat
  BY TurnsTyped
<1>3. PICK j \in bad : \A k \in bad : j <= k
  BY <1>1, <1>2, LeastElement
<1>4. Weight[i] \in Nat /\ Weight[j] \in Nat
  BY WeightType
<1>5. i < j
  BY <1>4, TurnsTyped
<1>6. j - 1 \in 0..WindowSize - 1 /\ i <= j - 1 /\ j - 1 \notin bad
  BY <1>3, <1>5, TurnsTyped
<1>7. Weight[j - 1] <= Weight[i] /\ Weight[j - 1] \in Nat
  BY <1>6, WeightType
<1>8. Weight[j] = (Weight[j - 1] * 17) \div 20
  BY <1>5, WeightStep, TurnsTyped
<1>9. Weight[j] <= Weight[j - 1]
  BY <1>7, <1>8, DecayedType
<1> QED
  BY <1>4, <1>7, <1>9

-------------------------------------------------------------------------------
\* What the deque may hold.
Windows == {w \in Seq(Turns) : Len(w) <= WindowSize}

\* The terms of the decayed sum.
Terms(w) == [i \in DOMAIN w |-> w[i].score * Weight[Len(w) - i]]

LEMMA TurnType ==
    \A t \in Turns : t.tag \in Tags /\ t.score \in 0..20 /\ t.score \in Nat
BY TurnsTyped

LEMMA ProductType == \A x, y \in Nat : x * y \in Nat
OBVIOUS

LEMMA ProductGrows ==
    \A x, y, z, v \in Nat : x <= y => z * x <= z * y /\ x * z <= y * z
OBVIOUS

LEMMA Product ==
    ASSUME NEW x \in Nat, NEW y \in Nat, NEW z \in Nat, NEW v \in Nat, x <= y, z <= v
    PROVE  x * z <= y * v
<1>1. x * z \in Nat /\ y * z \in Nat /\ y * v \in Nat
  BY ProductType
<1>2. x * z <= y * z /\ y * z <= y * v
  BY ProductGrows
<1> QED
  BY <1>1, <1>2

LEMMA WindowType ==
    ASSUME NEW w \in Windows
    PROVE  /\ Len(w) \in 0..WindowSize /\ DOMAIN w = 1..Len(w)
           /\ IsFiniteSet(DOMAIN w)
           /\ \A i \in DOMAIN w : /\ w[i] \in Turns /\ w[i].score \in Nat
                                  /\ Len(w) - i \in 0..WindowSize - 1
                                  /\ Weight[Len(w) - i] \in Nat
<1>1. w \in Seq(Turns) /\ Len(w) <= WindowSize /\ Len(w) \in Nat /\ DOMAIN w = 1..Len(w)
  BY LenProperties DEF Windows
<1>2. IsFiniteSet(DOMAIN w)
  BY <1>1, FS_Interval
<1>3. ASSUME NEW i \in DOMAIN w
      PROVE  w[i] \in Turns /\ Len(w) - i \in 0..WindowSize - 1
  BY <1>1, TurnsTyped, ElementOfSeq
<1> QED
  BY <1>1, <1>2, <1>3, TurnType, WeightType, TurnsTyped

LEMMA TermsType ==
    ASSUME NEW w \in Windows
    PROVE  Terms(w) \in [DOMAIN w -> Nat]
<1>1. \A i \in DOMAIN w : w[i].score * Weight[Len(w) - i] \in Nat
  BY WindowType, ProductType
<1> QED
  BY <1>1 DEF Terms

LEMMA CumulativeIsSum ==
    ASSUME NEW w \in Windows
    PROVE  CumulativeScore(w) = SumsUnder(Terms(w), DOMAIN w)[DOMAIN w]
<1>1. CumulativeScore(w) = FoldFunction(+, 0, Terms(w))
  BY DEF CumulativeScore, Terms
<1> QED
  BY <1>1, TermsType, FoldIsSum

LEMMA CumulativeType ==
    ASSUME NEW w \in Windows
    PROVE  CumulativeScore(w) \in Nat
<1>1. DOMAIN w \in SUBSET DOMAIN w /\ IsFiniteSet(DOMAIN w)
  BY WindowType
<1> QED
  BY <1>1, TermsType, CumulativeIsSum, SumType

\* The same turns with higher scores.
Outscores(v, w) ==
    /\ DOMAIN v = DOMAIN w
    /\ \A i \in DOMAIN w : w[i].score <= v[i].score

\* Riskier turns have a greater decayed sum.
LEMMA CumulativeGrows ==
    ASSUME NEW w \in Windows, NEW v \in Windows, Outscores(v, w)
    PROVE  CumulativeScore(w) <= CumulativeScore(v)
<1> DEFINE D == DOMAIN w
<1>1. DOMAIN v = D /\ Len(v) = Len(w) /\ IsFiniteSet(D) /\ D \in SUBSET D
  BY WindowType DEF Outscores
<1>2. ASSUME NEW i \in D PROVE Terms(w)[i] <= Terms(v)[i]
  <2>1. /\ Weight[Len(w) - i] \in Nat
        /\ w[i].score \in Nat /\ v[i].score \in Nat /\ w[i].score <= v[i].score
    BY <1>1, WindowType DEF Outscores
  <2>2. w[i].score * Weight[Len(w) - i] <= v[i].score * Weight[Len(w) - i]
    BY <2>1, ProductGrows, Zenon
  <2> QED
    BY <1>1, <2>2 DEF Terms
<1>3. Terms(w) \in [D -> Nat] /\ Terms(v) \in [D -> Nat]
  BY <1>1, TermsType
<1>4. SumsUnder(Terms(w), D)[D] <= SumsUnder(Terms(v), D)[D]
  <2> HIDE DEF D
  <2> QED
    BY <1>1, <1>2, <1>3, SumMonotone
<1> QED
  BY <1>1, <1>4, CumulativeIsSum

\* Three middling turns weigh at least what they would in the oldest places.
LEMMA ThreeWeigh ==
    ASSUME NEW w \in Windows, WindowSize >= 3,
           NEW i \in DOMAIN w, NEW j \in DOMAIN w, NEW k \in DOMAIN w, i < j, j < k,
           w[i].score >= Medium, w[j].score >= Medium, w[k].score >= Medium
    PROVE  Medium * (Weight[WindowSize - 1] + Weight[WindowSize - 2] + Weight[WindowSize - 3])
              <= CumulativeScore(w)
<1> DEFINE n == Len(w)
           T(l) == w[l].score * Weight[n - l]
<1>1. n \in 0..WindowSize /\ WindowSize \in Nat /\ i \in 1..n /\ j \in 1..n /\ k \in 1..n
  BY WindowType, TurnsTyped, Zenon
<1>2. /\ WindowSize - 1 \in 0..WindowSize - 1 /\ n - i \in 0..WindowSize - 1
      /\ n - i <= WindowSize - 1
      /\ WindowSize - 2 \in 0..WindowSize - 1 /\ n - j \in 0..WindowSize - 1
      /\ n - j <= WindowSize - 2
      /\ WindowSize - 3 \in 0..WindowSize - 1 /\ n - k \in 0..WindowSize - 1
      /\ n - k <= WindowSize - 3
  BY <1>1
<1>3. /\ Weight[WindowSize - 1] <= Weight[n - i]
      /\ Weight[WindowSize - 2] <= Weight[n - j]
      /\ Weight[WindowSize - 3] <= Weight[n - k]
  BY <1>2, WeightFalls
<1>4. \A l \in {i, j, k} : Medium <= w[l].score /\ w[l].score \in Nat
  BY WindowType DEF Medium
<1>5. Medium \in Nat
  BY DEF Medium
<1>6. /\ Medium * Weight[WindowSize - 1] <= T(i)
      /\ Medium * Weight[WindowSize - 2] <= T(j)
      /\ Medium * Weight[WindowSize - 3] <= T(k)
  <2>1. \A l \in 0..WindowSize - 1 : Weight[l] \in Nat
    BY WeightType
  <2>2. Medium * Weight[WindowSize - 1] <= T(i)
    BY <2>1, <1>2, <1>3, <1>4, <1>5, Product, Zenon
  <2>3. Medium * Weight[WindowSize - 2] <= T(j)
    BY <2>1, <1>2, <1>3, <1>4, <1>5, Product, Zenon
  <2>4. Medium * Weight[WindowSize - 3] <= T(k)
    BY <2>1, <1>2, <1>3, <1>4, <1>5, Product, Zenon
  <2> QED
    BY <2>2, <2>3, <2>4
<1>7. T(i) + T(j) + T(k) <= CumulativeScore(w)
  <2>1. i # j /\ j # k /\ i # k
    BY <1>1
  <2>2. Terms(w)[i] + Terms(w)[j] + Terms(w)[k] <= SumsUnder(Terms(w), DOMAIN w)[DOMAIN w]
    BY <2>1, WindowType, TermsType, SumOfThree, Zenon
  <2> QED
    BY <2>2, CumulativeIsSum DEF Terms
<1>8. \A l \in {i, j, k} : T(l) \in Nat
  BY WindowType, ProductType, Zenon
<1> DEFINE a == Weight[WindowSize - 1]
           b == Weight[WindowSize - 2]
           c == Weight[WindowSize - 3]
<1>9. CumulativeScore(w) \in Nat /\ a \in Nat /\ b \in Nat /\ c \in Nat
  BY <1>2, CumulativeType, WeightType
<1>10. Medium * a <= T(i) /\ Medium * b <= T(j) /\ Medium * c <= T(k)
  BY <1>6
<1> HIDE DEF T, a, b, c
<1>11. Medium * (a + b + c) <= CumulativeScore(w)
  BY <1>7, <1>8, <1>9, <1>10 DEF Medium
<1> QED
  BY <1>11 DEF a, b, c

-------------------------------------------------------------------------------
\* Places of a window with a middling turn.
MediumPlaces(w) == {i \in DOMAIN w : w[i].score >= Medium}

LEMMA MediumCountType ==
    ASSUME NEW w \in Windows
    PROVE  /\ MediumCount(w) = Cardinality(MediumPlaces(w)) /\ MediumCount(w) \in Nat
           /\ IsFiniteSet(MediumPlaces(w)) /\ MediumPlaces(w) \subseteq 1..Len(w)
<1>1. MediumPlaces(w) \in SUBSET DOMAIN w
  BY DEF MediumPlaces
<1>2. IsFiniteSet(MediumPlaces(w))
  BY <1>1, WindowType, FS_Subset, Zenon
<1> QED
  BY <1>1, <1>2, WindowType, FS_CardinalityType DEF MediumCount, MediumPlaces

LEMMA MediumCountGrows ==
    ASSUME NEW w \in Windows, NEW v \in Windows, Outscores(v, w)
    PROVE  MediumCount(w) <= MediumCount(v)
<1>1. MediumPlaces(w) \in SUBSET MediumPlaces(v)
  BY WindowType DEF MediumPlaces, Outscores, Medium
<1> QED
  BY <1>1, MediumCountType, FS_Subset, Zenon

\* Three elements of a set of three or more numbers, in their order.
LEMMA ThreeElements ==
    ASSUME NEW n \in Nat, NEW S \in SUBSET (1..n), IsFiniteSet(S), Cardinality(S) >= 3
    PROVE  \E i, j, k \in S : i < j /\ j < k
<1>1. \A T \in SUBSET S : IsFiniteSet(T) /\ Cardinality(T) \in Nat
  BY FS_Subset, FS_CardinalityType
<1>2. \A T \in SUBSET S : Cardinality(T) > 0 => \E x \in T : \A y \in T : y <= x
  <2>1. SUFFICES ASSUME NEW T \in SUBSET S, Cardinality(T) > 0
                 PROVE  \E x \in T : \A y \in T : y <= x
    OBVIOUS
  <2>2. T # {}
    BY <2>1, FS_EmptySet
  <2>3. T \in SUBSET Nat /\ \A x \in T : x <= n
    OBVIOUS
  <2> QED
    BY <2>2, <2>3, GreatestElement
<1>3. Cardinality(S) \in Nat /\ Cardinality(S) > 0
  BY <1>1
<1>4. PICK k \in S : \A y \in S : y <= k
  BY <1>2, <1>3
<1>5. Cardinality(S \ {k}) = Cardinality(S) - 1
  BY <1>4, FS_RemoveElement
<1>6. Cardinality(S \ {k}) > 0
  BY <1>3, <1>5
<1>7. PICK j \in S \ {k} : \A y \in S \ {k} : y <= j
  BY <1>2, <1>6
<1>8. Cardinality((S \ {k}) \ {j}) = Cardinality(S \ {k}) - 1
  BY <1>1, <1>7, FS_RemoveElement
<1>9. Cardinality((S \ {k}) \ {j}) > 0
  BY <1>3, <1>5, <1>8
<1>10. PICK i \in (S \ {k}) \ {j} : \A y \in (S \ {k}) \ {j} : y <= i
  BY <1>2, <1>9
<1>11. i <= j /\ j <= k /\ i # j /\ j # k /\ i \in Nat /\ j \in Nat /\ k \in Nat
  BY <1>4, <1>7, <1>10
<1>12. i < j /\ j < k
  BY <1>11
<1> QED
  BY <1>12

LEMMA CrescendoWeighs ==
    ASSUME CrescendoIsHeavy, NEW w \in Windows, MediumCount(w) >= 3
    PROVE  /\ 20 * TSan <= 17 * CumulativeScore(w) /\ TSan <= CumulativeScore(w)
           /\ TSan <= (MaxScore \div 100) * 92
<1>1. PICK i, j, k \in MediumPlaces(w) : i < j /\ j < k
  <2>1. /\ Len(w) \in Nat /\ MediumPlaces(w) \in SUBSET (1..Len(w))
        /\ IsFiniteSet(MediumPlaces(w)) /\ Cardinality(MediumPlaces(w)) >= 3
    BY WindowType, MediumCountType
  <2> QED
    BY <2>1, ThreeElements
<1>2. /\ i \in DOMAIN w /\ j \in DOMAIN w /\ k \in DOMAIN w
      /\ w[i].score >= Medium /\ w[j].score >= Medium /\ w[k].score >= Medium
  BY DEF MediumPlaces
<1>3. WindowSize >= 3
  BY <1>1, <1>2, WindowType, TurnsTyped
<1> DEFINE least == Medium * (Weight[WindowSize - 1] + Weight[WindowSize - 2] + Weight[WindowSize - 3])
<1>4. least <= CumulativeScore(w)
  BY <1>1, <1>2, <1>3, ThreeWeigh
<1>5. 20 * TSan <= 17 * least /\ TSan <= (MaxScore \div 100) * 92
  BY <1>3 DEF CrescendoIsHeavy
<1>6. least \in Nat
  <2>1. \A l \in {1, 2, 3} : WindowSize - l \in 0..WindowSize - 1
    BY <1>3, TurnsTyped
  <2>2. /\ Weight[WindowSize - 1] \in Nat /\ Weight[WindowSize - 2] \in Nat
        /\ Weight[WindowSize - 3] \in Nat
    BY <2>1, WeightType
  <2> QED
    BY <2>2 DEF Medium
<1> HIDE DEF least
<1> QED
  BY <1>4, <1>5, <1>6, CumulativeType, ThresholdsOrdered

\* What escalates weighs at least threshold_sanitize.
LEMMA EscalationWeighs ==
    ASSUME EscalationIsHeavy, NEW w \in Windows, ShouldEscalate(w)
    PROVE  TSan <= CumulativeScore(w)
BY CrescendoWeighs, CumulativeType, ThresholdsOrdered, TurnsTyped
   DEF EscalationIsHeavy, ShouldEscalate

LEMMA EscalationGrows ==
    ASSUME NEW w \in Windows, NEW v \in Windows, Outscores(v, w), ShouldEscalate(w)
    PROVE  ShouldEscalate(v)
BY CumulativeGrows, CumulativeType, MediumCountGrows, MediumCountType, TurnsTyped
   DEF ShouldEscalate

-------------------------------------------------------------------------------
\* A turn's score after the discount by provenance.
Discounted(t) == (MaxScore \div 400) * t.score * Multiplier(t.tag)

LEMMA DiscountType ==
    \A t \in Turns : Discounted(t) \in Nat /\ Discounted(t) <= MaxScore
<1> SUFFICES ASSUME NEW t \in Turns
             PROVE  Discounted(t) \in Nat /\ Discounted(t) <= MaxScore
  OBVIOUS
<1> DEFINE u == MaxScore \div 400
<1>1. u \in Nat /\ MaxScore = 400 * u
  BY UnitType
<1>2. Multiplier(t.tag) \in Nat /\ Multiplier(t.tag) <= 20
  BY TurnType DEF Multiplier, Tags
<1>3. t.score \in Nat /\ t.score <= 20
  BY TurnType
<1>4. u * t.score \in Nat /\ u * t.score <= 20 * u
  <2>1. u * t.score <= u * 20
    BY <1>1, <1>3, ProductGrows
  <2> QED
    BY <1>1, <1>3, <2>1, ProductType
<1> HIDE DEF u
<1>5. /\ u * t.score * Multiplier(t.tag) \in Nat
      /\ u * t.score * Multiplier(t.tag) <= (20 * u) * 20
  <2>1. 20 * u \in Nat /\ 20 \in Nat
    BY <1>1
  <2> QED
    BY <1>2, <1>4, <2>1, Product, ProductType
<1> QED
  BY <1>1, <1>5 DEF Discounted, u

LEMMA DiscountGrows ==
    ASSUME NEW t \in Turns, NEW s \in Turns, t.tag = s.tag, s.score <= t.score
    PROVE  Discounted(s) <= Discounted(t)
<1> DEFINE u == MaxScore \div 400
           m == Multiplier(t.tag)
<1>1. u \in Nat /\ m \in Nat /\ t.score \in Nat /\ s.score \in Nat
  BY UnitType, TurnType DEF Multiplier, Tags
<1> HIDE DEF u, m
<1>2. u * s.score <= u * t.score /\ u * s.score \in Nat /\ u * t.score \in Nat
  BY <1>1, ProductGrows, ProductType
<1>3. u * s.score * m <= u * t.score * m
  BY <1>1, <1>2, ProductGrows
<1> QED
  BY <1>3 DEF Discounted, u, m

\* The best score is that of some turn, or 0, and at least that of every turn.
LEMMA BestType ==
    ASSUME NEW ts \in Seq(Turns)
    PROVE  /\ Best(ts) \in 0..MaxScore
           /\ \A i \in DOMAIN ts : Discounted(ts[i]) <= Best(ts)
           /\ Best(ts) # 0 => \E i \in DOMAIN ts : Best(ts) = Discounted(ts[i])
<1> DEFINE S == {0} \cup {Discounted(ts[i]) : i \in DOMAIN ts}
<1>1. Best(ts) = CHOOSE x \in S : \A y \in S : x >= y
  BY DEF Best, Discounted, Max
<1>2. \A i \in DOMAIN ts : ts[i] \in Turns
  BY ElementOfSeq, LenProperties
<1>3. S \in SUBSET Nat /\ S # {} /\ \A x \in S : x <= MaxScore
  BY <1>2, DiscountType, ThresholdsOrdered
<1>4. \E x \in S : \A y \in S : y <= x
  <2> HIDE DEF S
  <2> QED
    BY <1>3, GreatestElement, ThresholdsOrdered
<1>5. Best(ts) \in S /\ \A y \in S : y <= Best(ts)
  <2> HIDE DEF S
  <2>1. \E x \in S : \A y \in S : x >= y
    BY <1>3, <1>4
  <2>2. Best(ts) \in S /\ \A y \in S : Best(ts) >= y
    BY <1>1, <2>1
  <2> QED
    BY <1>3, <2>2
<1>6. Best(ts) \in Nat /\ Best(ts) <= MaxScore
  <2> HIDE DEF S
  <2> QED
    BY <1>3, <1>5
<1>7. Best(ts) \in 0..MaxScore
  BY <1>6, ThresholdsOrdered
<1>8. \A i \in DOMAIN ts : Discounted(ts[i]) <= Best(ts)
  BY <1>5
<1>9. ASSUME Best(ts) # 0 PROVE \E i \in DOMAIN ts : Best(ts) = Discounted(ts[i])
  BY <1>5, <1>9
<1> QED
  BY <1>7, <1>8, <1>9

LEMMA BestGrows ==
    ASSUME NEW ts \in Seq(Turns), NEW us \in Seq(Turns), DOMAIN us = DOMAIN ts,
           \A i \in DOMAIN ts : us[i].tag = ts[i].tag /\ ts[i].score <= us[i].score
    PROVE  Best(ts) <= Best(us)
<1>1. Best(ts) \in Nat /\ Best(us) \in Nat
  BY BestType
<1>2. CASE Best(ts) = 0
  BY <1>1, <1>2
<1>3. CASE Best(ts) # 0
  <2>1. PICK i \in DOMAIN ts : Best(ts) = Discounted(ts[i])
    BY <1>3, BestType
  <2>2. ts[i] \in Turns /\ us[i] \in Turns
    BY ElementOfSeq, LenProperties
  <2>3. Discounted(ts[i]) <= Discounted(us[i])
    BY <2>2, DiscountGrows
  <2>4. Discounted(us[i]) <= Best(us)
    BY BestType
  <2> QED
    BY <1>1, <2>1, <2>2, <2>3, <2>4, DiscountType
<1> QED
  BY <1>2, <1>3

-------------------------------------------------------------------------------
LEMMA SeverityOf ==
    /\ Severity("block") = 4 /\ Severity("exclude") = 3 /\ Severity("sanitize") = 2
    /\ Severity("log") = 1 /\ Severity("allow") = 0
BY DEF Severity

LEMMA LevelForGrows ==
    ASSUME NEW x \in Nat, NEW y \in Nat, x <= y
    PROVE  Severity(LevelFor(x)) <= Severity(LevelFor(y))
BY SeverityOf, ThresholdsOrdered DEF LevelFor

LEMMA LevelForType ==
    ASSUME NEW x \in Nat
    PROVE  /\ LevelFor(x) \in Levels
           /\ LevelFor(x) \in {"allow", "log"} <=> x < TSan
BY ThresholdsOrdered DEF LevelFor, Levels

LEMMA MinOfTwo ==
    ASSUME NEW x \in Nat, NEW y \in Nat
    PROVE  Min({x, y}) = IF x <= y THEN x ELSE y
<1> DEFINE m == IF x <= y THEN x ELSE y
<1>1. m \in {x, y} /\ \A z \in {x, y} : m <= z
  OBVIOUS
<1>2. \A z \in {x, y} : (\A o \in {x, y} : z <= o) => z = m
  OBVIOUS
<1> HIDE DEF m
<1>3. (CHOOSE z \in {x, y} : \A o \in {x, y} : z <= o) = m
  BY <1>1, <1>2
<1>4. Min({x, y}) = m
  BY <1>3 DEF Min
<1> QED
  BY <1>4 DEF m

\* The raised confidence: 0.85 of the sum, and at most 0.92.
LEMMA RaisedIs ==
    ASSUME NEW w \in Windows
    PROVE  LET cap == (MaxScore \div 100) * 92
               cut == CumulativeScore(w) - (CumulativeScore(w) * 3 + 19) \div 20
           IN  /\ cap \in Nat /\ cut \in Nat /\ cap <= MaxScore /\ cut <= CumulativeScore(w)
               /\ Raised(w) = IF cap <= cut THEN cap ELSE cut
<1> DEFINE cap == (MaxScore \div 100) * 92
           cut == CumulativeScore(w) - (CumulativeScore(w) * 3 + 19) \div 20
<1>1. cap \in Nat /\ cap <= MaxScore
  BY ThresholdsOrdered
<1>2. \A c \in Nat : c - (c * 3 + 19) \div 20 \in Nat /\ c - (c * 3 + 19) \div 20 <= c
  OBVIOUS
<1>3. cut \in Nat /\ cut <= CumulativeScore(w)
  BY <1>2, CumulativeType
<1>4. Raised(w) = Min({cap, cut})
  BY DEF Raised
<1> HIDE DEF cap, cut
<1>5. Raised(w) = IF cap <= cut THEN cap ELSE cut
  BY <1>1, <1>3, <1>4, MinOfTwo
<1> QED
  BY <1>1, <1>3, <1>5 DEF cap, cut

LEMMA RaisedType ==
    ASSUME NEW w \in Windows
    PROVE  Raised(w) \in Nat /\ Raised(w) <= MaxScore /\ Raised(w) <= CumulativeScore(w)
BY RaisedIs, CumulativeType, ThresholdsOrdered

LEMMA RaisedGrows ==
    ASSUME NEW w \in Windows, NEW v \in Windows, CumulativeScore(w) <= CumulativeScore(v)
    PROVE  Raised(w) <= Raised(v)
<1>1. \A c, d \in Nat : c <= d => c - (c * 3 + 19) \div 20 <= d - (d * 3 + 19) \div 20
  OBVIOUS
<1>2. CumulativeScore(w) - (CumulativeScore(w) * 3 + 19) \div 20
         <= CumulativeScore(v) - (CumulativeScore(v) * 3 + 19) \div 20
  BY <1>1, CumulativeType
<1> QED
  BY <1>2, RaisedIs

\* The confidence of the classifier's result is one.
LEMMA FinalConfType ==
    ASSUME NEW ts \in Seq(Turns), NEW w \in Windows
    PROVE  FinalConf(ts, w) \in Scores /\ FinalConf(ts, w) \in Nat /\ Best(ts) <= FinalConf(ts, w)
<1>1. /\ Best(ts) \in Nat /\ Best(ts) <= MaxScore /\ MaxScore \in Nat
      /\ Raised(w) \in Nat /\ Raised(w) <= MaxScore
  BY BestType, RaisedType, ThresholdsOrdered
<1> QED
  BY <1>1 DEF FinalConf, Larger, Scores

\* A request that escalates passes as little as its confidence says, and never.
LEMMA SeverityOfResult ==
    ASSUME NEW ts \in Seq(Turns), NEW w \in Windows
    PROVE  /\ ~ Escalated(ts, w) =>
                Severity(ResultLevel(ts, w)) = Severity(LevelFor(Best(ts)))
           /\ Escalated(ts, w) =>
                Severity(ResultLevel(ts, w)) = Larger(2, Severity(LevelFor(FinalConf(ts, w))))
<1>1. LevelFor(FinalConf(ts, w)) \in Levels
  BY FinalConfType, LevelForType
<1>2. ASSUME ~ Escalated(ts, w)
      PROVE  ResultLevel(ts, w) = LevelFor(Best(ts))
  BY <1>2 DEF ResultLevel, FinalConf
<1>3. ASSUME Escalated(ts, w)
      PROVE  Severity(ResultLevel(ts, w)) = Larger(2, Severity(LevelFor(FinalConf(ts, w))))
  BY <1>1, <1>3, SeverityOf DEF ResultLevel, Levels, Larger
<1> QED
  BY <1>2, <1>3

\* A riskier request never has a lower level.
LEMMA ResultGrows ==
    ASSUME EscalationIsHeavy,
           NEW ts \in Seq(Turns), NEW us \in Seq(Turns), DOMAIN us = DOMAIN ts,
           \A i \in DOMAIN ts : us[i].tag = ts[i].tag /\ ts[i].score <= us[i].score,
           NEW w \in Windows, NEW v \in Windows, Outscores(v, w)
    PROVE  Severity(ResultLevel(ts, w)) <= Severity(ResultLevel(us, v))
<1> DEFINE sev(x) == Severity(LevelFor(x))
<1>1. /\ Best(ts) \in Nat /\ Best(us) \in Nat /\ Best(ts) <= Best(us)
  BY BestType, BestGrows
<1>2. /\ CumulativeScore(w) \in Nat /\ CumulativeScore(v) \in Nat
      /\ CumulativeScore(w) <= CumulativeScore(v)
  BY CumulativeType, CumulativeGrows
<1>3. /\ Raised(w) \in Nat /\ Raised(v) \in Nat /\ Raised(w) <= Raised(v)
      /\ Raised(w) <= CumulativeScore(w)
  BY <1>2, RaisedType, RaisedGrows
<1>4. /\ FinalConf(ts, w) \in Nat /\ FinalConf(us, v) \in Nat /\ Best(us) <= FinalConf(us, v)
  BY FinalConfType
<1>5. \A x, y \in Nat : sev(x) \in 0..4 /\ (x <= y => sev(x) <= sev(y))
  <2>1. \A x \in Nat : sev(x) \in 0..4
    BY LevelForType, SeverityOf DEF Levels
  <2> QED
    BY <2>1, LevelForGrows
<1>6. CASE ~ Escalated(ts, w)
  <2>1. Severity(ResultLevel(ts, w)) = sev(Best(ts))
    BY <1>6, SeverityOfResult
  <2>2. sev(Best(ts)) <= sev(FinalConf(us, v)) /\ sev(Best(ts)) <= sev(Best(us))
        /\ sev(FinalConf(us, v)) \in 0..4 /\ sev(Best(ts)) \in 0..4
    BY <1>1, <1>4, <1>5
  <2>3. CASE Escalated(us, v)
    <3>1. Severity(ResultLevel(us, v)) = Larger(2, sev(FinalConf(us, v)))
      BY <2>3, SeverityOfResult
    <3> HIDE DEF sev
    <3> QED
      BY <2>1, <2>2, <3>1 DEF Larger
  <2>4. CASE ~ Escalated(us, v)
    <3>1. Severity(ResultLevel(us, v)) = sev(Best(us))
      BY <2>4, SeverityOfResult
    <3> QED
      BY <2>1, <2>2, <3>1
  <2> QED
    BY <2>3, <2>4
<1>7. CASE Escalated(ts, w)
  <2>1. Severity(ResultLevel(ts, w)) = Larger(2, sev(FinalConf(ts, w)))
    BY <1>7, SeverityOfResult
  <2>2. FinalConf(ts, w) = Larger(Best(ts), Raised(w))
    BY <1>7 DEF FinalConf
  <2>3. ShouldEscalate(w) /\ ShouldEscalate(v)
    BY <1>7, EscalationGrows DEF Escalated
  <2>4. CASE Escalated(us, v)
    <3>1. FinalConf(us, v) = Larger(Best(us), Raised(v))
      BY <2>4 DEF FinalConf
    <3>2. FinalConf(ts, w) <= FinalConf(us, v)
      BY <1>1, <1>3, <2>2, <3>1 DEF Larger
    <3>3. Severity(ResultLevel(us, v)) = Larger(2, sev(FinalConf(us, v)))
      BY <2>4, SeverityOfResult
    <3>4. /\ sev(FinalConf(ts, w)) <= sev(FinalConf(us, v))
          /\ sev(FinalConf(ts, w)) \in 0..4 /\ sev(FinalConf(us, v)) \in 0..4
      BY <1>4, <1>5, <3>2
    <3> HIDE DEF sev
    <3> QED
      BY <2>1, <3>3, <3>4 DEF Larger
  <2>5. CASE ~ Escalated(us, v)
    <3>1. CumulativeScore(v) <= Best(us)
      BY <1>1, <1>2, <2>3, <2>5 DEF Escalated
    <3>2. TSan <= Best(us)
      BY <1>1, <1>2, <2>3, <3>1, EscalationWeighs, ThresholdsOrdered
    <3>3. FinalConf(ts, w) <= Best(us)
      BY <1>1, <1>2, <1>3, <2>2, <3>1 DEF Larger
    <3>4. sev(FinalConf(ts, w)) <= sev(Best(us))
      BY <1>1, <1>4, <1>5, <3>3
    <3>5. 2 <= sev(Best(us))
      <4>1. LevelFor(Best(us)) \in {"sanitize", "exclude", "block"}
        BY <1>1, <3>2, LevelForType, ThresholdsOrdered DEF Levels
      <4> QED
        BY <4>1, SeverityOf
    <3>6. Severity(ResultLevel(us, v)) = sev(Best(us))
      BY <2>5, SeverityOfResult
    <3> HIDE DEF sev
    <3> QED
      BY <2>1, <3>4, <3>5, <3>6 DEF Larger
  <2> QED
    BY <2>4, <2>5
<1> QED
  BY <1>6, <1>7

\* The decision is that of the confidence alone: a block label has a confidence
\* of that level.
LEMMA PolicyIsLevel ==
    ASSUME NEW ts, NEW w
    PROVE  PolicyLevel(ts, w) = LevelFor(FinalConf(ts, w))
BY DEF PolicyLevel, ResultLevel

\* A riskier request never has a lower confidence.
LEMMA ConfidenceGrows ==
    ASSUME NEW ts \in Seq(Turns), NEW us \in Seq(Turns), DOMAIN us = DOMAIN ts,
           \A i \in DOMAIN ts : us[i].tag = ts[i].tag /\ ts[i].score <= us[i].score,
           NEW w \in Windows, NEW v \in Windows, Outscores(v, w)
    PROVE  FinalConf(ts, w) <= FinalConf(us, v)
<1>1. /\ Best(ts) \in Nat /\ Best(us) \in Nat /\ Best(ts) <= Best(us)
  BY BestType, BestGrows
<1>2. /\ CumulativeScore(w) \in Nat /\ CumulativeScore(v) \in Nat
      /\ CumulativeScore(w) <= CumulativeScore(v)
  BY CumulativeType, CumulativeGrows
<1>3. /\ Raised(w) \in Nat /\ Raised(v) \in Nat /\ Raised(w) <= Raised(v)
      /\ Raised(w) <= CumulativeScore(w)
  BY <1>2, RaisedType, RaisedGrows
<1>4. FinalConf(us, v) \in Nat /\ Best(us) <= FinalConf(us, v)
  BY FinalConfType
<1>5. CASE ~ Escalated(ts, w)
  BY <1>1, <1>4, <1>5 DEF FinalConf
<1>6. CASE Escalated(ts, w)
  <2>1. FinalConf(ts, w) = Larger(Best(ts), Raised(w))
    BY <1>6 DEF FinalConf
  <2>2. ShouldEscalate(v)
    BY <1>6, EscalationGrows DEF Escalated
  <2>3. CASE Escalated(us, v)
    <3>1. FinalConf(us, v) = Larger(Best(us), Raised(v))
      BY <2>3 DEF FinalConf
    <3> QED
      BY <1>1, <1>3, <2>1, <3>1 DEF Larger
  <2>4. CASE ~ Escalated(us, v)
    <3>1. CumulativeScore(v) <= Best(us)
      BY <1>1, <1>2, <2>2, <2>4 DEF Escalated
    <3> QED
      BY <1>1, <1>2, <1>3, <1>4, <2>1, <3>1 DEF Larger
  <2> QED
    BY <2>3, <2>4
<1> QED
  BY <1>5, <1>6

\* Three middling turns never pass.
LEMMA CrescendoStops ==
    ASSUME CrescendoIsHeavy, NEW ts \in Seq(Turns), NEW w \in Windows, MediumCount(w) >= 3
    PROVE  /\ PolicyLevel(ts, w) \notin {"allow", "log"}
           /\ RiskLevel(w) \in {"high", "critical"}
<1>1. RiskLevel(w) \in {"high", "critical"}
  BY MediumCountType DEF RiskLevel
<1>2. /\ Best(ts) \in Nat /\ CumulativeScore(w) \in Nat /\ TSan \in Nat
      /\ FinalConf(ts, w) \in Nat /\ Best(ts) <= FinalConf(ts, w)
  BY BestType, CumulativeType, FinalConfType, ThresholdsOrdered
<1>3. TSan <= FinalConf(ts, w)
  <2>1. CASE Escalated(ts, w)
    <3>1. \A c, t \in Nat : 20 * t <= 17 * c => t <= c - (c * 3 + 19) \div 20
      OBVIOUS
    <3>2. TSan <= CumulativeScore(w) - (CumulativeScore(w) * 3 + 19) \div 20
      BY <1>2, <3>1, CrescendoWeighs
    <3>3. TSan <= Raised(w) /\ Raised(w) \in Nat
      BY <3>2, CrescendoWeighs, RaisedIs, RaisedType
    <3>4. FinalConf(ts, w) = Larger(Best(ts), Raised(w))
      BY <2>1 DEF FinalConf
    <3> QED
      BY <1>2, <3>3, <3>4 DEF Larger
  <2>2. CASE ~ Escalated(ts, w)
    <3>1. ShouldEscalate(w)
      BY DEF ShouldEscalate
    <3>2. TSan <= Best(ts)
      BY <1>2, <2>2, <3>1, CrescendoWeighs DEF Escalated
    <3> QED
      BY <1>2, <3>2
  <2> QED
    BY <2>1, <2>2
<1>4. PolicyLevel(ts, w) \notin {"allow", "log"}
  BY <1>2, <1>3, PolicyIsLevel, LevelForType
<1> QED
  BY <1>1, <1>4

-------------------------------------------------------------------------------
\* The places up to the i-th.
UpTo(places, i) == {j \in places : j <= i}

LEMMA RankType ==
    ASSUME NEW n \in Nat, NEW places \in SUBSET (1..n)
    PROVE  /\ IsFiniteSet(places) /\ Cardinality(places) \in Nat
           /\ \A i : /\ IsFiniteSet(UpTo(places, i)) /\ UpTo(places, i) \in SUBSET places
                     /\ Rank(places, i) = Cardinality(UpTo(places, i))
                     /\ Rank(places, i) \in Nat
<1>1. IsFiniteSet(1..n)
  BY FS_Interval
<1>2. IsFiniteSet(places)
  BY <1>1, FS_Subset
<1>3. \A i : UpTo(places, i) \in SUBSET places
  BY DEF UpTo
<1>4. \A i : IsFiniteSet(UpTo(places, i))
  BY <1>2, <1>3, FS_Subset, Zenon
<1>5. \A i : Rank(places, i) = Cardinality(UpTo(places, i))
  BY DEF Rank, UpTo
<1> QED
  BY <1>2, <1>3, <1>4, <1>5, FS_CardinalityType

\* A later place has a higher rank.
LEMMA RankGrows ==
    ASSUME NEW n \in Nat, NEW places \in SUBSET (1..n),
           NEW i \in places, NEW j \in places, i < j
    PROVE  Rank(places, i) < Rank(places, j)
<1> DEFINE I == UpTo(places, i)
           J == UpTo(places, j)
<1>1. \A l \in places : l \in Nat
  OBVIOUS
<1>2. j \notin I
  BY <1>1 DEF UpTo
<1>3. I \cup {j} \in SUBSET J
  <2>1. \A l \in places : l <= i => l <= j
    BY <1>1
  <2>2. j <= j
    BY <1>1
  <2> QED
    BY <2>1, <2>2 DEF UpTo
<1>4. /\ IsFiniteSet(I) /\ IsFiniteSet(J)
      /\ Rank(places, i) = Cardinality(I) /\ Rank(places, j) = Cardinality(J)
      /\ Cardinality(I) \in Nat /\ Cardinality(J) \in Nat
  <2>1. \A l : IsFiniteSet(UpTo(places, l)) /\ Rank(places, l) = Cardinality(UpTo(places, l))
               /\ Rank(places, l) \in Nat
    BY RankType
  <2> QED
    BY <2>1
<1> HIDE DEF I, J
<1>5. Cardinality(I \cup {j}) = Cardinality(I) + 1
  BY <1>2, <1>4, FS_AddElement
<1>6. Cardinality(I \cup {j}) <= Cardinality(J)
  BY <1>3, <1>4, FS_Subset, Zenon
<1> QED
  BY <1>4, <1>5, <1>6

LEMMA RankUnique ==
    ASSUME NEW n \in Nat, NEW places \in SUBSET (1..n),
           NEW i \in places, NEW j \in places, Rank(places, i) = Rank(places, j)
    PROVE  i = j
<1>1. i \in Nat /\ j \in Nat
  OBVIOUS
<1>2. Rank(places, i) \in Nat /\ Rank(places, j) \in Nat
  BY RankType
<1>3. ASSUME i < j PROVE FALSE
  <2>1. Rank(places, i) < Rank(places, j)
    BY <1>3, RankGrows
  <2> QED
    BY <1>2, <2>1
<1>4. ASSUME j < i PROVE FALSE
  <2>1. Rank(places, j) < Rank(places, i)
    BY <1>4, RankGrows
  <2> QED
    BY <1>2, <2>1
<1> QED
  BY <1>1, <1>3, <1>4

\* The ranks are those from 1 to the number of places: the greatest rank nobody
\* has would be that of the place before the one with the next rank.
LEMMA RankTaken ==
    ASSUME NEW n \in Nat, NEW places \in SUBSET (1..n)
    PROVE  \A k \in 1..Cardinality(places) : \E i \in places : Rank(places, i) = k
<1> DEFINE free == {k \in 1..Cardinality(places) : \A i \in places : Rank(places, i) # k}
<1>1. SUFFICES ASSUME free # {} PROVE FALSE
  OBVIOUS
<1>2. Cardinality(places) \in Nat /\ IsFiniteSet(places)
  BY RankType
<1>3. free \in SUBSET Nat /\ \A k \in free : k <= Cardinality(places)
  BY <1>2
<1>4. PICK k \in free : \A l \in free : l <= k
  <2> HIDE DEF free
  <2> QED
    BY <1>1, <1>2, <1>3, GreatestElement
<1>5. k \in Nat /\ k >= 1 /\ k <= Cardinality(places) /\ \A i \in places : Rank(places, i) # k
  BY <1>2, <1>4
\* The places among which one has rank k: all of them, or those before the place of rank k + 1.
<1>6. PICK T \in SUBSET places : /\ Cardinality(T) = k
                                 /\ \A i \in T : UpTo(places, i) \in SUBSET T
  <2>1. CASE k = Cardinality(places)
    <3>1. \A i \in places : UpTo(places, i) \in SUBSET places
      BY RankType
    <3> QED
      BY <2>1, <3>1
  <2>2. CASE k # Cardinality(places)
    <3>1. k + 1 \in 1..Cardinality(places) /\ k + 1 \notin free
      BY <1>2, <1>4, <1>5, <2>2
    <3>2. PICK j \in places : Rank(places, j) = k + 1
      BY <3>1
    <3> DEFINE J == UpTo(places, j)
               U == J \ {j}
    <3>3. \A l \in places : l \in Nat
      OBVIOUS
    <3>4. j \in J
      BY <3>3 DEF UpTo
    <3>5. Cardinality(U) = k
      <4>1. IsFiniteSet(J) /\ Cardinality(J) = k + 1
        BY <3>2, RankType
      <4> HIDE DEF J
      <4>2. Cardinality(J \ {j}) = (k + 1) - 1
        BY <3>4, <4>1, FS_RemoveElement
      <4> QED
        BY <1>5, <4>2
    <3>6. U \in SUBSET places
      BY DEF UpTo
    <3>7. ASSUME NEW i \in U PROVE UpTo(places, i) \in SUBSET U
      <4>1. i \in places /\ i <= j /\ i # j
        BY DEF UpTo
      <4>2. \A l \in places : l <= i => l <= j /\ l # j
        BY <3>3, <4>1
      <4> QED
        BY <4>2 DEF UpTo
    <3> HIDE DEF U
    <3> QED
      BY <3>5, <3>6, <3>7
  <2> QED
    BY <2>1, <2>2
<1>7. PICK i \in T : \A j \in T : j <= i
  <2>1. IsFiniteSet(T)
    BY <1>2, FS_Subset
  <2>2. T # {}
    BY <1>5, <1>6, FS_EmptySet
  <2>3. T \in SUBSET Nat /\ \A j \in T : j <= n
    OBVIOUS
  <2> QED
    BY <2>2, <2>3, GreatestElement
<1>8. UpTo(places, i) = T
  BY <1>6, <1>7 DEF UpTo
<1>9. Rank(places, i) = k
  BY <1>6, <1>8, RankType
<1> QED
  BY <1>5, <1>7, <1>9

-------------------------------------------------------------------------------
\* The place of rank k.
Placed(places, k) == CHOOSE i \in places : Rank(places, i) = k

LEMMA PlacedType ==
    ASSUME NEW n \in Nat, NEW places \in SUBSET (1..n), NEW k \in 1..Cardinality(places)
    PROVE  Placed(places, k) \in places /\ Rank(places, Placed(places, k)) = k
BY RankTaken DEF Placed

LEMMA RiskyPlacesType ==
    ASSUME NEW ts \in Seq(Turns)
    PROVE  /\ Len(ts) \in Nat /\ DOMAIN ts = 1..Len(ts)
           /\ RiskyPlaces(ts) \in SUBSET (1..Len(ts))
           /\ IsFiniteSet(RiskyPlaces(ts)) /\ Cardinality(RiskyPlaces(ts)) \in Nat
           /\ \A i \in 1..Len(ts) : ts[i] \in Turns
<1>1. Len(ts) \in Nat /\ DOMAIN ts = 1..Len(ts) /\ \A i \in 1..Len(ts) : ts[i] \in Turns
  BY LenProperties, ElementOfSeq
<1>2. RiskyPlaces(ts) \in SUBSET (1..Len(ts))
  BY <1>1 DEF RiskyPlaces
<1> QED
  BY <1>1, <1>2, RankType

LEMMA RiskyTurnsType ==
    ASSUME NEW ts \in Seq(Turns)
    PROVE  /\ RiskyTurns(ts) \in Seq(Turns)
           /\ Len(RiskyTurns(ts)) = Cardinality(RiskyPlaces(ts))
           /\ \A k \in 1..Cardinality(RiskyPlaces(ts)) :
                 /\ RiskyTurns(ts)[k] = ts[Placed(RiskyPlaces(ts), k)]
                 /\ Placed(RiskyPlaces(ts), k) \in 1..Len(ts)
<1> DEFINE places == RiskyPlaces(ts)
           n == Cardinality(places)
<1>1. n \in Nat
  BY RiskyPlacesType
<1>2. RiskyTurns(ts) = [k \in 1..n |-> ts[Placed(places, k)]]
  BY DEF RiskyTurns, Placed
<1>3. ASSUME NEW k \in 1..n
      PROVE  Placed(places, k) \in 1..Len(ts) /\ ts[Placed(places, k)] \in Turns
  BY RiskyPlacesType, PlacedType
<1> HIDE DEF n, places
<1>4. RiskyTurns(ts) \in [1..n -> Turns]
  BY <1>2, <1>3
<1>5. RiskyTurns(ts) \in Seq(Turns) /\ Len(RiskyTurns(ts)) = n
  BY <1>1, <1>4
<1> QED
  BY <1>2, <1>3, <1>5 DEF n, places

\* Of a longer request, the risky turns are those of the shorter one and, if it
\* counts, the new turn.
LEMMA RiskyTurnsAppend ==
    ASSUME NEW ts \in Seq(Turns), NEW t \in Turns
    PROVE  RiskyTurns(Append(ts, t)) =
              IF Counts(t) THEN Append(RiskyTurns(ts), t) ELSE RiskyTurns(ts)
<1> DEFINE us == Append(ts, t)
           m == Len(ts) + 1
           old == RiskyPlaces(ts)
           new == RiskyPlaces(us)
           n == Cardinality(old)
<1>1. /\ Len(ts) \in Nat /\ DOMAIN ts = 1..Len(ts) /\ old \in SUBSET (1..Len(ts))
      /\ IsFiniteSet(old) /\ n \in Nat
  BY RiskyPlacesType
<1>2. /\ us \in Seq(Turns) /\ Len(us) = m /\ us[m] = t /\ DOMAIN us = 1..m
      /\ \A i \in 1..Len(ts) : us[i] = ts[i]
  BY AppendProperties, LenProperties
<1>3. new = IF Counts(t) THEN old \cup {m} ELSE old
  <2>1. \A i \in 1..m : i \in 1..Len(ts) \/ i = m
    BY <1>1
  <2>2. 1..Len(ts) \subseteq 1..m /\ m \in 1..m /\ m \notin 1..Len(ts)
    BY <1>1
  <2>3. \A i \in 1..Len(ts) : i \in new <=> i \in old
    BY <1>1, <1>2, <2>2 DEF RiskyPlaces
  <2>4. m \in new <=> Counts(t)
    BY <1>2, <2>2 DEF RiskyPlaces, Counts
  <2>5. \A i \in new : i \in 1..m
    BY <1>2 DEF RiskyPlaces
  <2>6. \A i \in old : i \in 1..Len(ts)
    BY <1>1
  <2> HIDE DEF new, old, m
  <2>7. CASE Counts(t)
    <3>1. \A i : i \in new <=> i \in old \/ i = m
      BY <2>1, <2>2, <2>3, <2>4, <2>5, <2>6, <2>7
    <3> QED
      BY <2>7, <3>1
  <2>8. CASE ~ Counts(t)
    <3>1. \A i : i \in new <=> i \in old
      BY <2>1, <2>3, <2>4, <2>5, <2>6, <2>8
    <3> QED
      BY <2>8, <3>1
  <2> QED
    BY <2>7, <2>8
<1>4. \A i \in old : Rank(new, i) = Rank(old, i)
  <2>1. ASSUME NEW i \in old PROVE {j \in new : j <= i} = {j \in old : j <= i}
    <3>1. i \in Nat /\ i <= Len(ts)
      BY <1>1
    <3>2. ~ (m <= i)
      BY <1>1, <3>1
    <3> HIDE DEF new, old, m
    <3> QED
      BY <1>3, <3>2
  <2> QED
    BY <2>1 DEF Rank
<1>5. new \in SUBSET (1..m) /\ m \in Nat
  BY <1>1, <1>2, RiskyPlacesType
<1>6. Cardinality(old \cup {m}) = n + 1
  <2>1. m \notin old
    BY <1>1
  <2> HIDE DEF old, m
  <2> QED
    BY <1>1, <2>1, FS_AddElement
<1>7. Cardinality(new) = IF Counts(t) THEN n + 1 ELSE n
  BY <1>3, <1>6
<1>8. ASSUME NEW k \in 1..n
      PROVE  RiskyTurns(us)[k] = RiskyTurns(ts)[k]
  <2>1. k \in 1..Cardinality(new)
    BY <1>1, <1>7
  <2>2. Placed(old, k) \in old /\ Rank(old, Placed(old, k)) = k
    BY <1>1, PlacedType
  <2>3. Placed(new, k) \in new /\ Rank(new, Placed(new, k)) = k
    BY <1>5, <2>1, PlacedType
  <2>4. Placed(old, k) \in new /\ Rank(new, Placed(old, k)) = k
    BY <1>3, <1>4, <2>2
  <2>5. Placed(new, k) = Placed(old, k)
    BY <1>5, <2>3, <2>4, RankUnique
  <2>6. RiskyTurns(us)[k] = us[Placed(new, k)]
    BY <1>2, <2>1, RiskyTurnsType
  <2>7. RiskyTurns(ts)[k] = ts[Placed(old, k)] /\ Placed(old, k) \in 1..Len(ts)
    BY RiskyTurnsType
  <2> QED
    BY <1>2, <2>5, <2>6, <2>7
<1>9. /\ RiskyTurns(us) \in Seq(Turns) /\ Len(RiskyTurns(us)) = Cardinality(new)
      /\ RiskyTurns(ts) \in Seq(Turns) /\ Len(RiskyTurns(ts)) = n
  BY <1>2, RiskyTurnsType
<1>10. CASE ~ Counts(t)
  <2>1. Len(RiskyTurns(us)) = n
    BY <1>7, <1>9, <1>10
  <2>2. RiskyTurns(us) = RiskyTurns(ts)
    <3> HIDE DEF us, n
    <3> QED
      BY <1>8, <1>9, <2>1, SeqEqual
  <2> QED
    BY <1>10, <2>2
<1>11. CASE Counts(t)
  <2>1. Len(RiskyTurns(us)) = n + 1 /\ Cardinality(new) = n + 1
    BY <1>7, <1>9, <1>11
  <2>2. /\ Append(RiskyTurns(ts), t) \in Seq(Turns)
        /\ Len(Append(RiskyTurns(ts), t)) = n + 1
        /\ Append(RiskyTurns(ts), t)[n + 1] = t
        /\ \A k \in 1..n : Append(RiskyTurns(ts), t)[k] = RiskyTurns(ts)[k]
    BY <1>1, <1>9, AppendProperties
  <2>3. RiskyTurns(us)[n + 1] = t
    <3>1. n + 1 \in 1..Cardinality(new)
      BY <1>1, <2>1
    <3>2. Placed(new, n + 1) \in new /\ Rank(new, Placed(new, n + 1)) = n + 1
      BY <1>5, <3>1, PlacedType
    <3>3. m \in new /\ Rank(new, m) = n + 1
      <4>1. m \in new
        BY <1>3, <1>11
      <4>2. \A j \in new : j <= m
        BY <1>5
      <4>3. {j \in new : j <= m} = new
        BY <4>2
      <4> QED
        BY <2>1, <4>1, <4>3 DEF Rank
    <3>4. Placed(new, n + 1) = m
      BY <1>5, <3>2, <3>3, RankUnique
    <3> QED
      BY <1>2, <3>1, <3>4, RiskyTurnsType
  <2>4. RiskyTurns(us) = Append(RiskyTurns(ts), t)
    <3>1. \A k \in 1..(n + 1) : k \in 1..n \/ k = n + 1
      BY <1>1
    <3> HIDE DEF us, n, new
    <3>2. \A k \in 1..(n + 1) : RiskyTurns(us)[k] = Append(RiskyTurns(ts), t)[k]
      BY <1>8, <2>2, <2>3, <3>1
    <3> QED
      BY <1>9, <2>1, <2>2, <3>2, SeqEqual
  <2> QED
    BY <1>11, <2>4
<1> QED
  BY <1>10, <1>11

\* The last turns: as many as the window holds, counted from the end.
LEMMA LastTurnsType ==
    ASSUME NEW ts \in Seq(Turns)
    PROVE  LET risky == RiskyTurns(ts)
               skip == IF Len(risky) <= WindowSize THEN 0 ELSE Len(risky) - WindowSize
           IN  /\ Len(risky) \in Nat /\ skip \in 0..Len(risky)
               /\ LastTurns(ts) \in Windows
               /\ Len(LastTurns(ts)) = Len(risky) - skip
               /\ \A i \in 1..(Len(risky) - skip) : LastTurns(ts)[i] = risky[skip + i]
<1> DEFINE risky == RiskyTurns(ts)
           n == Len(risky)
           skip == IF n <= WindowSize THEN 0 ELSE n - WindowSize
<1>1. risky \in Seq(Turns) /\ n \in Nat /\ \A i \in 1..n : risky[i] \in Turns
  BY RiskyTurnsType, LenProperties, ElementOfSeq
<1>2. WindowSize \in Nat /\ WindowSize >= 1
  BY TurnsTyped
<1> HIDE DEF risky
<1>3. Larger(1, n + 1 - WindowSize) = skip + 1
  BY <1>1, <1>2 DEF Larger
<1>4. LastTurns(ts) = SubSeq(risky, skip + 1, n)
  BY <1>3 DEF LastTurns, risky
<1>5. skip \in 0..n /\ n - skip <= WindowSize
  BY <1>1, <1>2
<1> HIDE DEF skip, n
<1>6. /\ SubSeq(risky, skip + 1, n) \in Seq(Turns)
      /\ Len(SubSeq(risky, skip + 1, n)) = n - skip
      /\ \A i \in 1..(n - skip) : SubSeq(risky, skip + 1, n)[i] = risky[skip + i]
  <2>1. skip + 1 \in Int /\ n \in Int /\ \A i \in (skip + 1)..n : risky[i] \in Turns
    BY <1>1, <1>5
  <2>2. /\ SubSeq(risky, skip + 1, n) \in Seq(Turns)
        /\ Len(SubSeq(risky, skip + 1, n)) = IF skip + 1 <= n THEN n - (skip + 1) + 1 ELSE 0
        /\ \A i \in 1..(n - (skip + 1) + 1) :
              SubSeq(risky, skip + 1, n)[i] = risky[(skip + 1) + i - 1]
    BY <2>1, SubSeqProperties
  <2>3. n - (skip + 1) + 1 = n - skip /\ \A i \in 1..(n - skip) : (skip + 1) + i - 1 = skip + i
    BY <1>1, <1>5
  <2>4. (IF skip + 1 <= n THEN n - (skip + 1) + 1 ELSE 0) = n - skip
    BY <1>1, <1>5
  <2> QED
    BY <2>2, <2>3, <2>4
<1>7. LastTurns(ts) \in Windows
  BY <1>4, <1>5, <1>6 DEF Windows
<1> QED
  BY <1>1, <1>4, <1>5, <1>6, <1>7 DEF risky, skip, n

\* Sliding the window keeps it at the end of the risky turns.
LEMMA LastTurnsSlide ==
    ASSUME NEW ts \in Seq(Turns), NEW t \in Turns
    PROVE  LastTurns(Append(ts, t)) =
              IF Counts(t) THEN Slide(LastTurns(ts), t) ELSE LastTurns(ts)
<1>1. CASE ~ Counts(t)
  BY <1>1, RiskyTurnsAppend DEF LastTurns
<1>2. CASE Counts(t)
  <2> DEFINE us == Append(ts, t)
             r == RiskyTurns(ts)
             n == Len(r)
             w == LastTurns(ts)
             v == LastTurns(us)
             long == Append(w, t)
  <2>1. us \in Seq(Turns)
    BY AppendProperties
  <2>2. /\ r \in Seq(Turns) /\ n \in Nat /\ w \in Seq(Turns) /\ Len(w) \in Nat
        /\ Len(w) = (IF n <= WindowSize THEN n ELSE WindowSize)
        /\ \A i \in 1..Len(w) : w[i] = r[(n - Len(w)) + i]
    <3>1. r \in Seq(Turns)
      BY RiskyTurnsType
    <3>2. WindowSize \in Nat
      BY TurnsTyped
    <3> DEFINE skip == IF n <= WindowSize THEN 0 ELSE n - WindowSize
    <3>3. /\ n \in Nat /\ w \in Windows /\ Len(w) = n - skip
          /\ \A i \in 1..(n - skip) : w[i] = r[skip + i]
      BY LastTurnsType
    <3>4. w \in Seq(Turns) /\ Len(w) \in Nat
      BY <3>3, LenProperties DEF Windows
    <3> HIDE DEF r, n, w
    <3> QED
      BY <3>1, <3>2, <3>3, <3>4
  <2>3. /\ RiskyTurns(us) = Append(r, t)
        /\ Append(r, t) \in Seq(Turns) /\ Len(Append(r, t)) = n + 1
        /\ Append(r, t)[n + 1] = t
        /\ \A i \in 1..n : Append(r, t)[i] = r[i]
    BY <1>2, <2>2, RiskyTurnsAppend, AppendProperties
  <2>4. /\ v \in Seq(Turns) /\ Len(v) \in Nat
        /\ Len(v) = (IF n + 1 <= WindowSize THEN n + 1 ELSE WindowSize)
        /\ \A i \in 1..Len(v) : v[i] = Append(r, t)[(n + 1 - Len(v)) + i]
    <3>1. WindowSize \in Nat
      BY TurnsTyped
    <3> DEFINE q == RiskyTurns(us)
               skip == IF Len(q) <= WindowSize THEN 0 ELSE Len(q) - WindowSize
    <3>2. /\ v \in Windows /\ Len(v) = Len(q) - skip
          /\ \A i \in 1..(Len(q) - skip) : v[i] = q[skip + i]
      BY <2>1, LastTurnsType
    <3>3. q = Append(r, t) /\ Len(q) = n + 1
      BY <2>3
    <3> HIDE DEF q, r, n, v
    <3>4. v \in Seq(Turns)
      BY <3>2 DEF Windows
    <3>5. Len(v) \in Nat
      BY <3>4, LenProperties
    <3>6. skip \in Nat /\ n + 1 - skip = (IF n + 1 <= WindowSize THEN n + 1 ELSE WindowSize)
      BY <2>2, <3>1, <3>3
    <3> HIDE DEF skip
    <3>7. Len(v) = n + 1 - skip /\ skip = n + 1 - Len(v)
      BY <2>2, <3>2, <3>3, <3>5, <3>6
    <3>8. \A i \in 1..Len(v) : v[i] = Append(r, t)[skip + i]
      BY <3>2, <3>3
    <3>9. \A i \in 1..Len(v) : v[i] = Append(r, t)[(n + 1 - Len(v)) + i]
      BY <3>7, <3>8, Zenon
    <3> QED
      BY <3>4, <3>5, <3>6, <3>7, <3>9
  <2>5. /\ long \in Seq(Turns) /\ Len(long) = Len(w) + 1 /\ long # <<>>
        /\ long[Len(w) + 1] = t /\ \A i \in 1..Len(w) : long[i] = w[i]
    <3> HIDE DEF w
    <3> QED
      BY <2>2, AppendProperties
  <2>6. WindowSize \in Nat /\ WindowSize >= 1
    BY TurnsTyped
  <2> HIDE DEF us, r, n, w, v
  <2>7. CASE Len(w) = WindowSize
    <3>1. /\ Tail(long) \in Seq(Turns) /\ Len(Tail(long)) = WindowSize
          /\ \A i \in 1..WindowSize : Tail(long)[i] = long[i + 1]
      <4>1. Len(long) - 1 = WindowSize
        BY <2>5, <2>6, <2>7
      <4> HIDE DEF long
      <4> QED
        BY <2>5, <4>1, HeadTailProperties
    <3>2. Len(v) = WindowSize
      BY <2>2, <2>4, <2>6, <2>7
    <3>3. ASSUME NEW i \in 1..WindowSize PROVE v[i] = Tail(long)[i]
      <4>1. CASE i = WindowSize
        <5>1. v[i] = Append(r, t)[n + 1]
          <6>1. i \in 1..Len(v) /\ (n + 1 - Len(v)) + i = n + 1
            BY <2>2, <2>6, <3>2, <4>1
          <6> QED
            BY <2>4, <6>1
        <5>2. Tail(long)[i] = long[Len(w) + 1]
          BY <2>7, <3>1, <4>1
        <5> QED
          BY <2>3, <2>5, <5>1, <5>2
      <4>2. CASE i # WindowSize
        <5>1. i + 1 \in 1..Len(w) /\ (n - Len(w)) + (i + 1) \in 1..n
              /\ (n + 1 - Len(v)) + i = (n - Len(w)) + (i + 1)
          BY <2>2, <2>6, <2>7, <3>2, <4>2
        <5>2. v[i] = r[(n - Len(w)) + (i + 1)]
          BY <2>3, <2>4, <3>2, <5>1
        <5>3. Tail(long)[i] = w[i + 1]
          BY <2>5, <3>1, <5>1
        <5> QED
          BY <2>2, <5>1, <5>2, <5>3
      <4> QED
        BY <4>1, <4>2
    <3>4. v = Tail(long)
      <4> HIDE DEF long
      <4> QED
        BY <2>4, <3>1, <3>2, <3>3, SeqEqual
    <3> QED
      BY <1>2, <2>7, <3>4 DEF Slide, v, us, w
  <2>8. CASE Len(w) # WindowSize
    <3>1. Len(w) = n /\ Len(v) = n + 1
      BY <2>2, <2>4, <2>6, <2>8
    <3>2. ASSUME NEW i \in 1..(n + 1) PROVE v[i] = long[i]
      <4>1. v[i] = Append(r, t)[i]
        <5>1. i \in 1..Len(v) /\ (n + 1 - Len(v)) + i = i
          BY <2>2, <3>1
        <5> QED
          BY <2>4, <5>1
      <4>2. CASE i = n + 1
        BY <2>3, <2>5, <3>1, <4>1, <4>2
      <4>3. CASE i # n + 1
        <5>1. i \in 1..n /\ (n - Len(w)) + i = i
          BY <2>2, <3>1, <4>3
        <5> QED
          BY <2>2, <2>3, <2>5, <3>1, <4>1, <5>1
      <4> QED
        BY <4>2, <4>3
    <3>3. v = long
      <4> HIDE DEF long
      <4> QED
        BY <2>4, <2>5, <3>1, <3>2, SeqEqual
    <3> QED
      BY <1>2, <2>8, <3>3 DEF Slide, v, us, w
  <2> QED
    BY <2>7, <2>8
<1> QED
  BY <1>1, <1>2

\* Higher scores in the same places are higher scores in the last turns.
LEMMA LastTurnsOutscore ==
    ASSUME NEW ts \in Seq(Turns), NEW us \in Seq(Turns), DOMAIN us = DOMAIN ts,
           \A i \in DOMAIN ts : us[i].tag = ts[i].tag /\ ts[i].score <= us[i].score
    PROVE  Outscores(LastTurns(us), LastTurns(ts))
<1>1. RiskyPlaces(us) = RiskyPlaces(ts)
  BY DEF RiskyPlaces
<1> DEFINE places == RiskyPlaces(ts)
           r == RiskyTurns(ts)
           s == RiskyTurns(us)
           n == Cardinality(places)
<1>2. DOMAIN ts = 1..Len(ts)
  BY RiskyPlacesType
<1>3. Len(r) = n /\ Len(s) = n
  BY <1>1, RiskyTurnsType
<1>4. ASSUME NEW k \in 1..n PROVE r[k].score <= s[k].score
  <2>1. r[k] = ts[Placed(places, k)] /\ Placed(places, k) \in 1..Len(ts)
    BY RiskyTurnsType
  <2>2. s[k] = us[Placed(places, k)]
    BY <1>1, RiskyTurnsType
  <2> QED
    BY <1>2, <2>1, <2>2
<1> DEFINE skip == IF n <= WindowSize THEN 0 ELSE n - WindowSize
<1>5. /\ n \in Nat /\ skip \in 0..n
      /\ LastTurns(ts) \in Windows /\ LastTurns(us) \in Windows
      /\ Len(LastTurns(ts)) = n - skip /\ Len(LastTurns(us)) = n - skip
      /\ \A i \in 1..(n - skip) : LastTurns(ts)[i] = r[skip + i]
      /\ \A i \in 1..(n - skip) : LastTurns(us)[i] = s[skip + i]
  BY <1>3, LastTurnsType
<1> HIDE DEF n, r, s, skip
<1>6. \A i \in 1..(n - skip) : skip + i \in 1..n
  BY <1>5
<1>7. DOMAIN LastTurns(ts) = 1..(n - skip) /\ DOMAIN LastTurns(us) = 1..(n - skip)
  BY <1>5, WindowType
<1> QED
  BY <1>4, <1>5, <1>6, <1>7 DEF Outscores

-------------------------------------------------------------------------------
TurnsIInv == turns \in Seq(Turns) /\ WindowIsLastTurns

LEMMA TurnsInductive == TurnsSpec => []TurnsIInv
<1>1. TurnsInit => TurnsIInv
  <2> SUFFICES ASSUME TurnsInit PROVE TurnsIInv
    OBVIOUS
  <2>1. turns = <<>> /\ turns \in Seq(Turns) /\ window = <<>>
    BY EmptySeq DEF TurnsInit
  <2>2. RiskyPlaces(turns) = {}
    BY <2>1 DEF RiskyPlaces
  <2>3. Len(RiskyTurns(turns)) = 0
    BY <2>1, <2>2, RiskyTurnsType, FS_EmptySet
  <2>4. Len(LastTurns(turns)) = 0 /\ LastTurns(turns) \in Seq(Turns)
    <3>1. 0 <= WindowSize
      BY TurnsTyped
    <3>2. /\ LastTurns(turns) \in Windows
          /\ Len(LastTurns(turns)) =
                0 - (IF 0 <= WindowSize THEN 0 ELSE 0 - WindowSize)
      BY <2>1, <2>3, LastTurnsType
    <3> QED
      BY <3>1, <3>2 DEF Windows
  <2>5. LastTurns(turns) = <<>>
    BY <2>4, EmptySeq
  <2> QED
    BY <2>1, <2>5 DEF TurnsIInv, WindowIsLastTurns
<1>2. TurnsIInv /\ [TurnsNext]_turnsVars => TurnsIInv'
  <2>1. ASSUME TurnsIInv, NEW turn \in Turns, AddTurn(turn) PROVE TurnsIInv'
    <3>1. turns' = Append(turns, turn) /\ turns' \in Seq(Turns)
      BY <2>1, AppendProperties DEF AddTurn, TurnsIInv
    <3>2. window' = LastTurns(turns')
      BY <2>1, <3>1, LastTurnsSlide DEF AddTurn, TurnsIInv, WindowIsLastTurns
    <3> QED
      BY <3>1, <3>2 DEF TurnsIInv, WindowIsLastTurns
  <2>2. ASSUME TurnsIInv, UNCHANGED turnsVars PROVE TurnsIInv'
    BY <2>2 DEF turnsVars, TurnsIInv, WindowIsLastTurns
  <2> QED
    BY <2>1, <2>2 DEF TurnsNext
<1> QED
  BY <1>1, <1>2, PTL DEF TurnsSpec

\* The deque holds the last risky turns, for any size of it and any turns.
THEOREM WindowIsTail == TurnsSpec => []WindowIsLastTurns
<1>1. TurnsIInv => WindowIsLastTurns
  BY DEF TurnsIInv
<1> QED
  BY <1>1, TurnsInductive, PTL

\* Three middling turns never pass the decision while the oldest places of the
\* window weigh enough for the confidence made of them.
THEOREM CrescendoStopped ==
    ASSUME CrescendoIsHeavy
    PROVE  TurnsSpec => []CrescendoNeverPasses
<1>1. TurnsIInv => CrescendoNeverPasses
  <2>1. SUFFICES ASSUME turns \in Seq(Turns), window = LastTurns(turns), MediumCount(window) >= 3
                 PROVE  /\ PolicyLevel(turns, window) \notin {"allow", "log"}
                        /\ RiskLevel(window) \in {"high", "critical"}
    BY DEF TurnsIInv, WindowIsLastTurns, CrescendoNeverPasses, MediumCount
  <2>2. window \in Windows
    BY <2>1, LastTurnsType
  <2> QED
    BY <2>1, <2>2, CrescendoStops
<1> QED
  BY <1>1, TurnsInductive, PTL

\* A higher score of any turn lowers neither the label nor the decided level,
\* while what escalates weighs at least threshold_sanitize.
THEOREM RiskMonotone ==
    ASSUME EscalationIsHeavy
    PROVE  TurnsSpec => []MoreRiskNeverLower
<1>1. TurnsIInv => MoreRiskNeverLower
  <2> SUFFICES ASSUME turns \in Seq(Turns), NEW i \in DOMAIN turns, NEW turn \in Turns,
                      turn.tag = turns[i].tag, turn.score > turns[i].score
               PROVE  /\ Severity(Label([turns EXCEPT ![i] = turn])) >= Severity(Label(turns))
                      /\ Severity(Decided([turns EXCEPT ![i] = turn])) >= Severity(Decided(turns))
    BY DEF TurnsIInv, MoreRiskNeverLower
  <2> DEFINE us == [turns EXCEPT ![i] = turn]
  <2>1. /\ us \in Seq(Turns) /\ DOMAIN us = DOMAIN turns
        /\ \A j \in DOMAIN turns : turns[j] \in Turns /\ us[j] = IF j = i THEN turn ELSE turns[j]
    BY ExceptSeq, LenProperties, ElementOfSeq
  <2>2. \A j \in DOMAIN turns : us[j].tag = turns[j].tag /\ turns[j].score <= us[j].score
    BY <2>1, TurnType
  <2> HIDE DEF us
  <2>3. Outscores(LastTurns(us), LastTurns(turns))
    BY <2>1, <2>2, LastTurnsOutscore
  <2>4. LastTurns(us) \in Windows /\ LastTurns(turns) \in Windows
    BY <2>1, LastTurnsType
  <2>5. Severity(ResultLevel(turns, LastTurns(turns))) <= Severity(ResultLevel(us, LastTurns(us)))
    BY <2>1, <2>2, <2>3, <2>4, ResultGrows
  <2>6. Severity(Label(turns)) <= Severity(Label(us))
    BY <2>5 DEF Label
  <2>7. Severity(Decided(turns)) <= Severity(Decided(us))
    <3>1. FinalConf(turns, LastTurns(turns)) <= FinalConf(us, LastTurns(us))
      BY <2>1, <2>2, <2>3, <2>4, ConfidenceGrows
    <3>2. /\ FinalConf(turns, LastTurns(turns)) \in Nat
          /\ FinalConf(us, LastTurns(us)) \in Nat
      BY <2>1, <2>4, FinalConfType
    <3> QED
      BY <3>1, <3>2, LevelForGrows, PolicyIsLevel DEF Decided
  <2>8. ASSUME NEW ts \in Seq(Turns)
        PROVE  Severity(Label(ts)) \in Nat /\ Severity(Decided(ts)) \in Nat
    <3>1. LastTurns(ts) \in Windows
      BY LastTurnsType
    <3>2. LevelFor(Best(ts)) \in Levels /\ LevelFor(FinalConf(ts, LastTurns(ts))) \in Levels
      BY <3>1, BestType, FinalConfType, LevelForType
    <3>3. \A level \in Levels : Severity(level) \in Nat
      BY SeverityOf DEF Levels
    <3> QED
      BY <3>1, <3>2, <3>3, SeverityOf, PolicyIsLevel DEF Label, Decided, ResultLevel
  <2>9. /\ Severity(Label(us)) \in Nat /\ Severity(Label(turns)) \in Nat
        /\ Severity(Decided(us)) \in Nat /\ Severity(Decided(turns)) \in Nat
    BY <2>1, <2>8
  <2> QED
    BY <2>6, <2>7, <2>9 DEF us
<1> QED
  BY <1>1, TurnsInductive, PTL

\* The shipped settings are heavy enough: up to six turns, threshold_sanitize of
\* at most 0.55 and a cumulative threshold above it.  MaxScore is a multiple of
\* 20^6, so that no weight is rounded.
THEOREM DefaultsAreHeavy ==
    ASSUME NEW q \in Nat \ {0}, MaxScore = 64000000 * q, WindowSize <= 6,
           20 * TSan <= 11 * MaxScore, TSan <= Cumulative
    PROVE  EscalationIsHeavy
<1> SUFFICES ASSUME WindowSize >= 3
             PROVE  /\ 20 * TSan <= 17 * (Medium * (Weight[WindowSize - 1]
                                              + Weight[WindowSize - 2] + Weight[WindowSize - 3]))
                    /\ TSan <= (MaxScore \div 100) * 92
  BY DEF EscalationIsHeavy, CrescendoIsHeavy
<1>1. WindowSize \in {3, 4, 5, 6}
  BY TurnsTyped
<1>2. \A i \in 1..WindowSize - 1 : Weight[i] = (Weight[i - 1] * 17) \div 20
  BY <1>1, WeightStep
<1>3. Weight[0] = 3200000 * q
  <2>1. Weight[0] = MaxScore \div 20
    BY <1>1, WeightStep
  <2> QED
    BY <2>1
<1>4. Weight[1] = 2720000 * q
  <2>1. Weight[1] = (Weight[0] * 17) \div 20
    BY <1>1, <1>2
  <2> QED
    BY <1>3, <2>1
<1>5. Weight[2] = 2312000 * q
  <2>1. Weight[2] = (Weight[1] * 17) \div 20
    BY <1>1, <1>2
  <2> QED
    BY <1>4, <2>1
<1>6. WindowSize >= 4 => Weight[3] = 1965200 * q
  <2>1. WindowSize >= 4 => Weight[3] = (Weight[2] * 17) \div 20
    BY <1>1, <1>2
  <2> QED
    BY <1>5, <2>1
<1>7. WindowSize >= 5 => Weight[4] = 1670420 * q
  <2>1. WindowSize >= 5 => Weight[4] = (Weight[3] * 17) \div 20
    BY <1>1, <1>2
  <2> QED
    BY <1>1, <1>6, <2>1
<1>8. WindowSize >= 6 => Weight[5] = 1419857 * q
  <2>1. WindowSize >= 6 => Weight[5] = (Weight[4] * 17) \div 20
    BY <1>1, <1>2
  <2> QED
    BY <1>1, <1>7, <2>1
<1>9. TSan <= 35200000 * q /\ TSan \in Nat
  BY ThresholdsOrdered
<1>10. CASE WindowSize = 3
  BY <1>3, <1>4, <1>5, <1>9, <1>10 DEF Medium
<1>11. CASE WindowSize = 4
  BY <1>4, <1>5, <1>6, <1>9, <1>11 DEF Medium
<1>12. CASE WindowSize = 5
  BY <1>5, <1>6, <1>7, <1>9, <1>12 DEF Medium
<1>13. CASE WindowSize = 6
  BY <1>6, <1>7, <1>8, <1>9, <1>13 DEF Medium
<1> QED
  BY <1>1, <1>10, <1>11, <1>12, <1>13

-------------------------------------------------------------------------------
(***************************************************************************)
(* RulesFile.                                                              *)
(***************************************************************************)
USE RulesTyped

LEMMA FilesType == Absent \in Files /\ \A f \in Files \ {Absent} : f \in Files
BY DEF Files

LEMMA CompiledType ==
    ASSUME NEW f, Usable(f)
    PROVE  Compiled(f) \in SUBSET Valid /\ Compiled(f) # {}
BY DEF Usable, Compiled

\* Some pattern is in force in every reachable state, and the types are kept.
THEOREM RulesWellTyped == RulesSpec => []RulesTypeOK
<1>1. RulesInit => RulesTypeOK
  <2>1. 0 \in 0..RulesMaxClock /\ 0 \in 0..0
    OBVIOUS
  <2>2. RulesInit => patterns \in (SUBSET Valid) \cup {Fallback} /\ patterns # {}
    BY Zenon DEF RulesInit
  <2> QED BY <2>1, <2>2, FilesType, Zenon DEF RulesInit, RulesTypeOK, Times
<1>2. ASSUME RulesTypeOK, [RulesNext]_rulesVars PROVE RulesTypeOK'
  <2> USE <1>2, FilesType DEF RulesTypeOK, Times, saved, loaded, reader
  <2>1. ASSUME NEW f \in Files \ {Absent}, Save(f) PROVE RulesTypeOK'
    BY <2>1 DEF Save
  <2>2. CASE Delete
    BY <2>2 DEF Delete
  <2>3. CASE FileTick
    BY <2>3 DEF FileTick
  <2>4. CASE Access
    BY <2>4 DEF Access
  <2>5. CASE Exists
    BY <2>5 DEF Exists, Return
  <2>6. CASE Stat
    BY <2>6 DEF Stat, Return
  <2>7. CASE ReadText
    BY <2>7 DEF ReadText, Return
  <2>8. CASE Install
    <3>1. CASE Accepted
      <4>1. Compiled(text) \in SUBSET Valid /\ Compiled(text) # {}
        BY <3>1, CompiledType DEF Accepted
      <4>2. patterns' = Compiled(text) /\ rulesMtime' = seen
        BY <2>8, <3>1 DEF Install, RecordedTime
      <4> QED BY <2>8, <4>1, <4>2 DEF Install, Return
    <3>2. CASE ~Accepted
      BY <2>8, <3>2 DEF Install, Return
    <3> QED BY <3>1, <3>2
  <2>9. CASE UNCHANGED rulesVars
    BY <2>9 DEF rulesVars
  <2> QED
    BY <2>1, <2>2, <2>3, <2>4, <2>5, <2>6, <2>7, <2>8, <2>9 DEF RulesNext, Load
<1> QED BY <1>1, <1>2, PTL DEF RulesSpec

-------------------------------------------------------------------------------
\* A time that was asked for or recorded is not newer than the file; the current
\* one is recorded, or about to be, only if a usable version had it, and unless
\* there were two of them it goes with the rules that the file holds.
UsableAtMtime == shadowed \/ Usable(file)

ReaderInv ==
    /\ step \in {"read", "install"} => seen \in Nat /\ seen <= mtime
    /\ step = "install" /\ seen = mtime /\ Usable(text) =>
          UsableAtMtime /\ (~shadowed /\ Usable(file) => text = file)

LoadedInv ==
    /\ rulesMtime # NoTime => rulesMtime \in Nat /\ rulesMtime <= mtime
    /\ rulesMtime = mtime =>
          UsableAtMtime /\ (~shadowed /\ Usable(file) => patterns = Compiled(file))

LEMMA WriterKeeps ==
    ASSUME RulesTypeOK, ReaderInv, LoadedInv,
           (\E f \in Files \ {Absent} : Save(f)) \/ Delete \/ FileTick
    PROVE  ReaderInv' /\ LoadedInv'
<1> USE DEF RulesTypeOK, Times, loaded, reader, UsableAtMtime
<1>1. ASSUME NEW f \in Files \ {Absent}, Save(f) PROVE ReaderInv' /\ LoadedInv'
  <2>1. CASE mtime = rulesClock
    BY <1>1, <2>1 DEF Save, ReaderInv, LoadedInv
  <2>2. CASE mtime < rulesClock
    BY <1>1, <2>2 DEF Save, ReaderInv, LoadedInv
  <2> QED BY <2>1, <2>2
<1>2. CASE Delete
  <2>1. ~Usable(file')
    BY <1>2 DEF Delete, Usable
  <2> QED BY <1>2, <2>1 DEF Delete, ReaderInv, LoadedInv
<1>3. CASE FileTick
  BY <1>3 DEF FileTick, ReaderInv, LoadedInv, saved, Usable, Compiled
<1> QED BY <1>1, <1>2, <1>3

LEMMA ReaderKeeps ==
    ASSUME RulesTypeOK, ReaderInv, LoadedInv, Access \/ Load
    PROVE  ReaderInv' /\ LoadedInv'
<1> USE DEF RulesTypeOK, Times, saved, loaded, UsableAtMtime, Usable, Compiled, ReaderInv
<1>1. CASE Access
  BY <1>1 DEF Access, LoadedInv
<1>2. CASE Exists
  BY <1>2 DEF Exists, Return, LoadedInv
<1>3. CASE Stat
  BY <1>3 DEF Stat, Return, LoadedInv
<1>4. CASE ReadText
  BY <1>4 DEF ReadText, Return, LoadedInv
<1>5. CASE Install
  <2>1. ReaderInv'
    BY <1>5 DEF Install, Return
  <2>2. CASE Accepted
    <3>1. patterns' = Compiled(text) /\ rulesMtime' = seen
      BY <1>5, <2>2 DEF Install, RecordedTime
    <3> QED BY <1>5, <2>1, <2>2, <3>1 DEF Install, Accepted, LoadedInv
  <2>3. CASE ~Accepted
    BY <1>5, <2>1, <2>3 DEF Install, LoadedInv
  <2> QED BY <2>2, <2>3
<1> QED BY <1>1, <1>2, <1>3, <1>4, <1>5 DEF Load

LEMMA FileInvariant == RulesSpec => [](RulesTypeOK /\ ReaderInv /\ LoadedInv)
<1>1. RulesInit => ReaderInv /\ LoadedInv
  BY DEF RulesInit, ReaderInv, LoadedInv
<1>2. ASSUME RulesTypeOK, ReaderInv, LoadedInv, [RulesNext]_rulesVars
      PROVE  ReaderInv' /\ LoadedInv'
  <2>1. CASE UNCHANGED rulesVars
    BY <1>2, <2>1 DEF rulesVars, saved, loaded, reader, ReaderInv, LoadedInv,
                      UsableAtMtime, Usable, Compiled
  <2> QED BY <1>2, <2>1, WriterKeeps, ReaderKeeps DEF RulesNext
<1> QED BY <1>1, <1>2, RulesWellTyped, PTL DEF RulesSpec

\* A usable file is in force or will be read by the next access, whatever
\* happened between the reader's system calls.
THEOREM NoSaveIsMissed == RulesSpec => []RulesFollowFile
<1>1. RulesTypeOK /\ LoadedInv => RulesFollowFile
  BY DEF RulesTypeOK, LoadedInv, RulesFollowFile, Current, Times
<1> QED BY <1>1, FileInvariant, PTL
===============================================================================
