-------------------------- MODULE RetrainQueueProofs --------------------------
(***************************************************************************)
(* Proofs about RetrainQueue for any number of writers, builds, texts and  *)
(* any queue size.                                                         *)
(***************************************************************************)
EXTENDS RetrainQueue, FiniteSetTheorems, TLAPS

\* What the proofs need to know of the table and of the writers.
TableOK ==
    /\ rows \in Seq(Row)
    /\ wpc \in [Writers -> Stages]
    /\ item \in [Writers -> Items \cup {Nothing}]
    /\ \A w \in Writers : item[w] = Nothing <=> wpc[w] = "idle"

\* Marking changes the status of rows and nothing else about them.
LEMMA MarkKeepsRows ==
    ASSUME rows \in Seq(Row), NEW b \in Builders, MarkConsumed(b)
    PROVE  rows' \in Seq(Row) /\ DOMAIN rows' = DOMAIN rows
<1>1. rows' = [i \in 1..Len(rows) |->
                  IF i \in ToMark(b) THEN [rows[i] EXCEPT !.status = "consumed"]
                  ELSE rows[i]]
  BY DEF MarkConsumed
<1>2. \A i \in 1..Len(rows) : rows[i] \in Row
  OBVIOUS
<1>3. \A r \in Row : [r EXCEPT !.status = "consumed"] \in Row
  BY DEF Row
<1>4. rows' \in [1..Len(rows) -> Row]
  BY <1>1, <1>2, <1>3
<1>5. Len(rows) \in Nat
  OBVIOUS
<1> QED
  BY <1>1, <1>4, <1>5

LEMMA NextTableOK == TableOK /\ [Next]_vars => TableOK'
<1> SUFFICES ASSUME TableOK, [Next]_vars PROVE TableOK'
  OBVIOUS
<1> USE QueueTyped
<1>1. ASSUME NEW w \in Writers, Write(w) PROVE TableOK'
  <2>1. ASSUME NEW t \in Texts, NEW l \in Labels, Enqueue(w, t, l) PROVE TableOK'
    <3>1. [text |-> t, label |-> l] \in Items
      BY DEF Items
    <3> QED
      BY <2>1, <3>1 DEF Enqueue, TableOK, Stages
  <2>2. CASE CheckDuplicate(w)
    BY <2>2 DEF CheckDuplicate, Leave, Advance, TableOK, Stages
  <2>3. CASE CheckCap(w)
    BY <2>3 DEF CheckCap, Leave, Advance, TableOK, Stages
  <2>4. CASE InsertRow(w)
    <3>1. item[w] \in Items
      BY <2>4 DEF InsertRow, TableOK
    <3>2. NewRow(w) \in Row
      BY <3>1 DEF NewRow, Row, Items
    <3>3. rows' \in Seq(Row)
      BY <2>4, <3>2 DEF InsertRow, TableOK
    <3> QED
      BY <2>4, <3>3 DEF InsertRow, Leave, TableOK, Stages
  <2>5. CASE EnqueueFails(w)
    BY <2>5 DEF EnqueueFails, Leave, TableOK, Stages
  <2> QED
    BY <1>1, <2>1, <2>2, <2>3, <2>4, <2>5 DEF Write
<1>2. ASSUME NEW b \in Builders, Build(b) PROVE TableOK'
  <2>1. UNCHANGED writing
    BY <1>2 DEF Build, LoadQueue, WriteDataset, MarkConsumed, MarkFails, BuildCrashes
  <2>2. rows' \in Seq(Row)
    BY <1>2, MarkKeepsRows DEF Build, LoadQueue, WriteDataset, MarkFails, BuildCrashes, TableOK
  <2> QED
    BY <2>1, <2>2 DEF writing, TableOK
<1>3. CASE UNCHANGED vars
  BY <1>3 DEF vars, writing, TableOK
<1> QED
  BY <1>1, <1>2, <1>3 DEF Next

LEMMA TableCorrect == Spec => []TableOK
<1>1. Init => TableOK
  BY DEF Init, TableOK, Stages
<1> QED
  BY <1>1, NextTableOK, PTL DEF Spec

-------------------------------------------------------------------------------
(***************************************************************************)
(* The strengthening: writers that passed the cap check and have not       *)
(* inserted yet already count.                                             *)
(***************************************************************************)
Inserting == {w \in Writers : wpc[w] = "insert"}

Reserved == Cardinality(PendingRows) + Cardinality(Inserting)

CapInv == Writers # {} => Reserved + 1 <= MaxQueue + Cardinality(Writers)

LEMMA FiniteCounts ==
    ASSUME TableOK
    PROVE  /\ IsFiniteSet(PendingRows) /\ Cardinality(PendingRows) \in Nat
           /\ IsFiniteSet(Inserting) /\ Cardinality(Inserting) \in Nat
           /\ Cardinality(Inserting) <= Cardinality(Writers)
           /\ Cardinality(Writers) \in Nat
<1>1. IsFiniteSet(1..Len(rows))
  BY FS_Interval DEF TableOK
<1>2. PendingRows \subseteq 1..Len(rows)
  BY DEF PendingRows, TableOK
<1>3. Inserting \subseteq Writers /\ IsFiniteSet(Writers)
  BY QueueTyped DEF Inserting
<1> QED
  BY <1>1, <1>2, <1>3, FS_Subset, FS_CardinalityType

\* Steps that neither add a pending row nor a writer about to insert.
LEMMA CapFrame ==
    ASSUME TableOK, TableOK', CapInv,
           PendingRows' \subseteq PendingRows, Inserting' \subseteq Inserting
    PROVE  CapInv'
<1>1. Cardinality(PendingRows') <= Cardinality(PendingRows)
  BY FiniteCounts, FS_Subset
<1>2. Cardinality(Inserting') <= Cardinality(Inserting)
  BY FiniteCounts, FS_Subset
<1>3. Cardinality(PendingRows') \in Nat /\ Cardinality(Inserting') \in Nat
  BY FiniteCounts, FS_Subset, FS_CardinalityType
<1> QED
  BY <1>1, <1>2, <1>3, FiniteCounts, QueueTyped DEF CapInv, Reserved

LEMMA NextCapInv == TableOK /\ TableOK' /\ CapInv /\ [Next]_vars => CapInv'
<1> SUFFICES ASSUME TableOK, TableOK', CapInv, [Next]_vars PROVE CapInv'
  OBVIOUS
<1>1. ASSUME NEW w \in Writers, CheckCap(w), ~QueueFull PROVE CapInv'
  <2>1. PendingRows' = PendingRows
    BY <1>1 DEF CheckCap, PendingRows
  <2>2. Cardinality(PendingRows) + 1 <= MaxQueue
    BY <1>1, FiniteCounts, QueueTyped DEF QueueFull
  <2>3. Inserting' \subseteq Writers
    BY DEF Inserting
  <2>4. Cardinality(Inserting') <= Cardinality(Writers) /\ Cardinality(Inserting') \in Nat
    BY <2>3, QueueTyped, FS_Subset, FS_CardinalityType
  <2> QED
    BY <2>1, <2>2, <2>4, FiniteCounts, QueueTyped DEF CapInv, Reserved
<1>2. ASSUME NEW w \in Writers, InsertRow(w) PROVE CapInv'
  <2>1. w \in Inserting
    BY <1>2 DEF InsertRow, Inserting
  <2>2. Inserting' = Inserting \ {w}
    BY <1>2 DEF InsertRow, Leave, Inserting, TableOK
  <2>3. PendingRows' = PendingRows \cup {Len(rows) + 1}
    BY <1>2 DEF InsertRow, NewRow, PendingRows, TableOK
  <2>4. Len(rows) + 1 \notin PendingRows
    BY DEF PendingRows, TableOK
  <2>5. Cardinality(PendingRows') = Cardinality(PendingRows) + 1
    BY <2>3, <2>4, FiniteCounts, FS_AddElement
  <2>6. Cardinality(Inserting') = Cardinality(Inserting) - 1
    BY <2>1, <2>2, FiniteCounts, FS_RemoveElement
  <2> QED
    BY <2>5, <2>6, FiniteCounts DEF CapInv, Reserved
<1>3. ASSUME NEW w \in Writers, NEW t \in Texts, NEW l \in Labels, Enqueue(w, t, l)
      PROVE  CapInv'
  <2>1. PendingRows' = PendingRows /\ Inserting' \subseteq Inserting
    BY <1>3 DEF Enqueue, PendingRows, Inserting, TableOK
  <2> QED
    BY <2>1, CapFrame
<1>4. ASSUME NEW w \in Writers,
             CheckDuplicate(w) \/ EnqueueFails(w) \/ (CheckCap(w) /\ QueueFull)
      PROVE  CapInv'
  <2>1. PendingRows' = PendingRows
    BY <1>4 DEF CheckDuplicate, EnqueueFails, CheckCap, PendingRows
  <2>2. Inserting' \subseteq Inserting
    BY <1>4 DEF CheckDuplicate, EnqueueFails, CheckCap, Leave, Advance, Inserting, TableOK
  <2> QED
    BY <2>1, <2>2, CapFrame
<1>5. ASSUME NEW b \in Builders, Build(b) PROVE CapInv'
  <2>1. Inserting' = Inserting
    BY <1>5 DEF Build, LoadQueue, WriteDataset, MarkConsumed, MarkFails, BuildCrashes,
                writing, Inserting
  <2>2. CASE MarkConsumed(b)
    <3>1. DOMAIN rows' = DOMAIN rows
      BY <2>2, MarkKeepsRows DEF TableOK
    <3>2. \A i \in DOMAIN rows : rows'[i].status = "pending" => rows[i].status = "pending"
      BY <2>2 DEF MarkConsumed, ToMark, PendingRows
    <3>3. PendingRows' \subseteq PendingRows
      BY <3>1, <3>2 DEF PendingRows
    <3> QED
      BY <2>1, <3>3, CapFrame
  <2>3. CASE UNCHANGED rows
    BY <2>1, <2>3, CapFrame DEF PendingRows
  <2> QED
    BY <1>5, <2>2, <2>3 DEF Build, LoadQueue, WriteDataset, MarkFails, BuildCrashes
<1>6. CASE UNCHANGED vars
  BY <1>6, CapFrame DEF vars, writing, PendingRows, Inserting
<1> QED
  BY <1>1, <1>2, <1>3, <1>4, <1>5, <1>6 DEF Next, Write

\* However many enqueues interleave their count and their insert, the queue
\* exceeds retrain_max_queue by less than the number of concurrent writers.
THEOREM QueueOvershootBounded == Spec => []OvershootBounded
<1>1. ASSUME Init PROVE CapInv
  <2>1. TableOK
    BY <1>1 DEF Init, TableOK, Stages
  <2>2. PendingRows = {} /\ Inserting = {}
    BY <1>1 DEF Init, PendingRows, Inserting
  <2>3. Writers # {} => Cardinality(Writers) # 0
    BY QueueTyped, FS_EmptySet
  <2>4. Reserved = 0
    BY <2>2, FS_EmptySet DEF Reserved
  <2>5. Cardinality(Writers) \in Nat /\ MaxQueue \in Nat
    BY <2>1, FiniteCounts, QueueTyped
  <2> QED
    BY <2>3, <2>4, <2>5 DEF CapInv
<1>2. TableOK /\ CapInv => OvershootBounded
  BY FiniteCounts, QueueTyped DEF CapInv, Reserved, OvershootBounded
<1> QED
  BY <1>1, <1>2, TableCorrect, NextCapInv, PTL DEF Spec

-------------------------------------------------------------------------------
(***************************************************************************)
(* Type correctness of the builds.                                         *)
(***************************************************************************)
LEMMA LoadTyped ==
    ASSUME TableOK, NEW queue, queue \subseteq PendingRows, NEW i \in DOMAIN WithCorpus(queue)
    PROVE  i \in Nat /\ WithCorpus(queue)[i] \in Examples
<1> USE QueueTyped
<1>1. CASE i \in queue
  <2>1. i \in 1..Len(rows) /\ rows[i] \in Row
    BY <1>1 DEF PendingRows, TableOK
  <2> QED
    BY <1>1, <2>1 DEF WithCorpus, Examples, Row
<1>2. CASE i \notin queue
  <2>1. PICK k \in DOMAIN Corpus : i = Len(rows) + k
    BY <1>2 DEF WithCorpus
  <2>2. Len(rows) \in Nat /\ k \in Nat /\ Corpus[k] \in Examples
    <3>1. k \in 1..Len(Corpus) /\ Len(Corpus) \in Nat
      OBVIOUS
    <3>2. Corpus[k] \in [text : Texts, label : Labels, row : {0}]
      <4> DEFINE C == [text : Texts, label : Labels, row : {0}]
      <4>1. Corpus \in Seq(C)
        OBVIOUS
      <4> HIDE DEF C
      <4>2. Corpus[k] \in C
        BY <3>1, <4>1
      <4> QED
        BY <4>2 DEF C
    <3>3. Corpus[k] \in Examples
      BY <3>2 DEF Examples
    <3>4. Len(rows) \in Nat
      BY DEF TableOK
    <3> QED
      BY <3>1, <3>3, <3>4
  <2>3. i - Len(rows) = k
    BY <2>1, <2>2
  <2> QED
    BY <1>2, <2>1, <2>2, <2>3 DEF WithCorpus
<1> QED
  BY <1>1, <1>2

LEMMA NextTypeOK == TypeOK /\ [Next]_vars => TypeOK'
<1> SUFFICES ASSUME TypeOK, [Next]_vars PROVE TypeOK'
  OBVIOUS
<1>1. TableOK /\ TableOK'
  BY NextTableOK DEF TypeOK, TableOK
<1> SUFFICES /\ bpc' \in [Builders -> {"start", "loaded", "written", "ended"}]
             /\ DOMAIN examples' = Builders
             /\ \A b \in Builders : \A i \in DOMAIN examples'[b] :
                   i \in Nat /\ examples'[b][i] \in Examples
             /\ kept' \in [Builders -> SUBSET Examples]
  BY <1>1 DEF TypeOK, TableOK
<1>2. CASE UNCHANGED building
  BY <1>2 DEF building, TypeOK
<1>3. ASSUME NEW b \in Builders, LoadQueue(b) PROVE
             /\ bpc' \in [Builders -> {"start", "loaded", "written", "ended"}]
             /\ DOMAIN examples' = Builders
             /\ \A c \in Builders : \A i \in DOMAIN examples'[c] :
                   i \in Nat /\ examples'[c][i] \in Examples
             /\ kept' \in [Builders -> SUBSET Examples]
  <2>1. PICK queue \in {PendingRows, {}} : examples' = [examples EXCEPT ![b] = WithCorpus(queue)]
    BY <1>3 DEF LoadQueue
  <2>2. \A i \in DOMAIN WithCorpus(queue) : i \in Nat /\ WithCorpus(queue)[i] \in Examples
    BY <1>1, LoadTyped
  <2> QED
    BY <1>3, <2>1, <2>2 DEF LoadQueue, BuildAt, TypeOK
<1>4. ASSUME NEW b \in Builders, WriteDataset(b) PROVE
             /\ bpc' \in [Builders -> {"start", "loaded", "written", "ended"}]
             /\ DOMAIN examples' = Builders
             /\ \A c \in Builders : \A i \in DOMAIN examples'[c] :
                   i \in Nat /\ examples'[c][i] \in Examples
             /\ kept' \in [Builders -> SUBSET Examples]
  <2>1. Dedupe(examples[b]) \subseteq Examples
    BY DEF Dedupe, TypeOK
  <2> QED
    BY <1>4, <2>1 DEF WriteDataset, BuildAt, TypeOK
<1>5. ASSUME NEW b \in Builders, MarkConsumed(b) \/ MarkFails(b) \/ BuildCrashes(b) PROVE
             /\ bpc' \in [Builders -> {"start", "loaded", "written", "ended"}]
             /\ DOMAIN examples' = Builders
             /\ \A c \in Builders : \A i \in DOMAIN examples'[c] :
                   i \in Nat /\ examples'[c][i] \in Examples
             /\ kept' \in [Builders -> SUBSET Examples]
  <2>1. /\ bpc' = [bpc EXCEPT ![b] = "ended"]
        /\ examples' \in {examples, [examples EXCEPT ![b] = <<>>]}
        /\ kept' = kept
    BY <1>5 DEF MarkConsumed, MarkFails, BuildCrashes, BuildAt
  <2> QED
    BY <2>1 DEF TypeOK
<1>6. ASSUME NEW w \in Writers, Write(w) PROVE UNCHANGED building
  BY <1>6 DEF Write, Enqueue, CheckDuplicate, CheckCap, InsertRow, EnqueueFails
<1> QED
  BY <1>2, <1>3, <1>4, <1>5, <1>6 DEF Next, Build, vars

\* Type correctness of the queue, its writers and its builds.
THEOREM QueueTypeOK == Spec => []TypeOK
<1>1. ASSUME Init PROVE TypeOK
  <2>1. TableOK
    BY <1>1 DEF Init, TableOK, Stages
  <2> QED
    BY <1>1, <2>1 DEF Init, TableOK, TypeOK
<1> QED
  BY <1>1, NextTypeOK, PTL DEF Spec

-------------------------------------------------------------------------------
(***************************************************************************)
(* Of two examples with one key the later position is dropped.             *)
(***************************************************************************)
LEMMA DedupeKeepsOnePerKey ==
    ASSUME NEW s, DOMAIN s \subseteq Nat,
           NEW d \in Dedupe(s), NEW e \in Dedupe(s), KeyOf[d.text] = KeyOf[e.text]
    PROVE  d = e
<1>1. PICK i \in DOMAIN s : /\ d = s[i]
                            /\ \A k \in DOMAIN s : k < i => KeyOf[s[k].text] # KeyOf[s[i].text]
  BY DEF Dedupe
<1>2. PICK j \in DOMAIN s : /\ e = s[j]
                            /\ \A k \in DOMAIN s : k < j => KeyOf[s[k].text] # KeyOf[s[j].text]
  BY DEF Dedupe
<1>3. ~(i < j) /\ ~(j < i)
  BY <1>1, <1>2
<1>4. i = j
  BY <1>3
<1> QED
  BY <1>1, <1>2, <1>4

LEMMA NextOneLabel == TypeOK /\ OneLabelPerText /\ [Next]_vars => OneLabelPerText'
<1> SUFFICES ASSUME TypeOK, OneLabelPerText, [Next]_vars PROVE OneLabelPerText'
  OBVIOUS
<1>1. CASE UNCHANGED kept
  BY <1>1 DEF OneLabelPerText
<1>2. ASSUME NEW b \in Builders, WriteDataset(b) PROVE OneLabelPerText'
  <2>1. DOMAIN examples[b] \subseteq Nat
    BY DEF TypeOK
  <2>2. \A d, e \in Dedupe(examples[b]) : KeyOf[d.text] = KeyOf[e.text] => d = e
    BY <2>1, DedupeKeepsOnePerKey
  <2>3. \A c \in Builders :
            kept'[c] = kept[c] \/ kept'[c] = Dedupe(examples[b])
    BY <1>2 DEF WriteDataset, TypeOK
  <2> QED
    BY <2>2, <2>3 DEF OneLabelPerText
<1>3. UNCHANGED kept \/ \E b \in Builders : WriteDataset(b)
  BY DEF Next, Write, Enqueue, CheckDuplicate, CheckCap, InsertRow, EnqueueFails, building,
         Build, LoadQueue, MarkConsumed, MarkFails, BuildCrashes, vars
<1> QED
  BY <1>1, <1>2, <1>3

\* No dataset teaches two labels for one text, whatever contradicting rows the
\* queue and the corpora hold and whatever arrived between load and write.
THEOREM DatasetsDoNotContradict == Spec => []OneLabelPerText
<1>1. Init => OneLabelPerText
  BY DEF Init, OneLabelPerText
<1> QED
  BY <1>1, QueueTypeOK, NextOneLabel, PTL DEF Spec

-------------------------------------------------------------------------------
(***************************************************************************)
(* The strengthening of DuplicatesBounded: a writer that found no copy of  *)
(* its item and has not inserted it yet already counts as one.             *)
(***************************************************************************)
Copies(x) == {i \in PendingRows : Same(i, x)}

Holding(x) == {w \in Writers : item[w] = x /\ wpc[w] \in {"cap", "insert"}}

CopiesInv == \A x \in Items :
    Cardinality(Copies(x)) + Cardinality(Holding(x)) <= Cardinality(Writers)

LEMMA FiniteCopies ==
    ASSUME TableOK, NEW x
    PROVE  /\ IsFiniteSet(Copies(x)) /\ Cardinality(Copies(x)) \in Nat
           /\ IsFiniteSet(Holding(x)) /\ Cardinality(Holding(x)) \in Nat
           /\ Cardinality(Holding(x)) <= Cardinality(Writers)
           /\ Cardinality(Writers) \in Nat
<1>1. Copies(x) \subseteq PendingRows
  BY DEF Copies
<1>2. Holding(x) \subseteq Writers /\ IsFiniteSet(Writers)
  BY QueueTyped DEF Holding
<1> QED
  BY <1>1, <1>2, FiniteCounts, FS_Subset, FS_CardinalityType

\* For an item that gains neither a copy nor a holder nothing gets worse.
LEMMA CopiesFrame ==
    ASSUME TableOK, TableOK', CopiesInv, NEW x \in Items,
           Copies(x)' \subseteq Copies(x), Holding(x)' \subseteq Holding(x)
    PROVE  Cardinality(Copies(x)') + Cardinality(Holding(x)') <= Cardinality(Writers)
<1>1. /\ Cardinality(Copies(x)') \in Nat /\ Cardinality(Copies(x)') <= Cardinality(Copies(x))
      /\ Cardinality(Holding(x)') \in Nat /\ Cardinality(Holding(x)') <= Cardinality(Holding(x))
  BY FiniteCopies, FS_Subset, FS_CardinalityType
<1> QED
  BY <1>1, FiniteCopies DEF CopiesInv

LEMMA NextCopiesInv == TableOK /\ TableOK' /\ CopiesInv /\ [Next]_vars => CopiesInv'
<1> SUFFICES ASSUME TableOK, TableOK', CopiesInv, [Next]_vars, NEW x \in Items
             PROVE  Cardinality(Copies(x)') + Cardinality(Holding(x)') <= Cardinality(Writers)
  BY DEF CopiesInv
<1> DEFINE Goal == Cardinality(Copies(x)') + Cardinality(Holding(x)') <= Cardinality(Writers)
<1>1. ASSUME NEW w \in Writers, CheckDuplicate(w), ~Duplicate(w) PROVE Goal
  <2>1. Copies(x)' = Copies(x)
    BY <1>1 DEF CheckDuplicate, Copies, PendingRows, Same
  <2>2. CASE item[w] = x
    <3>1. Copies(x) = {}
      BY <1>1, <2>2 DEF Duplicate, Copies
    <3>2. Cardinality(Copies(x)') = 0
      BY <2>1, <3>1, FS_EmptySet
    <3>3. Holding(x)' \subseteq Writers
      BY DEF Holding
    <3>4. Cardinality(Holding(x)') <= Cardinality(Writers) /\ Cardinality(Holding(x)') \in Nat
      BY <3>3, QueueTyped, FS_Subset, FS_CardinalityType
    <3> QED
      BY <3>2, <3>4
  <2>3. CASE item[w] # x
    <3>1. Holding(x)' \subseteq Holding(x)
      BY <1>1, <2>3 DEF CheckDuplicate, Advance, Holding, TableOK
    <3> QED
      BY <2>1, <3>1, CopiesFrame
  <2> QED
    BY <2>2, <2>3
<1>2. ASSUME NEW w \in Writers, InsertRow(w) PROVE Goal
  <2>1. NewRow(w).status = "pending" /\ NewRow(w).text = item[w].text
        /\ NewRow(w).label = item[w].label /\ item[w] \in Items
    BY <1>2 DEF InsertRow, NewRow, TableOK
  <2>2. Holding(x)' \subseteq Holding(x)
    BY <1>2 DEF InsertRow, Leave, Holding, TableOK, Items
  <2>3. DOMAIN rows' = 1..(Len(rows) + 1)
        /\ rows'[Len(rows) + 1] = NewRow(w)
        /\ \A i \in 1..Len(rows) : rows'[i] = rows[i]
    BY <1>2 DEF InsertRow, TableOK
  <2>4. CASE item[w] = x
    <3>1. Copies(x)' = Copies(x) \cup {Len(rows) + 1}
      BY <2>1, <2>3, <2>4 DEF Copies, PendingRows, Same, TableOK
    <3>2. Len(rows) + 1 \notin Copies(x)
      BY DEF Copies, PendingRows, TableOK
    <3>3. Cardinality(Copies(x)') = Cardinality(Copies(x)) + 1
      BY <3>1, <3>2, FiniteCopies, FS_AddElement
    <3>4. w \in Holding(x)
      BY <1>2, <2>4 DEF InsertRow, Holding
    <3>5. Holding(x)' = Holding(x) \ {w}
      BY <1>2, <2>1, <2>4 DEF InsertRow, Leave, Holding, TableOK
    <3>6. Cardinality(Holding(x)') = Cardinality(Holding(x)) - 1
      BY <3>4, <3>5, FiniteCopies, FS_RemoveElement
    <3> QED
      BY <3>3, <3>6, FiniteCopies DEF CopiesInv
  <2>5. CASE item[w] # x
    <3>1. ~(item[w].text = x.text /\ item[w].label = x.label)
      BY <2>1, <2>5 DEF Items
    <3>2. Copies(x)' \subseteq Copies(x)
      BY <2>1, <2>3, <3>1 DEF Copies, PendingRows, Same, TableOK
    <3> QED
      BY <2>2, <3>2, CopiesFrame
  <2> QED
    BY <2>4, <2>5
<1>3. ASSUME NEW w \in Writers, NEW t \in Texts, NEW l \in Labels, Enqueue(w, t, l)
      PROVE  Goal
  <2>1. Copies(x)' = Copies(x)
    BY <1>3 DEF Enqueue, Copies, PendingRows, Same
  <2>2. Holding(x)' \subseteq Holding(x)
    BY <1>3 DEF Enqueue, Holding, TableOK
  <2> QED
    BY <2>1, <2>2, CopiesFrame
<1>4. ASSUME NEW w \in Writers,
             CheckCap(w) \/ EnqueueFails(w) \/ (CheckDuplicate(w) /\ Duplicate(w))
      PROVE  Goal
  <2>1. Copies(x)' = Copies(x)
    BY <1>4 DEF CheckCap, EnqueueFails, CheckDuplicate, Copies, PendingRows, Same
  <2>2. Holding(x)' \subseteq Holding(x)
    <3>1. \A v \in Writers : v # w => item'[v] = item[v] /\ wpc'[v] = wpc[v]
      BY <1>4 DEF CheckCap, EnqueueFails, CheckDuplicate, Leave, Advance, TableOK
    <3>2. \/ wpc'[w] = "idle"
          \/ item'[w] = item[w] /\ wpc[w] = "cap"
      BY <1>4 DEF CheckCap, EnqueueFails, CheckDuplicate, Leave, Advance, TableOK
    <3> QED
      BY <3>1, <3>2 DEF Holding
  <2> QED
    BY <2>1, <2>2, CopiesFrame
<1>5. ASSUME NEW b \in Builders, Build(b) PROVE Goal
  <2>1. Holding(x)' = Holding(x)
    BY <1>5 DEF Build, LoadQueue, WriteDataset, MarkConsumed, MarkFails, BuildCrashes,
                writing, Holding
  <2>2. CASE MarkConsumed(b)
    <3>1. DOMAIN rows' = DOMAIN rows
      BY <2>2, MarkKeepsRows DEF TableOK
    <3>2. \A i \in DOMAIN rows : rows'[i].status = "pending" => rows'[i] = rows[i]
      <4>1. \A i \in DOMAIN rows : rows[i] \in Row
        BY DEF TableOK
      <4> QED
        BY <2>2, <4>1 DEF MarkConsumed, Row
    <3>3. Copies(x)' \subseteq Copies(x)
      BY <3>1, <3>2 DEF Copies, PendingRows, Same
    <3> QED
      BY <2>1, <3>3, CopiesFrame
  <2>3. CASE UNCHANGED rows
    <3>1. Copies(x)' = Copies(x)
      BY <2>3 DEF Copies, PendingRows, Same
    <3> QED
      BY <2>1, <3>1, CopiesFrame
  <2> QED
    BY <1>5, <2>2, <2>3 DEF Build, LoadQueue, WriteDataset, MarkFails, BuildCrashes
<1>6. CASE UNCHANGED vars
  <2>1. Copies(x)' = Copies(x) /\ Holding(x)' = Holding(x)
    BY <1>6 DEF vars, writing, Copies, Holding, PendingRows, Same
  <2> QED
    BY <2>1, CopiesFrame
<1> QED
  BY <1>1, <1>2, <1>3, <1>4, <1>5, <1>6 DEF Next, Write

\* Count and insert are two statements, so copies of one example can be pending
\* at once, but never more than there are concurrent writers, and a dataset
\* build in between does not make room for more.
THEOREM QueueDuplicatesBounded == Spec => []DuplicatesBounded
<1>1. ASSUME Init PROVE CopiesInv
  <2>1. TableOK
    BY <1>1 DEF Init, TableOK, Stages
  <2>2. \A x \in Items : Copies(x) = {} /\ Holding(x) = {}
    BY <1>1 DEF Init, Copies, Holding, PendingRows
  <2> QED
    BY <2>1, <2>2, FS_EmptySet, FiniteCopies DEF CopiesInv
<1>2. ASSUME TableOK, CopiesInv PROVE DuplicatesBounded
  <2>1. ASSUME NEW t \in Texts, NEW l \in Labels
        PROVE  Cardinality(Copies([text |-> t, label |-> l])) <= Cardinality(Writers)
    <3> DEFINE x == [text |-> t, label |-> l]
    <3>1. x \in Items
      BY DEF Items
    <3> HIDE DEF x
    <3>2. Cardinality(Copies(x)) + Cardinality(Holding(x)) <= Cardinality(Writers)
      BY <1>2, <3>1 DEF CopiesInv
    <3>3. Cardinality(Copies(x)) <= Cardinality(Writers)
      BY <1>2, <3>2, FiniteCopies
    <3> QED
      BY <3>3 DEF x
  <2> QED
    BY <2>1 DEF DuplicatesBounded, Copies
<1> QED
  BY <1>1, <1>2, TableCorrect, NextCopiesInv, PTL DEF Spec

-------------------------------------------------------------------------------
(***************************************************************************)
(* When a row does go into one dataset only: marking covers every row of   *)
(* the dataset, a marked row stays marked, and no later build loads it.    *)
(***************************************************************************)
\* The row an example came from is still there, with the same text.
FromRow(e) == e.row # 0 => e.row \in DOMAIN rows /\ rows[e.row].text = e.text

RowsKnown ==
    \A b \in Builders :
        /\ \A e \in kept[b] : FromRow(e)
        /\ \A i \in DOMAIN examples[b] : FromRow(examples[b][i])
        /\ bpc[b] = "start" => examples[b] = <<>> /\ kept[b] = {}
        /\ bpc[b] = "loaded" => kept[b] = {}

\* Every queue row of a build's dataset is marked.
Delivered(b) == \A e \in kept[b] : e.row # 0 => rows[e.row].status = "consumed"

\* What the two builds have read or written shares no queue row.
Apart(b, c) ==
    \A d \in kept[b] : d.row # 0 =>
        /\ \A e \in kept[c] : e.row # d.row
        /\ \A i \in DOMAIN examples[c] : examples[c][i].row # d.row

\* No step removes a row, changes its text or unmarks it.
LEMMA RowsStay ==
    ASSUME TypeOK, [Next]_vars
    PROVE  /\ \A i \in DOMAIN rows : /\ i \in DOMAIN rows' /\ rows'[i].text = rows[i].text
                                     /\ rows'[i].label = rows[i].label
                                     /\ rows[i].status = "consumed" => rows'[i].status = "consumed"
<1> DEFINE Goal == \A i \in DOMAIN rows :
                      /\ i \in DOMAIN rows' /\ rows'[i].text = rows[i].text
                      /\ rows'[i].label = rows[i].label
                      /\ rows[i].status = "consumed" => rows'[i].status = "consumed"
<1>1. CASE UNCHANGED rows
  BY <1>1
<1>2. ASSUME NEW w \in Writers, InsertRow(w) PROVE Goal
  <2>1. \A i \in DOMAIN rows : i \in DOMAIN rows' /\ rows'[i] = rows[i]
    BY <1>2 DEF InsertRow, TypeOK
  <2> QED
    BY <2>1
<1>3. ASSUME NEW b \in Builders, MarkConsumed(b) PROVE Goal
  <2>1. SUFFICES ASSUME NEW i \in DOMAIN rows
                 PROVE  /\ i \in DOMAIN rows' /\ rows'[i].text = rows[i].text
                        /\ rows'[i].label = rows[i].label
                        /\ rows[i].status = "consumed" => rows'[i].status = "consumed"
    OBVIOUS
  <2>2. rows[i] \in Row
    BY DEF TypeOK
  <2>3. /\ i \in DOMAIN rows'
        /\ rows'[i] = rows[i] \/ rows'[i] = [rows[i] EXCEPT !.status = "consumed"]
    BY <1>3 DEF MarkConsumed
  <2> QED
    BY <2>2, <2>3 DEF Row
<1>4. \/ UNCHANGED rows
      \/ \E w \in Writers : InsertRow(w)
      \/ \E b \in Builders : MarkConsumed(b)
  BY DEF Next, Write, Enqueue, CheckDuplicate, CheckCap, EnqueueFails,
     Build, LoadQueue, WriteDataset, MarkFails, BuildCrashes, vars
<1> QED
  <2>1. Goal
    <3> HIDE DEF Goal
    <3> QED
      BY <1>2, <1>3, <1>4, <1>1 DEF Goal
  <2> QED
    BY <2>1

\* What a build loads are pending rows of the table and rows of the corpora.
LEMMA LoadedRows ==
    ASSUME TypeOK, NEW queue, queue \subseteq PendingRows, NEW i \in DOMAIN WithCorpus(queue)
    PROVE  LET e == WithCorpus(queue)[i]
           IN  \/ e.row = 0
               \/ /\ e.row \in DOMAIN rows /\ rows[e.row].text = e.text
                  /\ rows[e.row].status = "pending"
<1>1. CASE i \in queue
  <2>1. WithCorpus(queue)[i] = [text |-> rows[i].text, label |-> rows[i].label, row |-> i]
    BY <1>1 DEF WithCorpus
  <2>2. i \in DOMAIN rows /\ rows[i].status = "pending"
    BY <1>1 DEF PendingRows
  <2> QED
    BY <2>1, <2>2
<1>2. CASE i \notin queue
  <2>1. PICK k \in DOMAIN Corpus : i = Len(rows) + k
    BY <1>2 DEF WithCorpus
  <2>2. Len(rows) \in Nat /\ k \in Nat
    BY QueueTyped DEF TypeOK
  <2>3. WithCorpus(queue)[i] = Corpus[k]
    BY <1>2, <2>1, <2>2 DEF WithCorpus
  <2> DEFINE C == [text : Texts, label : Labels, row : {0}]
  <2>4. Corpus \in Seq(C)
    BY QueueTyped
  <2> HIDE DEF C
  <2>5. Corpus[k] \in C
    BY <2>1, <2>4
  <2>6. Corpus[k].row = 0
    BY <2>5 DEF C
  <2> QED
    BY <2>3, <2>6
<1> QED
  BY <1>1, <1>2

\* What a step does to what a build has read and written.
LEMMA BuildSteps ==
    ASSUME TypeOK, [Next]_vars, NEW b \in Builders
    PROVE  \/ UNCHANGED <<bpc[b], examples[b], kept[b]>>
           \/ /\ bpc[b] = "start" /\ bpc'[b] = "loaded" /\ kept'[b] = kept[b]
              /\ \E queue \in {PendingRows, {}} : examples'[b] = WithCorpus(queue)
           \/ /\ bpc[b] = "loaded" /\ bpc'[b] = "written"
              /\ kept'[b] = Dedupe(examples[b]) /\ examples'[b] = <<>>
           \/ /\ bpc[b] \in {"loaded", "written"} /\ bpc'[b] = "ended"
              /\ examples'[b] \in {examples[b], <<>>} /\ kept'[b] = kept[b]
<1>1. ASSUME NEW c \in Builders, LoadQueue(c) \/ WriteDataset(c)
      PROVE  \/ UNCHANGED <<bpc[b], examples[b], kept[b]>>
             \/ /\ bpc[b] = "start" /\ bpc'[b] = "loaded" /\ kept'[b] = kept[b]
                /\ \E queue \in {PendingRows, {}} : examples'[b] = WithCorpus(queue)
             \/ /\ bpc[b] = "loaded" /\ bpc'[b] = "written"
                /\ kept'[b] = Dedupe(examples[b]) /\ examples'[b] = <<>>
  BY <1>1 DEF LoadQueue, WriteDataset, BuildAt, TypeOK
<1>2. ASSUME NEW c \in Builders, MarkConsumed(c) \/ MarkFails(c) \/ BuildCrashes(c)
      PROVE  \/ UNCHANGED <<bpc[b], examples[b], kept[b]>>
             \/ /\ bpc[b] \in {"loaded", "written"} /\ bpc'[b] = "ended"
                /\ examples'[b] \in {examples[b], <<>>} /\ kept'[b] = kept[b]
  BY <1>2 DEF MarkConsumed, MarkFails, BuildCrashes, BuildAt, TypeOK
<1>3. CASE UNCHANGED building
  BY <1>3 DEF building
<1>4. \/ UNCHANGED building
      \/ \E c \in Builders : \/ LoadQueue(c) \/ WriteDataset(c)
                             \/ MarkConsumed(c) \/ MarkFails(c) \/ BuildCrashes(c)
  BY DEF Next, Write, Enqueue, CheckDuplicate, CheckCap, InsertRow, EnqueueFails, Build, vars
<1> QED
  BY <1>1, <1>2, <1>3, <1>4

LEMMA NextRowsKnown == TypeOK /\ RowsKnown /\ [Next]_vars => RowsKnown'
<1> SUFFICES ASSUME TypeOK, RowsKnown, [Next]_vars, NEW b \in Builders
             PROVE  /\ \A e \in kept'[b] : FromRow(e)'
                    /\ \A i \in DOMAIN examples'[b] : FromRow(examples[b][i])'
                    /\ bpc'[b] = "start" => examples'[b] = <<>> /\ kept'[b] = {}
                    /\ bpc'[b] = "loaded" => kept'[b] = {}
  BY DEF RowsKnown
<1>1. \A i \in DOMAIN rows : i \in DOMAIN rows' /\ rows'[i].text = rows[i].text
  BY RowsStay
<1> DEFINE new(e) == e.row # 0 => e.row \in DOMAIN rows' /\ rows'[e.row].text = e.text
<1>2. \A e : FromRow(e) => new(e)
  BY <1>1 DEF FromRow
<1> SUFFICES /\ \A e \in kept'[b] : new(e)
             /\ \A i \in DOMAIN examples'[b] : new(examples'[b][i])
             /\ bpc'[b] = "start" => examples'[b] = <<>> /\ kept'[b] = {}
             /\ bpc'[b] = "loaded" => kept'[b] = {}
  BY DEF FromRow
<1>3. /\ \A e \in kept[b] : new(e)
      /\ \A i \in DOMAIN examples[b] : new(examples[b][i])
      /\ bpc[b] = "start" => examples[b] = <<>> /\ kept[b] = {}
      /\ bpc[b] = "loaded" => kept[b] = {}
  <2> HIDE DEF new
  <2> QED
    BY <1>2 DEF RowsKnown
<1>4. CASE UNCHANGED <<bpc[b], examples[b], kept[b]>>
  <2> HIDE DEF new
  <2> QED
    BY <1>3, <1>4
<1>5. ASSUME NEW queue \in {PendingRows, {}}, examples'[b] = WithCorpus(queue)
      PROVE  \A i \in DOMAIN examples'[b] : new(examples'[b][i])
  <2>1. ASSUME NEW i \in DOMAIN WithCorpus(queue) PROVE FromRow(WithCorpus(queue)[i])
    BY LoadedRows DEF FromRow
  <2> HIDE DEF new
  <2> QED
    BY <1>2, <1>5, <2>1
<1>6. ASSUME kept'[b] = Dedupe(examples[b]) PROVE \A e \in kept'[b] : new(e)
  <2>1. \A e \in Dedupe(examples[b]) : \E i \in DOMAIN examples[b] : e = examples[b][i]
    BY DEF Dedupe
  <2> HIDE DEF new
  <2> QED
    BY <1>3, <1>6, <2>1
<1>7. ASSUME examples'[b] = <<>> PROVE \A i \in DOMAIN examples'[b] : new(examples'[b][i])
  BY <1>7
<1> HIDE DEF new
<1> QED
  BY <1>3, <1>4, <1>5, <1>6, <1>7, BuildSteps

LEMMA RowsAreKnown == Spec => []RowsKnown
<1>1. Init => RowsKnown
  BY DEF Init, RowsKnown
<1> QED
  BY <1>1, QueueTypeOK, NextRowsKnown, PTL DEF Spec

-------------------------------------------------------------------------------
(***************************************************************************)
(* Who displaces whom.  A build reads the pending rows at the positions of *)
(* their ages; a pending row it did not read is younger than all it read,  *)
(* or it read no row at all.  The first example of a text stays, so what a *)
(* dataset holds is never younger than a pending row of the same text.     *)
(***************************************************************************)
Elders(e) == \A i \in PendingRows : e.text = rows[i].text => e.row <= i

\* The build read the row, or nothing younger.
Read(s, i) == i \in DOMAIN s /\ s[i].text = rows[i].text
NoneYounger(s, i) == \A j \in DOMAIN s : s[j].row <= i

AgeInv ==
    \A b \in Builders :
        /\ \A j \in DOMAIN examples[b] : examples[b][j].row \in {0, j}
        /\ \A i \in PendingRows : Read(examples[b], i) \/ NoneYounger(examples[b], i)
        /\ \A e \in kept[b] : Elders(e)

\* A pending row was pending before, or it is the newest.
LEMMA PendingBefore ==
    ASSUME TypeOK, [Next]_vars, NEW i \in PendingRows'
    PROVE  \/ i \in PendingRows /\ rows'[i].text = rows[i].text
           \/ i = Len(rows) + 1
<1>1. CASE UNCHANGED rows
  BY <1>1 DEF PendingRows
<1>2. ASSUME NEW w \in Writers, InsertRow(w)
      PROVE  \/ i \in PendingRows /\ rows'[i].text = rows[i].text
             \/ i = Len(rows) + 1
  BY <1>2 DEF InsertRow, PendingRows, TypeOK
<1>3. ASSUME NEW b \in Builders, MarkConsumed(b)
      PROVE  i \in PendingRows /\ rows'[i].text = rows[i].text
  <2>1. i \in DOMAIN rows /\ rows[i] \in Row /\ rows'[i].status = "pending"
    BY <1>3, MarkKeepsRows DEF PendingRows, TypeOK
  <2>2. rows'[i] = rows[i] \/ rows'[i] = [rows[i] EXCEPT !.status = "consumed"]
    BY <1>3, <2>1 DEF MarkConsumed
  <2> QED
    BY <2>1, <2>2 DEF PendingRows, Row
<1> QED
  BY <1>1, <1>2, <1>3 DEF Next, Write, Enqueue, CheckDuplicate, CheckCap, EnqueueFails,
     Build, LoadQueue, WriteDataset, MarkFails, BuildCrashes, vars

\* What a build reads, row by row.
LEMMA LoadedAges ==
    ASSUME TypeOK, NEW queue \in {PendingRows, {}}
    PROVE  LET s == WithCorpus(queue)
           IN  /\ \A j \in DOMAIN s : s[j].row \in {0, j}
               /\ \A i \in PendingRows : Read(s, i) \/ NoneYounger(s, i)
<1> DEFINE s == WithCorpus(queue)
<1>1. \A j \in DOMAIN s : j \notin queue => s[j].row = 0
  <2> SUFFICES ASSUME NEW j \in DOMAIN s, j \notin queue PROVE s[j].row = 0
    OBVIOUS
  <2>1. PICK k \in DOMAIN Corpus : j = Len(rows) + k
    BY DEF WithCorpus
  <2>2. s[j] = Corpus[k]
    BY <2>1, QueueTyped DEF WithCorpus, TypeOK
  <2> DEFINE C == [text : Texts, label : Labels, row : {0}]
  <2>3. Corpus \in Seq(C)
    BY QueueTyped
  <2> HIDE DEF C
  <2>4. Corpus[k] \in C
    BY <2>1, <2>3
  <2> QED
    BY <2>2, <2>4 DEF C
<1>2. \A j \in queue : j \in DOMAIN s /\ s[j].text = rows[j].text /\ s[j].row = j
  BY DEF WithCorpus
<1>3. \A i \in PendingRows : i \in Nat
  BY DEF PendingRows, TypeOK
<1> HIDE DEF s
<1>4. \A j \in DOMAIN s : s[j].row \in {0, j}
  BY <1>1, <1>2, Zenon
<1>5. \A i \in PendingRows : Read(s, i) \/ NoneYounger(s, i)
  <2>1. CASE queue = PendingRows
    BY <1>2, <2>1 DEF Read
  <2>2. CASE queue = {}
    BY <1>1, <1>3, <2>2 DEF NoneYounger
  <2> QED
    BY <2>1, <2>2
<1> QED
  BY <1>4, <1>5 DEF s

\* The first example of a text is an elder of every pending row of that text.
LEMMA FirstIsElder ==
    ASSUME TypeOK, AgeInv, NEW b \in Builders, NEW e \in Dedupe(examples[b])
    PROVE  Elders(e)
<1> DEFINE s == examples[b]
<1>1. PICK j \in DOMAIN s :
          /\ e = s[j]
          /\ \A k \in DOMAIN s : k < j => KeyOf[s[k].text] # KeyOf[s[j].text]
  BY DEF Dedupe
<1> SUFFICES ASSUME NEW i \in PendingRows, e.text = rows[i].text PROVE e.row <= i
  BY DEF Elders
<1>2. i \in Nat /\ j \in Nat /\ e.row \in {0, j}
  BY <1>1 DEF AgeInv, TypeOK, PendingRows
<1>3. CASE Read(s, i)
  <2>1. ~(i < j)
    BY <1>1, <1>3 DEF Read
  <2> QED
    BY <1>2, <2>1
<1>4. CASE NoneYounger(s, i)
  BY <1>1, <1>4 DEF NoneYounger
<1> QED
  BY <1>3, <1>4 DEF AgeInv

LEMMA NextAgeInv == TypeOK /\ RowsKnown /\ AgeInv /\ [Next]_vars => AgeInv'
<1> SUFFICES ASSUME TypeOK, RowsKnown, AgeInv, [Next]_vars, NEW b \in Builders
             PROVE  /\ \A j \in DOMAIN examples'[b] : examples'[b][j].row \in {0, j}
                    /\ \A i \in PendingRows' : \/ Read(examples[b], i)'
                                              \/ NoneYounger(examples'[b], i)
                    /\ \A e \in kept'[b] : Elders(e)'
  BY DEF AgeInv, NoneYounger
<1>0. Len(rows) \in Nat /\ DOMAIN rows = 1..Len(rows)
  BY DEF TypeOK
<1>1. \A e : FromRow(e) => e.row <= Len(rows)
  BY <1>0 DEF FromRow
<1>2. ASSUME NEW e, FromRow(e), Elders(e) PROVE Elders(e)'
  <2> SUFFICES ASSUME NEW i \in PendingRows', e.text = rows'[i].text PROVE e.row <= i
    BY DEF Elders
  <2>1. e.row <= Len(rows) /\ (e.row = 0 \/ e.row \in Nat)
    BY <1>0, <1>1, <1>2 DEF FromRow
  <2> QED
    BY <1>0, <1>2, <2>1, PendingBefore DEF Elders
<1>3. \A e \in kept[b] : Elders(e)'
  BY <1>2 DEF AgeInv, RowsKnown
<1>4. ASSUME NEW s, \A j \in DOMAIN s : FromRow(s[j]),
             \A i \in PendingRows : Read(s, i) \/ NoneYounger(s, i),
             NEW i \in PendingRows'
      PROVE  (i \in DOMAIN s /\ s[i].text = rows'[i].text) \/ NoneYounger(s, i)
  <2>1. CASE i \in PendingRows /\ rows'[i].text = rows[i].text
    BY <1>4, <2>1 DEF Read
  <2>2. CASE i = Len(rows) + 1
    <3>1. ASSUME NEW j \in DOMAIN s PROVE s[j].row <= i
      BY <1>0, <1>4, <2>2 DEF FromRow
    <3> QED
      BY <3>1 DEF NoneYounger
  <2> QED
    BY <2>1, <2>2, PendingBefore
<1>5. CASE UNCHANGED <<examples[b], kept[b]>>
  <2>1. \A i \in PendingRows' : \/ i \in DOMAIN examples[b] /\ examples[b][i].text = rows'[i].text
                               \/ NoneYounger(examples[b], i)
    BY <1>4 DEF AgeInv, RowsKnown
  <2> QED
    BY <1>3, <1>5, <2>1 DEF AgeInv, Read
<1>6. ASSUME NEW queue \in {PendingRows, {}}, examples'[b] = WithCorpus(queue),
             kept'[b] = kept[b]
      PROVE  /\ \A j \in DOMAIN examples'[b] : examples'[b][j].row \in {0, j}
             /\ \A i \in PendingRows' : \/ Read(examples[b], i)'
                                       \/ NoneYounger(examples'[b], i)
             /\ \A e \in kept'[b] : Elders(e)'
  <2> DEFINE s == WithCorpus(queue)
  <2>1. \A j \in DOMAIN s : FromRow(s[j])
    BY LoadedRows DEF FromRow
  <2>2. /\ \A j \in DOMAIN s : s[j].row \in {0, j}
        /\ \A i \in PendingRows : Read(s, i) \/ NoneYounger(s, i)
    BY LoadedAges
  <2> HIDE DEF s
  <2>3. \A i \in PendingRows' : \/ i \in DOMAIN s /\ s[i].text = rows'[i].text
                               \/ NoneYounger(s, i)
    BY <1>4, <2>1, <2>2
  <2>4. examples'[b] = s
    BY <1>6 DEF s
  <2> QED
    BY <1>3, <1>6, <2>2, <2>3, <2>4 DEF Read
<1>7. CASE kept'[b] = Dedupe(examples[b]) /\ examples'[b] = <<>>
  <2>1. ASSUME NEW e \in Dedupe(examples[b]) PROVE Elders(e)'
    <3>1. FromRow(e)
      BY DEF Dedupe, RowsKnown
    <3> QED
      BY <1>2, <3>1, FirstIsElder
  <2> QED
    BY <1>7, <2>1 DEF NoneYounger
<1>8. CASE examples'[b] = <<>> /\ kept'[b] = kept[b]
  BY <1>3, <1>8 DEF NoneYounger
<1> QED
  BY <1>5, <1>6, <1>7, <1>8, BuildSteps

LEMMA AgesKnown == Spec => []AgeInv
<1>1. Init => AgeInv
  BY DEF Init, AgeInv, PendingRows
<1> QED
  BY <1>1, QueueTypeOK, RowsAreKnown, NextAgeInv, PTL DEF Spec

LEMMA NextNoYounger ==
    TypeOK /\ RowsKnown /\ AgeInv /\ NoYoungerReportWins /\ [Next]_vars => NoYoungerReportWins'
<1> SUFFICES ASSUME TypeOK, RowsKnown, AgeInv, NoYoungerReportWins, [Next]_vars,
                    NEW i \in DOMAIN rows', rows'[i].status = "consumed"
             PROVE  \E b \in Builders : \E e \in kept'[b] : e.text = rows'[i].text /\ e.row <= i
  BY DEF NoYoungerReportWins
<1>1. \A b \in Builders : kept[b] \subseteq kept'[b]
  <2> SUFFICES ASSUME NEW b \in Builders PROVE kept[b] \subseteq kept'[b]
    OBVIOUS
  <2>1. bpc[b] = "loaded" => kept[b] = {}
    BY DEF RowsKnown
  <2> QED
    BY <2>1, BuildSteps
<1>2. CASE i \in DOMAIN rows /\ rows[i].status = "consumed"
  BY <1>1, <1>2, RowsStay DEF NoYoungerReportWins
<1>3. CASE ~(i \in DOMAIN rows /\ rows[i].status = "consumed")
  <2>1. PICK b \in Builders : MarkConsumed(b)
    <3>1. CASE UNCHANGED rows
      BY <1>3, <3>1
    <3>2. ASSUME NEW w \in Writers, InsertRow(w) PROVE FALSE
      BY <1>3, <3>2 DEF InsertRow, NewRow, TypeOK
    <3> QED
      BY <3>1, <3>2 DEF Next, Write, Enqueue, CheckDuplicate, CheckCap, EnqueueFails,
         Build, LoadQueue, WriteDataset, MarkFails, BuildCrashes, vars
  <2>2. i \in DOMAIN rows /\ rows[i] \in Row
    BY <2>1, MarkKeepsRows DEF TypeOK
  <2>3. i \in ToMark(b) /\ rows'[i].text = rows[i].text
    BY <1>3, <2>1, <2>2 DEF MarkConsumed, Row
  <2>4. PICK e \in kept[b] : e.text = rows[i].text
    BY <2>3 DEF ToMark
  <2>5. e.row <= i
    BY <2>3, <2>4 DEF ToMark, AgeInv, Elders
  <2> QED
    BY <1>1, <2>3, <2>4, <2>5
<1> QED
  BY <1>2, <1>3

\* A row that a build consumes has its text in a dataset from itself or from what
\* was there before it, for any number of writers, builds and rows.  It may have
\* been displaced by an elder example with the other label, in particular when it
\* arrives after the queue was read.
THEOREM EldersDisplace == Spec => []NoYoungerReportWins
<1>1. Init => NoYoungerReportWins
  BY DEF Init, NoYoungerReportWins
<1> QED
  BY <1>1, QueueTypeOK, RowsAreKnown, AgesKnown, NextNoYounger, PTL DEF Spec

-------------------------------------------------------------------------------
\* A build that marks its rows marks all of them: no row of the dataset stays
\* pending, also one that another build has marked in the meantime.
THEOREM MarkingIsComplete ==
    Spec => [][\A b \in Builders : MarkConsumed(b) => Delivered(b)']_vars
<1>1. ASSUME TypeOK, RowsKnown, NEW b \in Builders, MarkConsumed(b) PROVE Delivered(b)'
  <2> SUFFICES ASSUME NEW e \in kept[b], e.row # 0 PROVE rows'[e.row].status = "consumed"
    BY <1>1 DEF Delivered, MarkConsumed
  <2>1. e.row \in DOMAIN rows /\ rows[e.row].text = e.text /\ rows[e.row] \in Row
    BY <1>1 DEF RowsKnown, FromRow, TypeOK
  <2>2. CASE rows[e.row].status = "pending"
    <3>1. e.row \in ToMark(b)
      BY <2>1, <2>2 DEF ToMark, PendingRows
    <3>2. rows'[e.row] = [rows[e.row] EXCEPT !.status = "consumed"]
      BY <1>1, <2>1, <3>1 DEF MarkConsumed
    <3> QED
      BY <2>1, <3>2 DEF Row
  <2>3. CASE rows[e.row].status # "pending"
    <3>1. rows[e.row].status = "consumed"
      BY <2>1, <2>3 DEF Row
    <3>2. [Next]_vars
      BY <1>1 DEF Next, Build
    <3> QED
      BY <1>1, <2>1, <3>1, <3>2, RowsStay
  <2> QED
    BY <2>2, <2>3
<1>2. TypeOK /\ RowsKnown /\ [Next]_vars
         => [\A b \in Builders : MarkConsumed(b) => Delivered(b)']_vars
  BY <1>1
<1> QED
  BY <1>2, QueueTypeOK, RowsAreKnown, PTL DEF Spec

LEMMA StayApart ==
    ASSUME TypeOK, RowsKnown, [Next]_vars, NEW b \in Builders, NEW c \in Builders, b # c,
           bpc[b] = "ended", Delivered(b), Apart(b, c)
    PROVE  bpc'[b] = "ended" /\ Delivered(b)' /\ Apart(b, c)'
<1>1. bpc'[b] = "ended" /\ kept'[b] = kept[b]
  BY BuildSteps
<1>2. Delivered(b)'
  <2>1. ASSUME NEW e \in kept[b], e.row # 0 PROVE rows'[e.row].status = "consumed"
    BY <2>1, RowsStay DEF RowsKnown, FromRow, Delivered
  <2> QED
    BY <1>1, <2>1 DEF Delivered
<1>3. ASSUME NEW d \in kept[b], d.row # 0
      PROVE  /\ \A e \in kept'[c] : e.row # d.row
             /\ \A i \in DOMAIN examples'[c] : examples'[c][i].row # d.row
  <2>1. /\ \A e \in kept[c] : e.row # d.row
        /\ \A i \in DOMAIN examples[c] : examples[c][i].row # d.row
    BY <1>3 DEF Apart
  <2>2. ASSUME NEW queue \in {PendingRows, {}}, examples'[c] = WithCorpus(queue)
        PROVE  \A i \in DOMAIN examples'[c] : examples'[c][i].row # d.row
    <3>1. rows[d.row].status = "consumed"
      BY <1>3 DEF Delivered
    <3>2. ASSUME NEW i \in DOMAIN WithCorpus(queue) PROVE WithCorpus(queue)[i].row # d.row
      BY <1>3, <3>1, LoadedRows
    <3> QED
      BY <2>2, <3>2
  <2>3. ASSUME kept'[c] = Dedupe(examples[c]) PROVE \A e \in kept'[c] : e.row # d.row
    BY <2>1, <2>3 DEF Dedupe
  <2>4. ASSUME examples'[c] = <<>>
        PROVE  \A i \in DOMAIN examples'[c] : examples'[c][i].row # d.row
    BY <2>4
  <2> QED
    BY <2>1, <2>2, <2>3, <2>4, BuildSteps
<1>4. Apart(b, c)'
  BY <1>1, <1>3 DEF Apart
<1> QED
  BY <1>1, <1>2, <1>4

\* Nothing is trained on twice by a build that starts after the rows of the
\* first one have been marked: both ways to a second training are an overlap of
\* builds and a mark that failed.
THEOREM MarkedIsTrainedOnce ==
    ASSUME NEW b \in Builders, NEW c \in Builders, b # c
    PROVE  Spec => [](bpc[b] = "ended" /\ Delivered(b) /\ bpc[c] = "start"
                        => [](\A d \in kept[b], e \in kept[c] : d.row # e.row \/ d.row = 0))
<1> DEFINE J == bpc[b] = "ended" /\ Delivered(b) /\ Apart(b, c)
           P == bpc[b] = "ended" /\ Delivered(b) /\ bpc[c] = "start"
           Q == \A d \in kept[b], e \in kept[c] : d.row # e.row \/ d.row = 0
<1>1. RowsKnown /\ P => J
  BY DEF RowsKnown, Apart
<1>2. TypeOK /\ RowsKnown /\ J /\ [Next]_vars => J'
  BY StayApart
<1>3. J => Q
  BY DEF Apart
<1> HIDE DEF J, P, Q
<1>4. Spec => [](P => []Q)
  BY <1>1, <1>2, <1>3, QueueTypeOK, RowsAreKnown, PTL DEF Spec
<1> QED
  BY <1>4 DEF P, Q
===============================================================================
