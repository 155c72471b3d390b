----------------------------- MODULE RetrainQueue -----------------------------
(***************************************************************************)
(* The retrain queue: request tasks and feedback calls enqueue labelled    *)
(* texts (collector.py), dataset builds drain them (dataset.py).  Each     *)
(* database statement is a step of its own; nothing holds a lock from one  *)
(* statement to the next.                                                  *)
(***************************************************************************)
EXTENDS Naturals, Sequences, FiniteSets

CONSTANTS
    Texts,     \* texts as stored, already stripped and truncated
    Keys,      \* their classes under text.strip().lower()
    KeyOf,     \* the class of each text
    Corpus,    \* examples of the public corpora, in file order
    Nothing,   \* a writer has no item in hand
    Writers,   \* tasks that enqueue at the same time
    Builders,  \* dataset builds, one run each; a bound
    MaxQueue,  \* settings.retrain_max_queue
    MaxRows    \* bound: rows ever inserted

Labels == {"injection", "benign"}
Items == [text : Texts, label : Labels]

\* An example and the row it was read from, 0 for the corpora.
Examples == [text : Texts, label : Labels, row : Nat]

ASSUME QueueTyped ==
    /\ KeyOf \in [Texts -> Keys]
    /\ Corpus \in Seq([text : Texts, label : Labels, row : {0}])
    /\ Nothing \notin Items
    /\ IsFiniteSet(Writers)
    /\ MaxQueue \in Nat
    /\ MaxRows \in Nat

VARIABLES
    rows,      \* the table, in order of created_at
    wpc,       \* how far each enqueue is
    item,      \* what each writer is enqueuing
    bpc,       \* how far each build is
    examples,  \* what each build has loaded
    kept       \* what each build has written to train.jsonl and val.jsonl

writing == <<wpc, item>>
building == <<bpc, examples, kept>>
vars == <<rows, writing, building>>

Row == [text : Texts, label : Labels, status : {"pending", "consumed"}]
Stages == {"idle", "dedupe", "cap", "insert"}

TypeOK ==
    /\ rows \in Seq(Row)
    /\ wpc \in [Writers -> Stages]
    /\ item \in [Writers -> Items \cup {Nothing}]
    /\ \A w \in Writers : item[w] = Nothing <=> wpc[w] = "idle"
    /\ bpc \in [Builders -> {"start", "loaded", "written", "ended"}]
    /\ DOMAIN examples = Builders
    /\ \A b \in Builders : \A i \in DOMAIN examples[b] :
          i \in Nat /\ examples[b][i] \in Examples
    /\ kept \in [Builders -> SUBSET Examples]

Init ==
    /\ rows = <<>>
    /\ wpc = [w \in Writers |-> "idle"]
    /\ item = [w \in Writers |-> Nothing]
    /\ bpc = [b \in Builders |-> "start"]
    /\ examples = [b \in Builders |-> <<>>]
    /\ kept = [b \in Builders |-> {}]

-------------------------------------------------------------------------------
PendingRows == {i \in DOMAIN rows : rows[i].status = "pending"}

Same(i, example) == rows[i].text = example.text /\ rows[i].label = example.label

\* The enqueue ends, whatever it returns.
Leave(w) ==
    /\ wpc' = [wpc EXCEPT ![w] = "idle"]
    /\ item' = [item EXCEPT ![w] = Nothing]

Advance(w, stage) ==
    /\ wpc' = [wpc EXCEPT ![w] = stage]
    /\ UNCHANGED item

\* enqueue, once the text is not empty and the label is known: collected texts
\* are all injections, a report may carry either label.
Enqueue(w, t, l) ==
    /\ wpc[w] = "idle"
    /\ item' = [item EXCEPT ![w] = [text |-> t, label |-> l]]
    /\ wpc' = [wpc EXCEPT ![w] = "dedupe"]
    /\ UNCHANGED <<rows, building>>

\* Not counting the rows at all.
Bug_Duplicate(w) == FALSE

\* SELECT count(*) of the pending rows with this text and label.
Duplicate(w) == \E i \in PendingRows : Same(i, item[w])

CheckDuplicate(w) ==
    /\ wpc[w] = "dedupe"
    /\ IF Duplicate(w) THEN Leave(w) ELSE Advance(w, "cap")
    /\ UNCHANGED <<rows, building>>

\* The cap compared with > instead of >=.
Bug_QueueFull == Cardinality(PendingRows) > MaxQueue

\* SELECT count(*) of the pending rows >= retrain_max_queue.
QueueFull == Cardinality(PendingRows) >= MaxQueue

CheckCap(w) ==
    /\ wpc[w] = "cap"
    /\ IF QueueFull THEN Leave(w) ELSE Advance(w, "insert")
    /\ UNCHANGED <<rows, building>>

\* The status column left to a caller that does not know the statuses.
Bug_NewRow(w) == [text |-> item[w].text, label |-> item[w].label, status |-> "new"]

NewRow(w) == [text |-> item[w].text, label |-> item[w].label, status |-> "pending"]

InsertRow(w) ==
    /\ wpc[w] = "insert"
    /\ Len(rows) < MaxRows
    /\ rows' = Append(rows, NewRow(w))
    /\ Leave(w)
    /\ UNCHANGED building

\* "Best-effort": any database error drops the item.
EnqueueFails(w) ==
    /\ wpc[w] # "idle"
    /\ Leave(w)
    /\ UNCHANGED <<rows, building>>

-------------------------------------------------------------------------------
BuildAt(b, stage) == bpc' = [bpc EXCEPT ![b] = stage]

\* The newest rows first.
Bug_WithCorpus(queue) ==
    LET backwards(i) == Len(rows) + 1 - i IN
    [i \in {backwards(j) : j \in queue} \cup {Len(rows) + k : k \in DOMAIN Corpus} |->
        IF i <= Len(rows)
        THEN [text |-> rows[backwards(i)].text, label |-> rows[backwards(i)].label,
              row |-> backwards(i)]
        ELSE Corpus[i - Len(rows)]]

\* The examples of some queue rows, in table order, and after them the
\* corpora: a function from positions, which need not be consecutive.
WithCorpus(queue) ==
    [i \in queue \cup {Len(rows) + k : k \in DOMAIN Corpus} |->
        IF i \in queue THEN [text |-> rows[i].text, label |-> rows[i].label, row |-> i]
        ELSE Corpus[i - Len(rows)]]

\* Text and label taken together as the identity of an example.
Bug_Dedupe(s) ==
    {s[i] : i \in {j \in DOMAIN s : \A k \in DOMAIN s : k < j =>
        KeyOf[s[k].text] # KeyOf[s[j].text] \/ s[k].label # s[j].label}}

\* dedupe: "First occurrence wins; text is the identity".
Dedupe(s) ==
    {s[i] : i \in {j \in DOMAIN s : \A k \in DOMAIN s : k < j =>
        KeyOf[s[k].text] # KeyOf[s[j].text]}}

\* load_queue_examples, the pending rows; a failed query leaves the corpora
\* alone.
LoadQueue(b) ==
    /\ bpc[b] = "start"
    /\ \E queue \in {PendingRows, {}} :
          examples' = [examples EXCEPT ![b] = WithCorpus(queue)]
    /\ BuildAt(b, "loaded")
    /\ UNCHANGED <<rows, writing, kept>>

\* The build keeps the first example of each text and overwrites the files.
WriteDataset(b) ==
    /\ bpc[b] = "loaded"
    /\ kept' = [kept EXCEPT ![b] = Dedupe(examples[b])]
    /\ examples' = [examples EXCEPT ![b] = <<>>]
    /\ BuildAt(b, "written")
    /\ UNCHANGED <<rows, writing>>

\* UPDATE ... WHERE text IN (texts of the dataset) AND status = 'pending'.
ToMark(b) == {i \in PendingRows : \E e \in kept[b] : e.text = rows[i].text}

MarkConsumed(b) ==
    /\ bpc[b] = "written"
    /\ rows' = [i \in DOMAIN rows |->
                   IF i \in ToMark(b) THEN [rows[i] EXCEPT !.status = "consumed"]
                   ELSE rows[i]]
    /\ BuildAt(b, "ended")
    /\ UNCHANGED <<writing, examples, kept>>

\* A failed update is logged and the build ends as a success.
MarkFails(b) ==
    /\ bpc[b] = "written"
    /\ BuildAt(b, "ended")
    /\ UNCHANGED <<rows, writing, examples, kept>>

BuildCrashes(b) ==
    /\ bpc[b] \in {"loaded", "written"}
    /\ BuildAt(b, "ended")
    /\ examples' = [examples EXCEPT ![b] = <<>>]
    /\ UNCHANGED <<rows, writing, kept>>

Write(w) ==
    \/ \E t \in Texts, l \in Labels : Enqueue(w, t, l)
    \/ CheckDuplicate(w) \/ CheckCap(w) \/ InsertRow(w) \/ EnqueueFails(w)

Build(b) ==
    \/ LoadQueue(b) \/ WriteDataset(b) \/ MarkConsumed(b) \/ MarkFails(b)
    \/ BuildCrashes(b)

Next == (\E w \in Writers : Write(w)) \/ (\E b \in Builders : Build(b))

Spec == Init /\ [][Next]_vars

-------------------------------------------------------------------------------
\* Enqueues that check the cap at the same time can exceed it, by at most one
\* row for each writer but the first.
OvershootBounded ==
    Writers # {} => Cardinality(PendingRows) + 1 <= MaxQueue + Cardinality(Writers)

\* The same example is pending at most once for each concurrent writer.
DuplicatesBounded ==
    \A t \in Texts, l \in Labels :
        Cardinality({i \in PendingRows : Same(i, [text |-> t, label |-> l])})
            <= Cardinality(Writers)

\* A consumed row was displaced, if at all, by its elders: a dataset holds its
\* text from the row itself, from an earlier row or from the corpora, never from a
\* report that came after it, whatever arrives, fails or is built in between.
NoYoungerReportWins ==
    \A i \in DOMAIN rows : rows[i].status = "consumed" =>
        \E b \in Builders : \E e \in kept[b] : e.text = rows[i].text /\ e.row <= i

\* A dataset never teaches both labels for one text, whatever contradicting
\* rows the queue and the corpora hold.
OneLabelPerText ==
    \A b \in Builders : \A d, e \in kept[b] :
        KeyOf[d.text] = KeyOf[e.text] => d = e

\* "Queue items are marked consumed after a successful build, so nothing is
\* trained on twice" (README): no row goes into two datasets.
NothingTrainedTwice ==
    \A b, c \in Builders : b # c =>
        \A d \in kept[b], e \in kept[c] : d.row # e.row \/ d.row = 0
===============================================================================
