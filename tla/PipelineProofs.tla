---------------------------- MODULE PipelineProofs ----------------------------
(***************************************************************************)
(* Proofs about Pipeline for every setting of the thresholds, every set of *)
(* configurations and request bodies of any length.                        *)
(***************************************************************************)
EXTENDS Pipeline, OrderLemmas, SequenceTheorems

-------------------------------------------------------------------------------
(***************************************************************************)
(* The decision layer's choice                                             *)
(***************************************************************************)

LEMMA LevelForType == \A c \in Nat : LevelFor(c) \in Levels
BY ThresholdsOrdered DEF LevelFor, Levels

LEMMA ScoresInNat == Scores \subseteq Nat /\ 0 \in Scores /\ MaxScore \in Scores
BY ThresholdsOrdered DEF Scores

LEMMA PolicyLevelType == \A r \in Result : PolicyLevel(r) \in Levels
BY LevelForType, ScoresInNat DEF PolicyLevel, Result, Levels

LEMMA SeverityType == \A l \in Levels : Severity(l) \in Nat /\ Severity(l) <= 4
BY DEF Severity, Levels

\* Severity tells the levels apart.
LEMMA SeverityBlock ==
    \A l \in Levels : Severity("block") <= Severity(l) => l = "block"
BY DEF Severity, Levels

LEMMA CollectedType ==
    ASSUME results \in Seq(Result)
    PROVE  /\ Collected \subseteq Result
           /\ results # <<>> => Collected # {}
<1>1. DOMAIN results = 1..Len(results) /\ Len(results) \in Nat
  BY LenProperties
<1>2. \A i \in DOMAIN results : results[i] \in Result
  BY <1>1, ElementOfSeq
<1>3. ASSUME results # <<>> PROVE results[1] \in Collected
  <2>1. 1 \in DOMAIN results
    BY <1>1, <1>3, EmptySeq
  <2> QED
    BY <2>1 DEF Collected
<1> QED
  BY <1>2, <1>3 DEF Collected

\* The scan of decide over a nonempty list of results finds a result that no
\* other beats.
LEMMA TopExists ==
    ASSUME results \in Seq(Result), results # <<>>
    PROVE  Top \in Collected /\ \A q \in Collected : Beats(Top, q)
<1> DEFINE sev(r) == Severity(PolicyLevel(r))
           C == Collected
<1>1. C \subseteq Result /\ C # {}
  BY CollectedType
<1>2. \A r \in C : sev(r) \in Nat /\ sev(r) <= 4
  BY <1>1, PolicyLevelType, SeverityType
<1>3. \A r \in C : r.conf \in Nat /\ r.conf <= MaxScore
  BY <1>1, ThresholdsOrdered DEF Result, Scores
<1>4. \E r \in C : \A q \in C : Beats(r, q)
  <2> HIDE DEF sev, C
  <2>1. PICK a \in {sev(r) : r \in C} : \A b \in {sev(r) : r \in C} : b <= a
    <3>1. {sev(r) : r \in C} \in SUBSET Nat /\ {sev(r) : r \in C} # {}
      BY <1>1, <1>2
    <3>2. \A x \in {sev(r) : r \in C} : x <= 4
      BY <1>2
    <3> QED
      BY <3>1, <3>2, GreatestElement
  <2> DEFINE D == {r \in C : sev(r) = a}
  <2>2. D # {}
    OBVIOUS
  <2>3. PICK c \in {r.conf : r \in D} : \A d \in {r.conf : r \in D} : d <= c
    <3>1. {r.conf : r \in D} \in SUBSET Nat /\ {r.conf : r \in D} # {}
      BY <1>3, <2>2
    <3>2. \A x \in {r.conf : r \in D} : x <= MaxScore
      BY <1>3
    <3>3. MaxScore \in Nat
      BY ThresholdsOrdered
    <3> HIDE DEF D
    <3> QED
      BY <3>1, <3>2, <3>3, GreatestElement
  <2>4. PICK r \in D : r.conf = c
    OBVIOUS
  <2>5. ASSUME NEW q \in C PROVE Beats(r, q)
    <3>1. sev(q) <= sev(r) /\ sev(q) \in Nat /\ sev(r) \in Nat
      BY <2>1, <2>4, <1>2
    <3>2. CASE sev(q) = sev(r)
      <4>1. q.conf <= r.conf /\ q.conf \in Nat /\ r.conf \in Nat
        BY <3>2, <2>3, <2>4, <1>3
      <4> QED
        BY <4>1, <3>2 DEF Beats, sev
    <3>3. CASE sev(q) < sev(r)
      BY <3>1, <3>3 DEF Beats, sev
    <3> QED
      BY <3>1, <3>2, <3>3
  <2> QED
    BY <2>4, <2>5
<1> QED
  BY <1>4 DEF Top

LEMMA DecidedType ==
    ASSUME results \in Seq(Result)
    PROVE  DecidedLevel \in Levels /\ DecidedConf \in Scores
<1>1. CASE NoDetection
  BY <1>1, ScoresInNat DEF DecidedLevel, DecidedConf, Levels
<1>2. CASE ~NoDetection
  <2>1. results # <<>>
    BY <1>2 DEF NoDetection
  <2>2. Top \in Result
    BY <2>1, TopExists DEF Collected
  <2> QED
    BY <1>2, <2>2, PolicyLevelType DEF DecidedLevel, DecidedConf, Result
<1> QED
  BY <1>1, <1>2

\* A block among the results is never outvoted.
LEMMA BlockDecides ==
    ASSUME results \in Seq(Result), LayerBlocked
    PROVE  DecidedLevel = "block"
<1>1. PICK r \in Collected : r.level = "block"
  BY DEF LayerBlocked
<1>2. results # <<>>
  BY <1>1 DEF Collected
<1>3. Top \in Result /\ Beats(Top, r)
  BY <1>2, TopExists DEF Collected
<1>4. Severity("block") <= Severity(PolicyLevel(Top))
  <2>1. PolicyLevel(r) = "block"
    BY <1>1 DEF PolicyLevel
  <2>2. Severity("block") \in Nat /\ Severity(PolicyLevel(Top)) \in Nat
    BY <1>3, PolicyLevelType, SeverityType DEF Levels
  <2> QED
    BY <1>3, <2>1, <2>2 DEF Beats
<1>5. PolicyLevel(Top) = "block"
  BY <1>3, <1>4, PolicyLevelType, SeverityBlock
<1> QED
  BY <1>2, <1>5 DEF DecidedLevel, NoDetection

-------------------------------------------------------------------------------
(***************************************************************************)
(* Type correctness                                                        *)
(***************************************************************************)

LEMMA FailureType ==
    ASSUME TypeOK, NEW layer \in Layers
    PROVE  Failure(layer) \in Result /\ Quiet(layer) \in Result
BY ScoresInNat DEF Failure, Quiet, NoFlag, Result, Levels, Ids, NSegs, NMsgs,
                   TypeOK, BodyType

LEMMA ScoringType ==
    ASSUME TypeOK, NEW layer \in {"heuristic", "classifier"},
           NEW r \in Scoring(layer)
    PROVE  r \in Result /\ Escalated(r) \in Result
<1>1. NSegs \in Nat
  BY DEF TypeOK, BodyType, NSegs, NMsgs
<1>2. r \in Result
  <2>1. CASE r = Quiet(layer)
    BY <2>1, FailureType DEF Layers
  <2>2. CASE \E s \in 1..MaxScore, i \in Segments :
               r = [layer |-> layer, level |-> LevelFor(s), conf |-> s, flag |-> i]
    <3>1. PICK s \in 1..MaxScore, i \in Segments :
               r = [layer |-> layer, level |-> LevelFor(s), conf |-> s, flag |-> i]
      BY <2>2
    <3>2. s \in Scores /\ LevelFor(s) \in Levels
      BY ThresholdsOrdered, LevelForType DEF Scores
    <3>3. i \in Ids
      BY <1>1 DEF Segments, Ids
    <3> QED
      BY <3>1, <3>2, <3>3 DEF Result, Layers
  <2> QED
    BY <2>1, <2>2 DEF Scoring
<1> QED
  BY <1>2 DEF Escalated, Result, Levels

LEMMA LargerType == \A a, b \in Scores : Larger(a, b) \in Scores
BY DEF Larger

\* A message list of the current body.
UpstreamType(up) == DOMAIN up \subseteq Ids /\ up \in [DOMAIN up -> Message]

LEMMA NotedType ==
    ASSUME NEW up, UpstreamType(up), TypeOK, NEW note \in {"canary", "spotlight"}
    PROVE  /\ UpstreamType(Noted(up, note))
           /\ DOMAIN up \subseteq DOMAIN Noted(up, note)
<1>1. 0 \in Ids
  BY DEF TypeOK, BodyType, Ids, NSegs, NMsgs
<1> QED
  BY <1>1 DEF UpstreamType, Noted, Message, Plain, Extents

LEMMA SpotlightWrapType ==
    ASSUME NEW up, UpstreamType(up), TypeOK, NEW target
    PROVE  /\ UpstreamType(SpotlightWrap(up, target))
           /\ DOMAIN up \subseteq DOMAIN SpotlightWrap(up, target)
<1> DEFINE chosen(i) == IF target # 0 THEN i = target ELSE Recognised(i)
           marked == [i \in DOMAIN up |->
                        IF chosen(i) THEN [up[i] EXCEPT !.wrapped = Wrapping(i)] ELSE up[i]]
<1>1. UpstreamType(marked) /\ DOMAIN marked = DOMAIN up
  BY DEF UpstreamType, Message, Wrapping, Extents
<1>2. /\ UpstreamType(Noted(marked, "spotlight"))
      /\ DOMAIN marked \subseteq DOMAIN Noted(marked, "spotlight")
  BY <1>1, NotedType
<1>3. SpotlightWrap(up, target) \in {Noted(marked, "spotlight"), marked}
  BY DEF SpotlightWrap
<1> QED
  BY <1>1, <1>2, <1>3

LEMMA FlaggedIdxType ==
    ASSUME TypeOK
    PROVE  FlaggedIdx \in Ids
<1>1. \A k \in DOMAIN results : results[k].flag \in Ids
  <2>1. results \in Seq(Result)
    BY DEF TypeOK
  <2>2. DOMAIN results = 1..Len(results)
    BY <2>1, LenProperties
  <2>3. \A k \in DOMAIN results : results[k] \in Result
    BY <2>1, <2>2, ElementOfSeq
  <2> QED
    BY <2>3 DEF Result
<1>2. 0 \in Ids
  BY DEF TypeOK, BodyType, Ids, NSegs, NMsgs
<1> QED
  BY <1>1, <1>2 DEF FlaggedIdx

LEMMA SanitizedType ==
    ASSUME TypeOK, NEW level \in Levels
    PROVE  UpstreamType(Sanitized(level))
<1>1. UpstreamType(upstream)
  BY DEF TypeOK, UpstreamType
<1>2. UpstreamType(Copied(upstream))
  BY <1>1 DEF UpstreamType, Copied, Message
<1>3. UpstreamType(Without(Copied(upstream), FlaggedIdx))
  BY <1>2 DEF UpstreamType, Without
<1>4. \A t : UpstreamType(SpotlightWrap(Copied(upstream), t))
  BY <1>2, SpotlightWrapType
<1> QED
  BY <1>1, <1>3, <1>4 DEF Sanitized, Levels

\* What a step leaves as it was keeps its type.
LEMMA ResultsType ==
    ASSUME TypeOK, NEW r \in Result, AddResult(r)
    PROVE  results' \in Seq(Result)
BY AppendProperties DEF TypeOK, AddResult

LEMMA InputsStay ==
    ASSUME UNCHANGED inputs
    PROVE  Ids' = Ids /\ NMsgs' = NMsgs /\ NSegs' = NSegs /\ Result' = Result
BY DEF inputs, Ids, NMsgs, NSegs, Result

\* Init gives every variable a value of its type.
LEMMA InitTypeOK == Init => TypeOK
<1> SUFFICES ASSUME Init PROVE TypeOK
  OBVIOUS
<1>1. cfg \in ConfigType /\ body \in BodyType
  BY InputsTyped DEF Init
<1>2. NMsgs \in Nat /\ NSegs \in Nat /\ NMsgs <= NSegs
  BY <1>1 DEF BodyType, NMsgs, NSegs
<1>3. DOMAIN upstream \subseteq Ids /\ upstream \in [DOMAIN upstream -> Message]
  <2>1. \A i : Received(i) \in Message
    BY DEF Message, Received, Plain, Extents
  <2> QED
    BY <1>2, <2>1 DEF Init, Ids
<1>4. results \in Seq(Result) /\ excluded \subseteq Ids
  BY EmptySeq DEF Init
<1>5. pc \in Steps /\ decision \in Levels /\ outcome \in Outcomes
  BY DEF Init, Steps, Levels, Outcomes
<1>6. tagged \in BOOLEAN /\ canary \in BOOLEAN /\ confidence \in Scores
  BY ScoresInNat DEF Init
<1> QED
  BY <1>1, <1>3, <1>4, <1>5, <1>6 DEF TypeOK

\* A detector's report.
LEMMA ReportType ==
    ASSUME TypeOK, NEW layer \in Detectors, NEW r \in Result,
           Report(layer, r), tagged' \in BOOLEAN
    PROVE  TypeOK'
<1>1. results' \in Seq(Result)
  BY ResultsType DEF Report
<1>2. confidence' \in Scores
  BY LargerType DEF Report, TypeOK, Result
<1>3. pc' \in Steps
  BY DEF Report, After, Steps, Detectors
<1>4. Ids' = Ids /\ Result' = Result
  BY InputsStay DEF Report
<1> QED
  BY <1>1, <1>2, <1>3, <1>4 DEF TypeOK, Report, inputs

\* Every step keeps the types: one case per action.
LEMMA NextTypeOK == TypeOK /\ [Next]_vars => TypeOK'
<1> SUFFICES ASSUME TypeOK, [Next]_vars PROVE TypeOK'
  OBVIOUS
<1>1. CASE Provenance
  <2>1. Quiet("provenance") \in Result
    BY FailureType DEF Layers
  <2> QED
    BY <1>1, <2>1, ReportType DEF Provenance, Detectors
<1>2. CASE Normalizer
  <2>1. Quiet("normalizer") \in Result
    BY FailureType DEF Layers
  <2> QED
    BY <1>2, <2>1, ReportType DEF Normalizer, Detectors, TypeOK
<1>3. CASE Heuristic
  <2>1. PICK r \in Scoring("heuristic") : Report("heuristic", r) /\ UNCHANGED tagged
    BY <1>3 DEF Heuristic
  <2>2. r \in Result
    BY ScoringType
  <2> QED
    BY <2>1, <2>2, ReportType DEF Detectors, TypeOK
<1>4. CASE Classifier
  <2>1. PICK r \in Scoring("classifier"), escalate \in BOOLEAN :
            /\ Report("classifier", IF escalate THEN Escalated(r) ELSE r)
            /\ UNCHANGED tagged
    BY <1>4 DEF Classifier
  <2>2. (IF escalate THEN Escalated(r) ELSE r) \in Result
    BY ScoringType
  <2> QED
    BY <2>1, <2>2, ReportType DEF Detectors, TypeOK
<1>5. CASE LayerFailed
  <2>1. PICK layer \in Detectors : Report(layer, Failure(layer)) /\ UNCHANGED tagged
    BY <1>5 DEF LayerFailed
  <2>2. Failure(layer) \in Result
    BY FailureType DEF Detectors, Layers
  <2> QED
    BY <2>1, <2>2, ReportType DEF TypeOK
<1>6. CASE LayerDisabled
  <2>1. PICK layer \in Detectors : pc' = After(layer, Quiet(layer))
    BY <1>6 DEF LayerDisabled
  <2>2. pc' \in Steps
    BY <2>1 DEF After, Steps, Detectors
  <2>3. Ids' = Ids /\ Result' = Result
    BY <1>6, InputsStay DEF LayerDisabled
  <2> QED
    BY <1>6, <2>2, <2>3 DEF LayerDisabled, TypeOK, inputs
<1>7. CASE Decide
  <2>1. DecidedLevel \in Levels /\ DecidedConf \in Scores
    BY DecidedType DEF TypeOK
  <2>2. NoFlag("decision", DecidedLevel, DecidedConf) \in Result
    BY <2>1 DEF NoFlag, Result, Layers, Ids, NSegs, NMsgs, TypeOK, BodyType
  <2>3. results' \in Seq(Result)
    BY <1>7, <2>2, ResultsType DEF Decide
  <2>4. Ids' = Ids /\ Result' = Result
    BY <1>7, InputsStay DEF Decide
  <2>5. UpstreamType(upstream')
    BY <1>7, <2>1, SanitizedType DEF Decide
  <2>6. excluded' \subseteq Ids
    BY <1>7, FlaggedIdxType DEF Decide, TypeOK
  <2>7. pc' \in Steps
    BY <1>7 DEF Decide, AfterDecision, Steps
  <2> QED
    BY <1>7, <2>1, <2>3, <2>4, <2>5, <2>6, <2>7
    DEF Decide, TypeOK, inputs, UpstreamType
<1>8. CASE DecideRaised
  <2>1. DecidedLevel \in Levels /\ DecidedConf \in Scores
    BY DecidedType DEF TypeOK
  <2>2. Failure("decision") \in Result
    BY FailureType DEF Layers
  <2>3. results' \in Seq(Result)
    BY <1>8, <2>2, ResultsType DEF DecideRaised
  <2>4. Ids' = Ids /\ Result' = Result
    BY <1>8, InputsStay DEF DecideRaised
  <2>5. confidence' \in Scores
    BY <1>8, <2>1, <2>2, LargerType DEF DecideRaised, Result
  <2>6. pc' \in Steps
    BY <1>8 DEF DecideRaised, AfterDecision, Steps
  <2> QED
    BY <1>8, <2>1, <2>3, <2>4, <2>5, <2>6 DEF DecideRaised, TypeOK, inputs
<1>9. CASE Guard
  <2>1. CASE GuardDisabled
    <3>1. Ids' = Ids /\ Result' = Result
      BY <2>1, InputsStay DEF GuardDisabled
    <3> QED
      BY <2>1, <3>1 DEF GuardDisabled, TypeOK, inputs, Steps
  <2>2. ASSUME NEW r \in Result, GuardStep(r), UpstreamType(upstream'),
               canary' \in BOOLEAN
        PROVE  TypeOK'
    <3>1. results' \in Seq(Result)
      BY <2>2, ResultsType DEF GuardStep
    <3>2. confidence' \in Scores
      BY <2>2, LargerType DEF GuardStep, TypeOK, Result
    <3>3. Ids' = Ids /\ Result' = Result
      BY <2>2, InputsStay DEF GuardStep
    <3> QED
      BY <2>2, <3>1, <3>2, <3>3 DEF GuardStep, TypeOK, inputs, Steps, UpstreamType
  <2>3. Quiet("output_guard") \in Result /\ Failure("output_guard") \in Result
    BY FailureType DEF Layers
  <2>4. UpstreamType(upstream) /\ UpstreamType(Noted(upstream, "canary"))
    <3>1. UpstreamType(upstream)
      BY DEF TypeOK, UpstreamType
    <3> QED
      BY <3>1, NotedType
  <2>5. CASE InjectCanary
    BY <2>2, <2>3, <2>4, <2>5 DEF InjectCanary
  <2>6. CASE InjectRaised
    BY <2>2, <2>3, <2>4, <2>6 DEF InjectRaised
  <2>7. CASE GuardWithoutCanary
    BY <2>2, <2>3, <2>4, <2>7 DEF GuardWithoutCanary, TypeOK
  <2> QED
    BY <1>9, <2>1, <2>5, <2>6, <2>7 DEF Guard
<1>10. CASE AlwaysSpotlight
  <2>1. UpstreamType(upstream)
    BY DEF TypeOK, UpstreamType
  <2>2. UpstreamType(WithGenerated(upstream))
    <3>1. (NMsgs + 1)..NSegs \subseteq Ids
      BY DEF Ids, NSegs, NMsgs, TypeOK, BodyType
    <3> QED
      BY <2>1, <3>1 DEF UpstreamType, WithGenerated, Plain, Message, Extents
  <2>3. UpstreamType(SpotlightWrap(WithGenerated(upstream), 0))
    BY <2>2, SpotlightWrapType
  <2>4. Ids' = Ids /\ Result' = Result
    BY <1>10, InputsStay DEF AlwaysSpotlight
  <2> QED
    BY <1>10, <2>3, <2>4 DEF AlwaysSpotlight, TypeOK, inputs, Steps, UpstreamType
<1>11. CASE SpotlightRaised
  <2>1. Ids' = Ids /\ Result' = Result
    BY <1>11, InputsStay DEF SpotlightRaised
  <2> QED
    BY <1>11, <2>1, ScoresInNat
    DEF SpotlightRaised, DecisionAfterError, TypeOK, inputs, Steps, Levels
<1>12. CASE SpotlightSkipped
  <2>1. Ids' = Ids /\ Result' = Result
    BY <1>12, InputsStay DEF SpotlightSkipped
  <2> QED
    BY <1>12, <2>1 DEF SpotlightSkipped, TypeOK, inputs, Steps
<1>13. CASE Respond
  <2>1. Ids' = Ids /\ Result' = Result
    BY <1>13, InputsStay DEF Respond
  <2> QED
    BY <1>13, <2>1 DEF Respond, TypeOK, inputs, Steps, Outcomes
<1>14. CASE UNCHANGED vars
  BY <1>14 DEF vars, TypeOK, Ids, NSegs, NMsgs, Result
<1> QED
  BY <1>1, <1>2, <1>3, <1>4, <1>5, <1>6, <1>7, <1>8, <1>9, <1>10, <1>11, <1>12,
     <1>13, <1>14
  DEF Next, Step, Detect, Rule, Spotlight, Answered

\* Type correctness of a request's whole passage.
THEOREM PipelineTypeOK == Spec => []TypeOK
BY InitTypeOK, NextTypeOK, PTL DEF Spec

-------------------------------------------------------------------------------
(***************************************************************************)
(* What the two rewriting helpers do to a list of messages.                *)
(***************************************************************************)
Carries(up, i, note) == note \in up[i].notes

\* inject_canary and the spotlight note: only their own note is added, to one
\* message, nothing is unwrapped, and what is not an object stays so.
LEMMA NotedEffect ==
    ASSUME NEW up, UpstreamType(up), NEW note \in {"canary", "spotlight"}
    PROVE  /\ DOMAIN Noted(up, note) \in {DOMAIN up, DOMAIN up \cup {0}}
           /\ \A i \in DOMAIN up :
                 /\ Noted(up, note)[i].object = up[i].object
                 /\ Noted(up, note)[i].wrapped = up[i].wrapped
                 /\ Noted(up, note)[i].notes \in {up[i].notes, up[i].notes \cup {note}}
           /\ 0 \notin DOMAIN up /\ 0 \in DOMAIN Noted(up, note) =>
                 /\ Noted(up, note)[0].object /\ Noted(up, note)[0].wrapped = "none"
                 /\ Noted(up, note)[0].notes = {note}
<1>1. \A i \in DOMAIN up : up[i] \in Message
  BY DEF UpstreamType
<1>2. CASE Systems(up) # {}
  BY <1>1, <1>2 DEF Noted, Message
<1>3. CASE Systems(up) = {}
  <2>1. 0 \notin DOMAIN up
    BY <1>3 DEF Systems, Kind
  <2>2. Noted(up, note) =
          [i \in DOMAIN up \cup {0} |->
              IF i = 0 THEN [Plain EXCEPT !.notes = {note}] ELSE up[i]]
    BY <1>3 DEF Noted
  <2>3. LET new == [Plain EXCEPT !.notes = {note}]
        IN  new.object /\ new.wrapped = "none" /\ new.notes = {note}
    BY DEF Plain
  <2> QED
    BY <2>1, <2>2, <2>3
<1> QED
  BY <1>2, <1>3

\* The first system message of a list that has one.
LEMMA FirstSystemExists ==
    ASSUME NEW up, UpstreamType(up), TypeOK, Systems(up) # {}
    PROVE  FirstSystem(up) \in Systems(up)
<1>1. Systems(up) \in SUBSET Nat
  BY DEF Systems, UpstreamType, Ids, NSegs, NMsgs, TypeOK, BodyType
<1>2. \E i \in Systems(up) : \A j \in Systems(up) : i <= j
  BY <1>1, LeastElement
<1> QED
  BY <1>2 DEF FirstSystem

\* Exactly one message carries the note once it has been added to a list that
\* had none, unless the only place for it does not take it.
LEMMA NotedOnce ==
    ASSUME NEW up, UpstreamType(up), TypeOK, NEW note \in {"canary", "spotlight"}
    PROVE  \E i \in DOMAIN Noted(up, note) :
              /\ Carries(Noted(up, note), i, note) \/ (note = "spotlight" /\ Kind(i) = "mute")
              /\ \A j \in DOMAIN Noted(up, note) \ {i} :
                    Carries(Noted(up, note), j, note) => j \in DOMAIN up /\ Carries(up, j, note)
<1>1. \A i \in DOMAIN up : up[i] \in Message
  BY DEF UpstreamType
<1>2. CASE Systems(up) # {}
  <2>1. FirstSystem(up) \in DOMAIN up
    BY <1>2, FirstSystemExists DEF Systems
  <2>2. Noted(up, note) = [i \in DOMAIN up |->
            IF i = FirstSystem(up) /\ Accepts(up[i], i, note)
            THEN [up[i] EXCEPT !.notes = @ \cup {note}] ELSE up[i]]
    BY <1>2 DEF Noted
  <2>3. Accepts(up[FirstSystem(up)], FirstSystem(up), note) =>
            Carries(Noted(up, note), FirstSystem(up), note)
    BY <1>1, <2>1, <2>2 DEF Carries, Message
  <2>4. ~Accepts(up[FirstSystem(up)], FirstSystem(up), note) =>
            note = "spotlight" /\ Kind(FirstSystem(up)) = "mute"
    BY DEF Accepts
  <2>5. \A j \in DOMAIN up \ {FirstSystem(up)} : Noted(up, note)[j] = up[j]
    BY <2>2
  <2>6. DOMAIN Noted(up, note) = DOMAIN up
    BY <2>2
  <2> QED
    BY <2>1, <2>3, <2>4, <2>5, <2>6 DEF Carries
<1>3. CASE Systems(up) = {}
  <2>1. Noted(up, note) =
          [i \in DOMAIN up \cup {0} |->
              IF i = 0 THEN [Plain EXCEPT !.notes = {note}] ELSE up[i]]
    BY <1>3 DEF Noted
  <2>2. Carries(Noted(up, note), 0, note) /\ 0 \in DOMAIN Noted(up, note)
    BY <2>1 DEF Carries, Plain
  <2>3. \A j \in DOMAIN Noted(up, note) \ {0} : j \in DOMAIN up /\ Noted(up, note)[j] = up[j]
    BY <2>1
  <2> QED
    BY <2>2, <2>3 DEF Carries
<1> QED
  BY <1>2, <1>3

\* spotlight_wrap_messages: every chosen message is wrapped as far as its content
\* allows, canary notes stay where they are, what is not an object stays so, and
\* if anything was to be wrapped the note is there, or a system message without a
\* text is.
LEMMA SpotlightEffect ==
    ASSUME NEW up, UpstreamType(up), TypeOK, NEW target \in Ids
    PROVE  LET new == SpotlightWrap(up, target) IN
           /\ DOMAIN new \in {DOMAIN up, DOMAIN up \cup {0}}
           /\ \A i \in DOMAIN up :
                 /\ new[i].object = up[i].object
                 /\ target = 0 /\ Recognised(i) => new[i].wrapped = Wrapping(i)
                 /\ Carries(new, i, "canary") <=> Carries(up, i, "canary")
                 /\ Carries(up, i, "spotlight") => Carries(new, i, "spotlight")
           /\ 0 \notin DOMAIN up /\ 0 \in DOMAIN new =>
                 /\ new[0].object /\ new[0].wrapped = "none"
                 /\ ~Carries(new, 0, "canary")
           /\ \/ target = 0 /\ (\A i \in DOMAIN up : ~Recognised(i)) /\ new = up
              \/ \E i \in DOMAIN new : Carries(new, i, "spotlight") \/ Kind(i) = "mute"
<1> DEFINE chosen(i) == IF target # 0 THEN i = target ELSE Recognised(i)
           marked == [i \in DOMAIN up |->
                        IF chosen(i) THEN [up[i] EXCEPT !.wrapped = Wrapping(i)] ELSE up[i]]
           new == SpotlightWrap(up, target)
<1>1. UpstreamType(marked) /\ DOMAIN marked = DOMAIN up
  BY DEF UpstreamType, Message, Wrapping, Extents
<1>2. \A i \in DOMAIN up : /\ marked[i].notes = up[i].notes
                           /\ marked[i].object = up[i].object
                           /\ chosen(i) => marked[i].wrapped = Wrapping(i)
  BY DEF UpstreamType, Message
<1>3. CASE target # 0 \/ \E i \in DOMAIN up : Recognised(i)
  <2>1. new = Noted(marked, "spotlight")
    BY <1>3 DEF SpotlightWrap
  <2> HIDE DEF marked, new
  <2>2. /\ DOMAIN new \in {DOMAIN up, DOMAIN up \cup {0}}
        /\ \A i \in DOMAIN up :
              /\ new[i].object = marked[i].object
              /\ new[i].wrapped = marked[i].wrapped
              /\ new[i].notes \in {marked[i].notes, marked[i].notes \cup {"spotlight"}}
        /\ 0 \notin DOMAIN up /\ 0 \in DOMAIN new =>
              new[0].object /\ new[0].wrapped = "none" /\ new[0].notes = {"spotlight"}
    <3>1. LET noted == Noted(marked, "spotlight") IN
          /\ DOMAIN noted \in {DOMAIN marked, DOMAIN marked \cup {0}}
          /\ \A i \in DOMAIN marked :
                /\ noted[i].object = marked[i].object
                /\ noted[i].wrapped = marked[i].wrapped
                /\ noted[i].notes \in {marked[i].notes, marked[i].notes \cup {"spotlight"}}
          /\ 0 \notin DOMAIN marked /\ 0 \in DOMAIN noted =>
                /\ noted[0].object /\ noted[0].wrapped = "none"
                /\ noted[0].notes = {"spotlight"}
      BY <1>1, NotedEffect
    <3> QED
      BY <1>1, <2>1, <3>1
  <2>3. \E i \in DOMAIN new : Carries(new, i, "spotlight") \/ Kind(i) = "mute"
    BY <1>1, <2>1, NotedOnce
  <2>4. \A i \in DOMAIN up :
           /\ new[i].object = up[i].object
           /\ target = 0 /\ Recognised(i) => new[i].wrapped = Wrapping(i)
           /\ Carries(new, i, "canary") <=> Carries(up, i, "canary")
           /\ Carries(up, i, "spotlight") => Carries(new, i, "spotlight")
    BY <1>2, <2>2 DEF Carries
  <2>5. 0 \notin DOMAIN up /\ 0 \in DOMAIN new =>
            new[0].object /\ new[0].wrapped = "none" /\ ~Carries(new, 0, "canary")
    BY <2>2 DEF Carries
  <2> QED
    BY <2>2, <2>3, <2>4, <2>5 DEF new
<1>4. CASE target = 0 /\ \A i \in DOMAIN up : ~Recognised(i)
  <2>1. new = marked
    BY <1>4 DEF SpotlightWrap
  <2>2. marked = up
    BY <1>4 DEF UpstreamType
  <2> QED
    BY <1>4, <2>1, <2>2
<1> QED
  BY <1>3, <1>4

\* The top-level segments that were not excluded join the list as they are.
LEMMA GeneratedEffect ==
    ASSUME NEW up, UpstreamType(up), TypeOK
    PROVE  /\ UpstreamType(WithGenerated(up))
           /\ DOMAIN WithGenerated(up) = DOMAIN up \cup (((NMsgs + 1)..NSegs) \ excluded)
           /\ \A i \in DOMAIN up : WithGenerated(up)[i] = up[i]
           /\ \A i \in DOMAIN WithGenerated(up) \ DOMAIN up : WithGenerated(up)[i] = Plain
<1>1. (NMsgs + 1)..NSegs \subseteq Ids
  BY DEF Ids, NSegs, NMsgs, TypeOK, BodyType
<1> QED
  BY <1>1 DEF UpstreamType, WithGenerated, Plain, Message, Extents

LEMMA ZeroIsId == TypeOK => 0 \in Ids
BY DEF TypeOK, BodyType, Ids, NSegs, NMsgs

\* No rewrite adds an entry that is not an object, or makes one an object.
LEMMA BadAfterRewrite ==
    ASSUME NEW up, NEW new, DOMAIN up \subseteq DOMAIN new,
           \A i \in DOMAIN up : new[i].object = up[i].object,
           \A i \in DOMAIN new \ DOMAIN up : new[i].object
    PROVE  HasBad(new) <=> HasBad(up)
BY DEF HasBad

LEMMA BadAfterNote ==
    ASSUME NEW up, UpstreamType(up), NEW note \in {"canary", "spotlight"}
    PROVE  HasBad(Noted(up, note)) <=> HasBad(up)
<1> DEFINE new == Noted(up, note)
<1> HIDE DEF new
<1>1. /\ DOMAIN new \in {DOMAIN up, DOMAIN up \cup {0}}
      /\ \A i \in DOMAIN up : new[i].object = up[i].object
      /\ 0 \notin DOMAIN up /\ 0 \in DOMAIN new => new[0].object
  BY NotedEffect DEF new
<1>2. DOMAIN up \subseteq DOMAIN new /\ \A i \in DOMAIN new \ DOMAIN up : new[i].object
  BY <1>1
<1>3. HasBad(new) <=> HasBad(up)
  BY <1>1, <1>2, BadAfterRewrite
<1> QED
  BY <1>3 DEF new

LEMMA BadAfterSpotlight ==
    ASSUME NEW up, UpstreamType(up), TypeOK, NEW target \in Ids
    PROVE  HasBad(SpotlightWrap(up, target)) <=> HasBad(up)
<1> DEFINE new == SpotlightWrap(up, target)
<1> HIDE DEF new
<1>1. /\ DOMAIN new \in {DOMAIN up, DOMAIN up \cup {0}}
      /\ \A i \in DOMAIN up : new[i].object = up[i].object
      /\ 0 \notin DOMAIN up /\ 0 \in DOMAIN new => new[0].object
  BY SpotlightEffect DEF new
<1>2. DOMAIN up \subseteq DOMAIN new /\ \A i \in DOMAIN new \ DOMAIN up : new[i].object
  BY <1>1
<1>3. HasBad(new) <=> HasBad(up)
  BY <1>1, <1>2, BadAfterRewrite
<1> QED
  BY <1>3 DEF new

LEMMA BadAfterGenerated ==
    ASSUME TypeOK
    PROVE  HasBad(WithGenerated(upstream)) <=> HasBad(upstream)
<1>1. UpstreamType(upstream)
  BY DEF TypeOK, UpstreamType
<1> DEFINE new == WithGenerated(upstream)
<1> HIDE DEF new
<1>2. /\ DOMAIN new = DOMAIN upstream \cup (((NMsgs + 1)..NSegs) \ excluded)
      /\ \A i \in DOMAIN upstream : new[i] = upstream[i]
      /\ \A i \in DOMAIN new \ DOMAIN upstream : new[i] = Plain
  BY <1>1, GeneratedEffect DEF new
<1>3. DOMAIN upstream \subseteq DOMAIN new
      /\ \A i \in DOMAIN new \ DOMAIN upstream : new[i].object
  BY <1>2 DEF Plain
<1>4. HasBad(new) <=> HasBad(upstream)
  BY <1>2, <1>3, BadAfterRewrite
<1> QED
  BY <1>4 DEF new

LEMMA BadAfterSanitized ==
    ASSUME TypeOK, NEW level
    PROVE  /\ HasBad(Sanitized(level)) => HasBad(upstream)
           /\ UpstreamType(Copied(upstream))
<1>1. UpstreamType(Copied(upstream)) /\ ~HasBad(Copied(upstream))
  BY DEF TypeOK, UpstreamType, Copied, Message, HasBad
<1>2. ~HasBad(Without(Copied(upstream), FlaggedIdx))
  BY <1>1 DEF HasBad, Without
<1>3. \A t \in {FlaggedIdx, 0} : ~HasBad(SpotlightWrap(Copied(upstream), t))
  BY <1>1, BadAfterSpotlight, FlaggedIdxType, ZeroIsId
<1> QED
  BY <1>1, <1>2, <1>3 DEF Sanitized
-------------------------------------------------------------------------------
(***************************************************************************)
(* A block by a detector stops the request                                 *)
(***************************************************************************)
Early == Detectors \cup {"decision", "final_decision"}
Late == {"output_guard", "spotlight", "respond"}

\* Only a copy that overflowed after the detectors ended leaves a block that
\* nothing stops.
Excused(r) == r.layer \in {"decision", "output_guard"} /\ body.deep # {}
Unexcused == \E r \in Collected : r.level = "block" /\ ~Excused(r)

\* The strengthening.  Until the decision layer has run, the messages are as they
\* came and a block has left the loop; afterwards a block is the decision, or it
\* came from a step that raised on an entry that is not an object, which is still
\* there and makes the upstream client raise as well, or it is excused.
BlockSafe ==
    /\ pc \in Detectors \cup {"decision"} => ~LayerBlocked
    /\ pc \in Early => upstream = [i \in 1..NMsgs |-> Received(i)]
    /\ pc \in Late /\ Unexcused => decision = "block" \/ HasBad(upstream)
    /\ pc # "done" => outcome = "none"
    /\ Sent => ~Unexcused
    /\ body.route = "completions" => ~HasBad(upstream)

LEMMA CollectedAppend ==
    ASSUME TypeOK, NEW r \in Result, AddResult(r)
    PROVE  Collected' = Collected \cup {r}
<1>1. results \in Seq(Result)
  BY DEF TypeOK
<1>2. DOMAIN results = 1..Len(results) /\ Len(results) \in Nat
  BY <1>1, LenProperties
<1>3. /\ results' \in Seq(Result)
      /\ Len(results') = Len(results) + 1
      /\ \A i \in 1..Len(results) : results'[i] = results[i]
      /\ results'[Len(results) + 1] = r
  BY <1>1, AppendProperties DEF AddResult
<1>4. DOMAIN results' = 1..(Len(results) + 1)
  BY <1>3, LenProperties
<1>5. \A i \in DOMAIN results' : results'[i] \in Collected \cup {r}
  <2>1. TAKE i \in DOMAIN results'
  <2>2. CASE i \in 1..Len(results)
    BY <1>2, <1>3, <2>2 DEF Collected
  <2>3. CASE i = Len(results) + 1
    BY <1>3, <2>3
  <2> QED
    BY <1>2, <1>4, <2>2, <2>3
<1>6. \A x \in Collected \cup {r} : \E i \in DOMAIN results' : x = results'[i]
  <2>1. TAKE x \in Collected \cup {r}
  <2>2. CASE x \in Collected
    <3>1. PICK i \in DOMAIN results : x = results[i]
      BY <2>2 DEF Collected
    <3>2. i \in DOMAIN results' /\ x = results'[i]
      BY <1>2, <1>3, <1>4, <3>1
    <3> QED
      BY <3>2
  <2>3. CASE x = r
    <3>1. Len(results) + 1 \in DOMAIN results'
      BY <1>2, <1>4
    <3> QED
      BY <1>3, <2>3, <3>1
  <2> QED
    BY <2>2, <2>3
<1> QED
  BY <1>5, <1>6 DEF Collected

LEMMA BlockedAppend ==
    ASSUME TypeOK, NEW r \in Result, AddResult(r)
    PROVE  LayerBlocked' <=> (LayerBlocked \/ r.level = "block")
BY CollectedAppend DEF LayerBlocked

LEMMA UnexcusedAppend ==
    ASSUME TypeOK, UNCHANGED inputs, NEW r \in Result, AddResult(r)
    PROVE  Unexcused' <=> Unexcused \/ (r.level = "block" /\ ~Excused(r))
<1>1. Collected' = Collected \cup {r}
  BY CollectedAppend
<1>2. \A q : Excused(q)' <=> Excused(q)
  BY DEF Excused, inputs
<1> QED
  BY <1>1, <1>2 DEF Unexcused

LEMMA UnexcusedStays ==
    ASSUME UNCHANGED <<results, body>>
    PROVE  Unexcused' <=> Unexcused
BY DEF Unexcused, Excused, Collected

LEMMA BlockedUnlessExcused == Unexcused => LayerBlocked
BY DEF Unexcused, LayerBlocked

LEMMA ReceivedStays == ASSUME UNCHANGED inputs PROVE \A i : Received(i)' = Received(i)
BY DEF inputs, Received, Kind, NMsgs

\* Steps that leave the messages alone.
LEMMA BadStays == ASSUME UNCHANGED upstream PROVE HasBad(upstream)' <=> HasBad(upstream)
BY DEF HasBad

\* A detector's report: a block goes straight to the decision layer.
LEMMA ReportBlockSafe ==
    ASSUME TypeOK, BlockSafe, NEW layer \in Detectors, NEW r \in Result, Report(layer, r)
    PROVE  BlockSafe'
<1>1. LayerBlocked' <=> r.level = "block"
  BY BlockedAppend DEF Report, BlockSafe, Detectors
<1>2. pc' \in {"normalizer", "heuristic", "classifier", "decision", "final_decision"}
  BY DEF Report, After, Detectors
<1>3. pc' # "final_decision" => r.level # "block"
  BY DEF Report, After
<1>4. outcome' = "none"
  BY DEF Report, BlockSafe, Detectors
<1>5. upstream' = [i \in (1..NMsgs)' |-> Received(i)']
  BY ReceivedStays DEF Report, BlockSafe, Early, inputs, NMsgs
<1>6. body'.route = "completions" => ~HasBad(upstream)'
  BY BadStays DEF Report, BlockSafe, inputs
<1> QED
  BY <1>1, <1>2, <1>3, <1>4, <1>5, <1>6 DEF BlockSafe, Sent, Late, Detectors

LEMMA InitBlockSafe == Init => BlockSafe
<1> SUFFICES ASSUME Init PROVE BlockSafe
  OBVIOUS
<1>1. ~LayerBlocked
  <2>1. DOMAIN results = {}
    BY DEF Init
  <2> QED
    BY <2>1 DEF LayerBlocked, Collected
<1>2. ASSUME body.route = "completions" PROVE ~HasBad(upstream)
  <2>1. body.msgs \in {<<"usr">>, <<"list">>}
    BY <1>2, InputsTyped DEF Init
  <2>2. NMsgs = 1
    BY <2>1 DEF NMsgs
  <2>3. Kind(1) \in {"usr", "list"}
    BY <2>1, <2>2 DEF Kind
  <2>4. DOMAIN upstream = {1} /\ upstream[1] = Received(1)
    BY <2>2 DEF Init
  <2> QED
    BY <2>3, <2>4 DEF HasBad, Received, Plain
<1> QED
  BY <1>1, <1>2, BlockedUnlessExcused DEF Init, BlockSafe, Sent, Late

\* What the steps after the detectors have to show.
LEMMA LateBlockSafe ==
    ASSUME BlockSafe, UNCHANGED inputs, pc' \in Late, outcome' = "none",
           HasBad(upstream)' => HasBad(upstream),
           Unexcused' => decision' = "block" \/ HasBad(upstream)'
    PROVE  BlockSafe'
BY DEF BlockSafe, Sent, Late, Early, Detectors, inputs

LEMMA DecideBlockSafe ==
    ASSUME TypeOK, BlockSafe, Rule
    PROVE  BlockSafe'
<1>1. UNCHANGED inputs /\ pc' \in Late /\ outcome' = "none" /\ decision' = DecidedLevel
  BY DEF Rule, Decide, DecideRaised, AfterDecision, BlockSafe, Late
<1>2. LayerBlocked => DecidedLevel = "block"
  BY BlockDecides DEF TypeOK
<1>3. CASE Decide
  <2> DEFINE r == NoFlag("decision", DecidedLevel, DecidedConf)
  <2>1. r \in Result
    <3>1. DecidedLevel \in Levels /\ DecidedConf \in Scores
      BY DecidedType DEF TypeOK
    <3> QED
      BY <3>1 DEF NoFlag, Result, Layers, Ids, NSegs, NMsgs, TypeOK, BodyType
  <2>2. Unexcused' => Unexcused \/ DecidedLevel = "block"
    BY <1>3, <2>1, UnexcusedAppend DEF Decide, NoFlag
  <2>3. HasBad(upstream)' => HasBad(upstream)
    BY <1>3, BadAfterSanitized DEF Decide, HasBad
  <2> QED
    BY <1>1, <1>2, <2>2, <2>3, BlockedUnlessExcused, LateBlockSafe
<1>4. CASE DecideRaised
  <2>1. SanitizationMayRaise(DecidedLevel) /\ UNCHANGED upstream
        /\ AddResult(Failure("decision")) /\ pc \in Early
    BY <1>4 DEF DecideRaised, Early
  <2>2. Failure("decision") \in Result /\ Failure("decision").layer = "decision"
    BY FailureType DEF Layers, Failure, Quiet, NoFlag
  <2>3. ~Unexcused
    BY <1>2, <2>1, BlockedUnlessExcused DEF SanitizationMayRaise, SanitizationRaises
  <2>4. HasBad(upstream)' <=> HasBad(upstream)
    BY <2>1, BadStays
  <2>5. CASE SanitizationRaises(DecidedLevel)
    <3>1. PICK i \in DOMAIN upstream : Kind(i) = "bad"
      BY <2>5 DEF SanitizationRaises
    <3>2. upstream[i] = Received(i)
      BY <2>1 DEF BlockSafe
    <3>3. HasBad(upstream)
      BY <3>1, <3>2 DEF HasBad, Received, Plain
    <3> QED
      BY <1>1, <2>4, <3>3, LateBlockSafe
  <2>6. CASE MayOverflow(upstream)
    <3>1. Excused(Failure("decision"))
      BY <2>2, <2>6 DEF Excused, MayOverflow
    <3>2. ~Unexcused'
      BY <1>1, <2>1, <2>2, <2>3, <3>1, UnexcusedAppend
    <3> QED
      BY <1>1, <2>4, <3>2, LateBlockSafe
  <2> QED
    BY <2>1, <2>5, <2>6 DEF SanitizationMayRaise
<1> QED
  BY <1>3, <1>4 DEF Rule

LEMMA GuardBlockSafe ==
    ASSUME TypeOK, BlockSafe, Guard
    PROVE  BlockSafe' /\ (HasBad(upstream)' <=> HasBad(upstream))
<1>1. UNCHANGED <<inputs, decision>> /\ pc = "output_guard" /\ pc' = "spotlight" /\ outcome' = "none"
  BY DEF Guard, InjectCanary, InjectRaised, GuardWithoutCanary, GuardDisabled, GuardStep, BlockSafe
<1>2. HasBad(upstream)' <=> HasBad(upstream)
  <2>1. CASE InjectCanary
    <3>1. UpstreamType(upstream)
      BY DEF TypeOK, UpstreamType
    <3>2. HasBad(Noted(upstream, "canary")) <=> HasBad(upstream)
      BY <3>1, BadAfterNote
    <3> QED
      BY <2>1, <3>2 DEF InjectCanary, HasBad
  <2>2. CASE ~InjectCanary
    BY <2>2, BadStays DEF Guard, InjectRaised, GuardWithoutCanary, GuardDisabled
  <2> QED
    BY <2>1, <2>2
<1>3. Unexcused => decision = "block" \/ HasBad(upstream)
  BY <1>1 DEF BlockSafe, Late
<1>4. ASSUME Unexcused' => Unexcused \/ HasBad(upstream) PROVE BlockSafe'
  BY <1>1, <1>2, <1>3, <1>4, LateBlockSafe DEF Late
<1>5. CASE InjectCanary \/ GuardWithoutCanary
  <2>1. Quiet("output_guard") \in Result /\ Quiet("output_guard").level = "allow"
    BY FailureType DEF Layers, Quiet, NoFlag
  <2>2. AddResult(Quiet("output_guard"))
    BY <1>5 DEF InjectCanary, GuardWithoutCanary, GuardStep
  <2> QED
    BY <1>1, <1>2, <1>4, <2>1, <2>2, UnexcusedAppend
<1>6. CASE InjectRaised
  <2>1. Failure("output_guard") \in Result /\ Failure("output_guard").layer = "output_guard"
    BY FailureType DEF Layers, Failure, Quiet, NoFlag
  <2>2. AddResult(Failure("output_guard")) /\ (HasBad(upstream) \/ body.deep # {})
    BY <1>6 DEF InjectRaised, GuardStep, InjectMayRaise, InjectRaises, MayOverflow, HasBad
  <2> QED
    BY <1>1, <1>2, <1>4, <2>1, <2>2, UnexcusedAppend DEF Excused
<1>7. CASE GuardDisabled
  BY <1>1, <1>2, <1>4, <1>7, UnexcusedStays DEF GuardDisabled, inputs
<1> QED
  BY <1>2, <1>5, <1>6, <1>7 DEF Guard

LEMMA SpotlightBlockSafe ==
    ASSUME TypeOK, BlockSafe, Spotlight
    PROVE  BlockSafe' /\ (HasBad(upstream)' <=> HasBad(upstream))
<1>1. UNCHANGED <<inputs, results>> /\ pc = "spotlight" /\ pc' = "respond" /\ outcome' = "none"
      /\ decision' \in {decision, "block"}
  BY DEF Spotlight, AlwaysSpotlight, SpotlightRaised, SpotlightSkipped, DecisionAfterError, BlockSafe
<1>2. HasBad(upstream)' <=> HasBad(upstream)
  <2>1. CASE AlwaysSpotlight
    <3>1. UpstreamType(WithGenerated(upstream))
      <4>1. UpstreamType(upstream)
        BY DEF TypeOK, UpstreamType
      <4> QED
        BY <4>1, GeneratedEffect
    <3>2. HasBad(SpotlightWrap(WithGenerated(upstream), 0)) <=> HasBad(upstream)
      BY <3>1, BadAfterGenerated, BadAfterSpotlight, ZeroIsId
    <3> QED
      BY <2>1, <3>2 DEF AlwaysSpotlight, HasBad
  <2>2. CASE SpotlightRaised \/ SpotlightSkipped
    BY <2>2, BadStays DEF SpotlightRaised, SpotlightSkipped
  <2> QED
    BY <2>1, <2>2 DEF Spotlight
<1>3. Unexcused' => decision' = "block" \/ HasBad(upstream)'
  BY <1>1, <1>2, UnexcusedStays DEF BlockSafe, Late, inputs
<1> QED
  BY <1>1, <1>2, <1>3, LateBlockSafe DEF Late

\* The route's own check: a prompt has no entry that is not an object.
LEMMA RespondSent ==
    ASSUME TypeOK, BlockSafe, Respond, outcome' = "sent"
    PROVE  decision # "block" /\ ~HasBad(upstream)
<1>1. decision # "block" /\ ~CannotBuild
  BY DEF Respond
<1>2. CASE body.route = "chat"
  BY <1>1, <1>2 DEF CannotBuild, Forwarded
<1>3. CASE body.route = "completions"
  BY <1>1, <1>3 DEF BlockSafe
<1> QED
  BY <1>2, <1>3 DEF TypeOK, BodyType

LEMMA NextBlockSafe == TypeOK /\ BlockSafe /\ [Next]_vars => BlockSafe'
<1> SUFFICES ASSUME TypeOK, BlockSafe, [Next]_vars PROVE BlockSafe'
  OBVIOUS
<1>1. CASE Provenance \/ Normalizer
  <2>1. Quiet("provenance") \in Result /\ Quiet("normalizer") \in Result
    BY FailureType DEF Layers
  <2> QED
    BY <1>1, <2>1, ReportBlockSafe DEF Provenance, Normalizer, Detectors
<1>2. CASE Heuristic
  BY <1>2, ScoringType, ReportBlockSafe DEF Heuristic, Detectors
<1>3. CASE Classifier
  <2>1. PICK r \in Scoring("classifier"), escalate \in BOOLEAN :
            Report("classifier", IF escalate THEN Escalated(r) ELSE r)
    BY <1>3 DEF Classifier
  <2>2. (IF escalate THEN Escalated(r) ELSE r) \in Result
    BY ScoringType
  <2> QED
    BY <2>1, <2>2, ReportBlockSafe DEF Detectors
<1>4. CASE LayerFailed
  <2>1. PICK layer \in Detectors : Report(layer, Failure(layer))
    BY <1>4 DEF LayerFailed
  <2>2. Failure(layer) \in Result
    BY FailureType DEF Detectors, Layers
  <2> QED
    BY <2>1, <2>2, ReportBlockSafe
<1>5. CASE LayerDisabled
  <2>1. PICK layer \in Detectors :
            /\ pc = layer
            /\ pc' = After(layer, Quiet(layer))
            /\ UNCHANGED <<inputs, results, upstream, outcome>>
    BY <1>5 DEF LayerDisabled
  <2>2. pc' \in {"normalizer", "heuristic", "classifier", "decision"}
    BY <2>1 DEF After, Detectors, Quiet, NoFlag
  <2>3. ~LayerBlocked' /\ outcome' = "none"
    BY <2>1 DEF BlockSafe, LayerBlocked, Collected, Detectors
  <2>4. upstream' = [i \in (1..NMsgs)' |-> Received(i)']
    BY <2>1, ReceivedStays DEF BlockSafe, Early, inputs, NMsgs
  <2>5. body'.route = "completions" => ~HasBad(upstream)'
    BY <2>1, BadStays DEF BlockSafe, inputs
  <2> QED
    BY <2>2, <2>3, <2>4, <2>5 DEF BlockSafe, Sent, Late, Detectors
<1>6. CASE Rule
  BY <1>6, DecideBlockSafe
<1>7. CASE Guard
  BY <1>7, GuardBlockSafe
<1>8. CASE Spotlight
  BY <1>8, SpotlightBlockSafe
<1>9. CASE Respond
  <2>1. UNCHANGED <<results, body, decision, upstream>> /\ pc = "respond" /\ pc' = "done"
    BY <1>9 DEF Respond, inputs
  <2>2. HasBad(upstream)' <=> HasBad(upstream)
    BY <2>1, BadStays
  <2>3. Sent' => ~Unexcused'
    BY <1>9, <2>1, RespondSent, UnexcusedStays DEF BlockSafe, Late, Sent
  <2> QED
    BY <2>1, <2>2, <2>3 DEF BlockSafe, Late, Early, Detectors
<1>10. CASE UNCHANGED vars
  <2>1. UNCHANGED <<pc, results, body, decision, upstream, outcome>> /\ UNCHANGED inputs
    BY <1>10 DEF vars, inputs
  <2>2. (Unexcused' <=> Unexcused) /\ (HasBad(upstream)' <=> HasBad(upstream))
        /\ (LayerBlocked' <=> LayerBlocked)
    BY <2>1, UnexcusedStays, BadStays DEF LayerBlocked, Collected
  <2>3. pc' \in Early => upstream' = [i \in (1..NMsgs)' |-> Received(i)']
    BY <2>1, ReceivedStays DEF BlockSafe, inputs, NMsgs
  <2> QED
    BY <2>1, <2>2, <2>3 DEF BlockSafe, Sent
<1> QED
  BY <1>1, <1>2, <1>3, <1>4, <1>5, <1>6, <1>7, <1>8, <1>9, <1>10
  DEF Next, Step, Detect, Answered

\* Whatever the layers report and wherever they raise, nothing is sent to the
\* provider after a detector's block, nor after any block unless a message was too
\* deep to be copied.
THEOREM BlockedIsNeverSent == Spec => []BlockingLayerStopsRequest
<1>1. BlockSafe => BlockingLayerStopsRequest
  BY DEF BlockSafe, BlockingLayerStopsRequest, Unexcused, Excused
<1> QED
  BY <1>1, InitTypeOK, NextTypeOK, InitBlockSafe, NextBlockSafe, PTL DEF Spec

-------------------------------------------------------------------------------
(***************************************************************************)
(* Frames for the properties that follow: what the detectors may report,   *)
(* what they leave alone, and what a request that is sent has gone         *)
(* through.                                                                *)
(***************************************************************************)
\* Neither the 403 nor a failing upstream client stops the request.
Sendable == decision # "block" /\ ~HasBad(upstream)

\* Only the two scoring layers name segments, and a score at the block
\* threshold carries the label block.
FlagOK(r) ==
    r.flag # 0 => /\ r.layer \in {"heuristic", "classifier"}
                  /\ r.conf >= TBlk => r.level = "block"

\* A detector step either skips its layer or adds one result to the list.
LEMMA DetectCases ==
    ASSUME TypeOK, Detect
    PROVE  \/ \E layer \in Detectors :
                 /\ pc = layer /\ pc' = After(layer, Quiet(layer))
                 /\ UNCHANGED <<inputs, results, decision, confidence, upstream,
                                excluded, canary, outcome>>
           \/ \E layer \in Detectors, r \in Result :
                 Report(layer, r) /\ FlagOK(r) /\ r.layer = layer
<1>1. \A layer \in Detectors :
          /\ Quiet(layer) \in Result /\ FlagOK(Quiet(layer)) /\ Quiet(layer).layer = layer
          /\ Failure(layer) \in Result /\ FlagOK(Failure(layer)) /\ Failure(layer).layer = layer
  BY FailureType DEF Detectors, Layers, FlagOK, Quiet, Failure, NoFlag
<1>2. ASSUME NEW layer \in {"heuristic", "classifier"}, NEW r \in Scoring(layer)
      PROVE  /\ r \in Result /\ Escalated(r) \in Result
             /\ FlagOK(r) /\ FlagOK(Escalated(r))
             /\ r.layer = layer /\ Escalated(r).layer = layer
  <2>1. r \in Result /\ Escalated(r) \in Result
    BY <1>2, ScoringType
  <2>2. FlagOK(r) /\ r.layer = layer
    <3>1. CASE r = Quiet(layer)
      BY <3>1 DEF FlagOK, Quiet, NoFlag
    <3>2. CASE r # Quiet(layer)
      <4>1. PICK s \in 1..MaxScore, i \in Segments :
                 r = [layer |-> layer, level |-> LevelFor(s), conf |-> s, flag |-> i]
        BY <3>2 DEF Scoring
      <4> QED
        BY <4>1 DEF FlagOK, LevelFor
    <3> QED
      BY <3>1, <3>2
  <2>3. /\ Escalated(r).flag = r.flag /\ Escalated(r).layer = r.layer
        /\ Escalated(r).conf = r.conf /\ (r.level = "block" => Escalated(r).level = "block")
    BY <2>1 DEF Escalated, Result
  <2> QED
    BY <2>1, <2>2, <2>3 DEF FlagOK
<1>3. CASE Provenance \/ Normalizer
  BY <1>1, <1>3 DEF Provenance, Normalizer, Detectors
<1>4. CASE Heuristic
  BY <1>2, <1>4 DEF Heuristic, Detectors
<1>5. CASE Classifier
  <2>1. PICK r \in Scoring("classifier"), escalate \in BOOLEAN :
            Report("classifier", IF escalate THEN Escalated(r) ELSE r)
    BY <1>5 DEF Classifier
  <2>2. (IF escalate THEN Escalated(r) ELSE r) \in Result
        /\ FlagOK(IF escalate THEN Escalated(r) ELSE r)
        /\ (IF escalate THEN Escalated(r) ELSE r).layer = "classifier"
    BY <1>2
  <2> QED
    BY <2>1, <2>2 DEF Detectors
<1>6. CASE LayerFailed
  BY <1>1, <1>6 DEF LayerFailed
<1>7. CASE LayerDisabled
  BY <1>7 DEF LayerDisabled
<1> QED
  BY <1>3, <1>4, <1>5, <1>6, <1>7 DEF Detect

LEMMA DetectFrame ==
    ASSUME TypeOK, Detect
    PROVE  /\ pc \in Detectors /\ pc' \in Early
           /\ UNCHANGED <<inputs, decision, upstream, excluded, canary, outcome>>
<1>1. ASSUME NEW layer \in Detectors, NEW r PROVE After(layer, r) \in Early
  BY DEF After, Early, Detectors
<1> QED
  BY <1>1, DetectCases DEF Report

\* What a request that was sent, a loop that was left early and a list no step
\* has touched have in common.
PassInv ==
    /\ pc = "final_decision" => LayerBlocked
    /\ pc \in Early => excluded = {} /\ \A r \in Collected : r.layer \in Detectors
    /\ \E c \in Cases : cfg = c[1] /\ body = c[2]
    /\ \A r \in Collected : FlagOK(r)
    /\ Sent => pc = "done" /\ Sendable

\* Steps that neither rewrite the messages nor rule.
LEMMA SendableBack ==
    ASSUME UNCHANGED <<decision, upstream>>, Sendable'
    PROVE  Sendable
BY BadStays DEF Sendable

LEMMA GuardFrame ==
    ASSUME TypeOK, Guard
    PROVE  /\ pc = "output_guard" /\ pc' = "spotlight"
           /\ UNCHANGED <<inputs, tagged, decision, excluded, outcome>>
           /\ DOMAIN upstream \subseteq DOMAIN upstream'
           /\ DOMAIN upstream' \subseteq DOMAIN upstream \cup {0}
           /\ \/ UNCHANGED results
              \/ \E r \in {Quiet("output_guard"), Failure("output_guard")} : AddResult(r)
<1>1. UpstreamType(upstream)
  BY DEF TypeOK, UpstreamType
<1>2. /\ DOMAIN upstream \subseteq DOMAIN Noted(upstream, "canary")
      /\ DOMAIN Noted(upstream, "canary") \subseteq DOMAIN upstream \cup {0}
  BY DEF Noted
<1> QED
  BY <1>2 DEF Guard, InjectCanary, InjectRaised, GuardWithoutCanary, GuardDisabled, GuardStep

LEMMA CollectedSame == ASSUME UNCHANGED results PROVE Collected' = Collected
BY DEF Collected

LEMMA NextPassInv == TypeOK /\ BlockSafe /\ PassInv /\ [Next]_vars => PassInv'
<1> SUFFICES ASSUME TypeOK, BlockSafe, PassInv, [Next]_vars PROVE PassInv'
  OBVIOUS
<1>0. UNCHANGED inputs
  BY DetectFrame, GuardFrame
  DEF Next, Step, Rule, Decide, DecideRaised, Spotlight, AlwaysSpotlight,
      SpotlightRaised, SpotlightSkipped, Respond, Answered, vars, inputs
<1>1. \E c \in Cases : cfg' = c[1] /\ body' = c[2]
  BY <1>0 DEF inputs, PassInv
<1>2. CASE Detect
  <2>1. UNCHANGED <<upstream, excluded, outcome, body>> /\ pc' \in Early /\ pc \in Detectors
    BY <1>2, DetectFrame DEF inputs
  <2>2. outcome' = "none"
    BY <2>1 DEF BlockSafe, Detectors
  <2>3. CASE UNCHANGED results /\ \E layer \in Detectors : pc' = After(layer, Quiet(layer))
    <3>1. pc' # "final_decision"
      BY <2>3 DEF After, Quiet, NoFlag, Detectors
    <3> QED
      BY <1>1, <2>1, <2>2, <2>3, <3>1, CollectedSame
      DEF PassInv, Sent, FlagOK, Early
  <2>4. ASSUME NEW layer \in Detectors, NEW r \in Result, Report(layer, r), FlagOK(r),
               r.layer = layer
        PROVE  PassInv'
    <3>1. Collected' = Collected \cup {r}
      BY <2>4, CollectedAppend DEF Report
    <3>2. pc' = "final_decision" => r.level = "block"
      BY <2>4 DEF Report, After, Detectors
    <3>3. pc' = "final_decision" => LayerBlocked'
      BY <3>1, <3>2 DEF LayerBlocked
    <3>4. \A q \in Collected' : FlagOK(q)
      BY <2>4, <3>1 DEF PassInv
    <3>5. \A q \in Collected' : FlagOK(q)'
      BY <3>4 DEF FlagOK
    <3>6. \A q \in Collected' : q.layer \in Detectors
      BY <2>1, <2>4, <3>1 DEF PassInv, Early
    <3> QED
      BY <1>1, <2>1, <2>2, <3>3, <3>5, <3>6 DEF PassInv, Sent, Early
  <2> QED
    BY <1>2, <2>3, <2>4, DetectCases
<1>3. ASSUME NEW r \in Result, AddResult(r), r.flag = 0, outcome' = "none", pc' \notin Early
      PROVE  PassInv'
  <2>1. \A q \in Collected' : FlagOK(q)'
    BY <1>3, CollectedAppend DEF PassInv, FlagOK
  <2> QED
    BY <1>1, <1>3, <2>1 DEF PassInv, Sent, Early
<1>4. ASSUME UNCHANGED results, outcome' = "none", pc' \notin Early PROVE PassInv'
  <2>1. \A q \in Collected' : FlagOK(q)'
    BY <1>4, CollectedSame DEF PassInv, FlagOK
  <2> QED
    BY <1>1, <1>4, <2>1 DEF PassInv, Sent, Early
<1>5. CASE Decide
  <2>1. NoFlag("decision", DecidedLevel, DecidedConf) \in Result
    <3>1. DecidedLevel \in Levels /\ DecidedConf \in Scores
      BY DecidedType DEF TypeOK
    <3> QED
      BY <3>1 DEF NoFlag, Result, Layers, Ids, NSegs, NMsgs, TypeOK, BodyType
  <2>2. pc' \notin Early /\ outcome' = "none"
    BY <1>5 DEF Decide, AfterDecision, Early, Detectors, BlockSafe
  <2> QED
    BY <1>5, <2>1, <2>2, <1>3 DEF Decide, NoFlag
<1>6. CASE DecideRaised
  <2>1. Failure("decision") \in Result /\ Failure("decision").flag = 0
    BY FailureType DEF Layers, Failure, Quiet, NoFlag
  <2>2. pc' \notin Early /\ outcome' = "none"
    BY <1>6 DEF DecideRaised, AfterDecision, Early, Detectors, BlockSafe
  <2> QED
    BY <1>6, <2>1, <2>2, <1>3 DEF DecideRaised
<1>7. CASE Guard
  <2>1. \A r \in {Quiet("output_guard"), Failure("output_guard")} : r \in Result /\ r.flag = 0
    BY FailureType DEF Layers, Failure, Quiet, NoFlag
  <2>2. pc' \notin Early /\ outcome' = "none"
    BY <1>7, GuardFrame DEF Early, Detectors, BlockSafe
  <2> QED
    BY <1>7, <2>1, <2>2, <1>3, <1>4, GuardFrame
<1>8. CASE Spotlight
  BY <1>8, <1>4 DEF Spotlight, AlwaysSpotlight, SpotlightRaised, SpotlightSkipped,
                    BlockSafe, Early, Detectors
<1>9. CASE Respond
  <2>1. \A q \in Collected' : FlagOK(q)'
    BY <1>9, CollectedSame DEF Respond, PassInv, FlagOK
  <2>2. Sent' => Sendable'
    BY <1>9, RespondSent, BadStays DEF Respond, Sent, Sendable
  <2>3. pc' = "done"
    BY <1>9 DEF Respond
  <2> QED
    BY <1>1, <2>1, <2>2, <2>3 DEF PassInv, Early, Detectors
<1>10. CASE UNCHANGED vars
  <2>1. Collected' = Collected /\ LayerBlocked' = LayerBlocked
    BY <1>10, CollectedSame DEF vars, LayerBlocked
  <2> QED
    BY <1>10, <2>1, <1>1, BadStays DEF vars, PassInv, Sent, Sendable, FlagOK, Early
<1> QED
  BY <1>2, <1>5, <1>6, <1>7, <1>8, <1>9, <1>10 DEF Next, Step, Rule, Answered

LEMMA InitPassInv == Init => PassInv
<1> SUFFICES ASSUME Init PROVE PassInv
  OBVIOUS
<1>1. Collected = {}
  BY DEF Init, Collected
<1> QED
  BY <1>1 DEF Init, PassInv, Sent

\* The invariants every proof below starts from.
LEMMA Passage == Spec => [](TypeOK /\ BlockSafe /\ PassInv)
BY InitTypeOK, NextTypeOK, InitBlockSafe, NextBlockSafe, InitPassInv, NextPassInv, PTL DEF Spec
-------------------------------------------------------------------------------
(***************************************************************************)
(* A detector score at the block threshold                                 *)
(***************************************************************************)
High == \E r \in Collected : r.flag # 0 /\ r.conf >= TBlk

\* Such a score is a block, so it leads to the final decision; what comes
\* after the decision adds no flagged result and does not touch the decision.
ScoreInv ==
    /\ pc \in {"output_guard", "spotlight", "respond"} /\ High => decision = "block"
    /\ pc = "done" /\ High => outcome = "blocked"

LEMMA HighIsBlock == ASSUME PassInv, High PROVE LayerBlocked
BY DEF PassInv, High, FlagOK, LayerBlocked

LEMMA UnflaggedAdds ==
    ASSUME TypeOK, NEW r \in Result, r.flag = 0, AddResult(r)
    PROVE  High' <=> High
BY CollectedAppend DEF High

LEMMA HighStays == ASSUME UNCHANGED results PROVE High' <=> High
BY CollectedSame DEF High

LEMMA UnflaggedResults ==
    ASSUME TypeOK
    PROVE  \A r \in {Quiet("output_guard"), Failure("output_guard"), Failure("decision"),
                     NoFlag("decision", DecidedLevel, DecidedConf)} :
               r \in Result /\ r.flag = 0
<1>1. DecidedLevel \in Levels /\ DecidedConf \in Scores
  BY DecidedType DEF TypeOK
<1>2. NoFlag("decision", DecidedLevel, DecidedConf) \in Result
  BY <1>1 DEF NoFlag, Result, Layers, Ids, NSegs, NMsgs, TypeOK, BodyType
<1> QED
  BY <1>2, FailureType DEF Layers, Failure, Quiet, NoFlag

LEMMA NextScoreInv ==
    TypeOK /\ BlockSafe /\ PassInv /\ ScoreInv /\ [Next]_vars => ScoreInv'
<1> SUFFICES ASSUME TypeOK, BlockSafe, PassInv, ScoreInv, [Next]_vars PROVE ScoreInv'
  OBVIOUS
<1>1. CASE Detect
  BY <1>1, DetectFrame DEF ScoreInv, Early, Detectors
<1>2. CASE Rule
  <2>1. High' => High
    BY <1>2, UnflaggedResults, UnflaggedAdds DEF Rule, Decide, DecideRaised
  <2>2. High => DecidedLevel = "block"
    BY HighIsBlock, BlockDecides DEF TypeOK
  <2>3. decision' = DecidedLevel /\ pc' # "done"
    BY <1>2 DEF Rule, Decide, DecideRaised, AfterDecision
  <2> QED
    BY <2>1, <2>2, <2>3 DEF ScoreInv
<1>3. CASE Guard
  <2>1. High' => High
    BY <1>3, GuardFrame, UnflaggedResults, UnflaggedAdds, HighStays
  <2> QED
    BY <1>3, <2>1, GuardFrame DEF ScoreInv
<1>4. CASE Spotlight
  <2>1. High' => High
    BY <1>4, HighStays DEF Spotlight, AlwaysSpotlight, SpotlightRaised, SpotlightSkipped
  <2>2. decision = "block" => decision' = "block"
    BY <1>4 DEF Spotlight, AlwaysSpotlight, SpotlightRaised, SpotlightSkipped,
                DecisionAfterError
  <2>3. pc = "spotlight" /\ pc' = "respond"
    BY <1>4 DEF Spotlight, AlwaysSpotlight, SpotlightRaised, SpotlightSkipped
  <2> QED
    BY <2>1, <2>2, <2>3 DEF ScoreInv
<1>5. CASE Respond
  BY <1>5, HighStays DEF Respond, ScoreInv
<1>6. CASE UNCHANGED vars
  BY <1>6, HighStays DEF vars, ScoreInv
<1> QED
  BY <1>1, <1>2, <1>3, <1>4, <1>5, <1>6 DEF Next, Step, Answered

\* A segment scored at the block threshold ends in the 403, for every list of
\* messages, whichever layers are on and whatever raises on the way.
THEOREM HighScoresBlock == Spec => []ScoreAtThresholdBlocks
<1>1. Init => ScoreInv
  BY DEF Init, ScoreInv
<1>2. ScoreInv => ScoreAtThresholdBlocks
  BY DEF ScoreInv, High, ScoreAtThresholdBlocks
<1> QED
  BY <1>1, <1>2, Passage, NextScoreInv, PTL DEF Spec

\* Once the decision layer has ruled no later step relaxes the decision.
THEOREM DecisionNeverRelaxed == Spec => DecisionOnlyRaised
<1> DEFINE A == decision' # decision =>
                    (pc \in {"decision", "final_decision"} \/ decision' = "block")
<1>1. ASSUME TypeOK, Step PROVE A
  <2>1. CASE Detect
    BY <1>1, <2>1, DetectFrame
  <2>2. CASE Rule
    BY <2>2 DEF Rule, Decide, DecideRaised
  <2>3. CASE Guard
    BY <1>1, <2>3, GuardFrame
  <2>4. CASE AlwaysSpotlight \/ SpotlightSkipped \/ Respond
    BY <2>4 DEF AlwaysSpotlight, SpotlightSkipped, Respond
  <2>5. CASE SpotlightRaised
    BY <2>5 DEF SpotlightRaised, DecisionAfterError
  <2> QED
    BY <1>1, <2>1, <2>2, <2>3, <2>4, <2>5 DEF Step, Spotlight
<1>2. TypeOK /\ [Next]_vars => [A]_vars
  BY <1>1 DEF Next, Answered
<1> QED
  BY <1>2, PipelineTypeOK, PTL DEF Spec, DecisionOnlyRaised

-------------------------------------------------------------------------------
(***************************************************************************)
(* External data is wrapped.  Whoever skips the last spotlighting has no   *)
(* external segment; whoever raises in it has a malformed entry left, or   *)
(* turns the decision into a block, or fails open on a deep message.       *)
(***************************************************************************)
WrappedInv ==
    (pc \in {"respond", "done"} /\ Sendable /\ tagged /\ (cfg.fail_closed \/ body.deep = {}))
        => \A i \in DOMAIN upstream :
              External(i) /\ Recognised(i) => upstream[i].wrapped = Wrapping(i)

LEMMA NextWrappedInv ==
    TypeOK /\ BlockSafe /\ PassInv /\ WrappedInv /\ [Next]_vars => WrappedInv'
<1> SUFFICES ASSUME TypeOK, BlockSafe, PassInv, WrappedInv, [Next]_vars, Sendable', tagged',
                    cfg'.fail_closed \/ body'.deep = {}, pc' \in {"respond", "done"}
             PROVE  \A i \in DOMAIN upstream' :
                       External(i)' /\ Recognised(i)' => upstream'[i].wrapped = Wrapping(i)'
  BY DEF WrappedInv
<1>0. ASSUME UNCHANGED inputs
      PROVE  \A i : /\ External(i)' = External(i) /\ Recognised(i)' = Recognised(i)
                    /\ Wrapping(i)' = Wrapping(i)
  BY <1>0 DEF inputs, External, Recognised, Wrapping, Kind, NMsgs
<1>1. CASE Detect
  BY <1>1, DetectFrame DEF Early, Detectors
<1>2. CASE Rule
  BY <1>2 DEF Rule, Decide, DecideRaised, AfterDecision
<1>3. CASE Guard
  BY <1>3, GuardFrame
<1>4. CASE AlwaysSpotlight
  <2>1. UpstreamType(upstream)
    BY DEF TypeOK, UpstreamType
  <2> DEFINE up == WithGenerated(upstream)
  <2>2. UpstreamType(up)
    BY <2>1, GeneratedEffect
  <2>3. upstream' = SpotlightWrap(up, 0)
    BY <1>4 DEF AlwaysSpotlight
  <2> HIDE DEF up
  <2>4. /\ DOMAIN upstream' \in {DOMAIN up, DOMAIN up \cup {0}}
        /\ \A i \in DOMAIN up : Recognised(i) => upstream'[i].wrapped = Wrapping(i)
    <3>1. LET new == SpotlightWrap(up, 0) IN
          /\ DOMAIN new \in {DOMAIN up, DOMAIN up \cup {0}}
          /\ \A i \in DOMAIN up :
                /\ new[i].object = up[i].object
                /\ 0 = 0 /\ Recognised(i) => new[i].wrapped = Wrapping(i)
                /\ Carries(new, i, "canary") <=> Carries(up, i, "canary")
                /\ Carries(up, i, "spotlight") => Carries(new, i, "spotlight")
      BY <2>2, SpotlightEffect, ZeroIsId
    <3> QED
      BY <2>3, <3>1
  <2>5. ~External(0)
    BY DEF External, Kind
  <2>6. UNCHANGED inputs
    BY <1>4 DEF AlwaysSpotlight
  <2>7. \A i \in DOMAIN upstream' : i = 0 \/ i \in DOMAIN up
    BY <2>4
  <2> QED
    BY <1>0, <2>4, <2>5, <2>6, <2>7
<1>5. CASE SpotlightRaised
  <2>1. HasBad(upstream) \/ decision' = "block"
    BY <1>5 DEF SpotlightRaised, MayOverflow, DecisionAfterError, inputs
  <2> QED
    BY <1>5, <2>1, BadStays DEF SpotlightRaised, Sendable
<1>6. CASE SpotlightSkipped
  <2>1. tagged /\ decision # "block"
    BY <1>6 DEF SpotlightSkipped, Sendable
  <2>2. \A i \in 1..NSegs : ~External(i)
    BY <1>6, <2>1 DEF SpotlightSkipped, SpotlightNeeded, Segments
  <2>3. DOMAIN upstream \subseteq 0..NSegs /\ NSegs \in Nat
    BY DEF TypeOK, Ids, NSegs, NMsgs, BodyType
  <2>4. ~External(0)
    BY DEF External, Kind
  <2>5. \A i \in DOMAIN upstream : ~External(i)
    <3>1. \A i \in DOMAIN upstream : i = 0 \/ i \in 1..NSegs
      BY <2>3
    <3> QED
      BY <2>2, <2>4, <3>1
  <2> QED
    BY <1>0, <1>6, <2>5 DEF SpotlightSkipped
<1>7. CASE Respond \/ UNCHANGED vars
  BY <1>0, <1>7, SendableBack DEF Respond, vars, inputs, WrappedInv
<1> QED
  BY <1>1, <1>2, <1>3, <1>4, <1>5, <1>6, <1>7 DEF Next, Step, Spotlight, Answered

\* Everything external that the wrapper recognises leaves the firewall inside
\* the delimiters (of a list of mixed form, its text parts), for every conversation
\* and every number of segments, unless a fail-open process sends a message that
\* was too deep to be copied.
THEOREM ExternalAlwaysWrapped == Spec => []ExternalDataWrapped
<1>1. Init => WrappedInv
  BY DEF Init, WrappedInv
<1>2. PassInv /\ WrappedInv => ExternalDataWrapped
  BY DEF PassInv, WrappedInv, ExternalDataWrapped, Forwarded
<1> QED
  BY <1>1, <1>2, Passage, NextWrappedInv, PTL DEF Spec

-------------------------------------------------------------------------------
(***************************************************************************)
(* Whoever wraps also explains: the two are one step of the code, and no   *)
(* later step takes a note or a system message away.                       *)
(***************************************************************************)
Explained(up) ==
    (\E i \in DOMAIN up : up[i].wrapped # "none")
        => \E i \in DOMAIN up : Carries(up, i, "spotlight") \/ Kind(i) = "mute"

LEMMA SpotlightExplains ==
    ASSUME NEW up, UpstreamType(up), TypeOK, NEW target \in Ids, Explained(up)
    PROVE  Explained(SpotlightWrap(up, target))
BY SpotlightEffect DEF Explained

LEMMA SanitizedExplained ==
    ASSUME TypeOK, NEW level, upstream = [i \in 1..NMsgs |-> Received(i)]
    PROVE  Explained(Sanitized(level))
<1>1. UpstreamType(Copied(upstream))
  BY BadAfterSanitized
<1>2. \A i \in 1..NMsgs : upstream[i].wrapped = "none" /\ upstream[i] \in Message
  BY DEF Received, Plain, TypeOK
<1>3. \A i \in DOMAIN Copied(upstream) : Copied(upstream)[i].wrapped = "none"
  BY <1>2 DEF Copied, Message
<1>4. Explained(upstream) /\ Explained(Copied(upstream))
  BY <1>2, <1>3 DEF Explained
<1>5. Explained(Without(Copied(upstream), FlaggedIdx))
  BY <1>3 DEF Explained, Without
<1>6. FlaggedIdx \in Ids /\ 0 \in Ids
  BY FlaggedIdxType, ZeroIsId
<1>7. /\ Explained(SpotlightWrap(Copied(upstream), FlaggedIdx))
      /\ Explained(SpotlightWrap(Copied(upstream), 0))
  BY <1>1, <1>4, <1>6, SpotlightExplains
<1> QED
  BY <1>4, <1>5, <1>7 DEF Sanitized

LEMMA NextExplained ==
    TypeOK /\ BlockSafe /\ Explained(upstream) /\ [Next]_vars => Explained(upstream)'
<1> SUFFICES ASSUME TypeOK, BlockSafe, Explained(upstream), [Next]_vars
             PROVE  Explained(upstream)'
  OBVIOUS
<1>1. ASSUME UNCHANGED inputs, Explained(upstream') PROVE Explained(upstream)'
  BY <1>1 DEF Explained, Carries, Kind, NMsgs, inputs
<1>2. UpstreamType(upstream)
  BY DEF TypeOK, UpstreamType
<1>3. CASE Detect
  BY <1>1, <1>3, DetectFrame
<1>4. CASE Decide
  <2>1. upstream = [i \in 1..NMsgs |-> Received(i)]
    BY <1>4 DEF Decide, BlockSafe, Early
  <2> QED
    BY <1>1, <1>4, <2>1, SanitizedExplained DEF Decide
<1>5. CASE InjectCanary
  <2>1. upstream' = Noted(upstream, "canary") /\ UNCHANGED inputs
    BY <1>5 DEF InjectCanary, GuardStep
  <2> DEFINE new == Noted(upstream, "canary")
  <2> HIDE DEF new
  <2>3. /\ DOMAIN new \in {DOMAIN upstream, DOMAIN upstream \cup {0}}
        /\ \A i \in DOMAIN upstream :
              /\ new[i].wrapped = upstream[i].wrapped
              /\ upstream[i].notes \subseteq new[i].notes
        /\ 0 \notin DOMAIN upstream /\ 0 \in DOMAIN new => new[0].wrapped = "none"
    <3>1. /\ DOMAIN new \in {DOMAIN upstream, DOMAIN upstream \cup {0}}
          /\ \A i \in DOMAIN upstream :
                /\ new[i].wrapped = upstream[i].wrapped
                /\ new[i].notes \in {upstream[i].notes, upstream[i].notes \cup {"canary"}}
          /\ 0 \notin DOMAIN upstream /\ 0 \in DOMAIN new =>
                new[0].wrapped = "none"
      BY <1>2, NotedEffect DEF new
    <3> QED
      BY <3>1
  <2>4. ASSUME NEW i \in DOMAIN new, new[i].wrapped # "none"
        PROVE  i \in DOMAIN upstream /\ upstream[i].wrapped # "none"
    BY <2>3, <2>4
  <2>5. Explained(new)
    BY <2>3, <2>4 DEF Explained, Carries
  <2>2. Explained(Noted(upstream, "canary"))
    BY <2>5 DEF new
  <2> QED
    BY <1>1, <2>1, <2>2
<1>6. CASE AlwaysSpotlight
  <2>1. UpstreamType(WithGenerated(upstream)) /\ Explained(WithGenerated(upstream))
    <3> DEFINE up == WithGenerated(upstream)
    <3> HIDE DEF up
    <3>1. /\ UpstreamType(up) /\ DOMAIN upstream \subseteq DOMAIN up
          /\ \A i \in DOMAIN upstream : up[i] = upstream[i]
          /\ \A i \in DOMAIN up \ DOMAIN upstream : up[i].wrapped = "none"
      <4>1. /\ UpstreamType(up)
            /\ DOMAIN up = DOMAIN upstream \cup (((NMsgs + 1)..NSegs) \ excluded)
            /\ \A i \in DOMAIN upstream : up[i] = upstream[i]
            /\ \A i \in DOMAIN up \ DOMAIN upstream : up[i] = Plain
        BY <1>2, GeneratedEffect DEF up
      <4> QED
        BY <4>1 DEF Plain
    <3>2. Explained(up)
      BY <3>1 DEF Explained, Carries
    <3> QED
      BY <3>1, <3>2 DEF up
  <2>2. Explained(SpotlightWrap(WithGenerated(upstream), 0))
    BY <2>1, SpotlightExplains, ZeroIsId
  <2> QED
    BY <1>1, <1>6, <2>2 DEF AlwaysSpotlight
<1>7. CASE UNCHANGED <<inputs, upstream>>
  BY <1>1, <1>7
<1> QED
  BY <1>3, <1>4, <1>5, <1>6, <1>7
  DEF Next, Step, Rule, DecideRaised, Guard, InjectRaised, GuardWithoutCanary, GuardDisabled,
      GuardStep, Spotlight, SpotlightRaised, SpotlightSkipped, Respond, Answered, vars, inputs

\* No request leaves with delimiters that nothing in it explains, as far as
\* its system messages have a text to add the explanation to.
THEOREM DelimitersExplained == Spec => []WrappedIsExplained
<1>1. Init => Explained(upstream)
  BY DEF Init, Explained, Received, Plain
<1>2. Explained(upstream) /\ TypeOK => WrappedIsExplained
  <2>1. ASSUME body.route = "completions"
        PROVE  \A i \in DOMAIN Forwarded : Forwarded[i].wrapped = "none"
    BY <2>1 DEF Forwarded, PromptAsSent, Plain
  <2>2. ASSUME body.route = "chat" PROVE Forwarded = upstream
    BY <2>2 DEF Forwarded
  <2>3. ASSUME TypeOK PROVE body.route \in {"chat", "completions"}
    BY <2>3 DEF TypeOK, BodyType
  <2> QED
    BY <2>1, <2>2, <2>3 DEF Explained, Carries, WrappedIsExplained
<1> QED
  BY <1>1, <1>2, Passage, NextExplained, PTL DEF Spec
-------------------------------------------------------------------------------
(***************************************************************************)
(* The canary.  No step before the guard adds one; the guard adds one, or  *)
(* raises on a malformed entry or a deep message; no later step adds,      *)
(* moves or drops one.                                                     *)
(***************************************************************************)
Carriers(up) == {i \in DOMAIN up : Carries(up, i, "canary")}

\* At most one message carries the token, none unless it is set, and one if the
\* copies could not overflow.
CanaryPlaced ==
    /\ \A i, j \in Carriers(upstream) : i = j
    /\ Carriers(upstream) # {} => canary
    /\ body.deep = {} => Carriers(upstream) # {}

CanaryInv ==
    /\ pc \in Early \cup {"output_guard"} => Carriers(upstream) = {}
    /\ (pc \in {"spotlight", "respond", "done"} /\ Sendable
            /\ cfg.output_guard /\ cfg.canary_enabled)
          => CanaryPlaced

LEMMA SpotlightKeepsCanary ==
    ASSUME NEW up, UpstreamType(up), TypeOK, NEW target \in Ids
    PROVE  Carriers(SpotlightWrap(up, target)) = Carriers(up)
<1> DEFINE new == SpotlightWrap(up, target)
<1> HIDE DEF new
<1>1. /\ DOMAIN new \in {DOMAIN up, DOMAIN up \cup {0}}
      /\ \A i \in DOMAIN up : Carries(new, i, "canary") <=> Carries(up, i, "canary")
      /\ 0 \notin DOMAIN up /\ 0 \in DOMAIN new => ~Carries(new, 0, "canary")
  BY SpotlightEffect DEF new
<1>2. Carriers(new) = Carriers(up)
  BY <1>1 DEF Carriers
<1> QED
  BY <1>2 DEF new

LEMMA GeneratedKeepsCanary ==
    ASSUME TypeOK
    PROVE  Carriers(WithGenerated(upstream)) = Carriers(upstream)
<1> DEFINE up == WithGenerated(upstream)
<1> HIDE DEF up
<1>1. UpstreamType(upstream)
  BY DEF TypeOK, UpstreamType
<1>2. /\ DOMAIN up = DOMAIN upstream \cup (((NMsgs + 1)..NSegs) \ excluded)
      /\ \A i \in DOMAIN upstream : up[i] = upstream[i]
      /\ \A i \in DOMAIN up \ DOMAIN upstream : up[i] = Plain
  BY <1>1, GeneratedEffect DEF up
<1>3. Carriers(up) = Carriers(upstream)
  BY <1>2 DEF Carriers, Carries, Plain
<1> QED
  BY <1>3 DEF up

LEMMA SanitizedNoCanary ==
    ASSUME TypeOK, Carriers(upstream) = {}, NEW level
    PROVE  Carriers(Sanitized(level)) = {}
<1>1. UpstreamType(Copied(upstream)) /\ FlaggedIdx \in Ids /\ 0 \in Ids
  BY BadAfterSanitized, FlaggedIdxType, ZeroIsId
<1>2. Carriers(Copied(upstream)) = {}
  <2>1. \A i \in DOMAIN upstream : Copied(upstream)[i].notes = upstream[i].notes
    BY DEF Copied, TypeOK, Message
  <2> QED
    BY <2>1 DEF Carriers, Carries, Copied
<1>3. Carriers(Without(Copied(upstream), FlaggedIdx)) = {}
  BY <1>2 DEF Carriers, Carries, Without
<1>4. /\ Carriers(SpotlightWrap(Copied(upstream), FlaggedIdx)) = {}
      /\ Carriers(SpotlightWrap(Copied(upstream), 0)) = {}
  BY <1>1, <1>2, SpotlightKeepsCanary
<1> QED
  BY <1>3, <1>4 DEF Sanitized

LEMMA CarriersSame == ASSUME UNCHANGED upstream PROVE Carriers(upstream)' = Carriers(upstream)
BY DEF Carriers, Carries

LEMMA NextCanaryInv ==
    TypeOK /\ BlockSafe /\ PassInv /\ CanaryInv /\ [Next]_vars => CanaryInv'
<1> SUFFICES ASSUME TypeOK, BlockSafe, PassInv, CanaryInv, [Next]_vars PROVE CanaryInv'
  OBVIOUS
<1>0. UpstreamType(upstream)
  BY DEF TypeOK, UpstreamType
<1> USE DEF inputs
<1>1. CASE Detect
  BY <1>1, DetectFrame, CarriersSame DEF CanaryInv, Early, Detectors
<1>2. CASE Decide
  <2>1. Carriers(upstream)' = {}
    <3>1. Carriers(Sanitized(DecidedLevel)) = {}
      BY <1>2, SanitizedNoCanary DEF Decide, CanaryInv, Early
    <3> QED
      BY <1>2, <3>1 DEF Decide, Carriers, Carries
  <2>2. pc' = "output_guard" \/ (pc' = "spotlight" /\ decision' = "block")
    <3>1. pc = "final_decision" => DecidedLevel = "block"
      BY BlockDecides DEF PassInv, TypeOK
    <3> QED
      BY <1>2, <3>1 DEF Decide, AfterDecision
  <2> QED
    BY <2>1, <2>2 DEF CanaryInv, Sendable, Early, Detectors
<1>3. CASE DecideRaised
  <2>1. Carriers(upstream)' = {} /\ pc' \in {"output_guard", "spotlight"} /\ UNCHANGED upstream
    BY <1>3, CarriersSame DEF DecideRaised, CanaryInv, Early, AfterDecision
  <2>2. CASE SanitizationRaises(DecidedLevel)
    <3>1. PICK i \in DOMAIN upstream : Kind(i) = "bad"
      BY <2>2 DEF SanitizationRaises
    <3>2. upstream[i] = Received(i)
      BY <1>3 DEF DecideRaised, BlockSafe, Early
    <3>3. HasBad(upstream)
      BY <3>1, <3>2 DEF HasBad, Received, Plain
    <3> QED
      BY <2>1, <3>3, BadStays DEF CanaryInv, Sendable, Early, Detectors
  <2>3. CASE MayOverflow(upstream)
    <3>1. body'.deep # {}
      BY <1>3, <2>3 DEF MayOverflow, DecideRaised
    <3> QED
      BY <2>1, <3>1 DEF CanaryInv, CanaryPlaced, Early, Detectors
  <2> QED
    BY <1>3, <2>2, <2>3 DEF DecideRaised, SanitizationMayRaise
<1>4. CASE InjectCanary
  <2>1. Carriers(upstream) = {} /\ upstream' = Noted(upstream, "canary") /\ canary' /\ pc' = "spotlight"
    BY <1>4 DEF InjectCanary, GuardStep, CanaryInv
  <2>2. PICK i \in DOMAIN upstream' :
           /\ Carries(upstream', i, "canary")
           /\ \A j \in DOMAIN upstream' \ {i} :
                 Carries(upstream', j, "canary") => j \in DOMAIN upstream /\ Carries(upstream, j, "canary")
    BY <1>0, <2>1, NotedOnce
  <2>3. Carriers(upstream)' = {i}
    BY <2>1, <2>2 DEF Carriers, Carries
  <2> QED
    BY <2>1, <2>3 DEF CanaryInv, CanaryPlaced, Early, Detectors
<1>5. CASE InjectRaised
  <2>1. Carriers(upstream)' = {} /\ pc' = "spotlight" /\ UNCHANGED <<body, upstream>>
    BY <1>5, CarriersSame DEF InjectRaised, GuardStep, CanaryInv
  <2>2. HasBad(upstream) \/ body'.deep # {}
    BY <1>5, <2>1 DEF InjectRaised, InjectMayRaise, InjectRaises, HasBad, MayOverflow
  <2> QED
    BY <2>1, <2>2, BadStays DEF CanaryInv, CanaryPlaced, Sendable, Early, Detectors
<1>6. CASE GuardWithoutCanary \/ GuardDisabled
  BY <1>6 DEF GuardWithoutCanary, GuardDisabled, GuardStep, CanaryInv, Early, Detectors
<1>7. CASE AlwaysSpotlight
  <2>1. Sendable /\ pc = "spotlight" /\ pc' = "respond" /\ UNCHANGED <<inputs, canary>>
        /\ upstream' = SpotlightWrap(WithGenerated(upstream), 0)
    BY <1>7 DEF AlwaysSpotlight, SpotlightNeeded, Sendable
  <2>2. Carriers(SpotlightWrap(WithGenerated(upstream), 0)) = Carriers(upstream)
    BY <1>0, GeneratedEffect, GeneratedKeepsCanary, SpotlightKeepsCanary, ZeroIsId
  <2>3. Carriers(upstream)' = Carriers(upstream)
    BY <2>1, <2>2 DEF Carriers, Carries
  <2> QED
    BY <2>1, <2>3 DEF CanaryInv, CanaryPlaced, Early, Detectors
<1>8. CASE SpotlightRaised
  <2>1. UNCHANGED <<cfg, body, upstream, canary>> /\ pc = "spotlight" /\ pc' = "respond"
        /\ (decision = "block" => decision' = "block")
    BY <1>8 DEF SpotlightRaised, DecisionAfterError
  <2>2. Sendable' => Sendable
    BY <2>1, BadStays DEF Sendable
  <2> QED
    BY <2>1, <2>2, CarriersSame DEF CanaryInv, CanaryPlaced, Early, Detectors
<1>9. CASE SpotlightSkipped \/ Respond
  <2>1. UNCHANGED <<cfg, body, upstream, canary>> /\ (Sendable' => Sendable)
    BY <1>9, SendableBack DEF SpotlightSkipped, Respond
  <2>2. pc \in {"spotlight", "respond"} /\ pc' \in {"respond", "done"}
    BY <1>9 DEF SpotlightSkipped, Respond
  <2> QED
    BY <2>1, <2>2, CarriersSame DEF CanaryInv, CanaryPlaced, Early, Detectors
<1>10. CASE UNCHANGED vars
  <2>1. UNCHANGED <<pc, cfg, body, upstream, canary>> /\ (Sendable' => Sendable)
    BY <1>10, SendableBack DEF vars
  <2> QED
    BY <2>1, CarriersSame DEF CanaryInv, CanaryPlaced, Early
<1> QED
  BY <1>1, <1>2, <1>3, <1>4, <1>5, <1>6, <1>7, <1>8, <1>9, <1>10
  DEF Next, Step, Rule, Guard, Spotlight, Answered

\* What was sent carries the token the response will be searched for once, or,
\* only if a message was too deep to be copied, not at all: no rewrite of the
\* messages before or after the guard loses or repeats it.
THEOREM CanaryForwardedOnce == Spec => []ForwardedCarriesCanary
<1>1. Init => CanaryInv
  BY DEF Init, CanaryInv, Carriers, Carries, Received, Plain
<1>2. ASSUME TypeOK, PassInv, CanaryInv, Sent, cfg.output_guard, cfg.canary_enabled,
             body.route = "completions" => Kind(1) # "list"
      PROVE  /\ \A i, j \in Carriers(Forwarded) : i = j
             /\ Carriers(Forwarded) # {} => canary
             /\ body.deep = {} => Carriers(Forwarded) # {}
  <2>1. CanaryPlaced
    BY <1>2 DEF PassInv, CanaryInv
  <2>2. CASE body.route = "chat"
    BY <2>1, <2>2 DEF Forwarded, CanaryPlaced
  <2>3. CASE body.route = "completions"
    <3>1. body.msgs = <<"usr">> /\ body.deep = {}
      <4>1. body.msgs \in {<<"usr">>, <<"list">>} /\ body.deep = {}
        BY <2>3, InputsTyped, <1>2 DEF PassInv
      <4>2. Kind(1) # "list"
        BY <1>2, <2>3
      <4>3. body.msgs = <<"list">> => Kind(1) = "list"
        BY DEF Kind, NMsgs
      <4> QED
        BY <4>1, <4>2, <4>3
    <3>2. NMsgs = 1 /\ NSegs \in Nat /\ NSegs >= 1
      BY <1>2, <3>1 DEF NMsgs, NSegs, TypeOK, BodyType
    <3>3. Kind(1) = "usr"
      BY <3>1, <3>2 DEF Kind, NMsgs
    <3>4. \A j \in 1..NSegs \ {1} : Kind(j) # "usr"
      BY <3>2 DEF Kind
    <3>5. Forwarded = PromptAsSent /\ canary
      BY <2>1, <2>3, <3>1 DEF Forwarded, CanaryPlaced
    <3>6. DOMAIN Forwarded = 1..NSegs
      BY <3>5 DEF PromptAsSent
    <3>7. \A j \in 1..NSegs : Carries(Forwarded, j, "canary") <=> Kind(j) = "usr"
      BY <3>5 DEF PromptAsSent, Plain, Carries
    <3>8. Carriers(Forwarded) = {1}
      BY <3>2, <3>3, <3>4, <3>6, <3>7 DEF Carriers
    <3> QED
      BY <3>5, <3>8
  <2> QED
    BY <1>2, <2>2, <2>3 DEF TypeOK, BodyType
<1>3. TypeOK /\ PassInv /\ CanaryInv => ForwardedCarriesCanary
  BY <1>2 DEF ForwardedCarriesCanary, Carriers, Carries
<1> QED
  BY <1>1, <1>3, Passage, NextCanaryInv, PTL DEF Spec
-------------------------------------------------------------------------------
(***************************************************************************)
(* Exclude.  If the detectors agree on one segment, it is the first one    *)
(* flagged; it leaves the list at the decision, and neither the guard nor  *)
(* the messages generated from the top-level fields bring it back.         *)
(***************************************************************************)
Gone(i) == i \notin DOMAIN upstream /\ (i > NMsgs => i \in excluded)

ExcludeInv ==
    (pc \in {"output_guard", "spotlight", "respond", "done"} /\ Sendable /\ decision = "exclude")
        => \A i \in Flags : Flags = {i} => Gone(i)

LEMMA FlagsMember ==
    ASSUME PassInv
    PROVE  Flags = {r.flag : r \in {q \in Collected : q.flag # 0}}
BY DEF PassInv, FlagOK, Flags, FlaggedBy

LEMMA FlagsAre ==
    ASSUME TypeOK, PassInv
    PROVE  Flags \subseteq Ids \ {0}
<1>1. \A r \in Collected : r \in Result
  BY CollectedType DEF TypeOK
<1> QED
  BY <1>1, FlagsMember DEF Result

LEMMA AgreedFlagIsFirst ==
    ASSUME TypeOK, PassInv, NEW i, Flags = {i}
    PROVE  FlaggedIdx = i
<1>1. DOMAIN results = 1..Len(results) /\ Len(results) \in Nat
  BY LenProperties DEF TypeOK
<1> DEFINE K == {k \in DOMAIN results : results[k].flag # 0}
<1>2. K # {}
  BY FlagsMember DEF Collected
<1>3. PICK k \in K : \A j \in K : k <= j
  <2>1. K \in SUBSET Nat
    BY <1>1
  <2> HIDE DEF K
  <2> QED
    BY <1>2, <2>1, LeastElement
<1>4. FirstFlagged(k)
  <2>1. ASSUME NEW j \in 1..(k - 1) PROVE results[j].flag = 0
    <3>1. k \in 1..Len(results) /\ j \in DOMAIN results /\ j < k
      BY <1>1, <1>3
    <3> QED
      BY <1>3, <3>1
  <2> QED
    BY <1>3, <2>1 DEF FirstFlagged
<1> DEFINE m == CHOOSE x \in DOMAIN results : FirstFlagged(x)
<1>5. m \in DOMAIN results /\ FirstFlagged(m)
  BY <1>3, <1>4
<1>6. FlaggedIdx = results[m].flag
  BY <1>3, <1>4 DEF FlaggedIdx
<1> HIDE DEF m
<1>7. results[m].flag \in Flags
  BY <1>5, FlagsMember DEF FirstFlagged, Collected
<1> QED
  BY <1>6, <1>7

LEMMA UnflaggedKeepsFlags ==
    ASSUME TypeOK, NEW r \in Result, r.flag = 0, AddResult(r)
    PROVE  Flags' = Flags
<1>1. Collected' = Collected \cup {r}
  BY CollectedAppend
<1>2. \A layer : FlaggedBy(layer)' = FlaggedBy(layer)
  BY <1>1 DEF FlaggedBy
<1> QED
  BY <1>2 DEF Flags

LEMMA FlagsStay == ASSUME UNCHANGED results PROVE Flags' = Flags
BY CollectedSame DEF Flags, FlaggedBy

LEMMA NextExcludeInv ==
    TypeOK /\ BlockSafe /\ PassInv /\ ExcludeInv /\ [Next]_vars => ExcludeInv'
<1> SUFFICES ASSUME TypeOK, BlockSafe, PassInv, ExcludeInv, [Next]_vars, Sendable',
                    pc' \in {"output_guard", "spotlight", "respond", "done"},
                    decision' = "exclude", NEW i \in Flags', Flags' = {i}
             PROVE  Gone(i)'
  BY DEF ExcludeInv
<1> USE DEF inputs
<1>0. UpstreamType(upstream)
  BY DEF TypeOK, UpstreamType
<1>1. CASE Detect
  BY <1>1, DetectFrame DEF Early, Detectors
<1>2. CASE Decide
  <2>1. Flags' = Flags
    BY <1>2, UnflaggedResults, UnflaggedKeepsFlags DEF Decide
  <2>2. FlaggedIdx = i
    BY <2>1, AgreedFlagIsFirst
  <2>3. DecidedLevel = "exclude" /\ upstream' = Without(Copied(upstream), i)
        /\ (i > NMsgs => i \in excluded') /\ NMsgs' = NMsgs
    BY <1>2, <2>2 DEF Decide, Sanitized, NMsgs
  <2>4. i \notin DOMAIN upstream'
    BY <2>3 DEF Without
  <2> QED
    BY <2>3, <2>4 DEF Gone
<1>3. CASE DecideRaised
  <2>1. SanitizationRaises(DecidedLevel) /\ UNCHANGED upstream /\ pc \in Early
    BY <1>3 DEF DecideRaised, SanitizationMayRaise, Early
  <2>2. PICK j \in DOMAIN upstream : Kind(j) = "bad"
    BY <2>1 DEF SanitizationRaises
  <2>3. upstream[j] = Received(j)
    BY <2>1, <2>2 DEF BlockSafe
  <2>4. HasBad(upstream)
    BY <2>2, <2>3 DEF HasBad, Received, Plain
  <2> QED
    BY <2>1, <2>4, BadStays DEF Sendable
<1>4. CASE Guard
  <2>1. Flags' = Flags
    BY <1>4, GuardFrame, UnflaggedResults, UnflaggedKeepsFlags, FlagsStay
  <2>2. Sendable /\ decision = "exclude" /\ pc = "output_guard"
    BY <1>4, GuardFrame, GuardBlockSafe DEF Sendable
  <2>3. Gone(i)
    BY <2>1, <2>2 DEF ExcludeInv
  <2>4. i # 0
    BY <2>1, FlagsAre
  <2> QED
    BY <1>4, <2>3, <2>4, GuardFrame DEF Gone, NMsgs
<1>5. CASE AlwaysSpotlight
  <2>1. Flags' = Flags
    BY <1>5, FlagsStay DEF AlwaysSpotlight
  <2>2. Sendable /\ decision = "exclude" /\ pc = "spotlight" /\ UNCHANGED <<inputs, excluded>>
    BY <1>5 DEF AlwaysSpotlight, Sendable
  <2>3. Gone(i)
    BY <2>1, <2>2 DEF ExcludeInv
  <2>4. i # 0 /\ i \in Ids
    BY <2>1, FlagsAre
  <2> DEFINE up == WithGenerated(upstream)
  <2>5. UpstreamType(up) /\ upstream' = SpotlightWrap(up, 0)
    BY <1>0, <1>5, GeneratedEffect DEF AlwaysSpotlight
  <2>6. i \notin DOMAIN up
    <3>1. DOMAIN up = DOMAIN upstream \cup (((NMsgs + 1)..NSegs) \ excluded)
      BY <1>0, GeneratedEffect
    <3>2. i \in (NMsgs + 1)..NSegs => i > NMsgs
      BY DEF TypeOK, BodyType, NMsgs, NSegs
    <3> QED
      BY <2>3, <3>1, <3>2 DEF Gone
  <2> HIDE DEF up
  <2>7. DOMAIN upstream' \in {DOMAIN up, DOMAIN up \cup {0}}
    BY <2>5, SpotlightEffect, ZeroIsId
  <2> QED
    BY <2>2, <2>3, <2>4, <2>6, <2>7 DEF Gone, NMsgs
<1>6. CASE SpotlightRaised \/ SpotlightSkipped \/ Respond \/ UNCHANGED vars
  <2>1. UNCHANGED <<body, results, upstream, excluded, decision>> /\ Sendable
    <3>1. UNCHANGED <<body, results, upstream, excluded, decision>>
      BY <1>6 DEF SpotlightRaised, DecisionAfterError, SpotlightSkipped, Respond, vars
    <3> QED
      BY <3>1, SendableBack
  <2>2. Flags' = Flags
    BY <2>1, FlagsStay
  <2>3. pc \in {"output_guard", "spotlight", "respond", "done"}
    BY <1>6 DEF SpotlightRaised, SpotlightSkipped, Respond, vars
  <2>4. Gone(i)
    BY <2>1, <2>2, <2>3 DEF ExcludeInv
  <2> QED
    BY <2>1, <2>4 DEF Gone, NMsgs
<1> QED
  BY <1>1, <1>2, <1>3, <1>4, <1>5, <1>6 DEF Next, Step, Rule, Spotlight, Answered

\* When the detectors agree on the segment, exclude keeps it out of every
\* message that is sent, as a message and as a generated one.
THEOREM ExcludedNeverForwarded == Spec => []ExcludedSegmentNotForwarded
<1>1. Init => ExcludeInv
  BY DEF Init, ExcludeInv
<1>2. PassInv /\ ExcludeInv => ExcludedSegmentNotForwarded
  BY DEF PassInv, ExcludeInv, Gone, ExcludedSegmentNotForwarded, Forwarded
<1> QED
  BY <1>1, <1>2, Passage, NextExcludeInv, PTL DEF Spec

-------------------------------------------------------------------------------
(***************************************************************************)
(* The layers simulate WafContract, step by step.                          *)
(***************************************************************************)
EvidenceMax ==
    /\ Evidence \in Confidences /\ Evidence \in Scores
    /\ \A d \in Confidences : d \in Nat /\ d <= Evidence

LEMMA EvidenceIsMax == TypeOK => EvidenceMax
<1> SUFFICES ASSUME TypeOK PROVE EvidenceMax
  OBVIOUS
<1>1. Confidences \in SUBSET Nat /\ Confidences # {} /\ \A d \in Confidences : d <= MaxScore
  <2>1. \A r \in Reports : r.conf \in Scores
    BY CollectedType DEF TypeOK, Result, Reports
  <2> QED
    BY <2>1, ThresholdsOrdered DEF Confidences, Scores
<1>2. \E c \in Confidences : \A d \in Confidences : d <= c
  BY <1>1, GreatestElement, ThresholdsOrdered
<1>3. Evidence \in Confidences /\ \A d \in Confidences : d <= Evidence
  BY <1>2 DEF Evidence
<1> QED
  BY <1>1, <1>3, ThresholdsOrdered DEF Scores, EvidenceMax

\* More reports never lower the evidence.
LEMMA EvidenceGrows ==
    ASSUME TypeOK, TypeOK', Reports \subseteq Reports'
    PROVE  Evidence' \in Evidence..MaxScore
<1>0. EvidenceMax /\ EvidenceMax'
  <2>1. TypeOK' => EvidenceMax'
    BY EvidenceIsMax, PTL
  <2> QED
    BY <2>1, EvidenceIsMax
<1>1. Evidence \in Confidences /\ Evidence \in Nat
  BY <1>0 DEF EvidenceMax, Scores
<1>2. Evidence \in Confidences'
  BY <1>1 DEF Confidences
<1>3. \A d \in Confidences' : d <= Evidence'
  BY <1>0 DEF EvidenceMax
<1>4. Evidence' \in Scores
  BY <1>0 DEF EvidenceMax, Scores
<1> QED
  BY <1>1, <1>2, <1>3, <1>4 DEF Scores

LEMMA LevelsByScore ==
    \A c, d \in Nat :
        /\ Severity(LevelFor(c)) \in Nat
        /\ c <= d => Severity(LevelFor(c)) <= Severity(LevelFor(d))
        /\ Severity(LevelFor(c)) = Severity(LevelFor(d)) => LevelFor(c) = LevelFor(d)
BY ThresholdsOrdered DEF LevelFor, Severity

\* A decision short of a block is the level of the strongest score so far.
LEMMA DecidedByEvidence ==
    ASSUME TypeOK, PassInv, pc \in Early, TLog > 0, DecidedLevel # "block"
    PROVE  DecidedLevel = LevelFor(Evidence)
<1>0. Reports = Collected
  BY DEF PassInv, Reports
<1>1. CASE results = <<>>
  <2>1. DOMAIN results = {}
    BY <1>1
  <2>2. Confidences = {0}
    BY <1>0, <2>1 DEF Confidences, Collected
  <2>3. Evidence = 0
    BY <2>2, EvidenceIsMax DEF EvidenceMax
  <2> QED
    BY <1>1, <2>3, ThresholdsOrdered DEF DecidedLevel, NoDetection, LevelFor
<1>2. CASE results # <<>>
  <2>1. Top \in Collected /\ (\A q \in Collected : Beats(Top, q)) /\ Collected \subseteq Result
    BY <1>2, TopExists, CollectedType DEF TypeOK
  <2>2. \A q \in Collected : q.conf \in Nat /\ q.conf \in Confidences
    BY <1>0, <2>1, ThresholdsOrdered DEF Result, Scores, Confidences
  <2>3. PolicyLevel(Top) # "block"
    BY <1>2 DEF DecidedLevel, NoDetection
  <2>4. \A q \in Collected : PolicyLevel(q) = LevelFor(q.conf)
    <3>1. ~LayerBlocked
      BY BlockDecides DEF TypeOK
    <3> QED
      BY <3>1 DEF LayerBlocked, PolicyLevel
  <2>5. LevelFor(Top.conf) = LevelFor(Evidence)
    <3>1. Top.conf <= Evidence /\ Evidence \in Nat
      BY <2>1, <2>2, EvidenceIsMax DEF EvidenceMax
    <3>2. CASE Evidence = 0
      BY <2>1, <2>2, <3>1, <3>2
    <3>3. CASE Evidence # 0
      <4>1. PICK q \in Collected : q.conf = Evidence
        BY <1>0, <3>3, EvidenceIsMax DEF EvidenceMax, Confidences
      <4>2. Severity(LevelFor(Top.conf)) >= Severity(LevelFor(Evidence))
        BY <2>1, <2>2, <2>4, <3>1, <4>1, LevelsByScore DEF Beats
      <4>3. Severity(LevelFor(Top.conf)) <= Severity(LevelFor(Evidence))
        BY <2>1, <2>2, <3>1, LevelsByScore
      <4>4. Severity(LevelFor(Top.conf)) = Severity(LevelFor(Evidence))
        BY <2>1, <2>2, <3>1, <4>2, <4>3, LevelsByScore
      <4> QED
        BY <2>1, <2>2, <3>1, <4>4, LevelsByScore
    <3> QED
      BY <3>2, <3>3
  <2>6. PolicyLevel(Top) = LevelFor(Evidence)
    BY <2>1, <2>4, <2>5
  <2> QED
    BY <1>2, <2>6 DEF DecidedLevel, NoDetection
<1> QED
  BY <1>1, <1>2

\* A block of the decision layer or the output guard is not evidence: it stems
\* from a failure.
ReleaseInv ==
    (pc \in Late /\ Sendable) => decision = LevelFor(Evidence) /\ ~DetectorBlocked

\* A result of a later step is not a detector's report.
LEMMA ReportsStay ==
    ASSUME TypeOK, NEW r \in Result, AddResult(r), r.layer \notin Detectors
    PROVE  Reports' = Reports
BY CollectedAppend DEF Reports

LEMMA ReportsSame == ASSUME UNCHANGED results PROVE Reports' = Reports
BY CollectedSame DEF Reports

LEMMA EvidenceStays ==
    ASSUME Reports' = Reports
    PROVE  Evidence' = Evidence /\ DetectorBlocked' = DetectorBlocked
<1>1. Confidences' = Confidences
  BY DEF Confidences
<1> QED
  BY <1>1 DEF Evidence, DetectorBlocked

\* After the detectors, no step changes their reports.
LEMMA LateReports ==
    ASSUME TypeOK, Rule \/ Guard \/ Spotlight \/ Respond \/ UNCHANGED vars
    PROVE  Reports' = Reports
<1>1. \A r \in {Quiet("output_guard"), Failure("output_guard"), Failure("decision"),
                NoFlag("decision", DecidedLevel, DecidedConf)} :
          r \in Result /\ r.layer \notin Detectors
  BY UnflaggedResults DEF Failure, Quiet, NoFlag, Detectors
<1>2. CASE Rule
  BY <1>1, <1>2, ReportsStay DEF Rule, Decide, DecideRaised
<1>3. CASE Guard
  BY <1>1, <1>3, ReportsStay, ReportsSame, GuardFrame
<1>4. CASE Spotlight \/ Respond \/ UNCHANGED vars
  BY <1>4, ReportsSame
  DEF Spotlight, AlwaysSpotlight, SpotlightRaised, SpotlightSkipped, Respond, vars
<1> QED
  BY <1>2, <1>3, <1>4

LEMMA NextReleaseInv ==
    ASSUME TLog > 0
    PROVE  TypeOK /\ BlockSafe /\ PassInv /\ ReleaseInv /\ [Next]_vars => ReleaseInv'
<1> SUFFICES ASSUME TypeOK, BlockSafe, PassInv, ReleaseInv, [Next]_vars, Sendable', pc' \in Late
             PROVE  decision' = LevelFor(Evidence') /\ ~DetectorBlocked'
  BY DEF ReleaseInv, LevelFor
<1>1. CASE Detect
  BY <1>1, DetectFrame DEF Early, Detectors, Late
<1>2. CASE Rule
  <2>1. decision' = DecidedLevel /\ DecidedLevel # "block" /\ pc \in Early
    BY <1>2 DEF Rule, Decide, DecideRaised, Sendable, Early
  <2>2. DecidedLevel = LevelFor(Evidence)
    BY <2>1, DecidedByEvidence
  <2>3. ~DetectorBlocked
    <3>1. ~LayerBlocked
      BY <2>1, BlockDecides DEF TypeOK
    <3> QED
      BY <3>1 DEF LayerBlocked, DetectorBlocked, Reports
  <2>4. Evidence' = Evidence /\ DetectorBlocked' = DetectorBlocked
    BY <1>2, LateReports, EvidenceStays
  <2> QED
    BY <2>1, <2>2, <2>3, <2>4
<1>3. CASE Guard \/ Spotlight \/ UNCHANGED vars
  <2>1. Sendable /\ UNCHANGED decision /\ pc \in Late
    <3>1. CASE Guard
      BY <3>1, GuardFrame, GuardBlockSafe DEF Sendable, Late
    <3>2. CASE Spotlight
      <4>1. UNCHANGED decision
        BY <3>2 DEF Spotlight, AlwaysSpotlight, SpotlightRaised, SpotlightSkipped,
                    DecisionAfterError, Sendable
      <4>2. pc = "spotlight"
        BY <3>2 DEF Spotlight, AlwaysSpotlight, SpotlightRaised, SpotlightSkipped
      <4> QED
        BY <3>2, <4>1, <4>2, SpotlightBlockSafe DEF Sendable, Late
    <3>3. CASE UNCHANGED vars
      BY <3>3, SendableBack DEF vars
    <3> QED
      BY <1>3, <3>1, <3>2, <3>3
  <2>2. Evidence' = Evidence /\ DetectorBlocked' = DetectorBlocked
    BY <1>3, LateReports, EvidenceStays
  <2> QED
    BY <2>1, <2>2 DEF ReleaseInv
<1>4. CASE Respond
  BY <1>4 DEF Respond, Late
<1> QED
  BY <1>1, <1>2, <1>3, <1>4 DEF Next, Step, Answered

\* Every step but the last collects evidence or changes nothing the contract
\* sees; the last one releases or refuses.
LEMMA StepSimulates ==
    TypeOK /\ TypeOK' /\ BlockSafe /\ PassInv /\ ReleaseInv /\ [Next]_vars
        => [Contract!Next]_(Contract!vars)
<1> SUFFICES ASSUME TypeOK, TypeOK', BlockSafe, PassInv, ReleaseInv, [Next]_vars
             PROVE  [Contract!Next]_(Contract!vars)
  OBVIOUS
<1>1. ASSUME Reports' = Reports, outcome = "none", outcome' = "none"
      PROVE  UNCHANGED Contract!vars
  BY <1>1, EvidenceStays DEF Contract!vars, Sent
<1>2. CASE Detect
  <2>1. outcome = "none" /\ outcome' = "none"
    BY <1>2, DetectFrame DEF BlockSafe, Detectors
  <2>2. ASSUME NEW r \in Result, AddResult(r) PROVE Contract!Inspect
    <3>1. Reports \subseteq Reports'
      BY <2>2, CollectedAppend DEF Reports
    <3>2. Evidence' \in Evidence..MaxScore
      BY <3>1, EvidenceGrows
    <3>3. DetectorBlocked' \in {DetectorBlocked, TRUE}
      BY <3>1 DEF DetectorBlocked
    <3> QED
      BY <2>1, <3>2, <3>3 DEF Contract!Inspect, Sent
  <2> QED
    BY <1>1, <1>2, <2>1, <2>2, DetectCases, ReportsSame DEF Report, Contract!Next
<1>3. CASE Rule \/ Guard \/ Spotlight
  <2>1. outcome = "none" /\ outcome' = "none"
    <3>1. CASE Rule
      BY <3>1 DEF Rule, Decide, DecideRaised, BlockSafe
    <3>2. CASE Guard
      BY <3>2, GuardFrame DEF BlockSafe
    <3>3. CASE Spotlight
      BY <3>3 DEF Spotlight, AlwaysSpotlight, SpotlightRaised, SpotlightSkipped, BlockSafe
    <3> QED
      BY <1>3, <3>1, <3>2, <3>3
  <2> QED
    BY <1>1, <1>3, <2>1, LateReports
<1>4. CASE Respond
  <2>1. pc = "respond" /\ outcome = "none" /\ UNCHANGED decision
    BY <1>4 DEF Respond, BlockSafe
  <2>2. Evidence' = Evidence /\ DetectorBlocked' = DetectorBlocked
    BY <1>4, LateReports, EvidenceStays
  <2>3. CASE outcome' = "sent"
    <3>1. Sendable
      BY <1>4, <2>3, RespondSent DEF Sendable
    <3>2. decision = LevelFor(Evidence) /\ decision # "block" /\ ~DetectorBlocked
      BY <2>1, <3>1 DEF ReleaseInv, Sendable, Late
    <3>3. Contract!LevelFor(Evidence) = LevelFor(Evidence)
      BY DEF Contract!LevelFor, LevelFor
    <3>4. Contract!Release
      BY <2>1, <2>2, <2>3, <3>2, <3>3 DEF Contract!Release, Sent
    <3> QED
      BY <3>4 DEF Contract!Next
  <2>4. CASE outcome' # "sent"
    <3>1. outcome' \in {"blocked", "bad_gateway"}
      BY <1>4, <2>4 DEF Respond
    <3>2. Contract!Refuse
      BY <2>1, <2>2, <3>1 DEF Contract!Refuse, Sent
    <3> QED
      BY <3>2 DEF Contract!Next
  <2> QED
    BY <2>3, <2>4
<1>5. CASE UNCHANGED vars
  <2>1. Evidence' = Evidence /\ DetectorBlocked' = DetectorBlocked
    BY <1>5, LateReports, EvidenceStays
  <2> QED
    BY <1>5, <2>1 DEF Contract!vars, Sent, vars
<1> QED
  BY <1>2, <1>3, <1>4, <1>5 DEF Next, Step, Answered

\* Refinement: with a positive log threshold every behaviour of the layers is a
\* behaviour of the contract, whatever the configuration, the conversation and
\* the failures.
THEOREM LayersImplementContract ==
    ASSUME TLog > 0
    PROVE  Spec => ImplementsContract
<1>1. Init => Contract!Init
  <2> SUFFICES ASSUME Init PROVE Contract!Init
    OBVIOUS
  <2>1. Reports = {}
    BY DEF Init, Collected, Reports
  <2>2. Confidences = {0}
    BY <2>1 DEF Confidences
  <2>3. Evidence = 0
    BY <2>2, InitTypeOK, EvidenceIsMax DEF EvidenceMax
  <2>4. ~DetectorBlocked
    BY <2>1 DEF DetectorBlocked
  <2> QED
    BY <2>3, <2>4 DEF Init, Contract!Init, Sent
<1>2. Init => ReleaseInv
  BY DEF Init, ReleaseInv, Late
<1>3. TypeOK /\ BlockSafe /\ PassInv /\ ReleaseInv /\ [Next]_vars => ReleaseInv'
  BY NextReleaseInv
<1> QED
  BY <1>1, <1>2, <1>3, Passage, StepSimulates, PTL DEF Spec, ImplementsContract, Contract!Spec

\* What the contract promises holds of the layers: a request that is sent has the
\* level of the highest confidence any detector reported, that is not block, and
\* no detector has reported a block or failed closed.
THEOREM SentAsGraded ==
    ASSUME TLog > 0
    PROVE  Spec => []Contract!ReleasedAsGraded
<1>1. Contract!Init => Contract!ReleasedAsGraded
  BY DEF Contract!Init, Contract!ReleasedAsGraded
<1>2. ASSUME Contract!ReleasedAsGraded, [Contract!Next]_(Contract!vars)
      PROVE  Contract!ReleasedAsGraded'
  <2>1. CASE Contract!Inspect
    BY <2>1 DEF Contract!Inspect, Contract!ReleasedAsGraded
  <2>2. CASE Contract!Release
    BY <2>2 DEF Contract!Release, Contract!ReleasedAsGraded, Contract!LevelFor
  <2>3. CASE Contract!Refuse
    BY <2>3 DEF Contract!Refuse, Contract!ReleasedAsGraded
  <2>4. CASE UNCHANGED Contract!vars
    BY <1>2, <2>4 DEF Contract!vars, Contract!ReleasedAsGraded, Contract!LevelFor
  <2> QED
    BY <1>2, <2>1, <2>2, <2>3, <2>4 DEF Contract!Next
<1> QED
  BY <1>1, <1>2, LayersImplementContract, PTL DEF ImplementsContract, Contract!Spec
===============================================================================
