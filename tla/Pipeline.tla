------------------------------- MODULE Pipeline -------------------------------
(***************************************************************************)
(* One request through PipelineOrchestrator.run_pre_inference and out to   *)
(* the provider: provenance, normalizer, heuristic, classifier, decision,  *)
(* output_guard, always-on spotlighting and the hand-over to the upstream  *)
(* client.  Each layer is a step of its own; the configuration and the     *)
(* request body are chosen at the start and never change.                  *)
(*                                                                         *)
(* A message is identified by its position (1..NMsgs); the top-level RAG   *)
(* and tool segments are numbered after the messages, as provenance.py     *)
(* does; 0 is the system message the firewall inserts in front when the    *)
(* conversation has none.  A list of messages is a function from ids: its  *)
(* order is the order of the ids.  Of a message only three facts are kept: *)
(* whether it is an object, how much of its text is inside the spotlight   *)
(* delimiters, and which of the firewall's own notes (canary, spotlight    *)
(* instruction) it carries.                                                *)
(***************************************************************************)
EXTENDS WafTypes, Sequences

CONSTANT
    Cases       \* the pairs <<settings, request body>> that may occur

Layers == {"provenance", "normalizer", "heuristic", "classifier",
           "decision", "output_guard"}

\* Toggles of Settings that the orchestrator reads.
ConfigType ==
    [fail_closed : BOOLEAN, provenance : BOOLEAN, normalizer : BOOLEAN,
     heuristic : BOOLEAN, classifier : BOOLEAN, output_guard : BOOLEAN,
     canary_enabled : BOOLEAN]

\* "sys"    role system, with a text
\* "mute"   role system, content null or without a text part
\* "sysret" role system, tagged RET or TOOL by its "provenance"
\* "usr"    tagged USR or an assistant's (and the prompt of /v1/completions)
\* "ret"    tagged RET or TOOL by a rule spotlight_wrap_messages shares
\* "hid"    tagged RET or TOOL by a rule it does not share: role "source",
\*          "origin", "metadata.provenance", "tool_call_id", source "vector_db"
\* "part"   like "ret", its content a list with a text part and with text in
\*          another form too: a bare string, or an object without "text"
\* "over"   its role says RET or TOOL, its "provenance" USR
\* "bad"    an array entry that is not an object and that dict() refuses
\* "void"   one that dict() makes an object of: [], "" or a list of pairs
\* "list"   a prompt of /v1/completions that is not a string
Kinds == {"sys", "mute", "sysret", "usr", "ret", "hid", "part", "over", "bad", "void",
          "list"}

\* deep holds the objects with a field nested so deeply that copying them may
\* exhaust the interpreter's stack, although reading and sending them does not.
BodyType ==
    [route : {"chat", "completions"}, msgs : Seq(Kinds), ext : Nat, deep : SUBSET Nat]

ASSUME InputsTyped ==
    /\ Cases \subseteq ConfigType \X BodyType
    /\ \A c \in Cases :
          /\ c[2].route = "completions" => c[2].msgs \in {<<"usr">>, <<"list">>} /\ c[2].deep = {}
          /\ c[2].deep \subseteq
                {i \in DOMAIN c[2].msgs : c[2].msgs[i] \notin {"bad", "void", "list"}}

VARIABLES
    cfg,          \* Settings
    body,         \* ctx.raw_body
    pc,           \* the step the orchestrator takes next
    tagged,       \* ctx.segments and the nonce are set
    results,      \* ctx.layer_results
    decision,     \* ctx.decision
    confidence,   \* ctx.confidence
    upstream,     \* ctx.upstream_messages, the body's own messages when None
    excluded,     \* ctx.meta["excluded_segment_indices"]
    canary,       \* ctx.canary_token is set
    outcome       \* what the route does with the request

vars == <<cfg, body, pc, tagged, results, decision, confidence, upstream,
          excluded, canary, outcome>>
inputs == <<cfg, body>>

NMsgs == Len(body.msgs)
NSegs == NMsgs + body.ext
Ids == 0..NSegs

Kind(i) == IF i = 0 THEN "sys"
           ELSE IF i <= NMsgs THEN body.msgs[i]
           ELSE "ret"

\* ctx.segments: empty until provenance has run.
Segments == IF tagged THEN 1..NSegs ELSE {}

\* ProvenanceTag RET or TOOL
External(i) == Kind(i) \in {"ret", "part", "hid", "sysret"}
\* is_external of spotlight_wrap_messages
Recognised(i) == Kind(i) \in {"ret", "part", "over", "sysret"}

\* How much of the text is inside the delimiters.
Extents == {"none", "parts", "whole"}

Message == [object : BOOLEAN, wrapped : Extents, notes : SUBSET {"canary", "spotlight"}]
Plain == [object |-> TRUE, wrapped |-> "none", notes |-> {}]

\* A message as it came.
Received(i) == [Plain EXCEPT !.object = Kind(i) \notin {"bad", "void"}]

Result == [layer : Layers, level : Levels, conf : Scores, flag : Ids]
NoFlag(layer, level, conf) ==
    [layer |-> layer, level |-> level, conf |-> conf, flag |-> 0]
Quiet(layer) == NoFlag(layer, "allow", 0)

\* The result _run_layer makes of an exception, by fail mode.
Failure(layer) ==
    IF cfg.fail_closed THEN NoFlag(layer, "block", MaxScore) ELSE Quiet(layer)

Outcomes == {"none", "sent", "blocked", "bad_gateway"}
Steps == {"provenance", "normalizer", "heuristic", "classifier", "decision",
          "final_decision", "output_guard", "spotlight", "respond", "done"}

TypeOK ==
    /\ cfg \in ConfigType
    /\ body \in BodyType
    /\ pc \in Steps
    /\ tagged \in BOOLEAN
    /\ results \in Seq(Result)
    /\ decision \in Levels
    /\ confidence \in Scores
    /\ DOMAIN upstream \subseteq Ids /\ upstream \in [DOMAIN upstream -> Message]
    /\ excluded \subseteq Ids
    /\ canary \in BOOLEAN
    /\ outcome \in Outcomes

Init ==
    /\ \E c \in Cases : cfg = c[1] /\ body = c[2]
    /\ pc = "provenance"
    /\ tagged = FALSE
    /\ results = <<>>
    /\ decision = "allow"
    /\ confidence = 0
    /\ upstream = [i \in 1..NMsgs |-> Received(i)]
    /\ excluded = {}
    /\ canary = FALSE
    /\ outcome = "none"

-------------------------------------------------------------------------------
(***************************************************************************)
(* _run_layer and the loop of run_pre_inference                            *)
(***************************************************************************)

AddResult(r) == results' = Append(results, r)

\* The loop's reaction to a detector's result: a block runs the decision
\* layer at once and leaves the loop.
After(layer, r) ==
    IF r.level = "block" THEN "final_decision"
    ELSE CASE layer = "provenance" -> "normalizer"
           [] layer = "normalizer" -> "heuristic"
           [] layer = "heuristic"  -> "classifier"
           [] layer = "classifier" -> "decision"

Detectors == {"provenance", "normalizer", "heuristic", "classifier"}

Report(layer, r) ==
    /\ pc = layer
    /\ cfg[layer]
    /\ AddResult(r)
    /\ confidence' = Larger(confidence, r.conf)
    /\ pc' = After(layer, r)
    /\ UNCHANGED <<inputs, decision, upstream, excluded, canary, outcome>>

Provenance == Report("provenance", Quiet("provenance")) /\ tagged' = TRUE

Normalizer == Report("normalizer", Quiet("normalizer")) /\ UNCHANGED tagged

\* The best scoring segment; a score of zero flags none.
Scoring(layer) ==
    {Quiet(layer)} \cup
    {[layer |-> layer, level |-> LevelFor(s), conf |-> s, flag |-> i] :
        s \in 1..MaxScore, i \in Segments}

Heuristic ==
    \E r \in Scoring("heuristic") : Report("heuristic", r) /\ UNCHANGED tagged

\* A multi-turn escalation lifts the label to sanitize, whatever the score.
Escalated(r) ==
    [r EXCEPT !.level = IF @ \in {"allow", "log"} THEN "sanitize" ELSE @]

Classifier ==
    \E r \in Scoring("classifier"), escalate \in BOOLEAN :
        /\ escalate => r.flag # 0
        /\ Report("classifier", IF escalate THEN Escalated(r) ELSE r)
        /\ UNCHANGED tagged

\* A layer that raises, or a classifier whose model cannot load or score.
LayerFailed ==
    \E layer \in Detectors : Report(layer, Failure(layer)) /\ UNCHANGED tagged

\* _should_run is false: nothing is added to layer_results.
LayerDisabled ==
    \E layer \in Detectors :
        /\ pc = layer
        /\ ~cfg[layer]
        /\ pc' = After(layer, Quiet(layer))
        /\ UNCHANGED <<inputs, tagged, results, decision, confidence, upstream,
                       excluded, canary, outcome>>

-------------------------------------------------------------------------------
(***************************************************************************)
(* Spotlighting and the system prompt                                      *)
(***************************************************************************)

Systems(up) == {i \in DOMAIN up : Kind(i) \in {"sys", "mute", "sysret"}}
FirstSystem(up) == CHOOSE i \in Systems(up) : \A j \in Systems(up) : i <= j
HasBad(up) == \E i \in DOMAIN up : ~up[i].object

\* deepcopy of this list may raise a RecursionError: how deep is too deep
\* depends on the stack in use at the call.
MayOverflow(up) == DOMAIN up \cap body.deep # {}

\* Annotating an existing system message but never inserting one.
Bug_Noted(up, note) ==
    [i \in DOMAIN up |->
        IF i \in Systems(up) /\ i = FirstSystem(up)
        THEN [up[i] EXCEPT !.notes = @ \cup {note}] ELSE up[i]]

\* inject_canary makes room for its note; the spotlight note needs a text.
Accepts(message, i, note) ==
    note = "canary" \/ Kind(i) # "mute" \/ "canary" \in message.notes

\* Add a note to the first system message, or insert one in front.
Noted(up, note) ==
    IF Systems(up) # {}
    THEN [i \in DOMAIN up |->
            IF i = FirstSystem(up) /\ Accepts(up[i], i, note)
            THEN [up[i] EXCEPT !.notes = @ \cup {note}] ELSE up[i]]
    ELSE [i \in DOMAIN up \cup {0} |->
            IF i = 0 THEN [Plain EXCEPT !.notes = {note}] ELSE up[i]]

\* In a list, only the parts with a "text" get delimiters; a list without any is
\* wrapped as one text.
Wrapping(i) == IF Kind(i) = "part" THEN "parts" ELSE "whole"

\* spotlight_wrap_messages; target 0 is flagged_idx=None.
SpotlightWrap(up, target) ==
    LET chosen(i) == IF target # 0 THEN i = target ELSE Recognised(i)
        marked == [i \in DOMAIN up |->
                     IF chosen(i) THEN [up[i] EXCEPT !.wrapped = Wrapping(i)] ELSE up[i]]
    IN  IF target # 0 \/ \E i \in DOMAIN up : Recognised(i)
        THEN Noted(marked, "spotlight") ELSE marked

-------------------------------------------------------------------------------
(***************************************************************************)
(* DecisionEngine                                                          *)
(***************************************************************************)

Collected == {results[i] : i \in DOMAIN results}

\* Trusting the label a layer chose.
Bug_PolicyLevel(r) == r.level

\* Thresholds are applied again at the policy boundary; only a block label
\* of a layer is kept.
PolicyLevel(r) == IF r.level = "block" THEN "block" ELSE LevelFor(r.conf)

Beats(r, q) ==
    \/ Severity(PolicyLevel(r)) > Severity(PolicyLevel(q))
    \/ /\ Severity(PolicyLevel(r)) = Severity(PolicyLevel(q))
       /\ r.conf >= q.conf

Top == CHOOSE r \in Collected : \A q \in Collected : Beats(r, q)

NoDetection == results = <<>> \/ PolicyLevel(Top) = "allow"
DecidedLevel == IF NoDetection THEN "allow" ELSE PolicyLevel(Top)
DecidedConf == IF NoDetection THEN 0 ELSE Top.conf

\* The first result that names a segment, whichever layer decides.
FirstFlagged(k) ==
    /\ results[k].flag # 0
    /\ \A j \in 1..(k - 1) : results[j].flag = 0

\* A segment number counted from one where the list counts from zero.
Bug_FlaggedIdx ==
    IF \E k \in DOMAIN results : FirstFlagged(k)
    THEN results[CHOOSE k \in DOMAIN results : FirstFlagged(k)].flag + 1
    ELSE 0

FlaggedIdx ==
    IF \E k \in DOMAIN results : FirstFlagged(k)
    THEN results[CHOOSE k \in DOMAIN results : FirstFlagged(k)].flag
    ELSE 0

Without(up, idx) == [i \in DOMAIN up \ {idx} |-> up[i]]

\* apply_sanitization copies the messages with dict(m): some entries that are
\* not an object raise before anything is changed.
SanitizationRaises(level) ==
    level \in {"sanitize", "exclude"} /\ \E i \in DOMAIN upstream : Kind(i) = "bad"

\* The wrapper of a sanitize makes deep copies on top.
SanitizationMayRaise(level) ==
    SanitizationRaises(level) \/ (level = "sanitize" /\ MayOverflow(upstream))

\* dict(m) of every entry: what was not an object is one now.
Copied(up) == [i \in DOMAIN up |-> [up[i] EXCEPT !.object = TRUE]]

Sanitized(level) ==
    CASE level = "exclude"  -> Without(Copied(upstream), FlaggedIdx)
      [] level = "sanitize" ->
            SpotlightWrap(Copied(upstream), IF FlaggedIdx # 0 /\ External(FlaggedIdx)
                                            THEN FlaggedIdx ELSE 0)
      [] OTHER -> upstream

\* Treating every detection as the end of the loop.
Bug_AfterDecision(level) ==
    IF pc = "decision" /\ level = "allow" THEN "output_guard" ELSE "spotlight"

\* Where the loop goes after the decision layer: a block leaves it.
AfterDecision(level) ==
    IF pc = "decision" /\ level # "block" THEN "output_guard" ELSE "spotlight"

Decide ==
    /\ pc \in {"decision", "final_decision"}
    /\ ~SanitizationRaises(DecidedLevel)
    /\ decision' = DecidedLevel
    /\ confidence' = DecidedConf
    /\ AddResult(NoFlag("decision", DecidedLevel, DecidedConf))
    /\ upstream' = Sanitized(DecidedLevel)
    /\ excluded' = IF DecidedLevel = "exclude" /\ FlaggedIdx > NMsgs
                   THEN excluded \cup {FlaggedIdx} ELSE excluded
    /\ pc' = AfterDecision(DecidedLevel)
    /\ UNCHANGED <<inputs, tagged, canary, outcome>>

\* decide has already stored decision and confidence when the copy raises.
DecideRaised ==
    LET r == Failure("decision") IN
    /\ pc \in {"decision", "final_decision"}
    /\ SanitizationMayRaise(DecidedLevel)
    /\ decision' = DecidedLevel
    /\ confidence' = Larger(DecidedConf, r.conf)
    /\ AddResult(r)
    /\ pc' = AfterDecision(r.level)
    /\ UNCHANGED <<inputs, tagged, upstream, excluded, canary, outcome>>

-------------------------------------------------------------------------------
(***************************************************************************)
(* OutputGuardLayer.process and always_spotlight_ret_tool                  *)
(***************************************************************************)

GuardStep(r) ==
    /\ pc = "output_guard"
    /\ cfg.output_guard
    /\ AddResult(r)
    /\ confidence' = Larger(confidence, r.conf)
    /\ pc' = "spotlight"
    /\ UNCHANGED <<inputs, tagged, decision, excluded, outcome>>

\* inject_canary reads each entry's role until it meets a system message.
InjectRaises ==
    \E b \in DOMAIN upstream :
        /\ ~upstream[b].object
        /\ \A s \in Systems(upstream) : b < s

\* Before that it makes a deep copy of the list.
InjectMayRaise == InjectRaises \/ MayOverflow(upstream)

InjectCanary ==
    /\ cfg.canary_enabled
    /\ ~InjectRaises
    /\ GuardStep(Quiet("output_guard"))
    /\ canary' = TRUE
    /\ upstream' = Noted(upstream, "canary")

\* The token is stored before the copy and the loop that raise.
InjectRaised ==
    /\ cfg.canary_enabled
    /\ InjectMayRaise
    /\ GuardStep(Failure("output_guard"))
    /\ canary' = TRUE
    /\ UNCHANGED upstream

\* ENABLE_OUTPUT_GUARD without CANARY_ENABLED: the layer runs and does nothing.
GuardWithoutCanary ==
    /\ ~cfg.canary_enabled
    /\ GuardStep(Quiet("output_guard"))
    /\ UNCHANGED <<canary, upstream>>

GuardDisabled ==
    /\ pc = "output_guard"
    /\ ~cfg.output_guard
    /\ pc' = "spotlight"
    /\ UNCHANGED <<inputs, tagged, results, decision, confidence, upstream,
                   excluded, canary, outcome>>

\* Top-level segments become messages of their own unless excluded.
\* Forgetting the indices that the decision excluded.
Bug_WithGenerated(up) ==
    [i \in DOMAIN up \cup ((NMsgs + 1)..NSegs) |->
        IF i \in DOMAIN up THEN up[i] ELSE Plain]

WithGenerated(up) ==
    LET added == ((NMsgs + 1)..NSegs) \ excluded IN
    [i \in DOMAIN up \cup added |-> IF i \in DOMAIN up THEN up[i] ELSE Plain]

\* Leaving a sanitized or excluded request to the decision layer's own pass.
Bug_SpotlightNeeded ==
    decision \in {"allow", "log"} /\ \E i \in Segments : External(i)

SpotlightNeeded == decision # "block" /\ \E i \in Segments : External(i)

AlwaysSpotlight ==
    /\ pc = "spotlight"
    /\ SpotlightNeeded
    /\ ~HasBad(upstream)
    /\ upstream' = SpotlightWrap(WithGenerated(upstream), 0)
    /\ pc' = "respond"
    /\ UNCHANGED <<inputs, tagged, results, decision, confidence, excluded,
                   canary, outcome>>

\* Fail-open read as "let the request through with a clean decision".
Bug_DecisionAfterError == IF cfg.fail_closed THEN "block" ELSE "allow"

DecisionAfterError == IF cfg.fail_closed THEN "block" ELSE decision

\* .get on an entry that is not an object, or the deep copy of the list: either
\* raises before anything is changed; the caller applies the fail mode.
SpotlightRaised ==
    /\ pc = "spotlight"
    /\ SpotlightNeeded
    /\ HasBad(upstream) \/ MayOverflow(upstream)
    /\ decision' = DecisionAfterError
    /\ confidence' = IF cfg.fail_closed THEN MaxScore ELSE confidence
    /\ pc' = "respond"
    /\ UNCHANGED <<inputs, tagged, results, upstream, excluded, canary, outcome>>

SpotlightSkipped ==
    /\ pc = "spotlight"
    /\ ~SpotlightNeeded
    /\ pc' = "respond"
    /\ UNCHANGED <<inputs, tagged, results, decision, confidence, upstream,
                   excluded, canary, outcome>>

-------------------------------------------------------------------------------
(***************************************************************************)
(* The route: 403 on a block, else hand the messages to the upstream client *)
(***************************************************************************)

\* /v1/completions posts its own body: the original prompt, the sentinel
\* appended when the prompt is text, and the top-level fields as they came.
PromptAsSent ==
    [i \in 1..NSegs |->
        [Plain EXCEPT !.notes = IF canary /\ Kind(i) = "usr" THEN {"canary"} ELSE {}]]

Forwarded == IF body.route = "chat" THEN upstream ELSE PromptAsSent

\* A client that drops malformed entries instead of failing on them.
Bug_CannotBuild == FALSE

\* _normalize_message reads message.items(): an entry that is not an object
\* fails the call before anything is sent.
CannotBuild == HasBad(Forwarded)

Respond ==
    /\ pc = "respond"
    /\ outcome' = IF decision = "block" THEN "blocked"
                  ELSE IF CannotBuild THEN "bad_gateway" ELSE "sent"
    /\ pc' = "done"
    /\ UNCHANGED <<inputs, tagged, results, decision, confidence, upstream,
                   excluded, canary>>

Answered == pc = "done" /\ UNCHANGED vars

Detect == Provenance \/ Normalizer \/ Heuristic \/ Classifier \/ LayerFailed
          \/ LayerDisabled
Rule == Decide \/ DecideRaised
Guard == InjectCanary \/ InjectRaised \/ GuardWithoutCanary \/ GuardDisabled
Spotlight == AlwaysSpotlight \/ SpotlightRaised \/ SpotlightSkipped

Step == Detect \/ Rule \/ Guard \/ Spotlight \/ Respond
Next == Step \/ Answered

Spec == Init /\ [][Next]_vars /\ WF_vars(Step)
-------------------------------------------------------------------------------
(***************************************************************************)
(* Properties                                                              *)
(***************************************************************************)

Sent == outcome = "sent"
LayerBlocked == \E r \in Collected : r.level = "block"
FlaggedBy(layer) ==
    {r.flag : r \in {q \in Collected : q.layer = layer /\ q.flag # 0}}
Flags == FlaggedBy("heuristic") \cup FlaggedBy("classifier")

\* Nothing is sent to the provider once a detector has put a block among the
\* results, and nothing either after the decision layer or the output guard has,
\* unless a message was too deep to be copied.  The loop only stops the request
\* for blocks it sees before the decision; entries that are not objects make the
\* later steps raise as well, but the upstream client stops those requests.
BlockingLayerStopsRequest ==
    Sent => \A r \in Collected : r.level = "block" =>
                r.layer \in {"decision", "output_guard"} /\ body.deep # {}

\* "a layer error -> block under FAIL_MODE=closed" (README.md): no request is
\* sent with a block among the results.
LayerErrorBlocks == Sent => ~LayerBlocked

\* A detector score at the block threshold ends in the 403, whatever the other
\* layers, the fail mode and the malformed entries do.
ScoreAtThresholdBlocks ==
    (pc = "done" /\ \E r \in Collected : r.flag # 0 /\ r.conf >= TBlk)
        => outcome = "blocked"

\* On the chat route, when the decision is exclude and the detectors agree on
\* the segment, that segment is in no message sent upstream: not as a message,
\* and not re-created from the top-level fields by the spotlighting that follows.
ExcludedSegmentNotForwarded ==
    (Sent /\ body.route = "chat" /\ decision = "exclude")
        => \A i \in Flags : Flags = {i} => i \notin DOMAIN Forwarded

\* On the chat route every external message the wrapper recognises and every
\* top-level segment reaches the provider inside the delimiters, when provenance
\* ran: as a whole, or in its text parts if its content is a list of mixed form.
\* Only a fail-open process sends one bare, after a copy that overflowed.
ExternalDataWrapped ==
    (Sent /\ body.route = "chat" /\ tagged /\ (cfg.fail_closed \/ body.deep = {}))
        => \A i \in DOMAIN Forwarded :
              External(i) /\ Recognised(i) => Forwarded[i].wrapped = Wrapping(i)

\* Delimiters are never sent without the system note that explains them, if
\* the system messages have a text the note can be added to.
WrappedIsExplained ==
    (/\ Sent
     /\ \E i \in DOMAIN Forwarded : Forwarded[i].wrapped # "none"
     /\ \A i \in DOMAIN Forwarded : Kind(i) # "mute")
        => \E i \in DOMAIN Forwarded : "spotlight" \in Forwarded[i].notes

\* With the output guard and the canary on, what is sent carries the token the
\* response will be searched for, in exactly one place: no later rewrite of the
\* messages loses or repeats it.  A message too deep to be copied may keep the
\* token out, but nothing repeats it.
ForwardedCarriesCanary ==
    (Sent /\ cfg.output_guard /\ cfg.canary_enabled
          /\ (body.route = "completions" => Kind(1) # "list"))
        => LET carrying == {i \in DOMAIN Forwarded : "canary" \in Forwarded[i].notes}
           IN  /\ \A i, j \in carrying : i = j
               /\ carrying # {} => canary
               /\ body.deep = {} => carrying # {}

\* After the decision layer has ruled, later steps may only raise the decision
\* to block, never lower it.
DecisionOnlyRaised ==
    [][decision' # decision => (pc \in {"decision", "final_decision"} \/ decision' = "block")]_vars

\* "exclude: remove flagged segment entirely" (decision.py): the segment that
\* earned the exclude decision, with strictly the highest score, is not sent.
ExcludeRemovesDecidingSegment ==
    (Sent /\ body.route = "chat" /\ decision = "exclude")
        => \A r \in Collected :
              (r.flag # 0 /\ \A q \in Collected \ {r} : q.flag # 0 => ~Beats(q, r))
                  => r.flag \notin DOMAIN Forwarded

\* The layers implement the contract.  The evidence is the highest confidence a
\* detector reported; the verdict and its level appear when the route answers.
Reports == {r \in Collected : r.layer \in Detectors}
DetectorBlocked == \E r \in Reports : r.level = "block"
Confidences == {0} \cup {r.conf : r \in Reports}
Evidence == CHOOSE c \in Confidences : \A d \in Confidences : d <= c

Contract == INSTANCE WafContract WITH
    evidence <- Evidence,
    alarm <- DetectorBlocked,
    verdict <- IF outcome = "none" THEN "none"
               ELSE IF Sent THEN "released" ELSE "refused",
    level <- IF Sent THEN decision ELSE "none"

\* Every run of the layers is a run of the contract: what is sent carries the
\* level of the strongest score, however the other layers fail on the way.
ImplementsContract == Contract!Spec
===============================================================================
