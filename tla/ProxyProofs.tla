----------------------------- MODULE ProxyProofs -----------------------------
(***************************************************************************)
(* Proofs about Proxy for any number of requests, any ids, any settings    *)
(* and any cooldown.                                                       *)
(***************************************************************************)
EXTENDS Proxy, TLAPS

USE ProxyTyped DEF Switches

\* The values helpers can take.
LEMMA DecisionType ==
    ASSUME NEW r \in Requests, TypeOK
    PROVE  Decision(r) \in Verdicts
BY DEF TypeOK, Decision

LEMMA AlertType ==
    ASSUME NEW r \in Requests, TypeOK, AlertBlock(r)
    PROVE  /\ alarm' \in [Requests -> AlarmStates]
           /\ last' \in (0..clock) \cup {Never}
           /\ sent' \subseteq [by : Requests, at : 0..clock, epoch : 0..epoch]
BY DEF TypeOK, AlertBlock, alerting, AlarmStates

LEMMA MarkedRow ==
    ASSUME NEW row \in Row
    PROVE  Marked(row) \in Row /\ Marked(row).hit /\ Marked(row).decision = "block"
BY DEF Row, Marked, MarkedAs

\* Type correctness of the requests, the log, the tasks and the alerts.
THEOREM ProxyTypeOK == Spec => []TypeOK
<1>1. Init => TypeOK
  BY DEF Init, TypeOK, Stages, Answers, TaskStates, AlarmStates, LeakStates
<1>2. ASSUME TypeOK, [Next]_vars PROVE TypeOK'
  <2> USE <1>2 DEF world, context, tasks, alerting, Goto, Give, Stages, Answers, TaskStates
  <2>1. ASSUME NEW r \in Requests, Reject(r) PROVE TypeOK'
    BY <2>1 DEF TypeOK, Reject
  <2>2. ASSUME NEW r \in Requests, Screen(r) PROVE TypeOK'
    BY <2>2 DEF TypeOK, Screen
  <2>3. ASSUME NEW r \in Requests, PersistContext(r) PROVE TypeOK'
    <3>1. log' \in [Ids -> Row \cup {NoRow}]
      BY <2>3, DecisionType DEF TypeOK, PersistContext, Row
    <3> QED BY <2>3, <3>1 DEF TypeOK, PersistContext
  <2>4. ASSUME NEW r \in Requests, PersistFails(r) PROVE TypeOK'
    BY <2>4 DEF TypeOK, PersistFails, AfterFailedInsert
  <2>5. ASSUME NEW r \in Requests, Schedule(r) PROVE TypeOK'
    BY <2>5 DEF TypeOK, Schedule
  <2>6. ASSUME NEW r \in Requests, Conclude(r) PROVE TypeOK'
    <3>1. CASE verdict[r] = "block"
      BY <2>6, <3>1, AlertType DEF TypeOK, Conclude
    <3>2. CASE verdict[r] # "block"
      BY <2>6, <3>2 DEF TypeOK, Conclude
    <3> QED BY <3>1, <3>2
  <2>7. ASSUME NEW r \in Requests, NEW kind \in Answers, NEW leaking \in LeakStates,
               Accept(r, kind, leaking)
        PROVE  TypeOK'
    BY <2>7 DEF TypeOK, Accept
  <2>8. ASSUME NEW r \in Requests, NEW leaking \in LeakStates, Withhold(r, leaking)
        PROVE  TypeOK'
    BY <2>8, AlertType DEF TypeOK, Withhold
  <2>9. ASSUME NEW r \in Requests, Respond(r) PROVE TypeOK'
    <3>1. Leaks(r) \subseteq LeakStates /\ "none" \in LeakStates
      BY DEF Leaks, LeakStates
    <3>2. {"failed", "uninspected", "passed", "broken"} \subseteq Answers
      BY DEF Answers
    <3> QED BY <2>7, <2>8, <2>9, <3>1, <3>2
              DEF Respond, CallFails, PassUninspected, Inspect, StreamBreaks
  <2>10. ASSUME NEW r \in Requests, MarkCanaryHit(r) PROVE TypeOK'
    <3>1. log' \in [Ids -> Row \cup {NoRow}]
      BY <2>10, MarkedRow DEF TypeOK, MarkCanaryHit
    <3> QED BY <2>10, <3>1 DEF TypeOK, MarkCanaryHit
  <2>11. ASSUME NEW r \in Requests, MarkFails(r) PROVE TypeOK'
    BY <2>11 DEF TypeOK, MarkFails
  <2>12. ASSUME NEW r \in Requests, CollectTask(r) PROVE TypeOK'
    BY <2>12 DEF TypeOK, CollectTask, StartCollection, EnqueueTexts
  <2>13. CASE Tick
    BY <2>13 DEF TypeOK, Tick
  <2>14. CASE Restart
    BY <2>14 DEF TypeOK, Restart
  <2>15. CASE UNCHANGED vars
    BY <2>15 DEF TypeOK, vars
  <2> QED
    BY <2>1, <2>2, <2>3, <2>4, <2>5, <2>6, <2>9, <2>10, <2>11, <2>12, <2>13, <2>14, <2>15
    DEF Next, Arrive, Proceed, MarkTask, Quiet
<1> QED BY <1>1, <1>2, PTL DEF Spec

-------------------------------------------------------------------------------
\* The alerts of this life of the process end with the one that _alert_state
\* remembers.
AlertInv ==
    /\ \A a \in sent : a.epoch = epoch => last # Never /\ a.at <= last
    /\ last # Never => \E a \in sent : a.epoch = epoch /\ a.at = last
    /\ AlertsSpaced

\* What a step can do to the alerts: nothing, one call of alert_block, or a
\* fresh process.
LEMMA AlertSteps ==
    ASSUME [Next]_vars
    PROVE  \/ UNCHANGED <<alerting, epoch>>
           \/ \E r \in Requests : AlertBlock(r) /\ UNCHANGED <<epoch, clock>>
           \/ epoch' = epoch + 1 /\ last' = Never /\ UNCHANGED <<sent, alarm>>
<1> USE DEF vars, world, alerting
<1>1. ASSUME NEW r \in Requests, Respond(r)
      PROVE  UNCHANGED <<alerting, epoch>> \/ (AlertBlock(r) /\ UNCHANGED <<epoch, clock>>)
  BY <1>1 DEF Respond, CallFails, PassUninspected, Inspect, StreamBreaks, Accept, Withhold
<1>2. ASSUME NEW r \in Requests, Arrive(r) \/ Proceed(r)
      PROVE  UNCHANGED <<alerting, epoch>> \/ (AlertBlock(r) /\ UNCHANGED <<epoch, clock>>)
  BY <1>2 DEF Arrive, Reject, Screen, Proceed, PersistContext, PersistFails, Schedule, Conclude
<1>3. ASSUME NEW r \in Requests, MarkTask(r) \/ CollectTask(r)
      PROVE  UNCHANGED <<alerting, epoch>>
  BY <1>3 DEF MarkTask, MarkCanaryHit, MarkFails, CollectTask, StartCollection, EnqueueTexts
<1>4. CASE Tick
  BY <1>4 DEF Tick
<1>5. CASE Restart
  BY <1>5 DEF Restart
<1>6. CASE UNCHANGED vars
  BY <1>6
<1> QED BY <1>1, <1>2, <1>3, <1>4, <1>5, <1>6 DEF Next, Quiet

LEMMA AlertInvStep ==
    ASSUME TypeOK, AlertInv, [Next]_vars
    PROVE  AlertInv'
<1>1. CASE UNCHANGED <<alerting, epoch>>
  BY <1>1 DEF AlertInv, AlertsSpaced, alerting
<1>2. ASSUME NEW r \in Requests, AlertBlock(r), UNCHANGED <<epoch, clock>>
      PROVE  AlertInv'
  <2>1. CASE ~cfg.alerts \/ CoolingDown(r)
    BY <1>2, <2>1 DEF AlertInv, AlertsSpaced, AlertBlock, alerting
  <2>2. CASE cfg.alerts /\ ~CoolingDown(r)
    <3> DEFINE new == [by |-> r, at |-> clock, epoch |-> epoch]
    <3>1. last' = clock /\ sent' = sent \cup {new} /\ clock \in Nat
      BY <1>2, <2>2 DEF AlertBlock, TypeOK
    <3>2. new.at = clock /\ new.epoch = epoch
      OBVIOUS
    <3>3. ASSUME NEW a \in sent, a.epoch = epoch
          PROVE  a.at + Cooldown <= clock /\ a.at \in Nat
      <4>1. last \in Nat /\ last <= clock /\ a.at <= last /\ a.at \in Nat
        BY <3>3 DEF AlertInv, TypeOK
      <4>2. clock - last >= Cooldown
        BY <2>2, <4>1, <3>1 DEF CoolingDown
      <4> QED BY <3>1, <4>1, <4>2
    <3>4. AlertsSpaced'
      BY <1>2, <3>1, <3>2, <3>3 DEF AlertsSpaced, AlertInv
    <3>5. \A a \in sent' : a.epoch = epoch' => last' # Never /\ a.at <= last'
      BY <1>2, <3>1, <3>2, <3>3
    <3>6. \E a \in sent' : a.epoch = epoch' /\ a.at = last'
      BY <1>2, <3>1, <3>2
    <3> QED BY <3>4, <3>5, <3>6 DEF AlertInv
  <2> QED BY <2>1, <2>2
<1>3. CASE epoch' = epoch + 1 /\ last' = Never /\ UNCHANGED <<sent, alarm>>
  <2>1. \A a \in sent : a.epoch # epoch'
    BY <1>3 DEF TypeOK
  <2> QED BY <1>3, <2>1 DEF AlertInv, AlertsSpaced
<1> QED BY <1>1, <1>2, <1>3, AlertSteps

LEMMA AlertInvariant == Spec => [](TypeOK /\ AlertInv)
<1>1. Init => AlertInv
  BY DEF Init, AlertInv, AlertsSpaced
<1> QED BY <1>1, ProxyTypeOK, AlertInvStep, PTL DEF Spec

\* Two alerts of one life of the process are never closer than the cooldown.
THEOREM AlertsKeepTheirDistance == Spec => []AlertsSpaced
<1>1. AlertInv => AlertsSpaced
  BY DEF AlertInv
<1> QED BY <1>1, AlertInvariant, PTL

\* An alert is silenced only by one that is recent and of this process.
THEOREM SilencedByARecentAlert == Spec => SilenceExplained
<1> DEFINE Explained ==
      \A r \in Requests : alarm'[r] = "silenced" /\ alarm[r] # "silenced" =>
          \E a \in sent : a.epoch = epoch /\ a.at <= clock /\ clock < a.at + Cooldown
<1>1. ASSUME TypeOK, AlertInv, [Next]_vars PROVE Explained
  <2>1. CASE UNCHANGED alarm
    BY <2>1
  <2>2. ASSUME NEW q \in Requests, AlertBlock(q), ~UNCHANGED alarm PROVE Explained
    <3> SUFFICES ASSUME NEW r \in Requests, alarm'[r] = "silenced", alarm[r] # "silenced"
                 PROVE  \E a \in sent : a.epoch = epoch /\ a.at <= clock /\ clock < a.at + Cooldown
      OBVIOUS
    <3>1. CoolingDown(q)
      BY <2>2, <1>1 DEF AlertBlock, TypeOK, alerting
    <3>2. PICK a \in sent : a.epoch = epoch /\ a.at = last
      BY <3>1, <1>1 DEF AlertInv, CoolingDown
    <3>3. clock \in Nat /\ a.at \in Nat /\ a.at <= clock /\ clock - a.at < Cooldown
      BY <3>1, <3>2, <1>1 DEF CoolingDown, TypeOK
    <3> QED BY <3>2, <3>3
  <2> QED BY <1>1, <2>1, <2>2, AlertSteps DEF alerting
<1>2. TypeOK /\ AlertInv /\ [Next]_vars => [Explained]_vars
  BY <1>1
<1> QED BY <1>2, AlertInvariant, PTL DEF Spec, SilenceExplained

-------------------------------------------------------------------------------
\* A hit, its mark and a leak come with the answer; a committed row stays.
RequestInv ==
    \A r \in Requests :
        /\ hit[r] \/ leak[r] # "none" => pc[r] = "done"
        /\ mark[r] # "none" => hit[r]
        /\ stored[r] => log[id[r]] # NoRow

\* A collection that is about to choose does so before any hit, and one that has
\* chosen was right to.
CollectInv ==
    \A r \in Requests :
        /\ hit[r] => collect[r] # "scheduled"
        /\ collect[r] = "running" \/ queued[r] => Wanted(verdict[r], borderline[r])

SharedInv ==
    RequestInv /\ LogTellsTheHits /\ CollectInv /\ LeakAccounted

\* Steps that touch neither the log nor the outcome of a request.
LEMMA SharedInvFrame ==
    ASSUME TypeOK, SharedInv,
           UNCHANGED <<cfg, id, verdict, borderline, hit, leak, stored, log, queued>>,
           \A r \in Requests :
              /\ pc[r] = "done" => UNCHANGED <<pc[r], answer[r]>>
              /\ mark'[r] = mark[r] \/ (mark[r] # "none" /\ mark'[r] = "dropped")
              /\ collect'[r] = collect[r] \/ collect'[r] \in {"ended", "dropped"}
                    \/ (~hit[r] /\ collect'[r] = "scheduled")
              /\ alarm[r] # "none" => alarm'[r] # "none"
    PROVE  SharedInv'
<1>1. RequestInv'
  BY DEF SharedInv, RequestInv
<1>2. LogTellsTheHits'
  BY DEF SharedInv, LogTellsTheHits
<1>3. CollectInv'
  BY DEF SharedInv, CollectInv
<1>4. LeakAccounted'
  BY DEF SharedInv, LeakAccounted, RequestInv
<1> QED BY <1>1, <1>2, <1>3, <1>4 DEF SharedInv

LEMMA AlarmStays ==
    ASSUME NEW q \in Requests, TypeOK, AlertBlock(q)
    PROVE  /\ \A r \in Requests : alarm[r] # "none" => alarm'[r] # "none"
           /\ cfg.alerts => alarm'[q] # "none"
BY DEF AlertBlock, TypeOK, alerting

LEMMA PersistKeeps ==
    ASSUME NEW q \in Requests, TypeOK, SharedInv, PersistContext(q)
    PROVE  SharedInv'
<1> USE DEF PersistContext, Goto, world, context, tasks, alerting
<1>1. log[id[q]] = NoRow /\ id[q] \in Ids /\ ~hit[q] /\ leak[q] = "none" /\ mark[q] = "none"
  BY DEF KeyFree, SharedInv, RequestInv, TypeOK
<1>2. \A r \in Requests : stored[r] => id[r] # id[q]
  BY <1>1 DEF SharedInv, RequestInv
<1> DEFINE row == [owner |-> q, decision |-> Decision(q), hit |-> hit[q]]
<1>3. row \in Row /\ row # NoRow /\ ~row.hit
  BY <1>1, NoRowIsNoRow, DecisionType DEF Row, TypeOK
<1>4. log' = [log EXCEPT ![id[q]] = row] /\ log \in [Ids -> Row \cup {NoRow}]
  BY DEF TypeOK
<1>5. RequestInv'
  BY <1>1, <1>2, <1>3, <1>4 DEF SharedInv, RequestInv, TypeOK
<1>6. LogTellsTheHits'
  BY <1>1, <1>2, <1>3, <1>4 DEF SharedInv, LogTellsTheHits, TypeOK
<1>7. CollectInv'
  BY DEF SharedInv, CollectInv
<1>8. LeakAccounted'
  BY DEF SharedInv, LeakAccounted
<1> QED BY <1>5, <1>6, <1>7, <1>8 DEF SharedInv

LEMMA AcceptKeeps ==
    ASSUME NEW q \in Requests, NEW kind, NEW leaking \in LeakStates, TypeOK, SharedInv,
           pc[q] \in {"calling", "streaming"}, Accept(q, kind, leaking),
           leaking = "readable" => kind \in {"uninspected", "broken"}
    PROVE  SharedInv'
<1> USE DEF Accept, Give, Goto, world, context, tasks, alerting
<1>1. ~hit[q] /\ leak[q] = "none"
  BY DEF SharedInv, RequestInv
<1>2. \A r \in Requests : pc'[r] = (IF r = q THEN "done" ELSE pc[r])
                          /\ answer'[r] = (IF r = q THEN kind ELSE answer[r])
                          /\ leak'[r] = (IF r = q THEN leaking ELSE leak[r])
  BY DEF TypeOK
<1>3. RequestInv'
  BY <1>1, <1>2 DEF SharedInv, RequestInv
<1>4. LogTellsTheHits'
  BY DEF SharedInv, LogTellsTheHits
<1>5. CollectInv'
  BY DEF SharedInv, CollectInv
<1>6. LeakAccounted'
  BY <1>1, <1>2 DEF SharedInv, LeakAccounted
<1> QED BY <1>3, <1>4, <1>5, <1>6 DEF SharedInv

LEMMA WithholdKeeps ==
    ASSUME NEW q \in Requests, NEW leaking \in LeakStates, leaking # "none", TypeOK,
           SharedInv, pc[q] \in {"calling", "streaming"}, LoopTurned(q),
           Withhold(q, leaking)
    PROVE  SharedInv'
<1> USE DEF Withhold, Give, Goto, world, context
<1>1. ~hit[q] /\ leak[q] = "none" /\ mark[q] = "none"
  BY DEF SharedInv, RequestInv
<1>2. \A r \in Requests :
        /\ pc'[r] = (IF r = q THEN "done" ELSE pc[r])
        /\ answer'[r] = (IF r = q THEN "withheld" ELSE answer[r])
        /\ leak'[r] = (IF r = q THEN leaking ELSE leak[r])
        /\ hit'[r] = (IF r = q THEN TRUE ELSE hit[r])
        /\ mark'[r] = (IF r = q /\ cfg.log_requests THEN "scheduled" ELSE mark[r])
  BY DEF TypeOK
<1>3. RequestInv'
  <2>1. ASSUME NEW r \in Requests
        PROVE  /\ hit'[r] \/ leak'[r] # "none" => pc'[r] = "done"
               /\ mark'[r] # "none" => hit'[r]
    <3>1. CASE r = q
      BY <1>2, <3>1
    <3>2. CASE r # q
      <4>1. /\ pc'[r] = pc[r] /\ leak'[r] = leak[r]
            /\ hit'[r] = hit[r] /\ mark'[r] = mark[r]
        BY <1>2, <3>2
      <4> HIDE DEF Withhold
      <4> QED
        BY <4>1 DEF SharedInv, RequestInv
    <3> QED
      BY <3>1, <3>2
  <2>2. ASSUME NEW r \in Requests PROVE stored'[r] => log'[id'[r]] # NoRow
    BY DEF SharedInv, RequestInv
  <2> QED
    BY <2>1, <2>2 DEF RequestInv
<1>4. LogTellsTheHits'
  BY <1>1, <1>2 DEF SharedInv, LogTellsTheHits
<1>5. CollectInv'
  BY <1>2 DEF SharedInv, CollectInv, LoopTurned
<1>6. LeakAccounted'
  <2>1. /\ \A r \in Requests : alarm[r] # "none" => alarm'[r] # "none"
        /\ cfg.alerts => alarm'[q] # "none"
    BY AlarmStays
  <2>2. /\ hit'[q] /\ leak'[q] # "none" /\ answer'[q] = "withheld"
        /\ cfg'.log_requests => mark'[q] # "none"
        /\ cfg'.alerts => alarm'[q] # "none"
    <3>1. hit'[q] /\ leak'[q] # "none" /\ answer'[q] = "withheld" /\ cfg' = cfg
      BY <1>2
    <3>2. ASSUME cfg.log_requests PROVE mark'[q] = "scheduled"
      <4>1. mark' = [mark EXCEPT ![q] = "scheduled"]
        BY <3>2, Zenon
      <4> QED BY <4>1 DEF TypeOK
    <3> QED BY <2>1, <3>1, <3>2, Zenon
  <2>3. ASSUME NEW r \in Requests, r # q
        PROVE  /\ leak'[r] = leak[r] /\ answer'[r] = answer[r]
               /\ hit'[r] = hit[r] /\ mark'[r] = mark[r] /\ cfg' = cfg
    BY <1>2, <2>3
  <2> QED BY <2>1, <2>2, <2>3 DEF SharedInv, LeakAccounted
<1> QED BY <1>3, <1>4, <1>5, <1>6 DEF SharedInv

LEMMA MarkKeeps ==
    ASSUME NEW q \in Requests, TypeOK, SharedInv, MarkCanaryHit(q)
    PROVE  SharedInv'
<1> USE DEF MarkCanaryHit, world, context, alerting
<1>1. hit[q] /\ id[q] \in Ids
  BY DEF SharedInv, RequestInv, TypeOK
<1>2. \A i \in Ids :
        /\ i # id[q] => log'[i] = log[i]
        /\ log[i] = NoRow => log'[i] = NoRow
        /\ i = id[q] /\ log[i] # NoRow =>
              log'[i] # NoRow /\ log'[i].hit /\ log'[i].decision = "block"
  BY <1>1, MarkedRow, NoRowIsNoRow DEF Marks, TypeOK
<1>3. \A r \in Requests : mark'[r] = (IF r = q THEN "ended" ELSE mark[r])
  BY DEF TypeOK
<1>4. RequestInv'
  BY <1>1, <1>2, <1>3 DEF SharedInv, RequestInv, TypeOK
<1>5. LogTellsTheHits'
  BY <1>1, <1>2, <1>3 DEF SharedInv, RequestInv, LogTellsTheHits, TypeOK
<1>6. CollectInv'
  BY DEF SharedInv, CollectInv
<1>7. LeakAccounted'
  BY <1>3 DEF SharedInv, LeakAccounted
<1> QED BY <1>4, <1>5, <1>6, <1>7 DEF SharedInv

LEMMA CollectKeeps ==
    ASSUME NEW q \in Requests, TypeOK, SharedInv, CollectTask(q)
    PROVE  SharedInv'
<1> USE DEF world, context, alerting
<1>1. CASE StartCollection(q)
  <2> USE <1>1 DEF StartCollection
  <2>1. collect'[q] = "running" => Wanted(verdict[q], borderline[q])
    BY DEF TypeOK, SharedInv, CollectInv, Decision
  <2>2. \A r \in Requests \ {q} : collect'[r] = collect[r]
    BY DEF TypeOK
  <2>3. CollectInv'
    BY <2>1, <2>2 DEF SharedInv, CollectInv, TypeOK
  <2> QED BY <2>3 DEF SharedInv, RequestInv, LogTellsTheHits, LeakAccounted
<1>2. CASE EnqueueTexts(q)
  <2> USE <1>2 DEF EnqueueTexts
  <2>1. CollectInv'
    BY DEF SharedInv, CollectInv, TypeOK
  <2> QED BY <2>1 DEF SharedInv, RequestInv, LogTellsTheHits, LeakAccounted
<1> QED BY <1>1, <1>2 DEF CollectTask

LEMMA SharedInvStep ==
    ASSUME TypeOK, SharedInv, [Next]_vars
    PROVE  SharedInv'
<1> USE DEF vars, world, context, tasks
<1>1. ASSUME NEW q \in Requests, Arrive(q) PROVE SharedInv'
  BY <1>1, SharedInvFrame DEF Arrive, Reject, Screen, Give, Goto, alerting, TypeOK
<1>2. ASSUME NEW q \in Requests, PersistFails(q) PROVE SharedInv'
  BY <1>2, SharedInvFrame DEF PersistFails, Goto, alerting, TypeOK
<1>3. ASSUME NEW q \in Requests, Schedule(q) PROVE SharedInv'
  <2>1. ~hit[q]
    BY <1>3 DEF Schedule, SharedInv, RequestInv
  <2>2. \A r \in Requests : collect'[r] = collect[r] \/ (~hit[r] /\ collect'[r] = "scheduled")
    BY <1>3, <2>1 DEF Schedule, TypeOK
  <2> QED BY <1>3, <2>2, SharedInvFrame DEF Schedule, Goto, alerting, TypeOK
<1>4. ASSUME NEW q \in Requests, Conclude(q) PROVE SharedInv'
  <2>1. \A r \in Requests : alarm[r] # "none" => alarm'[r] # "none"
    BY <1>4, AlarmStays DEF Conclude, alerting
  <2>2. \A r \in Requests : pc[r] = "done" => UNCHANGED <<pc[r], answer[r]>>
    BY <1>4 DEF Conclude, Give, Goto, TypeOK
  <2> QED BY <1>4, <2>1, <2>2, SharedInvFrame DEF Conclude
<1>5. ASSUME NEW q \in Requests, Respond(q) PROVE SharedInv'
  <2>1. pc[q] \in {"calling", "streaming"} /\ LoopTurned(q)
    BY <1>5 DEF Respond, CallFails, PassUninspected, Inspect, StreamBreaks
  <2>2. \A leaking \in Leaks(q) : leaking \in LeakStates /\ (leaking # "none" => Searched(q))
    BY DEF Leaks, Searched
  <2>3. CASE CallFails(q)
    BY <2>1, <2>3, AcceptKeeps DEF CallFails, LeakStates
  <2>4. CASE PassUninspected(q)
    BY <2>1, <2>2, <2>4, AcceptKeeps DEF PassUninspected
  <2>5. CASE Inspect(q)
    <3>1. PICK leaking \in Leaks(q) :
              \/ leaking # "none" /\ Searched(q) /\ Withhold(q, leaking)
              \/ (leaking = "readable" => ~Searched(q)) /\ Accept(q, "passed", leaking)
      BY <2>5 DEF Inspect
    <3> QED BY <2>1, <2>2, <3>1, AcceptKeeps, WithholdKeeps
  <2>6. CASE StreamBreaks(q)
    BY <2>1, <2>2, <2>6, AcceptKeeps DEF StreamBreaks
  <2> QED BY <1>5, <2>3, <2>4, <2>5, <2>6 DEF Respond
<1>6. ASSUME NEW q \in Requests, MarkFails(q) PROVE SharedInv'
  BY <1>6, SharedInvFrame DEF MarkFails, alerting, TypeOK
<1>7. CASE Tick
  BY <1>7, SharedInvFrame DEF Tick, alerting
<1>8. CASE Restart
  <2>1. \A r \in Requests :
          /\ pc[r] = "done" => UNCHANGED <<pc[r], answer[r]>>
          /\ mark'[r] = mark[r] \/ (mark[r] # "none" /\ mark'[r] = "dropped")
          /\ collect'[r] = collect[r] \/ collect'[r] = "dropped"
    BY <1>8 DEF Restart, TypeOK
  <2> QED BY <1>8, <2>1, SharedInvFrame DEF Restart
<1>9. CASE UNCHANGED vars
  BY <1>9, SharedInvFrame DEF alerting
<1> QED
  BY <1>1, <1>2, <1>3, <1>4, <1>5, <1>6, <1>7, <1>8, <1>9, PersistKeeps, MarkKeeps, CollectKeeps
  DEF Next, Proceed, MarkTask, Quiet

LEMMA SharedInvariant == Spec => []SharedInv
<1>1. Init => SharedInv
  BY DEF Init, SharedInv, RequestInv, LogTellsTheHits, CollectInv, LeakAccounted
<1> QED BY <1>1, SharedInvStep, ProxyTypeOK, PTL DEF Spec

\* The log says "hit" of no id without a hit, and misses none whose mark was
\* written, with any number of requests under one id.
THEOREM LogIsTruthful == Spec => []LogTellsTheHits
<1>1. SharedInv => LogTellsTheHits
  BY DEF SharedInv
<1> QED BY <1>1, SharedInvariant, PTL

\* A leak in what the guard puts together, and any hit, reaches client, log and
\* alerts; a token in other fields of a stream may pass unnoticed.
THEOREM LeaksAreAccounted == Spec => []LeakAccounted
<1>1. SharedInv => LeakAccounted
  BY DEF SharedInv
<1> QED BY <1>1, SharedInvariant, PTL

\* Only texts of flagged requests are collected for training.
THEOREM OnlyFlaggedCollected == Spec => []CollectedWereFlagged
<1>1. SharedInv => CollectedWereFlagged
  BY DEF SharedInv, CollectInv, CollectedWereFlagged
<1> QED BY <1>1, SharedInvariant, PTL
===============================================================================
