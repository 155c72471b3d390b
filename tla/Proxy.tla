-------------------------------- MODULE Proxy --------------------------------
(***************************************************************************)
(* What the requests of one proxy process share: the request log, the      *)
(* alert cooldown and the event loop with its background tasks.  A request *)
(* runs from the end of its layers (Pipeline models those) through the     *)
(* best-effort records of run_pre_inference, the upstream call and the     *)
(* output guard to the client's answer.  Every await is a point where      *)
(* another request or a task may run; the process may restart at any time. *)
(***************************************************************************)
EXTENDS Naturals

CONSTANTS
    Requests,
    Ids,         \* values of x-request-id, which the client may choose
    IdChoices,   \* the ids the requests may come with
    Verdicts,    \* decisions the layers can reach
    Configs,     \* settings the process may be started with
    NoRow,       \* no row in request_logs has this id
    Never,       \* no alert since the process started
    Cooldown,    \* _ALERT_COOLDOWN_SECONDS
    MaxClock,    \* bound: ticks of time.monotonic
    MaxRestarts  \* bound: restarts of the process

\* canary: the output guard and its token are on, so every request that is
\* sent upstream carries one (Pipeline, ForwardedCarriesCanary).
Switches ==
    [log_requests : BOOLEAN, retrain : BOOLEAN, alerts : BOOLEAN, canary : BOOLEAN]

ASSUME ProxyTyped ==
    /\ Configs \subseteq Switches
    /\ IdChoices \subseteq [Requests -> Ids]
    /\ "block" \in Verdicts
    /\ Cooldown \in Nat /\ MaxClock \in Nat /\ MaxRestarts \in Nat
    /\ Never \notin Nat

VARIABLES
    cfg,         \* the settings
    clock,       \* time.monotonic()
    epoch,       \* restarts so far
    pc,          \* where each request is
    id,          \* its request_id
    verdict,     \* the decision its layers ended with
    borderline,  \* its confidence reaches retrain_borderline_min
    stored,      \* its insert into request_logs was committed
    leak,        \* where what upstream sent holds the canary token
    hit,         \* ctx.canary_hit
    answer,      \* what the client got
    log,         \* request_logs, by id
    mark,        \* its mark_canary_hit task
    collect,     \* its collect_from_context task
    queued,      \* the collection has enqueued a text
    alarm,       \* its alert
    last,        \* _alert_state["last"]
    sent         \* all alerts raised, with their times

context == <<id, verdict, borderline>>
tasks == <<mark, collect, queued>>
alerting == <<alarm, last, sent>>
world == <<cfg, clock, epoch>>
vars == <<world, context, pc, stored, leak, hit, answer, log, tasks, alerting>>

Row == [owner : Requests, decision : Verdicts, hit : BOOLEAN]
ASSUME NoRowIsNoRow == NoRow \notin Row

Stages == {"idle", "persisting", "decided", "attributing", "calling", "streaming", "done"}
Answers == {"none", "rejected", "blocked", "failed", "uninspected", "passed",
            "withheld", "broken", "lost"}
TaskStates == {"none", "scheduled", "running", "ended", "dropped"}
AlarmStates == {"none", "silenced", "raised"}

\* "readable"  in what the guard puts together: the whole of a JSON payload, the
\*             text reassemble_stream_text finds in a stream
\* "hidden"    in a stream, but only in fields that function does not read
LeakStates == {"none", "readable", "hidden"}

TypeOK ==
    /\ cfg \in Configs
    /\ clock \in 0..MaxClock /\ epoch \in 0..MaxRestarts
    /\ pc \in [Requests -> Stages]
    /\ id \in [Requests -> Ids]
    /\ verdict \in [Requests -> Verdicts]
    /\ borderline \in [Requests -> BOOLEAN]
    /\ stored \in [Requests -> BOOLEAN]
    /\ leak \in [Requests -> LeakStates]
    /\ hit \in [Requests -> BOOLEAN]
    /\ answer \in [Requests -> Answers]
    /\ log \in [Ids -> Row \cup {NoRow}]
    /\ mark \in [Requests -> TaskStates]
    /\ collect \in [Requests -> TaskStates]
    /\ queued \in [Requests -> BOOLEAN]
    /\ alarm \in [Requests -> AlarmStates]
    /\ last \in (0..clock) \cup {Never}
    /\ sent \subseteq [by : Requests, at : 0..clock, epoch : 0..epoch]

Init ==
    /\ cfg \in Configs
    /\ clock = 0 /\ epoch = 0
    /\ pc = [r \in Requests |-> "idle"]
    /\ id \in IdChoices
    /\ verdict \in [Requests -> Verdicts]
    /\ borderline \in [Requests -> BOOLEAN]
    /\ \A r \in Requests : borderline[r] => verdict[r] = "log"
    /\ stored = [r \in Requests |-> FALSE]
    /\ leak = [r \in Requests |-> "none"]
    /\ hit = [r \in Requests |-> FALSE]
    /\ answer = [r \in Requests |-> "none"]
    /\ log = [i \in Ids |-> NoRow]
    /\ mark = [r \in Requests |-> "none"]
    /\ collect = [r \in Requests |-> "none"]
    /\ queued = [r \in Requests |-> FALSE]
    /\ alarm = [r \in Requests |-> "none"]
    /\ last = Never
    /\ sent = {}

-------------------------------------------------------------------------------
Goto(r, stage) == pc' = [pc EXCEPT ![r] = stage]

Give(r, kind) ==
    /\ answer' = [answer EXCEPT ![r] = kind]
    /\ Goto(r, "done")

\* ctx.decision, which a canary hit overwrites.
Decision(r) == IF hit[r] THEN "block" ELSE verdict[r]

\* 400 for a body that is not JSON or lacks messages; nothing is recorded.
Reject(r) ==
    /\ pc[r] = "idle"
    /\ Give(r, "rejected")
    /\ UNCHANGED <<world, context, stored, leak, hit, log, tasks, alerting>>

\* The layers have run.  They catch their own errors, so the 503 of the routes
\* needs no action of its own.
Screen(r) ==
    /\ pc[r] = "idle"
    /\ Goto(r, IF cfg.log_requests THEN "persisting" ELSE "decided")
    /\ UNCHANGED <<world, context, stored, leak, hit, answer, log, tasks, alerting>>

\* session.merge instead of session.add: the later request takes the row over.
Bug_KeyFree(r) == TRUE

\* request_logs.id is the primary key, and it is the client's x-request-id.
KeyFree(r) == log[id[r]] = NoRow

\* The row and its detections are committed in one transaction.
PersistContext(r) ==
    /\ pc[r] = "persisting"
    /\ KeyFree(r)
    /\ log' = [log EXCEPT ![id[r]] =
                  [owner |-> r, decision |-> Decision(r), hit |-> hit[r]]]
    /\ stored' = [stored EXCEPT ![r] = TRUE]
    /\ Goto(r, "decided")
    /\ UNCHANGED <<world, context, leak, hit, answer, tasks, alerting>>

\* Trying again until the insert succeeds.
Bug_AfterFailedInsert == "persisting"

\* "Best-effort": the failure is logged and the request goes on.
AfterFailedInsert == "decided"

\* A repeated id, or any database error.
PersistFails(r) ==
    /\ pc[r] = "persisting"
    /\ Goto(r, AfterFailedInsert)
    /\ UNCHANGED <<world, context, stored, leak, hit, answer, log, tasks, alerting>>

-------------------------------------------------------------------------------
\* A cooldown of its own for every request id, as the docstring has it.
Bug_CoolingDown(r) ==
    \E q \in Requests \ {r} :
        id[q] = id[r] /\ alarm[q] = "raised" /\ last # Never /\ clock - last < Cooldown

\* Silent for one second too long.
Bug_CoolingDownInclusive(r) == last # Never /\ clock - last <= Cooldown

\* last is not None and now - last < _ALERT_COOLDOWN_SECONDS
CoolingDown(r) == last # Never /\ clock - last < Cooldown

\* alert_block; should_alert is a matter of the settings alone.  The task that
\* posts the alert changes nothing here, not even when the post fails.
AlertBlock(r) ==
    IF ~cfg.alerts THEN UNCHANGED alerting
    ELSE IF CoolingDown(r)
    THEN /\ alarm' = [alarm EXCEPT ![r] = "silenced"]
         /\ UNCHANGED <<last, sent>>
    ELSE /\ alarm' = [alarm EXCEPT ![r] = "raised"]
         /\ last' = clock
         /\ sent' = sent \cup {[by |-> r, at |-> clock, epoch |-> epoch]}

\* After the records the collection is scheduled.  The attributions are
\* persisted next (xai_store_enabled), which gives other tasks a turn before
\* the alert; what is persisted is read by nobody here.
Schedule(r) ==
    /\ pc[r] = "decided"
    /\ collect' = IF cfg.retrain THEN [collect EXCEPT ![r] = "scheduled"] ELSE collect
    /\ Goto(r, "attributing")
    /\ UNCHANGED <<world, context, stored, leak, hit, answer, log, mark, queued, alerting>>

\* The end of run_pre_inference and the route's reaction: alert on a block,
\* answer or call.
Conclude(r) ==
    /\ pc[r] = "attributing"
    /\ IF verdict[r] = "block"
       THEN AlertBlock(r) /\ Give(r, "blocked")
       ELSE /\ \E stage \in {"calling", "streaming"} : Goto(r, stage)
            /\ UNCHANGED <<answer, alerting>>
    /\ UNCHANGED <<world, context, stored, leak, hit, log, tasks>>

-------------------------------------------------------------------------------
\* A collection that is put off, not run in the next turn of the event loop.
Bug_LoopTurned(r) == TRUE

\* The task scheduled before the call was made has had its first turn when
\* the answer of that call comes in over the network.
LoopTurned(r) == collect[r] # "scheduled"

\* An upstream answer in which check_output finds nothing, or is not asked.
Accept(r, kind, leaking) ==
    /\ leak' = [leak EXCEPT ![r] = leaking]
    /\ Give(r, kind)
    /\ UNCHANGED <<world, context, stored, hit, log, tasks, alerting>>

\* PipelineOrchestrator.check_output on a leak: the hit and the block are in
\* the context at once, in the database only when the task has run.
Withhold(r, leaking) ==
    /\ leak' = [leak EXCEPT ![r] = leaking]
    /\ hit' = [hit EXCEPT ![r] = TRUE]
    /\ mark' = IF cfg.log_requests THEN [mark EXCEPT ![r] = "scheduled"] ELSE mark
    /\ AlertBlock(r)
    /\ Give(r, "withheld")
    /\ UNCHANGED <<world, context, stored, log, collect, queued>>

\* Upstream can repeat only a token it was sent.
Leaks(r) ==
    {l \in LeakStates : /\ l # "none" => cfg.canary
                        /\ l = "hidden" => pc[r] = "streaming"}

\* 504 or 502
CallFails(r) ==
    /\ pc[r] = "calling" /\ LoopTurned(r)
    /\ Accept(r, "failed", "none")

\* A status of 400 and above, or a body that is not JSON, is passed on as it
\* is, whatever it holds.
PassUninspected(r) ==
    /\ pc[r] = "calling" /\ LoopTurned(r)
    /\ \E leaking \in Leaks(r) : Accept(r, "uninspected", leaking)

\* Asking only for requests that were flagged.
Bug_Searched(r) == cfg.canary /\ borderline[r]

\* check_output has a token to search for.
Searched(r) == cfg.canary

\* The complete JSON payload, or the text of a stream that upstream ended.  The
\* rolling window over the bytes of a stream may meet a hidden token as well, or
\* lose it (StreamGuard).
Inspect(r) ==
    /\ pc[r] \in {"calling", "streaming"} /\ LoopTurned(r)
    /\ \E leaking \in Leaks(r) :
          \/ leaking # "none" /\ Searched(r) /\ Withhold(r, leaking)
          \/ (leaking = "readable" => ~Searched(r)) /\ Accept(r, "passed", leaking)

\* Upstream breaks off, the client leaves, or the events cannot be read: the
\* guard is not asked, so that it does not matter where the token is.
StreamBreaks(r) ==
    /\ pc[r] = "streaming" /\ LoopTurned(r)
    /\ \E leaking \in Leaks(r) \ {"hidden"} : Accept(r, "broken", leaking)

-------------------------------------------------------------------------------
\* An UPDATE without its WHERE clause.
Bug_Marks(r, i) == TRUE

\* WHERE id = request_id
Marks(r, i) == i = id[r]

\* The flag's name for the decision.
Bug_MarkedAs == "canary_hit"

\* values(canary_hit=True, decision="block")
MarkedAs == "block"

Marked(row) == [row EXCEPT !.hit = TRUE, !.decision = MarkedAs]

\* mark_canary_hit updates whatever row has the id, or none.
MarkCanaryHit(r) ==
    /\ mark[r] = "scheduled"
    /\ log' = [i \in Ids |->
                  IF Marks(r, i) /\ log[i] # NoRow THEN Marked(log[i]) ELSE log[i]]
    /\ mark' = [mark EXCEPT ![r] = "ended"]
    /\ UNCHANGED <<world, context, pc, stored, leak, hit, answer, collect, queued, alerting>>

MarkFails(r) ==
    /\ mark[r] = "scheduled"
    /\ mark' = [mark EXCEPT ![r] = "dropped"]
    /\ UNCHANGED <<world, context, pc, stored, leak, hit, answer, log, collect, queued, alerting>>

\* wants_borderline
Wanted(decision, nearly) == decision # "allow" /\ (decision = "log" => nearly)

\* The first turn of collect_from_context.
StartCollection(r) ==
    /\ collect[r] = "scheduled"
    /\ collect' = [collect EXCEPT ![r] =
                      IF Wanted(Decision(r), borderline[r]) THEN "running" ELSE "ended"]
    /\ UNCHANGED <<world, context, pc, stored, leak, hit, answer, log, mark, queued, alerting>>

\* The rest of it: RetrainQueue models the statements of each enqueue, any of
\* which may drop the text.
EnqueueTexts(r) ==
    /\ collect[r] = "running"
    /\ \E accepted \in BOOLEAN : queued' = [queued EXCEPT ![r] = accepted]
    /\ collect' = [collect EXCEPT ![r] = "ended"]
    /\ UNCHANGED <<world, context, pc, stored, leak, hit, answer, log, mark, alerting>>

-------------------------------------------------------------------------------
Tick ==
    /\ clock < MaxClock
    /\ clock' = clock + 1
    /\ UNCHANGED <<cfg, epoch, context, pc, stored, leak, hit, answer, log, tasks, alerting>>

\* The process ends and starts again: requests and tasks are gone, the module
\* variables are new, the table is not.
Restart ==
    /\ epoch < MaxRestarts
    /\ epoch' = epoch + 1
    /\ pc' = [r \in Requests |-> IF pc[r] = "idle" THEN "idle" ELSE "done"]
    /\ answer' = [r \in Requests |->
                     IF pc[r] \in {"idle", "done"} THEN answer[r] ELSE "lost"]
    /\ mark' = [r \in Requests |-> IF mark[r] = "scheduled" THEN "dropped" ELSE mark[r]]
    /\ collect' = [r \in Requests |->
                      IF collect[r] \in {"scheduled", "running"} THEN "dropped" ELSE collect[r]]
    /\ last' = Never
    /\ UNCHANGED <<cfg, clock, context, stored, leak, hit, log, queued, alarm, sent>>

Arrive(r) == Reject(r) \/ Screen(r)
Proceed(r) == PersistContext(r) \/ PersistFails(r) \/ Schedule(r) \/ Conclude(r)
Respond(r) == CallFails(r) \/ PassUninspected(r) \/ Inspect(r) \/ StreamBreaks(r)
MarkTask(r) == MarkCanaryHit(r) \/ MarkFails(r)
CollectTask(r) == StartCollection(r) \/ EnqueueTexts(r)

Quiet == (\A r \in Requests : pc[r] = "done") /\ UNCHANGED vars

Next ==
    \/ \E r \in Requests :
          Arrive(r) \/ Proceed(r) \/ Respond(r) \/ MarkTask(r) \/ CollectTask(r)
    \/ Tick \/ Restart \/ Quiet

\* The event loop runs every task that is ready, and the upstream call has a
\* timeout.
Fairness ==
    \A r \in Requests :
        /\ WF_vars(Proceed(r)) /\ WF_vars(Respond(r))
        /\ WF_vars(MarkTask(r)) /\ WF_vars(CollectTask(r))

Spec == Init /\ [][Next]_vars /\ Fairness

-------------------------------------------------------------------------------
\* The request log tells exactly the canary hits, as far as it got them: a row
\* is marked only if a request with its id was hit, and once the mark of a hit
\* request has been written its row says so, whatever other requests with the
\* same id, failed inserts and restarts do.
LogTellsTheHits ==
    /\ \A i \in Ids : log[i] # NoRow /\ log[i].hit => \E r \in Requests : id[r] = i /\ hit[r]
    /\ \A r \in Requests :
          stored[r] /\ mark[r] = "ended" => log[id[r]].hit /\ log[id[r]].decision = "block"

\* Within one life of the process two alerts are at least the cooldown apart,
\* however many requests are blocked or hit at the same time.
AlertsSpaced ==
    \A a, b \in sent :
        a # b /\ a.epoch = b.epoch => a.at >= b.at + Cooldown \/ b.at >= a.at + Cooldown

\* An alert is withheld only while another one is less than the cooldown old:
\* silencing does not prolong the silence, a restart ends it.
SilenceExplained ==
    [][\A r \in Requests : alarm'[r] = "silenced" /\ alarm[r] # "silenced" =>
          \E a \in sent : a.epoch = epoch /\ a.at <= clock /\ clock < a.at + Cooldown]_vars

\* No leak gets lost between the guard, the log and the alerts.  A leak the guard
\* can read, unless the provider called its answer an error, sent no JSON, or the
\* exchange broke off, and any other leak that was a hit: the client is told so,
\* the row's mark is on its way or decided, and an alert was raised or silenced.
\* A hidden leak of a stream may pass without a trace.
LeakAccounted ==
    \A r \in Requests :
        hit[r] \/ (leak[r] = "readable" /\ answer[r] \notin {"uninspected", "broken"}) =>
            /\ hit[r] /\ leak[r] # "none" /\ answer[r] = "withheld"
            /\ cfg.log_requests => mark[r] # "none"
            /\ cfg.alerts => alarm[r] # "none"

\* Only requests the layers flagged reach the retrain queue: a canary hit turns
\* ctx.decision into a block while the collection runs, but not before it chose.
CollectedWereFlagged ==
    \A r \in Requests : queued[r] => Wanted(verdict[r], borderline[r])

\* Every request that passed validation is answered, and every hit leaves the
\* scheduled state, even when all database writes fail.
RequestsSettle ==
    \A r \in Requests :
        pc[r] \in Stages \ {"idle", "done"} \/ mark[r] = "scheduled"
            ~> pc[r] = "done" /\ mark[r] # "scheduled"
===============================================================================
