# TLA+ models of the LLM firewall

waf4llm is a proxy in front of an OpenAI-compatible provider. It inspects every
request through a chain of layers, forwards it (possibly rewritten), watches the
response for a planted canary token, and collects blocked texts so that the
classifier can be retrained. This directory holds TLA+ modules translated from
the Python source, the TLC configurations that check them on small instances, and
TLAPS proofs of the central results for every value of the constants.

Paths below are relative to the repository; `src/...` is its source directory.

## 1. Inventory

| Component | State | Operations | Talks to |
|---|---|---|---|
| orchestrator, `src/pipeline/orchestrator.py` | the `RequestContext`: results, decision, confidence, rewritten messages | `run_pre_inference`: run each enabled layer, leave early on a block, spotlight | all layers, the routes |
| provenance and spotlighting, `provenance.py` | segments with a tag, nonce | tag messages and top-level fields; wrap external text in delimiters; append excluded-aware top-level segments | orchestrator, decision |
| normalizer, `normalizer.py` | decoded text of each segment | decode and strip obfuscation | heuristic, classifier |
| heuristic, `heuristic.py` | rules read from a file, reloaded when it changes | score each segment | decision |
| classifier, `classifier.py` | one shared model, `_loaded`, a lock | load once (ONNX or transformers), score segments in worker threads | executor pool, registry |
| multi-turn window, `multiturn.py` | none between requests | sliding, decayed sum over the turns of one conversation | classifier |
| decision, `decision.py` | none | strongest result, map score to level, sanitize or exclude | orchestrator |
| output guard, `output_guard.py` | canary token of the request | inject the token; search the response text | routes |
| streaming routes, `src/proxy/routes.py`, `streaming.py` | rolling window, collected chunks | forward, hold back, reassemble, report | upstream, guard |
| non-streaming routes, `routes.py` | none of their own; background tasks on the event loop | call upstream, search, pass on or withhold | upstream, guard, request log, alerts |
| upstream client, `upstream.py` | shared HTTP client | build the body, post, stream | provider |
| settings, `src/config/settings.py` | toggles, thresholds, fail mode | validation of the thresholds' order | every layer |
| collector, `src/retrain/collector.py` | the retrain table | enqueue after a duplicate and a cap check | database |
| dataset build, `dataset.py` | `train.jsonl`, `val.jsonl` | load queue and corpora, deduplicate, split, write, mark consumed | database, files |
| registry, `registry.py` | `models/registry.json`, model directories | register, promote, remove | files |
| request log, `src/db/log_writer.py` | one row per request id, which the client may choose | insert, mark a canary hit later | database |
| alerts, `src/observability/alerts.py` | one cooldown per process | send to a webhook | routes |
| explanations, training, application, dashboard, benchmarks | - | - | - |

### What is hard to get right

* **Failure between two assignments.** A layer that raises has already changed part
  of the context; the fail mode then decides. `Pipeline` models each such point, among
  them the deep copies, which an ordinary message can exhaust.
* **Order of rewrites.** The message list is rewritten by the decision, the canary
  injection and the final spotlighting, each unaware of the others.
* **Two definitions of one notion.** Tagging and wrapping disagree about what is
  external; a layer's label is mapped again by the engine from its score;
  the decision is taken on the strongest result and carried out on the first one.
* **Chunk boundaries.** A token may be cut at any byte, split over events, or be
  followed by so much text in one chunk that it leaves the window unsearched.
* **Shared lazy loading.** Three looks at `_loaded`, a lock taken inside pool
  threads, and requests that are scored in the same pool.
* **Check-then-act on the database and on files.** Counts and inserts, loads and
  saves, writes and marks are separate steps of unsynchronised tasks and processes,
  each of which may die between two of them.
* **State of the process and state of the table.** Rows are found again by an id the
  client chose; the alert cooldown is one variable for all requests and does not
  survive a restart; tasks scheduled for a request run after it has gone on.
* **Reload while somebody edits.** The rules file is checked, dated and read in three
  system calls.
* **Two measures of one risk.** The multi-turn window has a decayed sum and a count,
  and gives way to the best single score when that is higher.

### What makes each component correct

* pipeline: nothing a detector blocked is sent; a score at the block threshold is a
  403; an excluded segment stays out; external data is wrapped and explained; the
  canary survives and is not repeated; what is sent carries the level of its strongest
  score; later steps only raise the decision.
* stream: no complete token reaches the client; every leak found late is reported;
  a withheld chunk is accounted for; clean responses pass untouched.
* classifier: one load, no use of a half-loaded model, every request answered.
* retrain queue: the cap and the duplicate check fail by a bounded amount only; no
  report displaces an earlier one of the same text; no dataset teaches two labels for
  one text.
* routes, request log, alerts: no leak the guard can read gets lost between guard, log
  and alerts; the log
  marks hits and nothing else; alerts keep their distance and none is silenced without
  reason; only flagged requests are collected; every request is answered.
* rules file: some rules are always in force, and no save is missed.
* multi-turn window: it holds the last risky turns; three middling ones never pass;
  more risk never means a lower level.
* registry: never two production versions; listed versions have files; a promotion
  is not undone by a sequential command.

`PROJECT.json` lists every hazard at its line with the properties that cover it,
and every component with what is left out of it.

## 2. Modules

| Module | Models |
|---|---|
| `WafTypes` | decision levels, their severity, thresholds and `LevelFor` (`src/pipeline/base.py`, `src/config/settings.py`) |
| `WafContract` | what the request side promises of its detectors, without layers: evidence accumulates, an alarm is never taken back, a request is released only at the level its evidence calls for |
| `Pipeline` | one request through all layers, to the upstream call |
| `StreamGuard` | one streamed response |
| `ClassifierLoader` | the shared classifier: load, lock, pool, scoring |
| `Registry` | registry commands as concurrent processes on one JSON file |
| `RetrainQueue` | enqueues and dataset builds on one table |
| `Proxy` | what concurrent requests share: log rows, background tasks, alerts, restarts of the process |
| `RulesFile` | the heuristic's rules file, reloaded while it is edited |
| `Multiturn` | aggregation of the segments' scores and the sliding window of one request |
| `MC*` | small instances for TLC; `MCDetectors` holds `RulesFile` and `Multiturn` |
| `OrderLemmas` | least and greatest element of a non-empty finite set of naturals; sums of naturals over a range |
| `DetectorProofs` | theorems about `RulesFile` and `Multiturn` |
| other `*Proofs` | theorems about the module they are named after |

Definitions named `Bug_...` next to a definition are deliberate mutations of it, one
per checked property. No specification uses them; they show that the property can
tell the code from a plausible wrong version of it. `PROJECT.json` pairs them up.

### Pipeline

State: `cfg` (settings), `body` (the request), `pc` (the orchestrator's next
step) and the fields of the request context. A message is its position; of its
content only three facts remain: whether it is an object, how much of its text is inside
the delimiters, and which notes of the firewall it carries. Its kind stands for the
role, metadata and content that later code tells apart:

* `bad` and `void` are entries that are not objects. `dict(m)`, with which sanitize and
  exclude copy, refuses the first and makes an object of the second (`[]`, `""`).
  Lists of pairs that would spell a role are not among the inputs.
* `hid` is external content that tagging recognises and wrapping does not, `over` the
  reverse; `mute` is a system message without a text.
* `part` is external content in a list of mixed form: only its parts with a `text` get
  delimiters (`Wrapping`), bare strings and other objects stay outside.

Any object may be `deep`: a field of it is nested so far that `deepcopy` may raise a
`RecursionError`. Whether it does depends on the stack in use at the call, so each
copy may fail or not (`MayOverflow`). Such a message can still be read and sent.
Messages that carry the proxy's own marker `_waf_segment_index` are not among the
inputs. Scores are small naturals, free for every segment: the model makes no claim
about what the detectors find, only about what happens with it.

The contract's evidence and alarm are those of the detectors. A block that the decision
layer or the output guard ends in because it raised is not part of it; what becomes of
those is the run `pipeline_failclosed`.

| Action | Code |
|---|---|
| `Provenance`, `Normalizer`, `Heuristic`, `Classifier` | `_run_layer` with that layer, and the loop's reaction |
| `LayerFailed` | the `except` of `_run_layer` with the fail mode, and the classifier's own failure results |
| `LayerDisabled`, `GuardDisabled` | `_should_run` |
| `Decide` | `DecisionEngine.process`: decide and apply_sanitization |
| `DecideRaised` | the same when copying a message raises after the decision was stored: `dict(m)`, or the wrapper's deep copy |
| `InjectCanary`, `InjectRaised`, `GuardWithoutCanary` | `OutputGuardLayer.process` |
| `AlwaysSpotlight`, `SpotlightRaised`, `SpotlightSkipped` | `always_spotlight_ret_tool` and its caller |
| `Respond` | the routes up to the upstream request: 403, 502 or sent |

### StreamGuard

A body is its length, the end positions of verbatim tokens in its bytes, and two
facts about its reassembled text: whether it holds the token, and whether some event
makes the reassembly raise. The two views of the token are independent, as they are
in the code: a token can be verbatim in the bytes without being in the text, and in
the text without ever being verbatim. The rolling window is a pair of positions.
Chunks of any length up to `MaxChunk` arrive until upstream ends, refuses, times
out or breaks, or the client leaves.

### ClassifierLoader

One process per request, one step per read or write of the shared fields, so that
every interleaving of the three looks at `_loaded` with the stages of the load
exists. A request occupies one of `Workers` threads while it loads, waits for the
lock, or is scored. Which queued job a free thread takes is left open. Moving the model
to its device may fail, which the loader suppresses: it then goes on with the model where
it is (`placed = "unmoved"`). `model.eval()` is taken not to raise.

### Registry

Every command is an operating-system process: `LoadIndex` reads the file and checks,
`OpenIndex` truncates it, `WriteIndex` writes the copy, `RemoveTree` deletes files,
and `Crash` can follow any of them. A truncated or torn file loads as an empty
index, because `_load` returns one on a decoding error. `over` records that another
process wrote to a file which this one still has open: the shorter text then leaves
a tail of the longer one.

### RetrainQueue

`CheckDuplicate`, `CheckCap` and `InsertRow` are the three statements of `enqueue`,
each in its own step; `EnqueueFails` is the swallowed database error. A build is
`LoadQueue`, `WriteDataset`, `MarkConsumed` or `MarkFails`, and `BuildCrashes`.
Marking selects rows by text, as the `UPDATE` does, not by the rows that were read.
What a build has loaded is a function from positions: pending rows keep their place in
the table, the corpora follow after its end. Only the order matters to `dedupe`.

### Proxy

A request enters where `Pipeline` leaves it, with a verdict and with the fact whether
its confidence is borderline, and takes the remaining awaits one by one:

| Action | Code |
|---|---|
| `Reject`, `Screen` | validation of the body; the layers have run |
| `PersistContext`, `PersistFails` | `persist_context`: one row under the client's id, or a swallowed error |
| `Schedule` | `run_pre_inference` creates the collection task |
| `Conclude` | the route: alert and 403 on a block, otherwise the upstream call |
| `CallFails`, `PassUninspected`, `Inspect`, `StreamBreaks` | what comes back: 502 or 504, an error or a body that is not JSON, a payload or stream the guard searches, a stream that breaks off |
| `MarkCanaryHit`, `MarkFails` | the task `check_output` creates for a hit |
| `StartCollection`, `EnqueueTexts` | `collect_from_context`: choose, then enqueue |
| `Restart` | requests, tasks and `_alert_state` are lost, the table stays |

Every await is a point where another request or task may run. `LoopTurned` states the
one thing the event loop guarantees about order: a task created before an upstream call
has had its first turn when that call's answer arrives. `alert_block` has no await and
is one step. Whether upstream's answer leaks is free, and where: `readable` is a token in
what the guard puts together, the whole of a JSON payload or the text
`reassemble_stream_text` finds; `hidden` one in a stream but in other fields only, which
nothing but the rolling window over the bytes can meet. The model lets a hidden token pass
or be withheld; `StreamGuard` tells when.

### RulesFile

`Exists`, `Stat`, `ReadText` and `Install` are the system calls of
`_load_rules_if_needed`; `Save`, `Delete` and `FileTick` happen between any two of them.
A torn save is two saves. A save takes the time of the clock, so two saves within a tick
have the same time; `shadowed` records when that hides a usable version.

### Multiturn

Turns arrive one at a time; the window slides as the `deque` does, and what the
classifier reports (`FinalConf`, `ResultLevel`), and what the decision layer makes of the
report (`PolicyLevel`), are functions of turns and window. The
arithmetic is exact: scores in twentieths, confidences in units of 20^-6. What the window
should hold is stated without it: `LastTurns` picks the risky turns whose rank, counted
from the latest, is at most the window's size.

`CrescendoIsHeavy` and `EscalationIsHeavy` are the conditions on window and thresholds
under which two of the three properties hold: the three oldest weights of the window,
times the middling score, reach the sanitize threshold; and the cumulative threshold is
not below it. They follow from no check in `settings.py` or `multiturn.py`; section 4
says for which parameters they hold.

## 3. Runs

| Run | Result | What it shows |
|---|---|---|
| `pipeline` | holds | all request-side properties, and that the layers implement `WafContract` |
| `pipeline_failclosed` | violated | under fail-closed a request is sent although the decision layer or the output guard ended in an error |
| `pipeline_exclude` | violated | exclude removes the first flagged segment, not the one that earned the decision |
| `stream` | holds | the stream properties, for chunks of at most `Slack + 1` bytes |
| `stream_long_chunk` | violated | one byte more and the token is trimmed away before it is searched |
| `loader` | holds | one load, no half-loaded scoring, everybody answered |
| `loader_no_model` | violated | after a failed load later requests are scored with zeros |
| `registry` | holds | one production version, and what sequential commands may rely on |
| `retrain` | holds | bounded overshoot and duplicates, no later report displaces an earlier one, one label per text |
| `proxy` | holds | the log tells the hits, alerts keep their distance, leaks the guard can read are accounted for, everybody is answered |
| `detectors` | holds | no save of the rules is missed; the window, crescendo and monotony of the multi-turn level |
| `retrain_twice` | violated | overlapping builds, or one whose marking failed, train on a row twice |

### Bounds, and why they are enough

* **Pipeline.** Chat bodies of up to `MaxMsgs` = 2 messages of every kind and up to
  `MaxExt` = 1 top-level segment, with all detecting and guarding toggles on under both
  fail modes, twelve pairs of messages also with a deep first one; and every toggle
  combination (normalizer tied to provenance, since it only influences scores, which are
  free) on seven bodies chosen for the steps they reach: entries that are not objects and
  that `dict` refuses or takes, tagged but unrecognised content, a top-level segment,
  content in mixed form beside a deep message, a text and a list prompt. Two detectors
  name at most two segments, so a third message adds no new relation between flags. Scores
  0..5 with thresholds 1 to 4 give one score per level and one above the highest
  threshold. The two runs on `FewCases` use the same bodies with the full toggles. About
  381,000 states, one minute.
* **StreamGuard.** `CanaryLen` = 2, `Slack` = 2, bodies up to 8 bytes: a token can
  start in one chunk and end in the next, tokens can overlap and repeat, and the
  window slides past its full length. The theorem below removes the bound.
* **ClassifierLoader.** Four requests and two threads: one thread loads, one waits
  for the lock, two requests wait for a thread; one of them has no segments.
* **Registry.** Three commands on two versions: one loads before and saves after
  another, the third observes. Two versions are enough for two to be in production.
* **RetrainQueue.** Two writers race for the last place of a queue of `MaxQueue` = 2;
  two texts that differ only in case share a key; two builds can overlap;
  `MaxRows` = 4 inserts allow a row to arrive between a build's load and its mark,
  after rows were consumed. The corpus holds one example that contradicts the queue.

* **Proxy.** Two requests under the same id or under two, each blocked, borderline or
  neither (`log` without borderline stands for `allow` as well), all switches on or all
  off, one restart, a cooldown of one tick and a clock of one tick: an alert can fall
  into the cooldown, on its end, and into the next life of the process. About 501,000
  states. A third request adds no new relation: log, alerts and leaks are stated for
  pairs. The theorems remove all these bounds but the liveness property's.
* **Detectors.** Two valid rules and an invalid one, a clock of two ticks: a reload can
  start before one save and end after two others. The two modules share no variable, so
  each is explored while the other rests, which keeps their states from multiplying. The
  window has its default size, 6, and one turn more than that can arrive; the decay
  (0.85), the medium score (0.45), the cumulative threshold (1.2) and the decision
  thresholds (0.3, 0.55, 0.7, 0.85) are those the code ships; TLC also evaluates
  `EscalationIsHeavy` on them. About 103,000 states, one minute. Scores lie below, on and
  above the medium score, and a tool result can outweigh the window.

Symmetry is used in `registry` (commands, versions) and `retrain` (writers,
builds), which check no liveness; texts are not interchangeable, because the corpus
names one. Deadlock is checked except in the two queue runs, where every bounded
builder may have ended and every row been inserted, and in `detectors`, where a request
has at most `MaxTurns` segments. The other modules have an explicit final stutter.

### Fairness

* `Pipeline`: `WF(Step)`. `run_pre_inference` is one coroutine without a wait on
  another request, and each layer returns or raises. The contract has no fairness: a
  refinement to it is a statement about safety.
* `ClassifierLoader`: `WF(Proceed(r))` for each request. Threads and event loop keep
  running, a load or an inference call ends (it may fail), and a free lock or worker
  is eventually taken. Only weak fairness is needed, because each load happens at
  most once and the lock comes free for good after it. Nothing makes a request
  arrive.
* `Proxy`: `WF` of `Proceed(r)`, `Respond(r)`, `MarkTask(r)` and `CollectTask(r)` for
  each request. The event loop runs every task that is ready, a database statement ends
  or fails, and the upstream client has a timeout, so some answer comes. For streams
  this is the timeout between two chunks; a provider that streams without end would not
  be covered. Nothing makes a request arrive or the clock advance.
* `StreamGuard`, `Registry`, `RetrainQueue`, `RulesFile` and `Multiturn` have none:
  upstream may stall, a command may never run, and their properties are safety
  properties.

## 4. Proofs

Every safety property of a passing run is a theorem; four more theorems have no run
of their own.

| Theorem | Property | Argument |
|---|---|---|
| `PipelineTypeOK` | `TypeOK` | by action; the deciding result exists because the collected results are finite (`OrderLemmas`) |
| `BlockedIsNeverSent` | `BlockingLayerStopsRequest` | inductive with `BlockSafe` |
| `HighScoresBlock` | `ScoreAtThresholdBlocks` | `ScoreInv` |
| `DecisionNeverRelaxed` | `DecisionOnlyRaised` | by action |
| `ExternalAlwaysWrapped` | `ExternalDataWrapped` | `WrappedInv` |
| `DelimitersExplained` | `WrappedIsExplained` | `Explained` |
| `CanaryForwardedOnce` | `ForwardedCarriesCanary` | `CanaryInv` |
| `ExcludedNeverForwarded` | `ExcludedSegmentNotForwarded` | `ExcludeInv` |
| `LayersImplementContract` | `ImplementsContract` | `ReleaseInv`; step simulation |
| `SentAsGraded` | the contract's `ReleasedAsGraded`, of the layers | the refinement |
| `StreamTypeOK` | `TypeOK` | by action |
| `SmallChunksHoldToken` | `TokenNeverForwarded` | inductive with `WindowInv` |
| `LateLeaksReported` | `LateLeakIsReported` | `LoopInv`, `ClosingInv` |
| `HeldChunksReported` | `HeldChunkIsReported` | the same |
| `CleanStreamsUntouched` | `CleanStreamUntouched` | the same |
| `LoaderTypeOK` | `TypeOK` | by action |
| `LoadedAtMostOnce` | `LoadsOnce` | inductive with `LockInv` and `AttemptInv` |
| `NothingScoredHalfLoaded` | `NeverHalfLoaded` | `BackendInv`, `PlacesInv` |
| `RegistryTypeOK` | `TypeOK` | by action |
| `OneProductionVersion` | `AtMostOneProduction` | inductive with `CopiesInv` |
| `ListedVersionsHaveFiles` | `IndexedVersionsExist` | `Solo`, `FilesInv` |
| `PromotionsStick` | `PromotionSticks` | `Solo`, `PromotionInv` |
| `QueueTypeOK` | `TypeOK` | by action |
| `QueueOvershootBounded` | `OvershootBounded` | inductive with `CapInv` |
| `QueueDuplicatesBounded` | `DuplicatesBounded` | `CopiesInv` |
| `EldersDisplace` | `NoYoungerReportWins` | `AgeInv`; the first example with a text is the oldest |
| `DatasetsDoNotContradict` | `OneLabelPerText` | by action |
| `MarkingIsComplete` | a build that marks, marks its whole dataset | `RowsKnown` |
| `MarkedIsTrainedOnce` | no later build writes a marked row again | `RowsKnown`, `Apart` |
| `ProxyTypeOK` | `TypeOK` | by action |
| `AlertsKeepTheirDistance` | `AlertsSpaced` | `AlertInv` |
| `SilencedByARecentAlert` | `SilenceExplained` | `AlertInv` |
| `LogIsTruthful` | `LogTellsTheHits` | `SharedInv` |
| `LeaksAreAccounted` | `LeakAccounted` | `SharedInv` |
| `OnlyFlaggedCollected` | `CollectedWereFlagged` | `SharedInv` |
| `RulesWellTyped` | `RulesTypeOK` | by action |
| `NoSaveIsMissed` | `RulesFollowFile` | `ReaderInv`, `LoadedInv` |
| `WindowIsTail` | `WindowIsLastTurns` | ranks move up by one with every risky turn |
| `CrescendoStopped` | `CrescendoNeverPasses` | assuming `CrescendoIsHeavy`; three turns of the sum |
| `RiskMonotone` | `MoreRiskNeverLower` | assuming `EscalationIsHeavy`; monotony of the sum |
| `DefaultsAreHeavy` | `EscalationIsHeavy` for the defaults | arithmetic of the weights |

Why the invariants need strengthening:

* `BlockSafe`. That nothing a detector blocked is sent is not inductive: a block among
  the results must be known to lead somewhere. Before the decision step, `pc` says that a
  detector's block goes to the final decision; after it, the decision is `block`, or the
  block came from a step that raised. If it raised on an entry that is not an object, that
  entry is still in what would be forwarded, so that the client cannot build the request;
  if on a message too deep to be copied, the property excuses it.
* `WindowInv`. The window always reaches back far enough that a token completed by a
  chunk of at most `Slack + 1` bytes lies inside it (`CompletedTokenIsSeen`).
* `LockInv`, `AttemptInv`. Whoever is in the critical section holds the lock; an
  attempt has begun only if one request is inside the load or `loaded` is set.
* `CopiesInv`. The file never names two production versions because no copy that is
  about to be written does.
* `CapInv`. Pending rows plus writers that passed the cap check: each check reserves
  a place, which the insert only turns into a row.
* `AgeInv`. A build reads pending rows at the positions of their ages; of every row that
  is pending now it has read either the row itself or nothing younger. The first example
  of a text is the one that is kept, so what a dataset holds is an elder of every pending
  row of that text, and marking by text turns that into the property.
* `PassInv` is the frame of the request-side proofs after `BlockSafe`: before the decision
  nobody has touched the messages, and what was sent had no malformed entry left. The
  property invariants say at which step a fact becomes true and that no later rewrite
  undoes it: a high score is a block from the decision on (`ScoreInv`); what the wrapper
  recognises is wrapped when the route answers, unless a fail-open process could not copy
  it (`WrappedInv`); no message carries the token before the guard, at most one does after
  it, and one if all can be copied (`CanaryInv`); an excluded segment is gone as a
  message, and as one that could still be generated (`ExcludeInv`); the delimiters come
  with their explanation (`Explained`).
* `ReleaseInv`, for the refinement: from the decision on, the level of a request that can
  still be released is the level of the highest confidence of its detectors, and no
  detector has blocked; results of the later steps do not count (`LateReports`). The first
  decided level is that of the deciding result, and `EvidenceIsMax` ties the two together.
  The theorem assumes `TLog > 0`: with a threshold of zero a request without any detection
  would have to be logged by the contract, and the code allows it.
* `LoopInv`, `ClosingInv`. A chunk is withheld only by leaving the loop for the canary,
  which leads to the guard or to the handler of a broken event; nothing else sets the hit.
* `BackendInv`, `PlacesInv`. What each stage of the load has done to the backend, and
  that whoever waits to be scored has seen `loaded`.
* `Solo`. While no two commands overlapped, only one is between its load and its end;
  its copy then names only versions with files (`FilesInv`) and keeps the promoted one
  (`PromotionInv`).
* `CopiesInv` of the queue. A writer that found no copy of its item, and has not inserted
  it yet, already counts as one.
* `AlertInv`. The alerts of the present life of the process end at the remembered time.
* `SharedInv`. Per request, what its position says about its row, tasks and hit; per row,
  that a mark has a hit request behind it and stays; and that a collection has chosen
  before a hit can turn the decision into a block.
* `ReaderInv`, `LoadedInv`. The time that was recorded, or is about to be, is not newer
  than the file; if it is the file's own, a usable version had it.
* `RowsKnown`, `Apart`. Every queue example of a dataset names a row that still exists
  with the same text, so the update by text reaches it, also when another build has
  marked it before; and what is marked is not pending, so a build that starts afterwards
  cannot load it. With this the fifth finding of section 5 is sharp: a row is trained on
  twice only if builds overlap or a mark failed.
* The multi-turn sum is a fold with recursively defined weights, and no induction
  principle is at hand for either. `OrderLemmas` replaces it by a smallest
  counterexample: if partial sums disagree with what is claimed of them, there is a first
  place where they do, and one step back refutes it. That gives existence, monotony and
  the bound by three summands; the weights fall with age the same way.

What the multi-turn theorems assume beyond the types is needed, and the program meets it
with its defaults:

* `CrescendoIsHeavy` holds for the defaults and every window of at most six turns, at any
  precision of the scores (`DefaultsAreHeavy`; the shipped cumulative threshold is above
  the sanitize threshold): .604 against .55. At seven it fails (.514), because the decision
  maps the confidence again, whatever label the classifier gave it; see section 5.
* A cumulative threshold below the sanitize threshold lets a window escalate to a
  confidence that sanitizes less than the single score it replaces would: TLC finds
  `MoreRiskNeverLower` violated with 0.3 in place of 1.2.

Assumptions, all named and checked by TLC on every run: `ThresholdsOrdered` (the
order `src/config/settings.py` enforces), `InputsTyped`, `LengthsTyped`, `LoaderTyped`,
`RegistryTyped`, `QueueTyped`, `ProxyTyped`, `NoRowIsNoRow`, `RulesTyped` and
`TurnsTyped`.

Only model-checked: `EveryRequestAnswered` and `RequestsSettle`, as liveness under
fairness is outside what the prover supports.

## 5. Where the code differs from its own words

Each is a run that TLC finds violated; `PROJECT.json` quotes the lines.

1. `README.md`: "a layer error → block under `FAIL_MODE=closed`" fails for the decision
   layer and the output guard. Their block result is added to the results, but the routes
   read `ctx.decision`, which it does not change. Both layers copy messages, and a message
   with a deeply nested field can make that raise and still be sent: with the decision
   stored before, and after the guard with a token that was never planted.
2. `decision.py`: "exclude: remove flagged segment entirely" removes the segment of
   the first layer that flagged one, which may be another than the deciding one.
3. `routes.py`: "detect ... even when it crosses network chunk boundaries" does not
   hold for a token followed by more than 32 bytes in its own chunk. The check after the
   stream reports it only if the token is also in the text the reassembly puts together.
4. `test_classifier.py`: "no model means block" holds for the requests that saw the
   load fail; later ones pass with a score of zero.
5. `README.md`: "nothing is trained on twice" fails for overlapping builds and for a
   build whose update failed.

Further observations have no run of their own.

Request side:

* `/v1/completions` is documented as having "the same WAF path" (`routes.py:386`) but
  forwards the original prompt, so sanitize and exclude change nothing there.
* The wrapper does not know every rule by which messages are tagged RET or TOOL (`hid`),
  so such messages are sent unwrapped; and a system message without a text never receives
  the note that explains the delimiters (`mute`). `ExternalDataWrapped` and
  `WrappedIsExplained` are stated without these two kinds; without the restriction TLC
  finds both violated.
* Of list content only the parts with a `text` are wrapped (`provenance.py:411-431`);
  bare strings and other objects, which tagging counts as text, go out outside the
  delimiters.
* Under fail-open a message that cannot be copied leaves the external data unwrapped. The
  confidence header of a request sent after an error of the guard says 1.0 under
  fail-closed while the decision header says `allow`.
* A rules file may change between two segments of one request, because every access of
  `patterns` looks at the file.
* A rules file without a valid rule is never recorded as read and is parsed again on every
  access. A file restored with an older time than the one in force is not noticed; that
  lies outside `RulesFile`, where a save takes the time of the clock.
* "Escalate to at least 0.75" (`classifier.py:409`) is not what the next line does: three
  turns at 0.45 followed by three harmless ones give 0.60 in a window of 6. The settings
  allow windows of up to 64 turns. At 7 the same three turns followed by four harmless ones
  are labelled `sanitize` by the classifier and decided as `log` (.514 against .55).

Response side:

* Error and non-JSON responses of the provider pass without the output guard
  (`PassUninspected`), and a stream that breaks off or cannot be reassembled is not searched
  at its end. These are the exceptions of `LeakAccounted` for a token the guard could read.
  A stream that holds it in a field the reassembly does not read (`streaming.py:27-38`) is
  searched by the rolling window only, and passes without a trace when that misses it.
* An event that makes the reassembly raise after a chunk was withheld ends in
  `proxy_error` and status 502, without a hit in log or alerts.
* `alert_block` is documented as "rate-limited per request_id prefix"
  (`alerts.py:132`); there is one cooldown for everything. It also starts when the delivery
  of the alert fails.
* A repeated `x-request-id` makes the second insert fail, and the mark of either request's
  hit goes to the first one's row. `LogTellsTheHits` is stated by id for that reason.
* `loop.create_task` is called without keeping a reference, so the interpreter may drop a
  task; `MarkFails` and a collection that enqueues nothing cover that.
* The 503 of the routes is practically unreachable: the layers and the records catch their
  own errors.

Offline:

* A row that arrives after a build has loaded the queue, with a text of that build and the
  other label, is marked consumed with it and is in no dataset (`dataset.py:183`).
  `NoYoungerReportWins` says no more than that it was an earlier report that won.
* A retrain item stores the decision as it is when the item is written, which may already
  be the block of a canary hit rather than the level that made it collected.
* "production cannot be removed" (`registry.py:119`) holds for the index a command read,
  not for the one it overwrites: a removal that loaded before a promotion drops the
  version promoted since. `AtMostOneProduction` holds then, `PromotionSticks` excepts
  overlapping commands.

## 6. Not modelled

* What the detectors find: decoding, matching of rules, perplexity, inference. Scores are
  free, which covers every outcome. `Pipeline` leaves escalation free as well, a superset
  of what `Multiturn` computes.
* Builds without the queue, the random split into train and validation, and the
  overwriting of the two files one after the other: a build's output is the set of
  examples it kept. Rows with equal `created_at`, and the limit on how many rows a
  build loads.
* Detections and attributions stored with a request, which only the dashboard reads; the
  delivery of an alert, which changes no state.
* Several proxy processes on one database: each has its own alerts, and what they share is
  the table of `Proxy` and `RetrainQueue`.
* Explanations (`xai.py`: numeric, no shared state), training and export (sequential calls
  into libraries; the registry they write to is modelled), application wiring and
  telemetry, dashboard and benchmarks (read-only).

## 7. State of the plan

All modules, runs and theorems that were planned exist: the request side with its
contract, streaming, the classifier's load, the retrain queue, the registry, the proxy
process with log and alerts, the rules file and the multi-turn window. What could follow
is the composition of several proxy processes, and the two files of a dataset build as
separate steps.

## Running

`tlc -config MCPipeline.cfg MCPipeline` and likewise for the other configurations;
`tlapm PipelineProofs.tla` and likewise for the other proof modules. The longest
run, `proxy`, takes under two minutes.
