--------------------------- MODULE ClassifierLoader ---------------------------
(***************************************************************************)
(* The one ClassifierLayer object that all requests share: its model is    *)
(* loaded by the first request that needs it, under a double-checked lock, *)
(* in a worker thread of the event loop's default executor, the same pool  *)
(* in which every request is scored.  Order among queued jobs is left      *)
(* open.                                                                   *)
(***************************************************************************)
EXTENDS Naturals, FiniteSets

CONSTANTS
    Requests,    \* requests that reach the classifier; a bound
    NoSegments,  \* those whose context has no segments
    Workers,     \* threads of the default executor
    NoOne        \* the lock is free

ASSUME LoaderTyped ==
    /\ IsFiniteSet(Requests)
    /\ NoSegments \subseteq Requests
    /\ Workers \in Nat \ {0}
    /\ NoOne \notin Requests

VARIABLES
    failMode,  \* settings.fail_mode
    pc,        \* where each request is
    result,    \* what process returned to it
    lock,      \* holder of _load_lock
    loaded,    \* _loaded
    session,   \* _onnx_session is not None
    isOnnx,    \* _is_onnx
    model,     \* _model is not None
    placed,    \* eval() and to(device): not yet through, moved, not moved
    attempts   \* history: load attempts begun

backend == <<session, isOnnx, model, placed>>
vars == <<failMode, pc, result, lock, loaded, backend, attempts>>

\* Stages of the load itself, those in which the lock is held, and those
\* that occupy a worker.
Loading == {"onnx", "onnx_flag", "transformers", "place", "finish"}
Critical == {"recheck"} \cup Loading
InWorker == {"check", "acquire", "scoring"} \cup Critical
Waiting == {"load_queued", "have_model", "no_model", "score_queued"}
Results ==
    {"unavailable", "skipped", "scored", "unplaced", "misplaced", "zeros", "error"}

Placements == {"pending", "moved", "unmoved"}

TypeOK ==
    /\ failMode \in {"closed", "open"}
    /\ pc \in [Requests -> {"idle", "done"} \cup Waiting \cup InWorker]
    /\ result \in [Requests -> {"none"} \cup Results]
    /\ lock \in Requests \cup {NoOne}
    /\ loaded \in BOOLEAN
    /\ session \in BOOLEAN /\ isOnnx \in BOOLEAN
    /\ model \in BOOLEAN /\ placed \in Placements
    /\ attempts \in Nat

Init ==
    /\ failMode \in {"closed", "open"}
    /\ pc = [r \in Requests |-> "idle"]
    /\ result = [r \in Requests |-> "none"]
    /\ lock = NoOne
    /\ loaded = FALSE
    /\ session = FALSE /\ isOnnx = FALSE
    /\ model = FALSE /\ placed = "pending"
    /\ attempts = 0

-------------------------------------------------------------------------------
\* self._model is not None or self._onnx_session is not None
Available == model \/ session

\* Returning None instead of a Boolean.
Bug_Returned == IF Available THEN "have_model" ELSE "none"

\* What load() hands back to the coroutine that awaits it.
Returned == IF Available THEN "have_model" ELSE "no_model"

\* Leaving the lock held when the load failed.
Bug_Released == IF Available THEN NoOne ELSE lock

\* The with statement releases the lock however its body is left.
Released == NoOne

\* No second look at _loaded under the lock.
Bug_LoadedMeanwhile == FALSE

LoadedMeanwhile == loaded

\* _loaded raised as soon as the attempt begins.
Bug_MarkedAt(stage) == stage \in {"recheck", "finish"}

\* "Mark as attempted only after the load attempt finishes": _loaded is set
\* once the last stage is over, whether or not it succeeded.
MarkedAt(stage) == stage = "finish"

GoTo(r, place) == pc' = [pc EXCEPT ![r] = place]

Answer(r, value) ==
    /\ GoTo(r, "done")
    /\ result' = [result EXCEPT ![r] = value]

FreeWorker == Cardinality({r \in Requests : pc[r] \in InWorker}) < Workers

\* process goes on to scoring, or returns at once if there is nothing to score.
Continue(r) ==
    IF r \in NoSegments THEN Answer(r, "skipped")
    ELSE GoTo(r, "score_queued") /\ UNCHANGED result

\* process: the first, unlocked look at _loaded, on the event loop.
Enter(r) ==
    /\ pc[r] = "idle"
    /\ IF loaded THEN Continue(r)
       ELSE GoTo(r, "load_queued") /\ UNCHANGED result
    /\ UNCHANGED <<failMode, lock, loaded, backend, attempts>>

\* A worker takes up load, or _run_batch.
StartJob(r) ==
    /\ FreeWorker
    /\ \/ pc[r] = "load_queued" /\ GoTo(r, "check")
       \/ pc[r] = "score_queued" /\ GoTo(r, "scoring")
    /\ UNCHANGED <<failMode, result, lock, loaded, backend, attempts>>

\* load: second look, before the lock.
CheckLoaded(r) ==
    /\ pc[r] = "check"
    /\ GoTo(r, IF loaded THEN Returned ELSE "acquire")
    /\ UNCHANGED <<failMode, result, lock, loaded, backend, attempts>>

AcquireLock(r) ==
    /\ pc[r] = "acquire"
    /\ lock = NoOne
    /\ lock' = r
    /\ GoTo(r, "recheck")
    /\ UNCHANGED <<failMode, result, loaded, backend, attempts>>

\* Third look, under the lock.
LoadedByOther(r) ==
    /\ pc[r] = "recheck"
    /\ LoadedMeanwhile
    /\ GoTo(r, Returned)
    /\ lock' = NoOne
    /\ UNCHANGED <<failMode, result, loaded, backend, attempts>>

BeginLoad(r) ==
    /\ pc[r] = "recheck"
    /\ ~LoadedMeanwhile
    /\ GoTo(r, "onnx")
    /\ attempts' = attempts + 1
    /\ loaded' = (loaded \/ MarkedAt("recheck"))
    /\ UNCHANGED <<failMode, result, lock, backend>>

\* _try_load_onnx: the session first, the flag after it; any failure falls
\* back to transformers.
LoadSession(r) ==
    /\ pc[r] = "onnx"
    /\ session' = TRUE
    /\ GoTo(r, "onnx_flag")
    /\ UNCHANGED <<failMode, result, lock, loaded, isOnnx, model, placed, attempts>>

FlagOnnx(r) ==
    /\ pc[r] = "onnx_flag"
    /\ isOnnx' = TRUE
    /\ GoTo(r, "finish")
    /\ UNCHANGED <<failMode, result, lock, loaded, session, model, placed, attempts>>

OnnxFails(r) ==
    /\ pc[r] = "onnx"
    /\ GoTo(r, "transformers")
    /\ UNCHANGED <<failMode, result, lock, loaded, backend, attempts>>

\* _try_load_transformers: the model becomes visible before it is switched to
\* evaluation and moved to its device.
LoadModel(r) ==
    /\ pc[r] = "transformers"
    /\ model' = TRUE
    /\ isOnnx' = FALSE
    /\ GoTo(r, "place")
    /\ UNCHANGED <<failMode, result, lock, loaded, session, placed, attempts>>

\* A move that fails is suppressed: the load goes on with the model where it is.
PlaceModel(r) ==
    /\ pc[r] = "place"
    /\ placed' \in {"moved", "unmoved"}
    /\ GoTo(r, "finish")
    /\ UNCHANGED <<failMode, result, lock, loaded, session, isOnnx, model, attempts>>

TransformersFails(r) ==
    /\ pc[r] = "transformers"
    /\ GoTo(r, "finish")
    /\ UNCHANGED <<failMode, result, lock, loaded, backend, attempts>>

FinishLoad(r) ==
    /\ pc[r] = "finish"
    /\ loaded' = (loaded \/ MarkedAt("finish"))
    /\ lock' = Released
    /\ GoTo(r, Returned)
    /\ UNCHANGED <<failMode, result, backend, attempts>>

\* The coroutine resumes after to_thread(self.load).
Resume(r) ==
    /\ \/ pc[r] = "have_model" /\ Continue(r)
       \/ pc[r] = "no_model" /\ Answer(r, "unavailable")
    /\ UNCHANGED <<failMode, lock, loaded, backend, attempts>>

\* _run_batch in the worker: the session if there is one, else the model, else
\* a zero score for every segment.
ScoreWithSession(r) ==
    /\ isOnnx /\ session
    /\ Answer(r, "scored")

ScoredBy == [pending |-> "unplaced", moved |-> "scored", unmoved |-> "misplaced"]

ScoreWithModel(r) ==
    /\ ~(isOnnx /\ session)
    /\ model
    /\ Answer(r, ScoredBy[placed])

ScoreWithNothing(r) ==
    /\ ~(isOnnx /\ session)
    /\ ~model
    /\ Answer(r, "zeros")

InferenceRaises(r) ==
    /\ Available
    /\ Answer(r, "error")

RunBatch(r) ==
    /\ pc[r] = "scoring"
    /\ \/ ScoreWithSession(r)
       \/ ScoreWithModel(r)
       \/ ScoreWithNothing(r)
       \/ InferenceRaises(r)
    /\ UNCHANGED <<failMode, lock, loaded, backend, attempts>>

Load(r) ==
    \/ CheckLoaded(r) \/ AcquireLock(r) \/ LoadedByOther(r) \/ BeginLoad(r)
    \/ LoadSession(r) \/ FlagOnnx(r) \/ OnnxFails(r)
    \/ LoadModel(r) \/ PlaceModel(r) \/ TransformersFails(r)
    \/ FinishLoad(r)

\* What a request does once it has arrived.
Proceed(r) == StartJob(r) \/ Load(r) \/ Resume(r) \/ RunBatch(r)

AllDone == (\A r \in Requests : pc[r] = "done") /\ UNCHANGED vars

Next == (\E r \in Requests : Enter(r) \/ Proceed(r)) \/ AllDone

\* Threads and the event loop keep running: a loader or an inference call does
\* not hang, and a lock or a worker that stays free is taken.
Fairness == \A r \in Requests : WF_vars(Proceed(r))

Spec == Init /\ [][Next]_vars /\ Fairness

-------------------------------------------------------------------------------
\* Whatever the interleaving of the three looks at _loaded, the model is
\* loaded once per process: load() never starts a second attempt.
LoadsOnce == attempts <= 1

\* No request is scored by a layer that is only half loaded: zero scores and
\* "model unavailable" both mean that the one attempt is over and failed; no
\* score comes from a model before the loader is through with switching it to
\* evaluation and moving it, and one from a model that is not on its device
\* means that the move was tried, failed, and was accepted by the loader.
NeverHalfLoaded ==
    \A r \in Requests :
        /\ result[r] # "unplaced"
        /\ result[r] = "misplaced" => loaded /\ placed = "unmoved"
        /\ result[r] \in {"zeros", "unavailable"} => loaded /\ ~Available

\* Requests that wait for the lock occupy workers of the pool the scoring jobs
\* need; every request that entered process still gets its result.
EveryRequestAnswered ==
    \A r \in Requests : pc[r] \notin {"idle", "done"} ~> pc[r] = "done"

\* _failure_result: block under FAIL_MODE=closed.
Blocks(value) == value \in {"unavailable", "error"} /\ failMode = "closed"

\* "Default security policy is fail-closed: no model means block, not crash"
\* (tests/test_classifier.py): when the load failed, a request with segments
\* is blocked.
NoModelMeansBlock ==
    (failMode = "closed" /\ loaded /\ ~Available) =>
        \A r \in Requests \ NoSegments : pc[r] = "done" => Blocks(result[r])
===============================================================================
