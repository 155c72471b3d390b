----------------------- MODULE ClassifierLoaderProofs -----------------------
(***************************************************************************)
(* Proofs about ClassifierLoader for any number of requests and workers.   *)
(***************************************************************************)
EXTENDS ClassifierLoader, TLAPS

USE DEF GoTo, Answer, Continue

\* Init gives every variable a value of its type and every step keeps it.
LEMMA NextTypeOK == TypeOK /\ [Next]_vars => TypeOK'
<1> SUFFICES ASSUME TypeOK, [Next]_vars PROVE TypeOK'
  OBVIOUS
<1> USE LoaderTyped DEF TypeOK, backend, Results, Waiting, InWorker, Critical, Loading,
           Placements
<1>1. ASSUME NEW r \in Requests, Enter(r) PROVE TypeOK'
  BY <1>1 DEF Enter
<1>2. ASSUME NEW r \in Requests, StartJob(r) PROVE TypeOK'
  BY <1>2 DEF StartJob
<1>3. ASSUME NEW r \in Requests, Load(r) PROVE TypeOK'
  <2>1. CASE CheckLoaded(r)
    BY <2>1 DEF CheckLoaded, Returned
  <2>2. CASE AcquireLock(r)
    BY <2>2 DEF AcquireLock
  <2>3. CASE LoadedByOther(r)
    BY <2>3 DEF LoadedByOther, Returned
  <2>4. CASE BeginLoad(r)
    BY <2>4 DEF BeginLoad, MarkedAt
  <2>5. CASE LoadSession(r) \/ FlagOnnx(r) \/ OnnxFails(r)
    BY <2>5 DEF LoadSession, FlagOnnx, OnnxFails
  <2>6. CASE LoadModel(r) \/ PlaceModel(r) \/ TransformersFails(r)
    BY <2>6 DEF LoadModel, PlaceModel, TransformersFails
  <2>7. CASE FinishLoad(r)
    BY <2>7 DEF FinishLoad, Returned, Released, MarkedAt
  <2> QED
    BY <1>3, <2>1, <2>2, <2>3, <2>4, <2>5, <2>6, <2>7 DEF Load
<1>4. ASSUME NEW r \in Requests, Resume(r) PROVE TypeOK'
  BY <1>4 DEF Resume
<1>5. ASSUME NEW r \in Requests, RunBatch(r) PROVE TypeOK'
  BY <1>5 DEF RunBatch, ScoreWithSession, ScoreWithModel, ScoreWithNothing,
              InferenceRaises, ScoredBy
<1>6. CASE UNCHANGED vars
  BY <1>6 DEF vars
<1> QED
  BY <1>1, <1>2, <1>3, <1>4, <1>5, <1>6 DEF Next, Proceed, AllDone

\* Type correctness of the shared classifier.
THEOREM LoaderTypeOK == Spec => []TypeOK
<1>1. ASSUME Init PROVE TypeOK
  <2>1. pc \in [Requests -> {"idle", "done"} \cup Waiting \cup InWorker]
    BY <1>1 DEF Init
  <2>2. result \in [Requests -> {"none"} \cup Results]
    BY <1>1 DEF Init
  <2> QED
    BY <1>1, <2>1, <2>2 DEF Init, TypeOK, Placements
<1> QED
  BY <1>1, NextTypeOK, PTL DEF Spec

-------------------------------------------------------------------------------
(***************************************************************************)
(* The strengthening: the lock has exactly one holder, the request in the  *)
(* critical section; the attempt is counted when its holder enters the     *)
(* loading stages, and it is over exactly when _loaded is set.             *)
(***************************************************************************)
LockInv == \A r \in Requests : pc[r] \in Critical => lock = r

AttemptInv ==
    /\ \A r \in Requests : pc[r] \in Loading => attempts = 1 /\ ~loaded
    /\ attempts = 0 \/ attempts = 1
    /\ loaded => attempts = 1
    /\ (attempts = 1 /\ ~loaded) => \E r \in Requests : pc[r] \in Loading

LEMMA NextLockInv == TypeOK /\ LockInv /\ [Next]_vars => LockInv'
<1> SUFFICES ASSUME TypeOK, LockInv, [Next]_vars PROVE LockInv'
  OBVIOUS
<1> USE LoaderTyped DEF TypeOK, LockInv, Critical, Loading, backend
<1>1. ASSUME NEW r \in Requests, Enter(r) \/ StartJob(r) \/ Resume(r) PROVE LockInv'
  BY <1>1 DEF Enter, StartJob, Resume
<1>2. ASSUME NEW r \in Requests, Load(r) PROVE LockInv'
  <2>1. CASE CheckLoaded(r)
    BY <2>1 DEF CheckLoaded, Returned
  <2>2. CASE AcquireLock(r)
    BY <2>2 DEF AcquireLock
  <2>3. CASE LoadedByOther(r)
    BY <2>3 DEF LoadedByOther, Returned
  <2>4. CASE BeginLoad(r)
    BY <2>4 DEF BeginLoad
  <2>5. CASE LoadSession(r) \/ FlagOnnx(r) \/ OnnxFails(r)
    BY <2>5 DEF LoadSession, FlagOnnx, OnnxFails
  <2>6. CASE LoadModel(r) \/ PlaceModel(r) \/ TransformersFails(r)
    BY <2>6 DEF LoadModel, PlaceModel, TransformersFails
  <2>7. CASE FinishLoad(r)
    BY <2>7 DEF FinishLoad, Returned, Released
  <2> QED
    BY <1>2, <2>1, <2>2, <2>3, <2>4, <2>5, <2>6, <2>7 DEF Load
<1>3. ASSUME NEW r \in Requests, RunBatch(r) PROVE LockInv'
  BY <1>3 DEF RunBatch, ScoreWithSession, ScoreWithModel, ScoreWithNothing, InferenceRaises
<1>4. CASE UNCHANGED vars
  BY <1>4 DEF vars
<1> QED
  BY <1>1, <1>2, <1>3, <1>4 DEF Next, Proceed, AllDone

\* A step of a request that stays outside, or stays inside, the loading stages
\* and touches neither the count nor the flag.
LEMMA AttemptFrame ==
    ASSUME TypeOK, AttemptInv, NEW r \in Requests, NEW place,
           GoTo(r, place), UNCHANGED <<loaded, attempts>>,
           pc[r] \in Loading <=> place \in Loading
    PROVE  AttemptInv'
<1>1. \A q \in Requests : pc'[q] \in Loading <=> pc[q] \in Loading
  BY DEF TypeOK
<1> QED
  BY <1>1 DEF AttemptInv

LEMMA NextAttemptInv == TypeOK /\ LockInv /\ AttemptInv /\ [Next]_vars => AttemptInv'
<1> SUFFICES ASSUME TypeOK, LockInv, AttemptInv, [Next]_vars PROVE AttemptInv'
  OBVIOUS
<1> USE LoaderTyped DEF backend
<1>1. ASSUME NEW r \in Requests, Enter(r) \/ StartJob(r) \/ Resume(r) PROVE AttemptInv'
  <2>1. UNCHANGED <<loaded, attempts>>
    BY <1>1 DEF Enter, StartJob, Resume
  <2>2. \E place \in {"done", "score_queued", "load_queued", "check", "scoring"} : GoTo(r, place)
    BY <1>1 DEF Enter, StartJob, Resume
  <2>3. pc[r] \notin Loading
    BY <1>1 DEF Enter, StartJob, Resume, Loading
  <2> QED
    BY <2>1, <2>2, <2>3, AttemptFrame DEF Loading
<1>2. ASSUME NEW r \in Requests, Load(r) PROVE AttemptInv'
  <2>1. CASE CheckLoaded(r) \/ AcquireLock(r) \/ LoadedByOther(r)
    <3>1. \E place \in {"have_model", "no_model", "acquire", "recheck"} : GoTo(r, place)
      BY <2>1 DEF CheckLoaded, AcquireLock, LoadedByOther, Returned
    <3>2. pc[r] \notin Loading /\ UNCHANGED <<loaded, attempts>>
      BY <2>1 DEF CheckLoaded, AcquireLock, LoadedByOther, Loading
    <3> QED
      BY <3>1, <3>2, AttemptFrame DEF Loading
  <2>2. CASE BeginLoad(r)
    <3>1. ~loaded /\ ~loaded' /\ attempts' = attempts + 1 /\ GoTo(r, "onnx")
      BY <2>2 DEF BeginLoad, LoadedMeanwhile, MarkedAt, TypeOK
    <3>2. \A q \in Requests : pc[q] \notin Loading
      BY <2>2 DEF BeginLoad, LockInv, Critical, Loading
    <3>3. attempts = 0
      BY <3>1, <3>2 DEF AttemptInv
    <3>4. pc'[r] \in Loading
      BY <3>1 DEF TypeOK, Loading
    <3> QED
      BY <3>1, <3>3, <3>4 DEF AttemptInv
  <2>3. CASE LoadSession(r) \/ FlagOnnx(r) \/ OnnxFails(r) \/ LoadModel(r)
             \/ PlaceModel(r) \/ TransformersFails(r)
    <3>1. \E place \in {"onnx_flag", "finish", "transformers", "place"} : GoTo(r, place)
      BY <2>3 DEF LoadSession, FlagOnnx, OnnxFails, LoadModel, PlaceModel, TransformersFails
    <3>2. pc[r] \in Loading /\ UNCHANGED <<loaded, attempts>>
      BY <2>3 DEF LoadSession, FlagOnnx, OnnxFails, LoadModel, PlaceModel,
                  TransformersFails, Loading
    <3> QED
      BY <3>1, <3>2, AttemptFrame DEF Loading
  <2>4. CASE FinishLoad(r)
    <3>1. attempts' = 1 /\ loaded'
      BY <2>4 DEF FinishLoad, MarkedAt, AttemptInv, Loading, TypeOK
    <3>2. \A q \in Requests \ {r} : pc[q] \notin Loading
      BY <2>4 DEF FinishLoad, LockInv, Critical, Loading
    <3>3. \A q \in Requests : pc'[q] \notin Loading
      BY <2>4, <3>2 DEF FinishLoad, Returned, Loading, TypeOK
    <3> QED
      BY <3>1, <3>3 DEF AttemptInv
  <2> QED
    BY <1>2, <2>1, <2>2, <2>3, <2>4 DEF Load
<1>3. ASSUME NEW r \in Requests, RunBatch(r) PROVE AttemptInv'
  <2>1. GoTo(r, "done") /\ pc[r] \notin Loading /\ UNCHANGED <<loaded, attempts>>
    BY <1>3 DEF RunBatch, ScoreWithSession, ScoreWithModel, ScoreWithNothing,
                InferenceRaises, Loading
  <2> QED
    BY <2>1, AttemptFrame DEF Loading
<1>4. CASE UNCHANGED vars
  BY <1>4 DEF vars, AttemptInv
<1> QED
  BY <1>1, <1>2, <1>3, <1>4 DEF Next, Proceed, AllDone

\* The double-checked lock: however many requests arrive and however the three
\* looks at _loaded interleave, the model is loaded at most once.
THEOREM LoadedAtMostOnce == Spec => []LoadsOnce
<1>1. Init => LockInv /\ AttemptInv
  BY DEF Init, LockInv, AttemptInv, Critical, Loading
<1>2. AttemptInv => LoadsOnce
  BY DEF AttemptInv, LoadsOnce
<1> QED
  BY <1>1, <1>2, LoaderTypeOK, NextLockInv, NextAttemptInv, PTL DEF Spec

-------------------------------------------------------------------------------
(***************************************************************************)
(* What each stage of the load has done to the backend.  Nobody is asked   *)
(* to score, and nobody is told about the model, before the one attempt is *)
(* over; after it the backend no longer changes.                           *)
(***************************************************************************)
Complete == (session => isOnnx) /\ (model => placed # "pending")

BackendInv ==
    /\ attempts = 0 => ~session /\ ~model
    /\ loaded => Complete
    /\ \A r \in Requests :
          /\ pc[r] \in {"onnx", "transformers"} => ~session /\ ~model
          /\ pc[r] = "onnx_flag" => session /\ ~model
          /\ pc[r] = "place" => model /\ ~session
          /\ pc[r] = "finish" => Complete

PlacesInv ==
    \A r \in Requests :
        /\ pc[r] \in {"have_model", "no_model", "score_queued", "scoring"} => loaded
        /\ pc[r] = "no_model" => ~Available

HalfInv == BackendInv /\ PlacesInv /\ NeverHalfLoaded

\* A step outside the loading stages that leaves the shared fields alone.
LEMMA BackendFrame ==
    ASSUME TypeOK, BackendInv, NEW r \in Requests, NEW place,
           GoTo(r, place), UNCHANGED <<loaded, backend, attempts>>,
           place \notin Loading
    PROVE  BackendInv'
  BY DEF TypeOK, BackendInv, Loading, backend, Complete

\* A step that gives no result, changes no shared field and leads to a place
\* that PlacesInv allows.
LEMMA PlacesFrame ==
    ASSUME TypeOK, PlacesInv, NeverHalfLoaded, NEW r \in Requests, NEW place,
           GoTo(r, place), UNCHANGED <<result, loaded, backend>>,
           place \in {"have_model", "no_model", "score_queued", "scoring"} => loaded,
           place = "no_model" => ~Available
    PROVE  PlacesInv' /\ NeverHalfLoaded'
  BY DEF TypeOK, PlacesInv, NeverHalfLoaded, Available, backend

\* A step that answers a request.
LEMMA AnswerFrame ==
    ASSUME TypeOK, PlacesInv, NeverHalfLoaded, NEW r \in Requests, NEW value,
           Answer(r, value), UNCHANGED <<loaded, backend>>, value # "unplaced",
           value = "misplaced" => loaded /\ placed = "unmoved",
           value \in {"zeros", "unavailable"} => loaded /\ ~Available
    PROVE  PlacesInv' /\ NeverHalfLoaded'
  BY DEF TypeOK, PlacesInv, NeverHalfLoaded, Available, backend

\* While a request is in the loading stages nobody has got a result from the
\* model and nobody is elsewhere in them.
LEMMA LoadingAlone ==
    ASSUME TypeOK, LockInv, AttemptInv, PlacesInv, NeverHalfLoaded,
           NEW r \in Requests, pc[r] \in Loading
    PROVE  /\ ~loaded /\ attempts = 1
           /\ \A q \in Requests \ {r} : pc[q] \notin Loading
           /\ \A q \in Requests :
                 /\ pc[q] \notin {"have_model", "no_model", "score_queued", "scoring"}
                 /\ result[q] \notin {"unplaced", "misplaced", "zeros", "unavailable"}
  BY DEF TypeOK, LockInv, AttemptInv, PlacesInv, NeverHalfLoaded, Critical, Loading

LEMMA NextHalfInv ==
    TypeOK /\ LockInv /\ AttemptInv /\ HalfInv /\ [Next]_vars => HalfInv'
<1> SUFFICES ASSUME TypeOK, LockInv, AttemptInv, HalfInv, [Next]_vars PROVE HalfInv'
  OBVIOUS
<1> USE DEF backend, HalfInv
<1>1. ASSUME NEW r \in Requests, Enter(r) \/ Resume(r) PROVE HalfInv'
  <2>1. UNCHANGED <<loaded, backend, attempts>>
    BY <1>1 DEF Enter, Resume
  <2>2. \/ GoTo(r, "load_queued") /\ UNCHANGED result
        \/ GoTo(r, "score_queued") /\ UNCHANGED result /\ loaded
        \/ Answer(r, "skipped")
        \/ Answer(r, "unavailable") /\ loaded /\ ~Available
    BY <1>1 DEF Enter, Resume, PlacesInv
  <2>3. BackendInv'
    BY <2>1, <2>2, BackendFrame DEF Loading
  <2> QED
    BY <2>1, <2>2, <2>3, PlacesFrame, AnswerFrame
<1>2. ASSUME NEW r \in Requests, StartJob(r) PROVE HalfInv'
  <2>1. UNCHANGED <<loaded, backend, attempts, result>>
    BY <1>2 DEF StartJob
  <2>2. GoTo(r, "check") \/ (GoTo(r, "scoring") /\ loaded)
    BY <1>2 DEF StartJob, PlacesInv
  <2>3. BackendInv'
    BY <2>1, <2>2, BackendFrame DEF Loading
  <2> QED
    BY <2>1, <2>2, <2>3, PlacesFrame
<1>3. ASSUME NEW r \in Requests, Load(r) PROVE HalfInv'
  <2>1. CASE CheckLoaded(r) \/ AcquireLock(r) \/ LoadedByOther(r)
    <3>1. UNCHANGED <<loaded, backend, attempts, result>>
      BY <2>1 DEF CheckLoaded, AcquireLock, LoadedByOther
    <3>2. \/ GoTo(r, "acquire") \/ GoTo(r, "recheck")
          \/ GoTo(r, "have_model") /\ loaded
          \/ GoTo(r, "no_model") /\ loaded /\ ~Available
      BY <2>1 DEF CheckLoaded, AcquireLock, LoadedByOther, LoadedMeanwhile, Returned
    <3>3. BackendInv'
      BY <3>1, <3>2, BackendFrame DEF Loading
    <3> QED
      BY <3>1, <3>2, <3>3, PlacesFrame
  <2>2. CASE BeginLoad(r)
    <3>1. ~loaded /\ GoTo(r, "onnx") /\ attempts' = attempts + 1
          /\ UNCHANGED <<loaded, backend, result>>
      BY <2>2 DEF BeginLoad, LoadedMeanwhile, MarkedAt, TypeOK
    <3>2. \A q \in Requests : pc[q] \notin Loading
      BY <2>2 DEF BeginLoad, LockInv, Critical, Loading
    <3>3. attempts = 0 /\ ~session /\ ~model
      BY <3>1, <3>2 DEF AttemptInv, BackendInv
    <3>4. BackendInv'
      BY <3>1, <3>2, <3>3 DEF BackendInv, TypeOK, Loading
    <3> QED
      BY <3>1, <3>4, PlacesFrame
  <2>3. CASE LoadSession(r) \/ FlagOnnx(r) \/ OnnxFails(r) \/ LoadModel(r)
             \/ PlaceModel(r) \/ TransformersFails(r)
    <3>1. pc[r] \in Loading
      BY <2>3 DEF LoadSession, FlagOnnx, OnnxFails, LoadModel, PlaceModel,
                  TransformersFails, Loading
    <3>2. UNCHANGED <<loaded, attempts, result>>
      BY <2>3 DEF LoadSession, FlagOnnx, OnnxFails, LoadModel, PlaceModel, TransformersFails
    <3>3. \A q \in Requests : pc'[q] = pc[q] \/ q = r
      BY <2>3 DEF LoadSession, FlagOnnx, OnnxFails, LoadModel, PlaceModel,
                  TransformersFails, TypeOK
    <3>4. BackendInv'
      <4>1. CASE LoadSession(r) \/ FlagOnnx(r)
        BY <4>1, <3>1, <3>2, <3>3, LoadingAlone
           DEF LoadSession, FlagOnnx, BackendInv, Complete, TypeOK, Loading
      <4>2. CASE OnnxFails(r) \/ TransformersFails(r)
        BY <4>2, <3>1, <3>2, <3>3, LoadingAlone
           DEF OnnxFails, TransformersFails, BackendInv, Complete, TypeOK, Loading
      <4>3. CASE LoadModel(r) \/ PlaceModel(r)
        BY <4>3, <3>1, <3>2, <3>3, LoadingAlone
           DEF LoadModel, PlaceModel, BackendInv, Complete, TypeOK, Loading
      <4> QED
        BY <2>3, <4>1, <4>2, <4>3
    <3>5. pc'[r] \notin {"have_model", "no_model", "score_queued", "scoring"}
      BY <2>3 DEF LoadSession, FlagOnnx, OnnxFails, LoadModel, PlaceModel,
                  TransformersFails, TypeOK
    <3>6. PlacesInv' /\ NeverHalfLoaded'
      BY <3>1, <3>2, <3>3, <3>5, LoadingAlone DEF PlacesInv, NeverHalfLoaded
    <3> QED
      BY <3>4, <3>6
  <2>4. CASE FinishLoad(r)
    <3>1. pc[r] = "finish" /\ GoTo(r, Returned) /\ loaded' = TRUE
          /\ UNCHANGED <<backend, attempts, result>>
      BY <2>4 DEF FinishLoad, MarkedAt
    <3>2. Complete
      BY <3>1 DEF BackendInv
    <3>3. \A q \in Requests : pc'[q] \notin Loading
      BY <3>1, LoadingAlone DEF TypeOK, Loading, Returned
    <3>4. attempts' # 0
      BY <3>1, LoadingAlone DEF Loading
    <3>5. BackendInv'
      BY <3>1, <3>2, <3>3, <3>4 DEF BackendInv, Complete, Loading
    <3>6. PlacesInv' /\ NeverHalfLoaded'
      <4>1. \A q \in Requests \ {r} : pc'[q] = pc[q] /\ pc[q] # "no_model"
        BY <3>1, LoadingAlone DEF TypeOK, Loading
      <4>2. pc'[r] = "no_model" => ~Available'
        BY <3>1 DEF Returned, Available, TypeOK
      <4>3. \A q \in Requests : result'[q] \notin {"unplaced", "misplaced", "zeros", "unavailable"}
        BY <3>1, LoadingAlone DEF Loading
      <4> QED
        BY <3>1, <4>1, <4>2, <4>3 DEF PlacesInv, NeverHalfLoaded
    <3> QED
      BY <3>5, <3>6
  <2> QED
    BY <1>3, <2>1, <2>2, <2>3, <2>4 DEF Load
<1>4. ASSUME NEW r \in Requests, RunBatch(r) PROVE HalfInv'
  <2>1. UNCHANGED <<loaded, backend, attempts>> /\ loaded
    BY <1>4 DEF RunBatch, PlacesInv
  <2>2. Complete
    BY <2>1 DEF BackendInv
  <2>3. \/ Answer(r, "scored") \/ Answer(r, "error")
        \/ Answer(r, "misplaced") /\ placed = "unmoved"
        \/ Answer(r, "zeros") /\ ~Available
    BY <1>4, <2>2 DEF RunBatch, ScoreWithSession, ScoreWithModel, ScoreWithNothing,
                      InferenceRaises, Complete, Available, ScoredBy, TypeOK, Placements
  <2>4. BackendInv'
    BY <2>1, <2>3, BackendFrame DEF Loading
  <2> QED
    BY <2>1, <2>3, <2>4, AnswerFrame
<1>5. CASE UNCHANGED vars
  BY <1>5 DEF vars, BackendInv, PlacesInv, NeverHalfLoaded, Complete, Available
<1> QED
  BY <1>1, <1>2, <1>3, <1>4, <1>5 DEF Next, Proceed, AllDone

\* A request is scored only by a backend the loader is through with, and gets zero scores or
\* "model unavailable" only after the one attempt has failed, for any number
\* of requests and workers.
THEOREM NothingScoredHalfLoaded == Spec => []NeverHalfLoaded
<1>1. ASSUME Init PROVE LockInv /\ AttemptInv /\ HalfInv
  <2>1. \A r \in Requests : pc[r] = "idle" /\ result[r] = "none"
    BY <1>1 DEF Init
  <2> QED
    BY <1>1, <2>1 DEF Init, LockInv, AttemptInv, Critical, Loading, HalfInv, BackendInv,
                      PlacesInv, NeverHalfLoaded
<1>2. HalfInv => NeverHalfLoaded
  BY DEF HalfInv
<1> QED
  BY <1>1, <1>2, LoaderTypeOK, NextLockInv, NextAttemptInv, NextHalfInv, PTL DEF Spec
===============================================================================
