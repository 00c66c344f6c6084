----------------------- MODULE ServingController_proofs -----------------------
(***************************************************************************)
(* Proofs about the Serving reconciler, for any number of attempts and     *)
(* disturbances: it implements ServingLifecycle, what the status refers to *)
(* is neither cleaned up nor joined by what an attempt that failed has     *)
(* left, and a reconciler with nothing to do has the status right.         *)
(***************************************************************************)
EXTENDS ServingProperties, TLAPS

-----------------------------------------------------------------------------
(* The inductive invariants.                                               *)

\* The worker creates objects for an attempt that has begun.
TypeInv == TypeOK /\ (pc = "Create" => attempt \in Attempts)

\* A copy that still has the current version is the object, but for the references
\* that an attempt collects.
CopiesInv ==
  /\ cacheFresh => cache = serving
  /\ localFresh =>
       /\ local.live = serving.live /\ local.started = serving.started /\ local.state = serving.state
       /\ pc \notin {"Create", "Record"} => local.ref = serving.ref
  /\ pc # "Idle" => local.live
  /\ timer = "updating" /\ timerFresh => serving.live /\ IsStarting(serving)

\* What is recorded of the start goes together.
PhaseInv ==
  /\ serving.state \in {"Starting", "Running", "Failed"} => serving.started
  /\ serving.state = "" => ~serving.started /\ serving.ref = {}

\* Nobody speaks of a timeout before it is over.
ClockInv ==
  /\ serving.state = "Timeout" \/ cache.state = "Timeout" \/ local.state = "Timeout" => TimedOut
  /\ timer # "off" => timeout
  /\ timer = "updating" => elapsed
  /\ pc \in {"LateClean", "LateRecord"} => TimedOut

\* What runs was seen to be started: a reconcile that does not see the start of a
\* Serving is behind by no more than that.
Begun(s) == s.started /\ s.state # ""
SeenInv ==
  /\ Begun(cache) => Begun(serving)
  /\ pc # "Idle" /\ Begun(local) => Begun(cache)
  /\ serving.state \in {"Running", "Failed"} => Begun(cache) /\ (pc # "Idle" => Begun(local))

\* From the reset of the status to the record of the start nothing is recorded.
Starting == pc \in {"Clean", "Create", "Record"}
WorkerInv ==
  /\ pc \in {"StartTimer", "Decide", "Result", "LateClean", "LateRecord", "Reset"} => local.state # "Timeout"
  /\ pc = "Result" => Begun(local)
  /\ pc \in {"LateClean", "LateRecord", "Reset"} => ~Begun(local)
  /\ Starting => local.state = "" /\ ~local.started /\ serving.ref = {} /\ ~serving.started
  /\ pc = "Clean" => local.ref = {}

\* Recorded objects are cleaned up for a timeout only, and no reconcile that began
\* before the timeout was over is at work then.
GoneInv ==
  /\ \A o \in serving.ref : objects[o] = "gone" =>
       /\ TimedOut /\ serving.state \in {"Starting", "Timeout"}
       /\ pc \in {"Idle", "Check", "LateClean", "LateRecord"}
  /\ pc \in {"Create", "Record"} => \A o \in local.ref : objects[o] # "gone"

\* An engine makes nothing but what its Clean finds and what is Lost.
KindsInv == \A o \in Objects : objects[o] # "none" => o[1] \in Cleaned \union Lost

IInv ==
  /\ TypeInv /\ CopiesInv /\ PhaseInv /\ ClockInv /\ SeenInv /\ WorkerInv /\ GoneInv /\ KindsInv

\* What is left of an attempt goes before the next one begins: Clean finds it in
\* caches that knew of it when the reconcile began.
BeforeClean == pc \in {"Check", "StartTimer", "Decide", "LateClean", "Reset", "Clean"}
KeptInv == "lag" \notin disturb =>
  /\ \A o \in LiveObjects : o[2] = attempt
  /\ BeforeClean => \A o \in LiveObjects : Live(objectCache[o])
  /\ pc \in {"Create", "Record"} => LiveObjects \subseteq local.ref
  /\ pc = "LateRecord" => LiveObjects = {}
  /\ serving.started => LiveObjects \subseteq serving.ref

\* A Serving is in the queue, or will be when the informer brings its last change, or
\* the worker has it, or there is nothing to say of it.
Told ==
  /\ serving.started \/ serving.state = "Timeout"
  /\ ~TimedOut => Result(serving.ref, objectCache) \in {"", serving.state}
FollowInv == serving.live => queued \/ ~cacheFresh \/ (pc # "Idle" /\ localFresh) \/ Told

-----------------------------------------------------------------------------
(* Types                                                                   *)

LEMMA StateType ==
  ASSUME NEW s \in Serving, NEW state \in ServingStates
  PROVE  /\ [s EXCEPT !.state = state] \in Serving
         /\ [s EXCEPT !.started = TRUE, !.state = state] \in Serving
  BY DEF Serving

LEMMA CopyType == NewServing \in Serving /\ NoCopy \in Serving
<1>1. NewServing \in Serving
  BY DEF NewServing, Serving, ServingStates
<1> QED
  BY <1>1 DEF NoCopy, Serving

LEMMA CopyIs ==
  /\ NewServing.live = TRUE /\ NewServing.started = FALSE /\ NewServing.state = "" /\ NewServing.ref = {}
  /\ NoCopy.live = FALSE /\ NoCopy.started = FALSE /\ NoCopy.state = "" /\ NoCopy.ref = {}
  BY DEF NewServing, NoCopy

\* What an engine creates is found by its Clean, or lost.
LEMMA OrderKinds ==
  ASSUME NEW i \in DOMAIN Order
  PROVE  Order[i] \in Kinds /\ Order[i] \in Cleaned \union Lost
<1>1. CASE engine = "knative"
  <2>1. Order = <<"component", "workload", "proxy">>
    BY <1>1 DEF Order, KnativeRun
  <2> QED
    BY <1>1, <2>1 DEF Kinds, Cleaned, Lost, KnativeClean
<1>2. CASE engine = "kedahttp"
  <2>1. Order = <<"component", "workload", "service", "scaler", "proxy">>
    BY <1>2 DEF Order, KedaHttpRun
  <2> QED
    BY <1>2, <2>1 DEF Kinds, Cleaned, Lost, KedaHttpClean
<1>3. CASE engine # "knative" /\ engine # "kedahttp"
  <2>1. Order = <<"component", "workload", "scaler", "proxy">>
    BY <1>3 DEF Order, AsyncRun
  <2> QED
    BY <1>3, <2>1 DEF Kinds, Cleaned, Lost, AsyncClean
<1> QED
  BY <1>1, <1>2, <1>3

LEMMA ResultType ==
  ASSUME NEW ref, NEW objs
  PROVE  Result(ref, objs) \in {"", "error", "Running", "Failed"}
<1>1. \A o : KnativeResult(o) \in {"", "Running", "Failed"} /\ KedaHttpResult(o) \in {"", "Running"}
             /\ AsyncResult(o) \in {"", "Running"} /\ ProxyResult(o) \in {"", "error", "Running"}
  BY DEF KnativeResult, KedaHttpResult, AsyncResult, ProxyResult
<1> QED
  BY <1>1 DEF Result

LEMMA DisturbType ==
  ASSUME TypeOK, NEW kind, Disturb(kind)
  PROVE  disturb' \subseteq Disturbances /\ disturb \subseteq disturb'
  BY DEF Disturb, TypeOK

\* What a status update does to the Serving and to its copies, whatever follows it.
LEMMA WriteType ==
  ASSUME TypeOK, NEW new \in Serving, NEW Then \in BOOLEAN, WriteStatus(new, Then)
  PROVE  /\ serving' \in Serving /\ cacheFresh' \in BOOLEAN /\ timerFresh' \in BOOLEAN
         /\ disturb' \subseteq Disturbances
         /\ Then \/ (Fail /\ UNCHANGED <<timerKey, timer>>)
<1>1. Disturb("write") => disturb' \subseteq Disturbances
  BY DisturbType
<1> QED
  BY <1>1 DEF WriteStatus, timers, Change, TypeOK

LEMMA StopTimerType ==
  ASSUME TypeOK, StopTimer
  PROVE  timerKey' \in BOOLEAN /\ (timer' = timer \/ timer' = "off")
  BY DEF StopTimer, TypeOK

\* An attempt creates the objects one by one, and collects their names.
Creates(o) ==
  /\ pc = "Create" /\ o \in Objects /\ o[1] \in Cleaned \union Lost /\ o[2] = attempt
  /\ UNCHANGED <<spec, serving, elapsed, attempt, caches, timers>>
  /\ \/ /\ objects' = [objects EXCEPT ![o] = "new"]
        /\ local' = [local EXCEPT !.ref = local.ref \union {o}] /\ UNCHANGED <<queued, localFresh, disturb>>
        /\ pc' \in {"Create", "Record"}
     \/ /\ Fail /\ Disturb("write")
        /\ objects' \in {objects, [objects EXCEPT ![o] = "new"]}
LEMMA CreateWrites ==
  ASSUME TypeInv, Create
  PROVE  \E o \in Objects : Creates(o)
<1>1. PICK i \in Missing :
        LET o == <<Order[i], attempt>> IN
        \/ /\ objects' = [objects EXCEPT ![o] = "new"]
           /\ Continue([local EXCEPT !.ref = @ \union {o}], IF Missing = {i} THEN "Record" ELSE "Create")
           /\ UNCHANGED disturb
        \/ /\ Disturb("write") /\ Fail
           /\ objects' \in {objects, [objects EXCEPT ![o] = "new"]}
  BY DEF Create
<1> DEFINE o == <<Order[i], attempt>>
<1>2. o \in Objects /\ o[1] \in Cleaned \union Lost /\ o[2] = attempt
  BY OrderKinds DEF Missing, TypeInv, Create, Objects
<1> HIDE DEF o
<1>3. \/ /\ objects' = [objects EXCEPT ![o] = "new"]
         /\ Continue([local EXCEPT !.ref = @ \union {o}], IF Missing = {i} THEN "Record" ELSE "Create")
         /\ UNCHANGED disturb
      \/ /\ Disturb("write") /\ Fail
         /\ objects' \in {objects, [objects EXCEPT ![o] = "new"]}
  BY <1>1 DEF o
<1> QED
  BY <1>2, <1>3 DEF Creates, Create, Continue

\* Clean deletes objects it found, all of them unless a write fails.
LEMMA CleanWrites ==
  ASSUME TypeOK, CleanBeforeRun \/ LateClean
  PROVE  /\ UNCHANGED <<spec, serving, elapsed, caches, timers>>
         /\ \E D \in SUBSET Listed : objects' = Without(D)
         /\ \/ /\ objects' = Without(Listed) /\ UNCHANGED <<disturb, queued, local, localFresh>>
               /\ \/ pc = "Clean" /\ pc' = "Create" /\ attempt' = attempt + 1 /\ attempt < MaxAttempts
                  \/ pc = "LateClean" /\ pc' = "LateRecord" /\ attempt' = attempt
            \/ Fail /\ Disturb("write") /\ UNCHANGED attempt
  BY DEF CleanBeforeRun, LateClean, Clean, Goto

LEMMA TypeStep == TypeInv /\ [Next]_vars => TypeInv'
<1> SUFFICES ASSUME TypeInv, [Next]_vars PROVE TypeInv'
  OBVIOUS
<1> TypeOK
  BY DEF TypeInv
<1> USE CopyType DEF spec, caches, worker, timers, Goto, Leave, Return, Fail, KeepTimer
<1>1. CASE StartReconcile
  BY <1>1, DisturbType, StopTimerType DEF StartReconcile, TypeInv, TypeOK, PCs
<1>2. CASE Check
  <2> DEFINE new == [local EXCEPT !.state = "Timeout"]
  <2>1. new \in Serving
    BY StateType DEF TypeOK, ServingStates
  <2> HIDE DEF new
  <2>2. CASE WriteStatus(new, Return /\ KeepTimer)
    BY <1>2, <2>1, <2>2, WriteType DEF Check, TypeInv, TypeOK, PCs
  <2>3. CASE ~WriteStatus(new, Return /\ KeepTimer)
    BY <1>2, <2>3 DEF Check, TypeInv, TypeOK, PCs, new
  <2> QED
    BY <2>2, <2>3
<1>3. CASE StartTimer \/ Decide
  BY <1>3 DEF StartTimer, Decide, TypeInv, TypeOK, PCs
<1>4. CASE GetServingResult
  <2> DEFINE res == Result(local.ref, objectCache)
             new == [local EXCEPT !.state = res]
  <2>1. res # "error" => new \in Serving
    BY StateType, ResultType DEF TypeOK, ServingStates
  <2>2. \/ res # "error" /\ WriteStatus(new, Return /\ StopTimer)
        \/ (Return \/ Fail) /\ UNCHANGED <<serving, cacheFresh, timers, disturb>>
    BY <1>4 DEF GetServingResult
  <2> HIDE DEF new, res
  <2> QED
    BY <1>4, <2>1, <2>2, WriteType, StopTimerType DEF GetServingResult, TypeInv, TypeOK, PCs
<1>5. CASE ResetStatus
  BY <1>5, WriteType DEF ResetStatus, TypeInv, TypeOK, PCs, Continue
<1>6. CASE CleanBeforeRun \/ LateClean
  <2>1. objects' \in [Objects -> ObjectStates]
    BY <1>6, CleanWrites DEF Without, TypeOK, ObjectStates
  <2>2. attempt' \in 0 .. MaxAttempts /\ (pc' = "Create" => attempt' \in Attempts)
    <3>1. (attempt' = attempt /\ pc' # "Create") \/ (attempt' = attempt + 1 /\ attempt < MaxAttempts)
      BY <1>6, CleanWrites
    <3> QED
      BY <3>1, ServingAssumption DEF TypeOK, Attempts
  <2> QED
    BY <1>6, <2>1, <2>2, CleanWrites, DisturbType DEF TypeInv, TypeOK, PCs
<1>7. CASE LateRecord
  <2> DEFINE new == [local EXCEPT !.started = TRUE, !.state = "Timeout"]
  <2>1. new \in Serving
    BY StateType DEF TypeOK, ServingStates
  <2>2. WriteStatus(new, Return /\ KeepTimer)
    BY <1>7 DEF LateRecord
  <2> HIDE DEF new
  <2> QED
    BY <1>7, <2>1, <2>2, WriteType DEF LateRecord, TypeInv, TypeOK, PCs
<1>8. CASE Create
  <2>1. PICK o \in Objects : Creates(o)
    BY <1>8, CreateWrites
  <2>2. objects' \in [Objects -> ObjectStates]
    BY <2>1 DEF Creates, TypeOK, ObjectStates
  <2>3. [local EXCEPT !.ref = local.ref \union {o}] \in Serving
    BY DEF TypeOK, Serving
  <2> QED
    BY <2>1, <2>2, <2>3, DisturbType DEF Creates, TypeInv, TypeOK, PCs
<1>9. CASE RecordStart
  <2> DEFINE new == [local EXCEPT !.started = TRUE, !.state = "Starting"]
  <2>1. new \in Serving
    BY StateType DEF TypeOK, ServingStates
  <2>2. WriteStatus(new, Return /\ KeepTimer)
    BY <1>9 DEF RecordStart
  <2> HIDE DEF new
  <2> QED
    BY <1>9, <2>1, <2>2, WriteType DEF RecordStart, TypeInv, TypeOK, PCs
<1>10. CASE TimerFires
  BY <1>10 DEF TimerFires, GoroutineEnds, TypeInv, TypeOK
<1>11. CASE TimerWrites
  <2>1. [serving EXCEPT !.state = "Timeout"] \in Serving
    BY StateType DEF TypeOK, ServingStates
  <2> QED
    BY <1>11, <2>1, DisturbType DEF TimerWrites, GoroutineEnds, TypeInv, TypeOK
<1>12. CASE Elapse \/ SyncServing \/ SyncObjects
  BY <1>12 DEF Elapse, SyncServing, SyncObjects, TypeInv, TypeOK
<1>13. CASE Crash
  BY <1>13, DisturbType DEF Crash, TypeInv, TypeOK, PCs
<1>14. CASE DeleteServing
  <2>1. [serving EXCEPT !.live = FALSE] \in Serving
    BY DEF TypeOK, Serving
  <2> QED
    BY <1>14, <2>1, DisturbType DEF DeleteServing, Change, TypeInv, TypeOK
<1>15. CASE CollectGarbage
  BY <1>15 DEF CollectGarbage, TypeInv, TypeOK, ObjectStates
<1>16. ASSUME NEW o \in Objects, ObjectProgress(o) \/ ObjectFlaps(o) \/ DeleteObject(o)
       PROVE  TypeInv'
  <2>1. \E state \in ObjectStates : ObjectBecomes(o, state)
    BY <1>16 DEF ObjectProgress, ObjectFlaps, DeleteObject, ObjectStates
  <2>2. disturb' \subseteq Disturbances
    BY <1>16, DisturbType DEF ObjectProgress, ObjectFlaps, DeleteObject, TypeOK
  <2> QED
    BY <2>1, <2>2 DEF ObjectBecomes, TypeInv, TypeOK
<1>17. CASE UNCHANGED vars
  BY <1>17 DEF vars, TypeInv, TypeOK
<1> QED
  BY <1>1, <1>2, <1>3, <1>4, <1>5, <1>6, <1>7, <1>8, <1>9, <1>10, <1>11, <1>12, <1>13, <1>14, <1>15, <1>16, <1>17
     DEF Next, WorkerStep

LEMMA TypeInit == Init => TypeInv
<1> SUFFICES ASSUME Init PROVE TypeInv
  OBVIOUS
<1>1. 0 \in 0 .. MaxAttempts
  BY ServingAssumption
<1> QED
  BY <1>1, CopyType DEF Init, TypeInv, TypeOK, PCs, ObjectStates

\* The Serving, its objects, the caches and the worker keep their types, whatever
\* Reconcile, the timer goroutine and the engines do.
THEOREM TypeOKHolds == Spec => []TypeOK
<1>1. TypeInv => TypeOK
  BY DEF TypeInv
<1> QED
  BY <1>1, TypeInit, TypeStep, PTL DEF Spec

-----------------------------------------------------------------------------
(* What the writes of the worker, the timer goroutine and the users change *)

\* The spec stays, and time does not go back.
LEMMA Frame ==
  ASSUME Next
  PROVE  UNCHANGED spec /\ (elapsed' = elapsed \/ elapsed' = TRUE) /\ (TimedOut => TimedOut')
<1>1. UNCHANGED spec /\ (elapsed' = elapsed \/ elapsed' = TRUE)
  BY DEF spec, Next, WorkerStep, StartReconcile, Check, StartTimer, Decide, GetServingResult, ResetStatus,
     CleanBeforeRun, LateClean, LateRecord, Create, RecordStart, TimerFires, TimerWrites, Elapse, SyncServing,
     SyncObjects, Crash, DeleteServing, CollectGarbage, ObjectProgress, ObjectFlaps, DeleteObject,
     ObjectBecomes
<1> QED
  BY <1>1 DEF TimedOut, spec

\* The ways the Serving changes, whoever writes it and whatever he goes on with.
Sets(state, started, ref) ==
  /\ serving'.state = state /\ serving'.started = started /\ serving'.ref = ref
  /\ serving'.live = serving.live
  /\ serving.live /\ UNCHANGED <<objects, objectCache, cache, elapsed>>
Expired == IsStarting(serving) /\ TimedOut /\ Sets("Timeout", serving.started, serving.ref)
Late == pc = "LateRecord" /\ pc' = "Idle" /\ localFresh /\ Sets("Timeout", TRUE, serving.ref)
Reported ==
  /\ pc = "Result" /\ pc' = "Idle" /\ localFresh
  /\ \E state \in {"Running", "Failed"} : Sets(state, serving.started, serving.ref)
WasReset == pc = "Reset" /\ localFresh /\ Sets("", FALSE, {})
StartRecorded == pc = "Record" /\ pc' = "Idle" /\ localFresh /\ Sets("Starting", TRUE, local.ref)
Deleted ==
  /\ ~serving'.live /\ serving'.state = serving.state /\ serving'.started = serving.started /\ serving'.ref = serving.ref
  /\ serving.live /\ UNCHANGED <<objects, objectCache, cache, elapsed>>

\* Only a current copy is written.
LEMMA ServingWritten ==
  ASSUME TypeOK, CopiesInv, ClockInv, WorkerInv, Next
  PROVE  \/ serving' = serving
         \/ Expired \/ Late \/ Reported \/ WasReset \/ StartRecorded \/ Deleted
<1> USE DEF spec, caches, worker, timers, Leave, Return, Fail, KeepTimer
<1>1. ASSUME NEW new, NEW Then, WriteStatus(new, Then)
      PROVE  serving' = serving \/ (localFresh /\ serving' = new)
  BY <1>1 DEF WriteStatus, Change
<1>2. CASE Check
  <2> DEFINE new == [local EXCEPT !.state = "Timeout"]
  <2>1. WriteStatus(new, Return /\ KeepTimer) \/ serving' = serving
    BY <1>2 DEF Check
  <2>2. new.live = local.live /\ new.state = "Timeout" /\ new.started = local.started /\ new.ref = local.ref
    BY DEF TypeOK, Serving
  <2> HIDE DEF new
  <2>3. serving' = serving \/ (localFresh /\ serving' = new /\ TimedOut /\ IsStarting(local))
    BY <1>1, <1>2, <2>1 DEF Check, new
  <2>4. UNCHANGED <<objects, objectCache, cache, elapsed>> /\ pc = "Check"
    BY <1>2 DEF Check
  <2> QED
    BY <2>2, <2>3, <2>4 DEF CopiesInv, Expired, Sets, IsStarting
<1>3. CASE GetServingResult
  <2> DEFINE res == Result(local.ref, objectCache)
             new == [local EXCEPT !.state = res]
  <2>1. \/ serving' = serving
        \/ WriteStatus(new, Return /\ StopTimer) /\ res \notin {"", "error"}
    BY <1>3 DEF GetServingResult
  <2>2. new.live = local.live /\ new.state = res /\ new.started = local.started /\ new.ref = local.ref
    BY DEF TypeOK, Serving
  <2>3. res \in {"", "error", "Running", "Failed"}
    BY ResultType
  <2>4. UNCHANGED <<objects, objectCache, cache, elapsed>> /\ pc = "Result"
    BY <1>3 DEF GetServingResult
  <2> HIDE DEF new, res
  <2>5. pc' = "Idle" \/ serving' = serving
    BY <2>1 DEF WriteStatus
  <2>6. serving' = serving \/ (localFresh /\ serving' = new /\ res \in {"Running", "Failed"})
    BY <1>1, <2>1, <2>3
  <2> QED
    BY <2>2, <2>4, <2>5, <2>6 DEF CopiesInv, Reported, Sets
<1>4. CASE ResetStatus
  <2>1. WriteStatus(NewServing, Continue(NewServing, "Clean") /\ KeepTimer) /\ pc = "Reset"
        /\ UNCHANGED <<objects, objectCache, cache, elapsed>>
    BY <1>4 DEF ResetStatus
  <2>2. serving' = serving \/ (localFresh /\ serving' = NewServing)
    BY <1>1, <2>1
  <2> QED
    BY <2>1, <2>2, CopyIs DEF CopiesInv, WasReset, Sets
<1>5. CASE LateRecord
  <2> DEFINE new == [local EXCEPT !.started = TRUE, !.state = "Timeout"]
  <2>1. WriteStatus(new, Return /\ KeepTimer) /\ pc = "LateRecord"
        /\ UNCHANGED <<objects, objectCache, cache, elapsed>>
    BY <1>5 DEF LateRecord
  <2>2. new.live = local.live /\ new.state = "Timeout" /\ new.started = TRUE /\ new.ref = local.ref
    BY DEF TypeOK, Serving
  <2> HIDE DEF new
  <2>3. pc' = "Idle"
    BY <2>1 DEF WriteStatus
  <2> QED
    BY <1>1, <2>1, <2>2, <2>3 DEF CopiesInv, Late, Sets
<1>6. CASE RecordStart
  <2> DEFINE new == [local EXCEPT !.started = TRUE, !.state = "Starting"]
  <2>1. WriteStatus(new, Return /\ KeepTimer) /\ pc = "Record"
        /\ UNCHANGED <<objects, objectCache, cache, elapsed>>
    BY <1>6 DEF RecordStart
  <2>2. new.live = local.live /\ new.state = "Starting" /\ new.started = TRUE /\ new.ref = local.ref
    BY DEF TypeOK, Serving
  <2> HIDE DEF new
  <2>3. pc' = "Idle"
    BY <2>1 DEF WriteStatus
  <2> QED
    BY <1>1, <2>1, <2>2, <2>3 DEF CopiesInv, StartRecorded, Sets
<1>7. CASE TimerWrites
  <2> DEFINE new == [serving EXCEPT !.state = "Timeout"]
  <2>1. serving' = serving \/ (timerFresh /\ serving' = new)
    BY <1>7 DEF TimerWrites
  <2>2. new.live = serving.live /\ new.state = "Timeout" /\ new.started = serving.started /\ new.ref = serving.ref
    BY DEF TypeOK, Serving
  <2>3. UNCHANGED <<objects, objectCache, cache, elapsed>> /\ timer = "updating"
    BY <1>7 DEF TimerWrites
  <2> HIDE DEF new
  <2> QED
    BY <2>1, <2>2, <2>3 DEF CopiesInv, ClockInv, Expired, Sets, TimedOut
<1>8. CASE DeleteServing
  <2> DEFINE new == [serving EXCEPT !.live = FALSE]
  <2>1. serving' = new /\ serving.live /\ UNCHANGED <<objects, objectCache, cache, elapsed>>
    BY <1>8 DEF DeleteServing, Change
  <2>2. ~new.live /\ new.state = serving.state /\ new.started = serving.started /\ new.ref = serving.ref
    BY DEF TypeOK, Serving
  <2> HIDE DEF new
  <2> QED
    BY <2>1, <2>2 DEF Deleted
<1>9. CASE \/ StartReconcile \/ StartTimer \/ Decide \/ CleanBeforeRun \/ LateClean \/ Create \/ TimerFires
           \/ Elapse \/ SyncServing \/ SyncObjects \/ Crash \/ CollectGarbage
           \/ \E o \in Objects : ObjectProgress(o) \/ ObjectFlaps(o) \/ DeleteObject(o)
  BY <1>9 DEF StartReconcile, StartTimer, Decide, CleanBeforeRun, LateClean, Create, TimerFires, Elapse,
     SyncServing, SyncObjects, Crash, CollectGarbage, ObjectProgress, ObjectFlaps, DeleteObject, ObjectBecomes
<1> QED
  BY <1>2, <1>3, <1>4, <1>5, <1>6, <1>7, <1>8, <1>9 DEF Next, WorkerStep

\* A cache shows what it showed, or what there is.
LEMMA CachesWritten ==
  ASSUME Next
  PROVE  /\ cache' = cache \/ (cache' = serving /\ serving' = serving)
         /\ objectCache' = objectCache \/ (objectCache' = objects /\ objects' = objects)
  BY DEF spec, caches, Next, WorkerStep, StartReconcile, Check, StartTimer, Decide, GetServingResult,
     ResetStatus, CleanBeforeRun, LateClean, LateRecord, Create, RecordStart, TimerFires, TimerWrites, Elapse,
     SyncServing, SyncObjects, Crash, DeleteServing, CollectGarbage, ObjectProgress, ObjectFlaps,
     DeleteObject, ObjectBecomes

\* What anybody but the worker does to an object: one that there is not does not
\* appear, and nobody else cleans up.
LEMMA ObjectWritten ==
  ASSUME TypeOK, Next, ~Create, ~CleanBeforeRun, ~LateClean, NEW o \in Objects
  PROVE  \/ objects'[o] = objects[o]
         \/ objects[o] # "none" /\ objects'[o] \notin {"none", "gone"} /\ (Live(objects'[o]) => Live(objects[o]))
<1>1. ASSUME NEW p \in Objects, NEW state, ObjectBecomes(p, state)
      PROVE  objects'[o] = IF o = p THEN state ELSE objects[o]
  BY <1>1 DEF ObjectBecomes, TypeOK
<1>2. ASSUME NEW p \in Objects, ObjectProgress(p) \/ ObjectFlaps(p) \/ DeleteObject(p)
      PROVE  \E state \in {"unready", "ready", "failed", "removed"} : ObjectBecomes(p, state) /\ Live(objects[p])
  BY <1>2 DEF ObjectProgress, ObjectFlaps, DeleteObject, Live
<1>3. CASE CollectGarbage
  BY <1>3 DEF CollectGarbage, Live
<1>4. CASE objects' = objects
  BY <1>4
<1>5. CASE \E p \in Objects : ObjectProgress(p) \/ ObjectFlaps(p) \/ DeleteObject(p)
  BY <1>1, <1>2, <1>5 DEF Live
<1>6. \/ CollectGarbage \/ objects' = objects
      \/ \E p \in Objects : ObjectProgress(p) \/ ObjectFlaps(p) \/ DeleteObject(p)
  BY DEF Next, WorkerStep, StartReconcile, Check, StartTimer, Decide, GetServingResult, ResetStatus,
     LateRecord, RecordStart, TimerFires, TimerWrites, Elapse, SyncServing, SyncObjects, Crash, DeleteServing
<1> QED
  BY <1>3, <1>4, <1>5, <1>6

\* Whoever believes his copy to be current has a current one, and the goroutine waits
\* for the timeout of a Serving that has one.
LEMMA CopiesWritten ==
  ASSUME TypeOK, Next
  PROVE  /\ cacheFresh' => serving' = serving /\ (cache' = serving \/ (cacheFresh /\ cache' = cache))
         /\ timer' = "updating" /\ timerFresh' =>
              /\ serving' = serving
              /\ \/ timer = "updating" /\ timerFresh
                 \/ cache.live /\ IsStarting(cache) /\ cacheFresh
         /\ timer' # "off" => timer # "off" \/ timeout
         /\ timer' = "updating" => timer = "updating" \/ elapsed
<1> USE DEF spec, caches, worker, timers, KeepTimer
<1>1. ASSUME NEW new, Change(new)
      PROVE  /\ cacheFresh' => cacheFresh /\ serving' = serving
             /\ timerFresh' => timerFresh /\ serving' = serving
  BY <1>1 DEF Change
<1>2. ASSUME NEW new, NEW Then, WriteStatus(new, Then), Then => timer' = timer \/ timer' = "off"
      PROVE  /\ cacheFresh' => cacheFresh /\ serving' = serving
             /\ timerFresh' => timerFresh /\ serving' = serving
             /\ timer' = timer \/ timer' = "off"
  BY <1>1, <1>2 DEF WriteStatus
<1>3. ASSUME NEW new, NEW Then,
             WriteStatus(new, Then) \/ UNCHANGED <<serving, cacheFresh, timers>>, UNCHANGED cache,
             Then => timer' = timer \/ timer' = "off"
      PROVE  /\ cacheFresh' => serving' = serving /\ cacheFresh /\ cache' = cache
             /\ timerFresh' => timerFresh /\ serving' = serving
             /\ timer' = timer \/ timer' = "off"
  BY <1>2, <1>3
<1>4. CASE Check
  <2> DEFINE new == [local EXCEPT !.state = "Timeout"]
             Then == Return /\ KeepTimer
  <2>1. /\ WriteStatus(new, Then) \/ UNCHANGED <<serving, cacheFresh, timers>>
        /\ UNCHANGED cache /\ (Then => timer' = timer)
    BY <1>4 DEF Check
  <2> HIDE DEF new, Then
  <2> QED
    BY <1>3, <2>1
<1>5. CASE GetServingResult
  <2> DEFINE new == [local EXCEPT !.state = Result(local.ref, objectCache)]
             Then == Return /\ StopTimer
  <2>1. /\ WriteStatus(new, Then) \/ UNCHANGED <<serving, cacheFresh, timers>>
        /\ UNCHANGED cache /\ (Then => timer' = timer \/ timer' = "off")
    BY <1>5, StopTimerType DEF GetServingResult
  <2> HIDE DEF new, Then
  <2> QED
    BY <1>3, <2>1
<1>6. CASE ResetStatus
  <2> DEFINE Then == Continue(NewServing, "Clean") /\ KeepTimer
  <2>1. WriteStatus(NewServing, Then) /\ UNCHANGED cache /\ (Then => timer' = timer)
    BY <1>6 DEF ResetStatus
  <2> HIDE DEF Then
  <2> QED
    BY <1>3, <2>1
<1>7. CASE LateRecord
  <2> DEFINE new == [local EXCEPT !.started = TRUE, !.state = "Timeout"]
             Then == Return /\ KeepTimer
  <2>1. WriteStatus(new, Then) /\ UNCHANGED cache /\ (Then => timer' = timer)
    BY <1>7 DEF LateRecord
  <2> HIDE DEF new, Then
  <2> QED
    BY <1>3, <2>1
<1>8. CASE RecordStart
  <2> DEFINE new == [local EXCEPT !.started = TRUE, !.state = "Starting"]
             Then == Return /\ KeepTimer
  <2>1. WriteStatus(new, Then) /\ UNCHANGED cache /\ (Then => timer' = timer)
    BY <1>8 DEF RecordStart
  <2> HIDE DEF new, Then
  <2> QED
    BY <1>3, <2>1
<1>9. CASE DeleteServing
  <2>1. PICK new : Change(new)
    BY <1>9 DEF DeleteServing
  <2>2. UNCHANGED <<cache, timer>>
    BY <1>9 DEF DeleteServing
  <2> QED
    BY <1>1, <2>1, <2>2
<1>10. CASE StartReconcile
  BY <1>10, StopTimerType DEF StartReconcile
<1>11. CASE StartTimer
  <2>1. UNCHANGED <<serving, cache, cacheFresh>>
    BY <1>11 DEF StartTimer
  <2>2. (timer' = "waiting" /\ timeout) \/ UNCHANGED timers
    BY <1>11 DEF StartTimer, NeedsTimer
  <2> QED
    BY <2>1, <2>2
<1>12. CASE TimerFires \/ TimerWrites \/ SyncServing \/ Crash
  BY <1>12 DEF TimerFires, TimerWrites, GoroutineEnds, SyncServing, Crash
<1>13. CASE \/ Decide \/ CleanBeforeRun \/ LateClean \/ Create \/ Elapse \/ SyncObjects \/ CollectGarbage
            \/ \E o \in Objects : ObjectProgress(o) \/ ObjectFlaps(o) \/ DeleteObject(o)
  <2>1. UNCHANGED <<serving, cache, cacheFresh, timers>>
    BY <1>13 DEF Decide, CleanBeforeRun, LateClean, Create, Elapse, SyncObjects, CollectGarbage,
       ObjectProgress, ObjectFlaps, DeleteObject, ObjectBecomes
  <2> QED
    BY <2>1
<1> QED
  BY <1>4, <1>5, <1>6, <1>7, <1>8, <1>9, <1>10, <1>11, <1>12, <1>13 DEF Next, WorkerStep

\* How the worker goes on.
Begins ==
  /\ pc = "Idle" /\ pc' = "Check" /\ cache.live /\ local' = cache /\ localFresh' = cacheFresh
  /\ UNCHANGED <<serving, cache, cacheFresh, objects, objectCache, attempt, elapsed>>
  /\ objectCache = objects \/ "lag" \in disturb'
Goes(from, to) ==
  /\ pc = from /\ pc' = to /\ UNCHANGED <<local, localFresh, serving, cache, cacheFresh, objectCache, elapsed>>
Looks ==
  /\ UNCHANGED <<objects, attempt>>
  /\ \/ Goes("Check", "StartTimer") /\ ~TimedOut
     \/ Goes("StartTimer", "Decide")
     \/ Goes("Decide", "Result") /\ Begun(local)
     \/ Goes("Decide", "LateClean") /\ ~Begun(local) /\ TimedOut
     \/ Goes("Decide", "Reset") /\ ~Begun(local)
Resets ==
  /\ pc = "Reset" /\ pc' = "Clean" /\ local' = NewServing /\ serving' = NewServing
  /\ localFresh /\ UNCHANGED <<cache, objects, objectCache, attempt, elapsed>>
Cleans ==
  /\ objects' = Without(Listed)
  /\ \/ Goes("Clean", "Create") /\ attempt' = attempt + 1
     \/ Goes("LateClean", "LateRecord") /\ UNCHANGED attempt
LEMMA WorkerGoesOn ==
  ASSUME TypeInv, Next
  PROVE  \/ pc' = "Idle" /\ local' = NoCopy /\ localFresh' = FALSE
         \/ UNCHANGED <<pc, local>> /\ (localFresh' => localFresh /\ serving' = serving)
         \/ Begins \/ Looks \/ Resets \/ Cleans
         \/ /\ \E o \in Objects : Creates(o)
            /\ pc' \in {"Create", "Record"} /\ UNCHANGED localFresh
<1> TypeOK
  BY DEF TypeInv
<1> USE DEF spec, caches, worker, Goto, Leave, Return, Fail
<1>1. CASE StartReconcile
  BY <1>1 DEF StartReconcile, Begins, Disturb
<1>2. CASE Check
  <2>1. \/ pc' = "Idle" /\ local' = NoCopy /\ localFresh' = FALSE
        \/ ~TimedOut /\ pc = "Check" /\ pc' = "StartTimer" /\ UNCHANGED <<local, localFresh, serving, cacheFresh>>
    BY <1>2 DEF Check, WriteStatus
  <2>2. UNCHANGED <<cache, objects, objectCache, attempt, elapsed>>
    BY <1>2 DEF Check
  <2> QED
    BY <2>1, <2>2 DEF Looks, Goes
<1>3. CASE StartTimer
  BY <1>3 DEF StartTimer, Looks, Goes
<1>4. CASE Decide
  BY <1>4 DEF Decide, Looks, Goes, Begun
<1>5. CASE GetServingResult \/ LateRecord \/ RecordStart
  BY <1>5 DEF GetServingResult, LateRecord, RecordStart, WriteStatus
<1>6. CASE ResetStatus
  BY <1>6 DEF ResetStatus, WriteStatus, Change, Continue, Resets
<1>7. CASE CleanBeforeRun \/ LateClean
  BY <1>7, CleanWrites DEF Cleans, Goes
<1>8. CASE Create
  <2>1. PICK o \in Objects : Creates(o)
    BY <1>8, CreateWrites
  <2> QED
    BY <2>1 DEF Creates
<1>9. CASE TimerWrites
  BY <1>9 DEF TimerWrites
<1>10. CASE DeleteServing
  BY <1>10 DEF DeleteServing
<1>11. CASE \/ TimerFires \/ Elapse \/ SyncServing \/ SyncObjects \/ CollectGarbage
            \/ \E o \in Objects : ObjectProgress(o) \/ ObjectFlaps(o) \/ DeleteObject(o)
  <2>1. UNCHANGED <<pc, local, localFresh, serving>>
    BY <1>11 DEF TimerFires, Elapse, SyncServing, SyncObjects, CollectGarbage, ObjectProgress, ObjectFlaps,
       DeleteObject, ObjectBecomes
  <2> QED
    BY <2>1
<1>12. CASE Crash
  BY <1>12 DEF Crash
<1> QED
  BY <1>1, <1>2, <1>3, <1>4, <1>5, <1>6, <1>7, <1>8, <1>9, <1>10, <1>11, <1>12 DEF Next, WorkerStep

-----------------------------------------------------------------------------
(* The inductive invariant                                                 *)

\* What a step does to the worker's copy while objects are created.
LEMMA CreatesCopy ==
  ASSUME TypeOK, NEW o \in Objects, Creates(o), pc' # "Idle"
  PROVE  /\ objects' = [objects EXCEPT ![o] = "new"] /\ local'.ref = local.ref \union {o}
         /\ local'.live = local.live /\ local'.started = local.started /\ local'.state = local.state
         /\ UNCHANGED <<serving, cache, objectCache, attempt, disturb, elapsed>> /\ pc = "Create"
<1>1. local' = [local EXCEPT !.ref = local.ref \union {o}] /\ objects' = [objects EXCEPT ![o] = "new"]
      /\ UNCHANGED disturb
  BY DEF Creates, Fail, Leave
<1> QED
  BY <1>1 DEF Creates, caches, TypeOK, Serving

LEMMA CopiesStep == IInv /\ [Next]_vars => CopiesInv'
<1> SUFFICES ASSUME IInv, [Next]_vars PROVE CopiesInv'
  OBVIOUS
<1> TypeOK /\ TypeInv /\ CopiesInv
  BY DEF IInv, TypeInv
<1>1. CASE UNCHANGED vars
  BY <1>1 DEF CopiesInv, IsStarting, vars, caches, worker, timers
<1>2. CASE Next
  <2>1. cacheFresh' => cache' = serving'
    BY <1>2, CopiesWritten DEF CopiesInv
  <2>2. ASSUME localFresh'
        PROVE  /\ local'.live = serving'.live /\ local'.started = serving'.started
               /\ local'.state = serving'.state
               /\ pc' \notin {"Create", "Record"} => local'.ref = serving'.ref
    <3>1. CASE \E o \in Objects : Creates(o) /\ pc' \in {"Create", "Record"} /\ UNCHANGED localFresh
      BY <2>2, <3>1, CreatesCopy DEF CopiesInv
    <3>2. CASE Begins
      BY <2>2, <3>2 DEF Begins, CopiesInv
    <3>3. CASE Looks \/ Cleans
      BY <2>2, <3>3 DEF Looks, Cleans, Goes, CopiesInv
    <3>4. CASE Resets
      BY <3>4 DEF Resets
    <3>5. CASE UNCHANGED <<pc, local>> /\ localFresh /\ serving' = serving
      BY <3>5 DEF CopiesInv
    <3> QED
      BY <1>2, <2>2, <3>1, <3>2, <3>3, <3>4, <3>5, WorkerGoesOn
  <2>3. pc' # "Idle" => local'.live
    <3>1. CASE \E o \in Objects : Creates(o) /\ pc' \in {"Create", "Record"}
      BY <3>1, CreatesCopy DEF CopiesInv
    <3>2. CASE Begins \/ Looks \/ Cleans \/ Resets
      BY <3>2, CopyIs DEF Begins, Looks, Cleans, Goes, Resets, CopiesInv
    <3> QED
      BY <1>2, <3>1, <3>2, WorkerGoesOn DEF CopiesInv
  <2>4. timer' = "updating" /\ timerFresh' => serving'.live /\ IsStarting(serving')
    BY <1>2, CopiesWritten DEF CopiesInv, IsStarting
  <2> QED
    BY <2>1, <2>2, <2>3, <2>4 DEF CopiesInv, IsStarting
<1> QED
  BY <1>1, <1>2

LEMMA PhaseStep == IInv /\ [Next]_vars => PhaseInv'
<1> SUFFICES ASSUME IInv, [Next]_vars PROVE PhaseInv'
  OBVIOUS
<1> TypeOK
  BY DEF IInv, TypeInv
<1>1. CASE serving' = serving
  BY <1>1 DEF IInv, PhaseInv
<1>2. CASE Expired \/ Late \/ WasReset \/ StartRecorded \/ Deleted
  BY <1>2 DEF IInv, Expired, Late, WasReset, StartRecorded, Deleted, Sets, PhaseInv
<1>3. CASE Reported
  <2>1. serving.started
    BY <1>3 DEF Reported, IInv, WorkerInv, Begun, CopiesInv
  <2> QED
    BY <1>3, <2>1 DEF Reported, Sets, PhaseInv
<1> QED
  BY <1>1, <1>2, <1>3, ServingWritten DEF IInv, vars

LEMMA ClockStep == IInv /\ [Next]_vars => ClockInv'
<1> SUFFICES ASSUME IInv, [Next]_vars PROVE ClockInv'
  OBVIOUS
<1> TypeOK /\ TypeInv /\ ClockInv /\ CopiesInv /\ WorkerInv
  BY DEF IInv, TypeInv
<1>1. CASE UNCHANGED vars
  BY <1>1 DEF ClockInv, TimedOut, vars, spec, caches, worker, timers
<1>2. CASE Next
  <2>1. TimedOut => TimedOut'
    BY <1>2, Frame
  <2>2. serving'.state = "Timeout" => TimedOut'
    <3>1. CASE serving' = serving \/ Expired \/ Late \/ Deleted
      BY <2>1, <3>1 DEF ClockInv, Expired, Late, Deleted, Sets
    <3>2. CASE Reported \/ WasReset \/ StartRecorded
      BY <3>2 DEF Reported, WasReset, StartRecorded, Sets
    <3> QED
      BY <1>2, <3>1, <3>2, ServingWritten
  <2>3. cache'.state = "Timeout" => TimedOut'
    BY <1>2, <2>1, CachesWritten DEF ClockInv
  <2>4. local'.state = "Timeout" => TimedOut'
    <3>1. CASE \E o \in Objects : Creates(o) /\ pc' \in {"Create", "Record"}
      BY <2>1, <3>1, CreatesCopy DEF ClockInv
    <3>2. CASE Begins \/ Looks \/ Cleans \/ Resets
      BY <2>1, <3>2, CopyIs DEF Begins, Looks, Cleans, Goes, Resets, ClockInv
    <3> QED
      BY <1>2, <2>1, <3>1, <3>2, WorkerGoesOn, CopyIs DEF ClockInv
  <2>5. (timer' # "off" => timeout') /\ (timer' = "updating" => elapsed')
    BY <1>2, CopiesWritten, Frame DEF ClockInv, spec
  <2>6. pc' \in {"LateClean", "LateRecord"} => TimedOut'
    <3>1. pc' \in {"LateClean", "LateRecord"} => pc \in {"LateClean", "LateRecord"} \/ TimedOut
      BY <1>2, WorkerGoesOn DEF Begins, Looks, Cleans, Goes, Resets
    <3> QED
      BY <2>1, <3>1 DEF ClockInv
  <2> QED
    BY <2>2, <2>3, <2>4, <2>5, <2>6 DEF ClockInv
<1> QED
  BY <1>1, <1>2

\* Nobody takes the start of a Serving back.
LEMMA BegunStays ==
  ASSUME IInv, Next, Begun(serving)
  PROVE  Begun(serving')
<1> TypeOK /\ ClockInv /\ CopiesInv /\ WorkerInv
  BY DEF IInv, TypeInv
<1>1. ~WasReset
  BY DEF WasReset, WorkerInv, CopiesInv, Begun
<1> QED
  BY <1>1, ServingWritten DEF Expired, Late, Reported, StartRecorded, Deleted, Sets, Begun

LEMMA SeenStep == IInv /\ [Next]_vars => SeenInv'
<1> SUFFICES ASSUME IInv, [Next]_vars PROVE SeenInv'
  OBVIOUS
<1> TypeOK /\ TypeInv /\ ClockInv /\ CopiesInv /\ WorkerInv /\ SeenInv /\ PhaseInv
  BY DEF IInv, TypeInv
<1>1. CASE UNCHANGED vars
  BY <1>1 DEF SeenInv, Begun, vars, caches, worker
<1>2. CASE Next
  <2>1. Begun(cache') => Begun(serving')
    BY <1>2, BegunStays, CachesWritten DEF SeenInv
  <2>2. Begun(cache) => Begun(cache')
    BY <1>2, BegunStays, CachesWritten DEF SeenInv
  <2>3. pc' # "Idle" /\ Begun(local') => Begun(cache')
    <3>1. CASE \E o \in Objects : Creates(o) /\ pc' \in {"Create", "Record"}
      BY <2>2, <3>1, CreatesCopy DEF SeenInv, Begun
    <3>2. CASE Begins \/ Looks \/ Cleans \/ Resets
      BY <2>2, <3>2, CopyIs DEF Begins, Looks, Cleans, Goes, Resets, SeenInv, Begun
    <3> QED
      BY <1>2, <2>2, <3>1, <3>2, WorkerGoesOn DEF SeenInv
  <2>4. CASE serving'.state \in {"Running", "Failed"} /\ serving.state \in {"Running", "Failed"}
    <3>1. Begun(cache) /\ (pc # "Idle" => Begun(local))
      BY <2>4 DEF SeenInv
    <3>2. ASSUME pc' # "Idle" PROVE Begun(local')
      <4>1. CASE \E o \in Objects : Creates(o) /\ pc' \in {"Create", "Record"}
        BY <3>1, <4>1, CreatesCopy DEF Begun
      <4>2. CASE Begins \/ Looks \/ Cleans
        BY <3>1, <4>2 DEF Begins, Looks, Cleans, Goes
      <4>3. CASE Resets
        BY <2>4, <4>3, CopyIs DEF Resets
      <4> QED
        BY <1>2, <3>1, <3>2, <4>1, <4>2, <4>3, WorkerGoesOn
    <3> QED
      BY <2>1, <2>2, <2>3, <3>1, <3>2 DEF SeenInv, Begun
  <2>5. CASE serving'.state \in {"Running", "Failed"} /\ serving.state \notin {"Running", "Failed"}
    <3>1. Reported
      BY <1>2, <2>5, ServingWritten DEF Expired, Late, WasReset, StartRecorded, Deleted, Sets
    <3>2. Begun(cache) /\ pc' = "Idle"
      BY <3>1 DEF Reported, WorkerInv, SeenInv
    <3> QED
      BY <2>1, <2>2, <2>3, <3>2 DEF SeenInv, Begun
  <2> QED
    BY <2>1, <2>3, <2>4, <2>5 DEF SeenInv, Begun
<1> QED
  BY <1>1, <1>2

LEMMA WorkerKept == IInv /\ [Next]_vars => WorkerInv'
<1> SUFFICES ASSUME IInv, [Next]_vars PROVE WorkerInv'
  OBVIOUS
<1> TypeOK /\ TypeInv /\ ClockInv /\ CopiesInv /\ WorkerInv
  BY DEF IInv, TypeInv
<1>1. CASE UNCHANGED vars
  BY <1>1 DEF WorkerInv, Starting, Begun, vars, worker
<1>2. CASE Next
  <2>1. pc' \in {"StartTimer", "Decide", "Result", "LateClean", "LateRecord", "Reset"} =>
          local'.state # "Timeout"
    BY <1>2, WorkerGoesOn DEF Begins, Looks, Cleans, Goes, Resets, WorkerInv, ClockInv
  <2>2. /\ pc' = "Result" => Begun(local')
        /\ pc' \in {"LateClean", "LateRecord", "Reset"} => ~Begun(local')
        /\ pc' = "Clean" => local'.ref = {}
    BY <1>2, WorkerGoesOn, CopyIs DEF Begins, Looks, Cleans, Goes, Resets, WorkerInv
  <2>3. ASSUME Starting, Starting'
        PROVE  local'.state = "" /\ ~local'.started /\ serving'.ref = {} /\ ~serving'.started
    <3>1. local'.state = local.state /\ local'.started = local.started
      <4>1. CASE \E o \in Objects : Creates(o) /\ pc' \in {"Create", "Record"}
        BY <4>1, CreatesCopy
      <4>2. CASE Begins \/ Looks \/ Cleans \/ Resets
        BY <2>3, <4>2 DEF Starting, Begins, Looks, Cleans, Goes, Resets
      <4> QED
        BY <1>2, <2>3, <4>1, <4>2, WorkerGoesOn DEF Starting
    <3>2. serving'.ref = serving.ref /\ serving'.started = serving.started
      BY <1>2, <2>3, ServingWritten
         DEF Starting, Expired, Late, Reported, WasReset, StartRecorded, Deleted, Sets
    <3> QED
      BY <2>3, <3>1, <3>2 DEF WorkerInv
  <2>4. ASSUME ~Starting, Starting'
        PROVE  local'.state = "" /\ ~local'.started /\ serving'.ref = {} /\ ~serving'.started
    <3>1. Resets
      BY <1>2, <2>4, WorkerGoesOn DEF Starting, Begins, Looks, Cleans, Goes, Creates
    <3> QED
      BY <3>1, CopyIs DEF Resets
  <2> QED
    BY <2>1, <2>2, <2>3, <2>4 DEF WorkerInv, Starting, Begun
<1> QED
  BY <1>1, <1>2

\* Only Clean deletes an object for good.
LEMMA CleanedBy ==
  ASSUME TypeInv, Next, NEW o \in Objects, objects'[o] = "gone", objects[o] # "gone"
  PROVE  CleanBeforeRun \/ LateClean
<1> TypeOK
  BY DEF TypeInv
<1>1. CASE Create
  <2>1. PICK p \in Objects : Creates(p)
    BY <1>1, CreateWrites
  <2> QED
    BY <2>1 DEF Creates, TypeOK
<1> QED
  BY <1>1, ObjectWritten

LEMMA GoneStep == IInv /\ [Next]_vars => GoneInv'
<1> SUFFICES ASSUME IInv, [Next]_vars PROVE GoneInv'
  OBVIOUS
<1> TypeOK /\ TypeInv /\ ClockInv /\ CopiesInv /\ WorkerInv /\ SeenInv /\ PhaseInv /\ GoneInv
  BY DEF IInv, TypeInv
<1> serving.ref \subseteq Objects /\ local.ref \subseteq Objects
  BY DEF TypeOK, Serving
<1>1. CASE UNCHANGED vars
  BY <1>1 DEF GoneInv, TimedOut, vars, spec, worker
<1>2. CASE Next
  <2>1. ASSUME NEW o \in serving'.ref, objects'[o] = "gone"
        PROVE  /\ TimedOut' /\ serving'.state \in {"Starting", "Timeout"}
               /\ pc' \in {"Idle", "Check", "LateClean", "LateRecord"}
    <3>1. CASE StartRecorded
      BY <2>1, <3>1 DEF StartRecorded, Sets, GoneInv
    <3>2. CASE ~StartRecorded
      <4>1. serving'.ref = serving.ref
        BY <1>2, <2>1, <3>2, ServingWritten DEF Expired, Late, Reported, WasReset, Deleted, Sets
      <4>2. CASE objects[o] = "gone"
        <5>1. TimedOut /\ serving.state \in {"Starting", "Timeout"}
              /\ pc \in {"Idle", "Check", "LateClean", "LateRecord"}
          BY <2>1, <4>1, <4>2 DEF GoneInv
        <5>2. serving'.state \in {"Starting", "Timeout"}
          BY <1>2, <3>2, <5>1, ServingWritten DEF Expired, Late, Reported, WasReset, Deleted, Sets
        <5>3. pc' \in {"Idle", "Check", "LateClean", "LateRecord"}
          BY <1>2, <5>1, WorkerGoesOn DEF Begins, Looks, Cleans, Goes, Resets, Creates
        <5> QED
          BY <1>2, <5>1, <5>2, <5>3, Frame
      <4>3. CASE objects[o] # "gone"
        <5>1. CleanBeforeRun \/ LateClean
          BY <1>2, <2>1, <4>1, <4>3, CleanedBy
        <5>2. pc = "LateClean" /\ pc' \in {"Idle", "LateRecord"} /\ serving' = serving
          BY <2>1, <4>1, <5>1, CleanWrites DEF CleanBeforeRun, LateClean, WorkerInv, Starting, Fail, Leave
        <5>3. TimedOut /\ serving.state \notin {"", "Running", "Failed"}
          BY <2>1, <4>1, <5>2 DEF ClockInv, WorkerInv, SeenInv, PhaseInv
        <5> QED
          BY <1>2, <5>2, <5>3, Frame DEF TypeOK, Serving, ServingStates
      <4> QED
        BY <4>2, <4>3
    <3> QED
      BY <3>1, <3>2
  <2>2. ASSUME pc' \in {"Create", "Record"}, NEW o \in local'.ref
        PROVE  objects'[o] # "gone"
    <3>1. CASE Cleans
      BY <2>2, <3>1 DEF Cleans, Goes, WorkerInv
    <3>2. ASSUME NEW p \in Objects, Creates(p)
          PROVE  objects'[o] # "gone"
      <4>1. objects' = [objects EXCEPT ![p] = "new"] /\ local'.ref = local.ref \union {p} /\ pc = "Create"
        BY <2>2, <3>2, CreatesCopy
      <4> QED
        BY <2>2, <4>1 DEF GoneInv, TypeOK
    <3>3. CASE UNCHANGED <<pc, local>>
      <4>1. ~CleanBeforeRun /\ ~LateClean
        BY <2>2, <3>3 DEF CleanBeforeRun, LateClean
      <4> QED
        BY <1>2, <2>2, <3>3, <4>1, CleanedBy DEF GoneInv
    <3> QED
      BY <1>2, <2>2, <3>1, <3>2, <3>3, WorkerGoesOn DEF Begins, Looks, Goes, Resets
  <2> QED
    BY <2>1, <2>2 DEF GoneInv
<1> QED
  BY <1>1, <1>2

LEMMA KindsStep == IInv /\ [Next]_vars => KindsInv'
<1> SUFFICES ASSUME IInv, [Next]_vars PROVE KindsInv'
  OBVIOUS
<1> TypeOK /\ TypeInv /\ KindsInv
  BY DEF IInv, TypeInv
<1>1. Cleaned' = Cleaned /\ Lost' = Lost
  <2>1. engine' = engine
    BY Frame DEF vars, spec
  <2> QED
    BY <2>1 DEF Cleaned, Lost
<1>2. ASSUME NEW o \in Objects, objects'[o] # "none"
      PROVE  objects[o] # "none" \/ o[1] \in Cleaned \union Lost
  <2>1. CASE Create
    <3>1. PICK p \in Objects : Creates(p)
      BY <2>1, CreateWrites
    <3> QED
      BY <1>2, <3>1 DEF Creates, TypeOK
  <2>2. CASE CleanBeforeRun \/ LateClean
    BY <1>2, <2>2, CleanWrites DEF Without, Live
  <2>3. CASE Next /\ ~Create /\ ~CleanBeforeRun /\ ~LateClean
    BY <1>2, <2>3, ObjectWritten
  <2>4. CASE UNCHANGED vars
    BY <1>2, <2>4 DEF vars
  <2> QED
    BY <2>1, <2>2, <2>3, <2>4
<1> QED
  BY <1>1, <1>2 DEF KindsInv

LEMMA Inductive == IInv /\ [Next]_vars => IInv'
<1>1. IInv => TypeInv
  BY DEF IInv
<1> QED
  BY <1>1, TypeStep, CopiesStep, PhaseStep, ClockStep, SeenStep, WorkerKept, GoneStep, KindsStep DEF IInv

LEMMA InitInv == Init => IInv
<1> SUFFICES ASSUME Init PROVE IInv
  OBVIOUS
<1>1. /\ serving = NewServing /\ cache = NewServing /\ local = NoCopy /\ pc = "Idle"
      /\ timer = "off" /\ localFresh = FALSE
      /\ \A o \in Objects : objects[o] = "none"
  BY DEF Init
<1>2. CopiesInv /\ PhaseInv /\ ClockInv /\ SeenInv /\ WorkerInv
  BY <1>1, CopyIs DEF CopiesInv, PhaseInv, ClockInv, SeenInv, WorkerInv, Starting, Begun
<1>3. GoneInv /\ KindsInv
  BY <1>1, CopyIs DEF GoneInv, KindsInv
<1> QED
  BY <1>2, <1>3, TypeInit DEF IInv

LEMMA InvHolds == Spec => []IInv
  BY InitInv, Inductive, PTL DEF Spec

\* The objects that the status names are cleaned up for a timeout before the Serving
\* ran and for nothing else, although Clean goes by labels and outdated copies.
THEOREM RecordedStayHolds == Spec => []RecordedStay
<1>1. IInv => RecordedStay
  BY DEF IInv, GoneInv, RecordedStay
<1> QED
  BY <1>1, InvHolds, PTL

-----------------------------------------------------------------------------
(* The refinement                                                          *)

LEMMA LifecycleInit == Init => Lifecycle!Init
  BY CopyIs DEF Init, Lifecycle!Init

\* Every write of the worker, of a restarted worker, of the timer goroutine and of a
\* client is a step of the lifecycle, or the reset of what was not set.
LEMMA LifecycleStep == IInv /\ [Next]_vars => [Lifecycle!Next]_(Lifecycle!vars)
<1> SUFFICES ASSUME IInv, [Next]_vars PROVE [Lifecycle!Next]_(Lifecycle!vars)
  OBVIOUS
<1> USE DEF Lifecycle!vars, Lifecycle!Next
<1> TypeOK /\ TypeInv /\ CopiesInv /\ PhaseInv /\ ClockInv /\ WorkerInv
  BY DEF IInv, TypeInv
<1> serving.state \in ServingStates
  BY DEF TypeOK, Serving
<1>1. CASE serving' = serving
  BY <1>1
<1>2. CASE Expired
  BY <1>2 DEF Expired, Sets, IsStarting, Lifecycle!Expire
<1>3. CASE Late
  <2>1. serving.state = ""
    BY <1>3 DEF Late, CopiesInv, WorkerInv, PhaseInv, Begun, ServingStates
  <2> QED
    BY <1>3, <2>1 DEF Late, Sets, Lifecycle!Expire
<1>4. CASE Reported
  <2>1. serving.state \in {"Starting", "Running", "Failed"}
    BY <1>4 DEF Reported, CopiesInv, WorkerInv, Begun, ServingStates
  <2> QED
    BY <1>4, <2>1 DEF Reported, Sets, Lifecycle!Report
<1>5. CASE WasReset
  <2>1. serving.state = "" /\ ~serving.started
    BY <1>5 DEF WasReset, CopiesInv, WorkerInv, PhaseInv, Begun, ServingStates
  <2> QED
    BY <1>5, <2>1 DEF WasReset, Sets, TypeOK, Serving
<1>6. CASE StartRecorded
  <2>1. serving.state = ""
    BY <1>6 DEF StartRecorded, CopiesInv, WorkerInv, Starting
  <2> QED
    BY <1>6, <2>1 DEF StartRecorded, Sets, Lifecycle!Start
<1>7. CASE Deleted
  <2>1. serving'.live = FALSE
    <3>1. serving'.live \in BOOLEAN
      BY TypeStep DEF TypeInv, TypeOK, Serving
    <3> QED
      BY <1>7, <3>1 DEF Deleted
  <2> QED
    BY <1>7, <2>1 DEF Deleted, Lifecycle!Delete
<1> QED
  BY <1>1, <1>2, <1>3, <1>4, <1>5, <1>6, <1>7, ServingWritten DEF vars

\* A Serving starts at most once and is final after a timeout that struck before it
\* ran, although the worker, a restarted worker and the timer goroutine all write its
\* status from cached copies.
THEOREM ImplementsLifecycleHolds == Spec => ImplementsLifecycle
  BY InvHolds, LifecycleInit, LifecycleStep, PTL DEF Spec, ImplementsLifecycle, Lifecycle!Spec

-----------------------------------------------------------------------------
(* What attempts leave behind                                              *)

LEMMA DisturbGrows ==
  ASSUME Next
  PROVE  disturb \subseteq disturb'
  BY DEF Disturb, WriteStatus, Clean, Next, WorkerStep, StartReconcile, Check, StartTimer, Decide,
     GetServingResult, ResetStatus, CleanBeforeRun, LateClean, LateRecord, Create, RecordStart, TimerFires,
     TimerWrites, Elapse, SyncServing, SyncObjects, Crash, DeleteServing, CollectGarbage, ObjectProgress,
     ObjectFlaps, DeleteObject

\* Nothing but an attempt adds an object.
LEMMA LiveWritten ==
  ASSUME TypeInv, Next
  PROVE  \/ LiveObjects' \subseteq LiveObjects
         \/ \E o \in Objects : Creates(o) /\ LiveObjects' \subseteq LiveObjects \union {o}
<1> TypeOK
  BY DEF TypeInv
<1>1. Lost' = Lost
  <2>1. engine' = engine
    BY Frame DEF spec
  <2> QED
    BY <2>1 DEF Lost
<1>2. CASE Create
  <2>1. PICK o \in Objects : Creates(o)
    BY <1>2, CreateWrites
  <2>2. \A p \in Objects : p = o \/ objects'[p] = objects[p]
    BY <2>1 DEF Creates, TypeOK
  <2> QED
    BY <1>1, <2>1, <2>2 DEF LiveObjects
<1>3. ASSUME ~Create, NEW o \in Objects, Live(objects'[o])
      PROVE  Live(objects[o])
  <2>1. CASE CleanBeforeRun \/ LateClean
    BY <1>3, <2>1, CleanWrites DEF Without, Live
  <2> QED
    BY <1>3, <2>1, ObjectWritten
<1> QED
  BY <1>1, <1>2, <1>3 DEF LiveObjects

\* The next attempt begins when Clean has succeeded.
LEMMA AttemptWritten ==
  ASSUME TypeInv, Next
  PROVE  attempt' = attempt \/ Cleans
<1>1. CASE CleanBeforeRun \/ LateClean
  BY <1>1, CleanWrites DEF Cleans, Goes, caches, TypeInv
<1> QED
  BY <1>1 DEF Next, WorkerStep, StartReconcile, Check, StartTimer, Decide, GetServingResult, ResetStatus,
     LateRecord, Create, RecordStart, TimerFires, TimerWrites, Elapse, SyncServing, SyncObjects, Crash,
     DeleteServing, CollectGarbage, ObjectProgress, ObjectFlaps, DeleteObject, ObjectBecomes

\* Clean leaves nothing that it can find if it knew of everything.
LEMMA CleansAll ==
  ASSUME IInv, Next, Cleans, \A o \in LiveObjects : Live(objectCache[o])
  PROVE  LiveObjects' = {}
<1> TypeInv /\ TypeOK /\ KindsInv
  BY DEF IInv, TypeInv
<1>1. Lost' = Lost
  <2>1. engine' = engine
    BY Frame DEF spec
  <2> QED
    BY <2>1 DEF Lost
<1>2. ASSUME NEW o \in Objects, o[1] \notin Lost, Live(objects'[o])
      PROVE  FALSE
  <2>1. objects'[o] = IF o \in Listed /\ Live(objects[o]) THEN "gone" ELSE objects[o]
    BY DEF Cleans, Without
  <2>2. Live(objects[o]) /\ o \notin Listed
    BY <1>2, <2>1 DEF Live
  <2>3. o \in Listed
    BY <1>2, <2>2 DEF Listed, LiveObjects, KindsInv, Live
  <2> QED
    BY <2>2, <2>3
<1> QED
  BY <1>1, <1>2 DEF LiveObjects

LEMMA KeptStep == IInv /\ KeptInv /\ [Next]_vars => KeptInv'
<1> SUFFICES ASSUME IInv, KeptInv, [Next]_vars, "lag" \notin disturb' PROVE KeptInv'
  BY DEF KeptInv
<1> TypeOK /\ TypeInv /\ WorkerInv
  BY DEF IInv, TypeInv
<1>1. CASE UNCHANGED vars
  BY <1>1 DEF KeptInv, LiveObjects, Lost, BeforeClean, vars, spec, caches, worker
<1>2. CASE Next /\ Cleans
  <2>1. \A o \in LiveObjects : Live(objectCache[o])
    BY <1>2, DisturbGrows DEF KeptInv, BeforeClean, Cleans, Goes
  <2>2. LiveObjects' = {}
    BY <1>2, <2>1, CleansAll
  <2> QED
    BY <2>2 DEF KeptInv
<1>3. CASE Next /\ ~Cleans
  <2> "lag" \notin disturb /\ attempt' = attempt
    BY <1>3, DisturbGrows, AttemptWritten
  <2>1. \A o \in LiveObjects' : o[2] = attempt'
    BY <1>3, LiveWritten DEF KeptInv, Creates
  <2>2. ASSUME BeforeClean', NEW o \in LiveObjects'
        PROVE  Live(objectCache'[o])
    <3>1. o \in Objects /\ Live(objects'[o])
      BY <2>2 DEF LiveObjects
    <3>2. ~(\E p \in Objects : Creates(p))
      BY <2>2 DEF BeforeClean, Creates, Fail, Leave
    <3>3. o \in LiveObjects
      BY <1>3, <2>2, <3>2, LiveWritten DEF BeforeClean
    <3>4. CASE objectCache' = objectCache /\ BeforeClean
      BY <3>3, <3>4 DEF KeptInv
    <3>5. CASE objectCache' = objects /\ objects' = objects
      BY <3>1, <3>5
    <3>6. CASE Begins
      BY <3>1, <3>6 DEF Begins
    <3> QED
      BY <1>3, <2>2, <3>2, <3>4, <3>5, <3>6, WorkerGoesOn, CachesWritten DEF BeforeClean, Looks, Goes, Resets
  <2>3. ASSUME pc' \in {"Create", "Record"}
        PROVE  LiveObjects' \subseteq local'.ref
    <3>1. ASSUME NEW o \in Objects, Creates(o)
          PROVE  LiveObjects' \subseteq local'.ref
      <4>1. local'.ref = local.ref \union {o} /\ pc = "Create"
        BY <2>3, <3>1, CreatesCopy
      <4>2. LiveObjects' \subseteq LiveObjects \union {o}
        <5>1. \A p \in Objects : p = o \/ objects'[p] = objects[p]
          BY <2>3, <3>1, CreatesCopy DEF TypeOK
        <5>2. engine' = engine
          BY <1>3, Frame DEF spec
        <5> QED
          BY <5>1, <5>2 DEF LiveObjects, Lost
      <4> QED
        BY <4>1, <4>2 DEF KeptInv
    <3>2. CASE ~(\E o \in Objects : Creates(o))
      <4>1. UNCHANGED <<pc, local>>
        BY <1>3, <2>3, <3>2, WorkerGoesOn DEF Begins, Looks, Goes, Resets
      <4> QED
        BY <1>3, <2>3, <3>2, <4>1, LiveWritten DEF KeptInv
    <3> QED
      BY <3>1, <3>2
  <2>4. ASSUME pc' = "LateRecord"
        PROVE  LiveObjects' = {}
    <3>1. pc = "LateRecord"
      BY <1>3, <2>4, WorkerGoesOn DEF Begins, Looks, Goes, Resets
    <3> QED
      BY <1>3, <3>1, LiveWritten DEF KeptInv, Creates
  <2>5. ASSUME serving'.started
        PROVE  LiveObjects' \subseteq serving'.ref
    <3>1. CASE serving.started
      <4>1. LiveObjects' \subseteq LiveObjects
        BY <1>3, <3>1, LiveWritten DEF WorkerInv, Starting, Creates
      <4>2. serving'.ref = serving.ref
        BY <1>3, <2>5, <3>1, ServingWritten
           DEF Expired, Late, Reported, WasReset, StartRecorded, Deleted, Sets, WorkerInv, Starting, IInv
      <4> QED
        BY <3>1, <4>1, <4>2 DEF KeptInv
    <3>2. CASE ~serving.started
      <4>1. Late \/ StartRecorded
        BY <1>3, <2>5, <3>2, ServingWritten DEF Expired, Reported, WasReset, Deleted, Sets, IInv
      <4>2. LiveObjects' \subseteq LiveObjects
        BY <1>3, <4>1, LiveWritten DEF Late, StartRecorded, Creates
      <4> QED
        BY <4>1, <4>2 DEF Late, StartRecorded, Sets, KeptInv
    <3> QED
      BY <3>1, <3>2 DEF TypeOK, Serving
  <2> QED
    BY <2>1, <2>2, <2>3, <2>4, <2>5 DEF KeptInv
<1> QED
  BY <1>2, <1>1, <1>3

LEMMA KeptHolds == Spec => [](IInv /\ KeptInv)
<1>1. Init => KeptInv
  <2> SUFFICES ASSUME Init PROVE KeptInv
    OBVIOUS
  <2>1. LiveObjects = {}
    BY DEF Init, LiveObjects, Live
  <2> QED
    BY <2>1 DEF KeptInv
<1> QED
  BY <1>1, InitInv, Inductive, KeptStep, PTL DEF Spec

\* An attempt does not create again what an earlier one has left.
THEOREM NothingTwiceHolds == Spec => []NothingTwice
<1>1. KeptInv => NothingTwice
  <2> SUFFICES ASSUME KeptInv, "lag" \notin disturb, NEW o \in LiveObjects, NEW p \in LiveObjects, o[1] = p[1]
               PROVE  o = p
    BY DEF NothingTwice
  <2>1. o \in Kinds \X Attempts /\ p \in Kinds \X Attempts /\ o[2] = p[2]
    BY DEF KeptInv, LiveObjects, Objects
  <2> QED
    BY <2>1
<1> QED
  BY <1>1, KeptHolds, PTL

\* A serving that was started has nothing but what its status refers to.
THEOREM OnlyRecordedHolds == Spec => []OnlyRecorded
<1>1. KeptInv => OnlyRecorded
  BY DEF KeptInv, OnlyRecorded
<1> QED
  BY <1>1, KeptHolds, PTL

-----------------------------------------------------------------------------
(* The status follows the objects                                          *)

\* What an engine reports depends on objects that are watched.
LEMMA ResultSame ==
  ASSUME TypeOK, UNCHANGED <<spec, serving>>,
         \A o \in Objects : o[1] \in Watched => objectCache'[o] = objectCache[o]
  PROVE  Result(serving.ref, objectCache)' = Result(serving.ref, objectCache)
<1>1. \A kind \in {"workload", "proxy"} :
        Recorded(kind, serving'.ref, objectCache') = Recorded(kind, serving.ref, objectCache)
  <2> SUFFICES ASSUME NEW kind \in {"workload", "proxy"}
               PROVE  Recorded(kind, serving'.ref, objectCache') = Recorded(kind, serving.ref, objectCache)
    OBVIOUS
  <2> DEFINE o == CHOOSE o \in serving.ref : o[1] = kind
  <2>1. CASE \E p \in serving.ref : p[1] = kind
    <3>1. o \in serving.ref /\ o[1] = kind
      BY <2>1
    <3>2. o \in Objects /\ o[1] \in Watched
      BY <3>1 DEF TypeOK, Serving, Watched, Kinds
    <3>3. objectCache'[o] = objectCache[o]
      BY <3>2
    <3> QED
      BY <2>1, <3>3 DEF Recorded
  <2>2. CASE ~(\E p \in serving.ref : p[1] = kind)
    BY <2>2 DEF Recorded
  <2> QED
    BY <2>1, <2>2
<1> QED
  BY <1>1 DEF Result, spec

\* A status update that is not retried has taken effect.
LEMMA WriteDone ==
  ASSUME NEW new, NEW Then, WriteStatus(new, Then), ~queued', cacheFresh'
  PROVE  Then /\ new = serving /\ localFresh
  BY DEF WriteStatus, Change, Fail

LEMMA FollowStep == IInv /\ FollowInv /\ [Next]_vars => FollowInv'
<1> SUFFICES ASSUME IInv, FollowInv, [Next]_vars, serving'.live, ~queued', cacheFresh'
             PROVE  (pc' # "Idle" /\ localFresh') \/ Told'
  BY DEF FollowInv
<1> TypeOK /\ TypeInv /\ CopiesInv /\ PhaseInv /\ ClockInv /\ WorkerInv
  BY DEF IInv, TypeInv
<1> serving.state \in ServingStates
  BY DEF TypeOK, Serving
<1> USE DEF spec, caches, worker, Leave, Return, Fail
<1>1. CASE UNCHANGED vars
  BY <1>1 DEF FollowInv, Told, Result, Recorded, TimedOut, vars
<1>2. ASSUME Next, Told, UNCHANGED <<serving, objectCache>>
      PROVE  Told'
  <2>1. UNCHANGED spec /\ (TimedOut => TimedOut')
    BY <1>2, Frame
  <2>2. Result(serving.ref, objectCache)' = Result(serving.ref, objectCache)
    BY <1>2, <2>1, ResultSame
  <2> QED
    BY <1>2, <2>1, <2>2 DEF Told
<1>3. ASSUME Next, UNCHANGED <<serving, cacheFresh, objectCache, pc, queued, localFresh>>
      PROVE  (pc' # "Idle" /\ localFresh') \/ Told'
  BY <1>2, <1>3 DEF FollowInv
<1>4. CASE StartReconcile
  BY <1>4 DEF StartReconcile, CopiesInv
<1>5. CASE Check
  <2> DEFINE new == [local EXCEPT !.state = "Timeout"]
             Then == Return /\ KeepTimer
  <2>1. ASSUME WriteStatus(new, Then), IsStarting(local)
        PROVE  FALSE
    <3>1. new.state = "Timeout"
      BY DEF TypeOK, Serving
    <3> HIDE DEF new, Then
    <3> QED
      BY <2>1, <3>1, WriteDone DEF CopiesInv, IsStarting
  <2>2. UNCHANGED <<serving, cacheFresh, objectCache, spec, elapsed>> /\ (queued' = queued)
    <3>1. \/ WriteStatus(new, Then) /\ IsStarting(local)
          \/ UNCHANGED <<serving, cacheFresh, queued>>
      BY <1>5 DEF Check, Goto
    <3>2. UNCHANGED <<objectCache, spec, elapsed>>
      BY <1>5 DEF Check
    <3> HIDE DEF new, Then
    <3> QED
      BY <2>1, <3>1, <3>2
  <2>3. CASE TimedOut /\ ~IsStarting(local) /\ localFresh
    <3>1. serving'.started \/ serving'.state = "Timeout"
      BY <2>2, <2>3 DEF CopiesInv, PhaseInv, IsStarting, ServingStates
    <3> QED
      BY <2>2, <2>3, <3>1 DEF Told, TimedOut
  <2>4. CASE ~TimedOut
    <3>1. Goto("StartTimer")
      BY <1>5, <2>4 DEF Check
    <3> QED
      BY <1>2, <1>5, <2>2, <3>1 DEF FollowInv, Goto, Next, WorkerStep
  <2>5. CASE ~localFresh
    BY <1>2, <1>5, <2>2, <2>5 DEF FollowInv, Next, WorkerStep
  <2> QED
    BY <1>5, <2>1, <2>3, <2>4, <2>5 DEF Check
<1>6. CASE GetServingResult
  <2> DEFINE res == Result(local.ref, objectCache)
             new == [local EXCEPT !.state = res]
             Then == Return /\ StopTimer
  <2>1. ASSUME WriteStatus(new, Then), res # local.state
        PROVE  FALSE
    <3>1. new.state = res
      BY DEF TypeOK, Serving
    <3> HIDE DEF res, new, Then
    <3> QED
      BY <2>1, <3>1, WriteDone DEF CopiesInv
  <2>2. /\ UNCHANGED <<serving, cacheFresh, objectCache, spec, elapsed>> /\ queued' = queued
        /\ res \in {"", local.state} /\ pc = "Result"
    BY <1>6, <2>1 DEF GetServingResult
  <2>3. CASE localFresh
    <3>1. serving.started /\ Result(serving.ref, objectCache) \in {"", serving.state}
      BY <2>2, <2>3 DEF CopiesInv, WorkerInv, Begun
    <3> QED
      BY <1>2, <1>6, <2>2, <3>1 DEF Told, Next, WorkerStep
  <2>4. CASE ~localFresh
    BY <1>2, <1>6, <2>2, <2>4 DEF FollowInv, Next, WorkerStep
  <2> QED
    BY <2>3, <2>4
<1>7. CASE ResetStatus
  <2> DEFINE Then == Continue(NewServing, "Clean") /\ KeepTimer
  <2>1. WriteStatus(NewServing, Then)
    BY <1>7 DEF ResetStatus
  <2>2. Then /\ localFresh
    <3> HIDE DEF Then
    <3> QED
      BY <2>1, WriteDone
  <2> QED
    BY <2>2 DEF Continue
<1>8. CASE LateRecord
  <2> DEFINE new == [local EXCEPT !.started = TRUE, !.state = "Timeout"]
             Then == Return /\ KeepTimer
  <2>1. WriteStatus(new, Then) /\ pc = "LateRecord"
    BY <1>8 DEF LateRecord
  <2>2. new.state = "Timeout"
    BY DEF TypeOK, Serving
  <2> HIDE DEF new, Then
  <2> QED
    BY <2>1, <2>2, WriteDone DEF CopiesInv, WorkerInv
<1>9. CASE RecordStart
  <2> DEFINE new == [local EXCEPT !.started = TRUE, !.state = "Starting"]
             Then == Return /\ KeepTimer
  <2>1. WriteStatus(new, Then) /\ pc = "Record"
    BY <1>9 DEF RecordStart
  <2>2. new.state = "Starting"
    BY DEF TypeOK, Serving
  <2> HIDE DEF new, Then
  <2> QED
    BY <2>1, <2>2, WriteDone DEF CopiesInv, WorkerInv, Starting
<1>10. CASE CleanBeforeRun \/ LateClean
  <2>1. /\ UNCHANGED <<serving, cacheFresh, objectCache, queued, localFresh>>
        /\ pc # "Idle" /\ pc' # "Idle"
    BY <1>10, CleanWrites DEF CleanBeforeRun, LateClean
  <2> QED
    BY <1>2, <1>10, <2>1 DEF FollowInv, Next, WorkerStep
<1>11. CASE Create
  <2>1. PICK o \in Objects : Creates(o)
    BY <1>11, CreateWrites
  <2>2. UNCHANGED <<serving, cacheFresh, objectCache, queued, localFresh>> /\ pc # "Idle" /\ pc' # "Idle"
    BY <2>1 DEF Creates
  <2> QED
    BY <1>2, <1>11, <2>2 DEF FollowInv, Next, WorkerStep
<1>12. CASE StartTimer \/ Decide
  <2>1. UNCHANGED <<serving, cacheFresh, objectCache, queued, localFresh>> /\ pc # "Idle" /\ pc' # "Idle"
    BY <1>12 DEF StartTimer, Decide, Goto
  <2> QED
    BY <1>2, <1>12, <2>1 DEF FollowInv, Next, WorkerStep
<1>13. CASE TimerWrites
  <2>1. UNCHANGED <<serving, cacheFresh, objectCache, pc, queued, localFresh>>
    BY <1>13 DEF TimerWrites
  <2> QED
    BY <1>3, <1>13, <2>1 DEF Next
<1>14. CASE DeleteServing
  <2>1. serving' = [serving EXCEPT !.live = FALSE]
    BY <1>14 DEF DeleteServing, Change
  <2> QED
    BY <2>1 DEF TypeOK, Serving
<1>15. CASE SyncServing \/ Crash
  BY <1>15 DEF SyncServing, Crash
<1>16. CASE SyncObjects
  <2>1. /\ UNCHANGED <<spec, serving, cacheFresh, pc, localFresh, elapsed>> /\ ~queued
        /\ \A o \in Objects : o[1] \in Watched => objectCache'[o] = objectCache[o]
    <3>1. ~queued /\ ~(\E o \in Objects : o[1] \in Watched /\ objectCache[o] # objects[o])
      BY <1>16 DEF SyncObjects
    <3> QED
      BY <1>16, <3>1 DEF SyncObjects
  <2>2. Result(serving.ref, objectCache)' = Result(serving.ref, objectCache)
    BY <2>1, ResultSame
  <2> QED
    BY <2>1, <2>2 DEF FollowInv, Told, TimedOut
<1>17. CASE \/ TimerFires \/ Elapse \/ CollectGarbage
            \/ \E o \in Objects : ObjectProgress(o) \/ ObjectFlaps(o) \/ DeleteObject(o)
  <2>1. UNCHANGED <<serving, cacheFresh, objectCache, pc, queued, localFresh>>
    BY <1>17 DEF TimerFires, Elapse, CollectGarbage, ObjectProgress, ObjectFlaps, DeleteObject, ObjectBecomes
  <2> QED
    BY <1>3, <1>17, <2>1 DEF Next
<1> QED
  BY <1>1, <1>4, <1>5, <1>6, <1>7, <1>8, <1>9, <1>10, <1>11, <1>12, <1>13, <1>14, <1>15, <1>16, <1>17
     DEF Next, WorkerStep

\* When nothing is left to do every serving was started or timed out, and its state is
\* what its workload and proxy say: no reconcile returns without having said so or
\* without one that follows.
THEOREM StatusFollowsHolds == Spec => []StatusFollows
<1>1. Init => FollowInv
  BY DEF Init, FollowInv
<1>2. FollowInv => StatusFollows
  BY DEF FollowInv, StatusFollows, Quiet, Told
<1> QED
  BY <1>1, <1>2, InvHolds, FollowStep, PTL DEF Spec
=============================================================================
