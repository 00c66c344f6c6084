--------------------------- MODULE ServingController ---------------------------
(***************************************************************************)
(* The Serving reconciler (controllers/core/serving_controller.go) with    *)
(* the serving engines (pkg/core/serving): one Serving, the objects made   *)
(* for it, the worker and the goroutine that waits for the start timeout.  *)
(*                                                                         *)
(* As in FunctionController every API write is a step of its own, and a    *)
(* copy of the Serving is current or it is not.  An attempt to run the     *)
(* serving makes at most one object of each kind, so an object is named by *)
(* its kind and its attempt.                                               *)
(***************************************************************************)
EXTENDS Naturals, Sequences, FiniteSets

CONSTANTS
  Engines,       \* which engines there are servings for: a subset of AllEngines
  Asks,          \* which optional objects a spec may ask for
  Disturbances,  \* which things go wrong: a subset of DisturbanceKinds
  MaxAttempts,   \* bound: how often Run is called
  MaxDisturb     \* bound: how many kinds of things go wrong, each once

\* async: openfuncasync with a Deployment;  job: openfuncasync with any other
\* workload, whose status it does not look at.
AllEngines == {"knative", "kedahttp", "async", "job"}
Optional == {"component", "scaler", "proxy"}

\* write: an API write of the worker fails, or takes effect and loses its reply;
\* timer: the one of the goroutine does;  lag: a reconcile starts with object caches
\* that are behind;  crash: the operator restarts;  delete: a client deletes the
\* Serving or an object;  flap: a workload that was ready changes its mind.
DisturbanceKinds == {"write", "timer", "lag", "crash", "delete", "flap"}
ASSUME ServingAssumption ==
  /\ Engines \subseteq AllEngines /\ Asks \subseteq SUBSET Optional
  /\ Disturbances \subseteq DisturbanceKinds
  /\ MaxAttempts \in Nat /\ MaxDisturb \in Nat

Kinds == {"component", "workload", "service", "scaler", "proxy"}

\* What Run creates, and in which order.
KnativeRun  == <<"component", "workload", "proxy">>
KedaHttpRun == <<"component", "workload", "service", "scaler", "proxy">>
AsyncRun    == <<"component", "workload", "scaler", "proxy">>

\* What Clean finds: knative and kedahttp do not look for components, and the
\* Service of kedahttp does not carry the label it looks for.
KnativeProxyOnly == {"proxy"}  \* mutated form: the workload is looked up by another label
KnativeClean == {"workload", "proxy"}
KedaHttpClean == {"workload", "scaler", "proxy"}
AsyncButComponents == {"workload", "scaler", "proxy"}  \* mutated form: they are not listed
AsyncClean == {"component", "workload", "scaler", "proxy"}

Attempts == 1 .. MaxAttempts
Objects == Kinds \X Attempts

VARIABLES
  engine, asked,       \* what the spec says
  timeout,             \* is spec.timeout set?
  serving,             \* the Serving in the API server
  elapsed,             \* is the timeout over, counted from the creation?
  objects,             \* the objects ever created
  attempt,             \* calls of Run
  cache, cacheFresh,   \* informer cache of the Serving
  objectCache,         \* informer caches of the objects
  pc, queued,          \* the worker and its work queue
  local, localFresh,   \* the reconcile's copy of the Serving
  timerKey,            \* is there an entry in r.timers?
  timer, timerFresh,   \* the goroutine, and is its copy current?
  disturb              \* what has gone wrong

spec == <<engine, asked, timeout>>
caches == <<cache, cacheFresh, objectCache>>
worker == <<pc, queued, local, localFresh>>
timers == <<timerKey, timer, timerFresh>>
vars == <<spec, serving, elapsed, objects, attempt, caches, worker, timers, disturb>>

-----------------------------------------------------------------------------
(* Types and initial state                                                 *)

ServingStates == {"", "Starting", "Running", "Failed", "Timeout"}
Serving == [live : BOOLEAN, started : BOOLEAN, state : ServingStates, ref : SUBSET Objects]

\* new: its controller has not looked at it;  gone: deleted by Clean;  removed: by
\* somebody else.
ObjectStates == {"none", "new", "unready", "ready", "failed", "gone", "removed"}
Live(state) == state \in {"new", "unready", "ready", "failed"}
PCs == {"Idle", "Check", "StartTimer", "Decide", "Result", "LateClean", "LateRecord",
        "Reset", "Clean", "Create", "Record"}

NewServing == [live |-> TRUE, started |-> FALSE, state |-> "", ref |-> {}]
NoCopy == [NewServing EXCEPT !.live = FALSE]

TypeOK ==
  /\ engine \in Engines /\ asked \in Asks /\ timeout \in BOOLEAN
  /\ serving \in Serving /\ cache \in Serving /\ local \in Serving
  /\ elapsed \in BOOLEAN /\ cacheFresh \in BOOLEAN /\ localFresh \in BOOLEAN
  /\ objects \in [Objects -> ObjectStates] /\ objectCache \in [Objects -> ObjectStates]
  /\ attempt \in 0 .. MaxAttempts
  /\ pc \in PCs /\ queued \in BOOLEAN
  /\ timerKey \in BOOLEAN /\ timer \in {"off", "waiting", "updating"} /\ timerFresh \in BOOLEAN
  /\ disturb \subseteq Disturbances

\* The Function reconciler has created a Serving, the operator is idle.
Init ==
  /\ engine \in Engines /\ asked \in Asks /\ timeout \in BOOLEAN
  /\ serving = NewServing /\ elapsed = FALSE
  /\ objects = [o \in Objects |-> "none"] /\ objectCache = objects /\ attempt = 0
  /\ cache = NewServing /\ cacheFresh = TRUE
  /\ pc = "Idle" /\ queued = TRUE /\ local = NoCopy /\ localFresh = FALSE
  /\ timerKey = FALSE /\ timer = "off" /\ timerFresh = FALSE
  /\ disturb = {}

NotFailed(s) == s.state # "Failed"  \* mutated form: a timeout also ends what runs
IsStarting(s) == s.state \in {"", "Starting"}
TimedOut == timeout /\ elapsed

-----------------------------------------------------------------------------
(* Writing                                                                 *)

Disturb(kind) ==
  /\ kind \in Disturbances \ disturb /\ Cardinality(disturb) < MaxDisturb
  /\ disturb' = disturb \union {kind}

Goto(next) == pc' = next /\ UNCHANGED <<queued, local, localFresh>>
Continue(new, next) == pc' = next /\ local' = new /\ UNCHANGED <<queued, localFresh>>
Leave == pc' = "Idle" /\ local' = NoCopy /\ localFresh' = FALSE
Return == Leave /\ UNCHANGED queued
Fail == Leave /\ queued' = TRUE

\* The Serving changes under every copy of it.
Change(new) ==
  /\ serving' = new
  /\ cacheFresh' = (cacheFresh /\ new = serving)
  /\ timerFresh' = (timerFresh /\ new = serving)

\* stopTimer: a goroutine whose timer has gone off meanwhile is not stopped.
StopTimer ==
  /\ timerKey' = FALSE
  /\ timer' \in IF timerKey /\ timer = "waiting" THEN IF elapsed THEN {"off", timer} ELSE {"off"}
                ELSE {timer}

\* r.Status().Update(serving) and what the reconcile does when it succeeded.
PatchStatus(new, Then) ==  \* mutated form: the resourceVersion is not sent along
  \/ serving.live /\ Change([new EXCEPT !.live = TRUE]) /\ Then /\ UNCHANGED disturb
  \/ ~serving.live /\ Fail /\ UNCHANGED <<serving, cacheFresh, timers, disturb>>
  \/ Disturb("write") /\ Fail /\ UNCHANGED <<serving, cacheFresh, timers>>
WriteStatus(new, Then) ==
  \/ localFresh /\ Change(new) /\ Then /\ UNCHANGED disturb
  \/ ~localFresh /\ Fail /\ UNCHANGED <<serving, cacheFresh, timers, disturb>>
  \/ /\ Disturb("write") /\ Fail /\ UNCHANGED <<timerKey, timer>>
     /\ \/ UNCHANGED <<serving, cacheFresh, timerFresh>>
        \/ localFresh /\ Change(new)

KeepTimer == UNCHANGED <<timerKey, timer>>

-----------------------------------------------------------------------------
(* Reconcile                                                               *)

\* A Serving that is gone from the cache has its timer stopped.
StartReconcile ==
  /\ pc = "Idle" /\ queued /\ queued' = FALSE
  /\ \/ objectCache = objects /\ UNCHANGED disturb
     \/ objectCache # objects /\ Disturb("lag")
  /\ \/ /\ cache.live
        /\ pc' = "Check" /\ local' = cache /\ localFresh' = cacheFresh
        /\ UNCHANGED timers
     \/ /\ ~cache.live
        /\ StopTimer /\ UNCHANGED <<pc, local, localFresh, timerFresh>>
  /\ UNCHANGED <<spec, serving, elapsed, objects, attempt, caches>>

\* Once the timeout is over nothing else is done, whatever the state is.
Check ==
  /\ pc = "Check"
  /\ \/ /\ TimedOut /\ IsStarting(local)
        /\ WriteStatus([local EXCEPT !.state = "Timeout"], Return /\ KeepTimer)
     \/ /\ TimedOut /\ ~IsStarting(local) /\ Return
        /\ UNCHANGED <<serving, cacheFresh, timers, disturb>>
     \/ /\ ~TimedOut /\ Goto("StartTimer")
        /\ UNCHANGED <<serving, cacheFresh, timers, disturb>>
  /\ UNCHANGED <<spec, elapsed, objects, attempt, cache, objectCache>>

\* startTimer looks at the clock again.
NewNeedsTimer(s) ==  \* mutated form: only a serving that was not started gets one
  s.state = "" /\ timeout /\ ~elapsed /\ ~timerKey
NeedsTimer(s) == IsStarting(s) /\ timeout /\ ~elapsed /\ ~timerKey
StartTimer ==
  /\ pc = "StartTimer" /\ Goto("Decide")
  /\ IF NeedsTimer(local)
     THEN timerKey' = TRUE /\ timer' = "waiting" /\ timerFresh' = FALSE
     ELSE UNCHANGED timers
  /\ UNCHANGED <<spec, serving, elapsed, objects, attempt, caches, disturb>>

\* A third look, only for a serving that was not started.
Decide ==
  /\ pc = "Decide"
  /\ Goto(IF local.started /\ local.state # "" THEN "Result"
          ELSE IF TimedOut THEN "LateClean" ELSE "Reset")
  /\ UNCHANGED <<spec, serving, elapsed, objects, attempt, caches, timers, disturb>>

\* servingRun.Result of what the caches show: an error when an object is not there.
\* A Knative Service says that it is ready, a Deployment says what is wrong with it;
\* of the proxy only a failure counts.
Recorded(kind, ref, objs) ==
  IF \E o \in ref : o[1] = kind THEN objs[CHOOSE o \in ref : o[1] = kind] ELSE "none"
KnativeResult(workload) ==
  IF workload = "failed" THEN "Failed" ELSE IF workload = "ready" THEN "Running" ELSE ""
KedaHttpResult(workload) == IF workload \in {"new", "ready"} THEN "Running" ELSE ""
AsyncResult(workload) == IF workload \in {"new", "ready"} THEN "Running" ELSE ""
ProxyResult(proxy) == IF ~Live(proxy) THEN "error" ELSE IF proxy = "failed" THEN "" ELSE "Running"
Result(ref, objs) ==
  LET workload == Recorded("workload", ref, objs)
      res == CASE engine = "knative"  -> KnativeResult(workload)
               [] engine = "kedahttp" -> KedaHttpResult(workload)
               [] OTHER               -> AsyncResult(workload)
  IN IF engine = "job" THEN "Running"
     ELSE IF ~Live(workload) THEN "error"
     ELSE IF res = "Running" /\ "proxy" \in asked THEN ProxyResult(Recorded("proxy", ref, objs))
     ELSE res

GetServingResult ==
  /\ pc = "Result"
  /\ LET res == Result(local.ref, objectCache) IN
     \/ /\ res = "error" /\ Fail
        /\ UNCHANGED <<serving, cacheFresh, timers, disturb>>
     \/ /\ res \in {"", local.state} /\ Return
        /\ UNCHANGED <<serving, cacheFresh, timers, disturb>>
     \/ /\ res \notin {"error", "", local.state}
        /\ WriteStatus([local EXCEPT !.state = res], Return /\ StopTimer)
  /\ UNCHANGED <<spec, elapsed, objects, attempt, cache, objectCache>>

\* As in the Builder reconciler the reset writes no news, but it is refused when the
\* copy is out of date.
ResetStatus ==
  /\ pc = "Reset"
  /\ WriteStatus(NewServing, Continue(NewServing, "Clean") /\ KeepTimer)
  /\ UNCHANGED <<spec, elapsed, objects, attempt, cache, objectCache>>

-----------------------------------------------------------------------------
(* servingRun.Run and servingRun.Clean                                     *)

Cleaned ==
  CASE engine = "knative"  -> KnativeClean
    [] engine = "kedahttp" -> KedaHttpClean
    [] OTHER               -> AsyncClean
Listed == {o \in Objects : o[1] \in Cleaned /\ Live(objectCache[o])}
Without(D) == [o \in Objects |-> IF o \in D /\ Live(objects[o]) THEN "gone" ELSE objects[o]]
Clean(Then) ==
  \/ objects' = Without(Listed) /\ Then /\ UNCHANGED disturb
  \/ Disturb("write") /\ Fail /\ UNCHANGED attempt /\ \E D \in SUBSET Listed : objects' = Without(D)

CleanBeforeRun ==
  /\ pc = "Clean" /\ attempt < MaxAttempts
  /\ Clean(attempt' = attempt + 1 /\ Goto("Create"))
  /\ UNCHANGED <<spec, serving, elapsed, caches, timers>>

\* A timeout that strikes a serving which was not started is recorded after Clean.
LateClean ==
  /\ pc = "LateClean"
  /\ Clean(Goto("LateRecord")) /\ UNCHANGED attempt
  /\ UNCHANGED <<spec, serving, elapsed, caches, timers>>
LateRecord ==
  /\ pc = "LateRecord"
  /\ WriteStatus([local EXCEPT !.started = TRUE, !.state = "Timeout"], Return /\ KeepTimer)
  /\ UNCHANGED <<spec, elapsed, objects, attempt, cache, objectCache>>

\* The objects are created one after the other; the copy of the status collects
\* their names.
Order ==
  CASE engine = "knative"  -> KnativeRun
    [] engine = "kedahttp" -> KedaHttpRun
    [] OTHER               -> AsyncRun
Missing ==
  {i \in DOMAIN Order : Order[i] \notin Optional \ asked /\ <<Order[i], attempt>> \notin local.ref}
Create ==
  /\ pc = "Create"
  /\ \E i \in Missing :
     LET o == <<Order[i], attempt>> IN
     /\ \A j \in Missing : i <= j
     /\ \/ /\ objects' = [objects EXCEPT ![o] = "new"]
           /\ Continue([local EXCEPT !.ref = @ \union {o}],
                       IF Missing = {i} THEN "Record" ELSE "Create")
           /\ UNCHANGED disturb
        \/ /\ Disturb("write") /\ Fail
           /\ objects' \in {objects, [objects EXCEPT ![o] = "new"]}
  /\ UNCHANGED <<spec, serving, elapsed, attempt, caches, timers>>

RecordStart ==
  /\ pc = "Record"
  /\ WriteStatus([local EXCEPT !.started = TRUE, !.state = "Starting"], Return /\ KeepTimer)
  /\ UNCHANGED <<spec, elapsed, objects, attempt, cache, objectCache>>

WorkerStep ==
  \/ StartReconcile \/ Check \/ StartTimer \/ Decide \/ GetServingResult
  \/ ResetStatus \/ CleanBeforeRun \/ LateClean \/ LateRecord \/ Create \/ RecordStart

-----------------------------------------------------------------------------
(* The timer goroutine                                                     *)

GoroutineEnds == timer' = "off" /\ timerKey' = FALSE

TimerFires ==
  /\ timer = "waiting" /\ elapsed
  /\ IF cache.live /\ IsStarting(cache)
     THEN timer' = "updating" /\ timerFresh' = cacheFresh /\ UNCHANGED timerKey
     ELSE GoroutineEnds /\ UNCHANGED timerFresh
  /\ UNCHANGED <<spec, serving, elapsed, objects, attempt, caches, worker, disturb>>

\* There is one attempt, whatever becomes of it.
TimerWrites ==
  /\ timer = "updating" /\ GoroutineEnds /\ timerFresh' = FALSE
  /\ \/ /\ timerFresh
        /\ serving' = [serving EXCEPT !.state = "Timeout"]
        /\ cacheFresh' = FALSE /\ localFresh' = FALSE /\ UNCHANGED disturb
     \/ ~timerFresh /\ UNCHANGED <<serving, cacheFresh, localFresh, disturb>>
     \/ Disturb("timer") /\ UNCHANGED <<serving, cacheFresh, localFresh>>
  /\ UNCHANGED <<spec, elapsed, objects, attempt, cache, objectCache, pc, queued, local>>

-----------------------------------------------------------------------------
(* The rest of the world                                                   *)

Elapse ==
  /\ timeout /\ ~elapsed /\ elapsed' = TRUE
  /\ UNCHANGED <<spec, serving, objects, attempt, caches, worker, timers, disturb>>

SyncServing ==
  /\ ~cacheFresh /\ cache' = serving /\ cacheFresh' = TRUE /\ queued' = TRUE
  /\ UNCHANGED <<spec, serving, elapsed, objects, attempt, objectCache, pc, local, localFresh,
                 timers, disturb>>

\* SetupWithManager: the objects of the engines are owned, but for Services and what
\* Registry does not know of.
AllButWorkloads == {"component", "proxy", "scaler"}  \* mutated form: Registry leaves them out
Watched == Kinds \ {"service"}
SyncObjects ==
  /\ objectCache # objects /\ objectCache' = objects
  /\ queued' = (queued \/ \E o \in Objects : o[1] \in Watched /\ objectCache[o] # objects[o])
  /\ UNCHANGED <<spec, serving, elapsed, objects, attempt, cache, cacheFresh, pc, local, localFresh,
                 timers, disturb>>

\* A new process: full caches, every Serving enqueued, no timers.
Crash ==
  /\ Disturb("crash")
  /\ cache' = serving /\ cacheFresh' = TRUE /\ objectCache' = objects
  /\ Leave /\ queued' = TRUE
  /\ timerKey' = FALSE /\ timer' = "off" /\ timerFresh' = FALSE
  /\ UNCHANGED <<spec, serving, elapsed, objects, attempt>>

\* Knative and the Deployment controller report on workloads and proxies.  A proxy
\* that has not failed is as good as a ready one to Result.
ObjectBecomes(o, state) ==
  /\ objects' = [objects EXCEPT ![o] = state]
  /\ UNCHANGED <<spec, serving, elapsed, attempt, caches, worker, timers>>
ObjectProgress(o) ==
  /\ UNCHANGED disturb
  /\ \/ o[1] = "workload" /\ objects[o] = "new" /\ ObjectBecomes(o, "unready")
     \/ objects[o] = "unready" /\ \E state \in {"ready", "failed"} : ObjectBecomes(o, state)
     \/ o[1] = "proxy" /\ objects[o] = "new" /\ ObjectBecomes(o, "failed")
ObjectFlaps(o) ==
  /\ Disturb("flap")
  /\ \/ objects[o] = "ready" /\ \E state \in {"unready", "failed"} : ObjectBecomes(o, state)
     \/ objects[o] = "failed" /\ ObjectBecomes(o, "ready")

\* The Function reconciler or a user deletes the Serving, and with it the garbage
\* collector what it owns; or a client deletes an object.
DeleteServing ==
  /\ serving.live /\ Disturb("delete") /\ Change([serving EXCEPT !.live = FALSE]) /\ localFresh' = FALSE
  /\ UNCHANGED <<spec, elapsed, objects, attempt, cache, objectCache, pc, queued, local, timerKey, timer>>
CollectGarbage ==
  /\ ~serving.live /\ \E o \in Objects : Live(objects[o])
  /\ objects' = [o \in Objects |-> IF Live(objects[o]) THEN "removed" ELSE objects[o]]
  /\ UNCHANGED <<spec, serving, elapsed, attempt, caches, worker, timers, disturb>>
DeleteObject(o) == Live(objects[o]) /\ Disturb("delete") /\ ObjectBecomes(o, "removed")

Next ==
  \/ WorkerStep \/ TimerFires \/ TimerWrites
  \/ Elapse \/ SyncServing \/ SyncObjects \/ Crash
  \/ DeleteServing \/ CollectGarbage
  \/ \E o \in Objects : ObjectProgress(o) \/ ObjectFlaps(o) \/ DeleteObject(o)

Spec == Init /\ [][Next]_vars

\* The worker, the goroutine, the informers and the clock go on; workloads need not
\* become ready, and nobody has to interfere.
Fairness ==
  /\ WF_vars(WorkerStep) /\ WF_vars(TimerFires) /\ WF_vars(TimerWrites) /\ WF_vars(Elapse)
  /\ WF_vars(SyncServing) /\ WF_vars(SyncObjects)

FairSpec == Spec /\ Fairness
=============================================================================
