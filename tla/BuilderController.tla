--------------------------- MODULE BuilderController ---------------------------
(***************************************************************************)
(* The Builder reconciler (controllers/core/builder_controller.go) with    *)
(* the Shipwright build run (pkg/core/builder/shipwright/builderrun.go):   *)
(* one Builder, the Builds and BuildRuns made for it, the worker and the   *)
(* goroutine that waits for the build timeout.                             *)
(*                                                                         *)
(* As in FunctionController every API write of the worker and of the timer *)
(* goroutine is a step of its own, and a copy of the Builder is current or *)
(* it is not.  Builds and BuildRuns are numbered in creation order; the    *)
(* conditions of a BuildRun are its state, "" while it runs.               *)
(***************************************************************************)
EXTENDS Naturals, FiniteSets

CONSTANTS
  Disturbances,  \* which things go wrong: a subset of DisturbanceKinds
  RunResults,    \* how a BuildRun may end by itself
  MaxStarts,     \* bound: Builds, and BuildRuns, that are ever created
  MaxDisturb     \* bound: how many things go wrong

\* write: an API write fails, or takes effect and loses its reply;  lag: a
\* reconcile starts with Build and BuildRun caches that are behind;  crash: the
\* operator restarts;  delete: a client deletes the Builder, a Build or a BuildRun.
DisturbanceKinds == {"write", "lag", "crash", "delete"}
ASSUME BuilderAssumption ==
  /\ MaxStarts \in Nat /\ MaxDisturb \in Nat /\ Disturbances \subseteq DisturbanceKinds
  /\ RunResults \subseteq {"Succeeded", "Failed", "Timeout"}

Starts == 1 .. MaxStarts

VARIABLES
  timeout,     \* is spec.timeout set?
  builder,     \* the Builder in the API server
  elapsed,     \* is the timeout over, counted from the creation?
  builds,      \* the Builds ever created
  runs,        \* the BuildRuns ever created
  buildNum, runNum,           \* how many there are
  cache, cacheFresh,          \* informer cache of the Builder
  buildCache, runCache,       \* informer caches of Builds and BuildRuns
  pc, queued,                 \* the worker and its work queue
  local, localFresh,          \* the reconcile's copy of the Builder
  timerKey,                   \* is there an entry in r.timers?
  timer, timerFresh,          \* the goroutine, and is its copy current?
  disturb

api == <<timeout, builder, elapsed, builds, runs, buildNum, runNum>>
caches == <<cache, cacheFresh, buildCache, runCache>>
worker == <<pc, queued, local, localFresh>>
timers == <<timerKey, timer, timerFresh>>
vars == <<api, caches, worker, timers, disturb>>

-----------------------------------------------------------------------------
(* Types and initial state                                                 *)

BuilderStates == {"", "Building", "Succeeded", "Failed", "Canceled", "Timeout"}
Builder == [live : BOOLEAN, cancel : BOOLEAN, started : BOOLEAN, state : BuilderStates,
            build : 0 .. MaxStarts, run : 0 .. MaxStarts]
Build == {"none", "new", "registered", "deleted"}
BuildRun == [live : BOOLEAN, cancel : BOOLEAN,
             state : {"", "Succeeded", "Failed", "Canceled", "Timeout"}]
PCs == {"Idle", "Cancel", "Check", "StartTimer", "Result", "Reset", "CleanBuilds", "CleanRuns",
        "CreateBuild", "WaitForBuild", "CreateRun", "Record"}

NewBuilder == [live |-> TRUE, cancel |-> FALSE, started |-> FALSE, state |-> "",
               build |-> 0, run |-> 0]
NoCopy == [NewBuilder EXCEPT !.live = FALSE]
NoRun == [live |-> FALSE, cancel |-> FALSE, state |-> ""]

TypeOK ==
  /\ timeout \in BOOLEAN /\ elapsed \in BOOLEAN
  /\ builder \in Builder /\ cache \in Builder /\ local \in Builder
  /\ cacheFresh \in BOOLEAN /\ localFresh \in BOOLEAN
  /\ builds \in [Starts -> Build] /\ buildCache \in [Starts -> Build]
  /\ runs \in [Starts -> BuildRun] /\ runCache \in [Starts -> BuildRun]
  /\ buildNum \in 0 .. MaxStarts /\ runNum \in 0 .. MaxStarts
  /\ pc \in PCs /\ queued \in BOOLEAN
  /\ timerKey \in BOOLEAN /\ timer \in {"off", "waiting", "updating"} /\ timerFresh \in BOOLEAN
  /\ disturb \in 0 .. MaxDisturb

\* The Function reconciler has created a Builder, the operator is idle.
Init ==
  /\ timeout \in BOOLEAN /\ elapsed = FALSE
  /\ builder = NewBuilder /\ cache = NewBuilder /\ cacheFresh = TRUE
  /\ builds = [k \in Starts |-> "none"] /\ buildCache = builds /\ buildNum = 0
  /\ runs = [k \in Starts |-> NoRun] /\ runCache = runs /\ runNum = 0
  /\ pc = "Idle" /\ queued = TRUE /\ local = NoCopy /\ localFresh = FALSE
  /\ timerKey = FALSE /\ timer = "off" /\ timerFresh = FALSE
  /\ disturb = 0

IsCompleted(b) == b.state # "" /\ b.state # "Building"

-----------------------------------------------------------------------------
(* Writing                                                                 *)

Disturb(kind) ==
  kind \in Disturbances /\ disturb < MaxDisturb /\ disturb' = disturb + 1

Goto(next) == pc' = next /\ UNCHANGED <<queued, local, localFresh>>
Leave == pc' = "Idle" /\ local' = NoCopy /\ localFresh' = FALSE
Return == Leave /\ UNCHANGED queued
Fail == Leave /\ queued' = TRUE

\* The Builder changes under every copy of it.
Change(new) ==
  builder' = new /\ cacheFresh' = (cacheFresh /\ new = builder)
                 /\ timerFresh' = (timerFresh /\ new = builder)

StopTimer == timerKey' = FALSE /\ timer' = IF timerKey /\ timer = "waiting" THEN "off" ELSE timer

\* r.Status().Update(builder) and what the reconcile does when it succeeded.
StatusOf(b, new) == [b EXCEPT !.started = new.started, !.state = new.state,
                              !.build = new.build, !.run = new.run]
PatchStatus(new, Then) ==  \* mutated form: the resourceVersion is not sent along
  \/ /\ builder.live /\ Change(StatusOf(builder, new)) /\ Then /\ UNCHANGED disturb
  \/ ~builder.live /\ Fail /\ UNCHANGED <<builder, cacheFresh, timers, disturb>>
  \/ Disturb("write") /\ Fail /\ UNCHANGED <<builder, cacheFresh, timers>>
WriteStatus(new, Then) ==
  \/ localFresh /\ Change(new) /\ Then /\ UNCHANGED disturb
  \/ ~localFresh /\ Fail /\ UNCHANGED <<builder, cacheFresh, timers, disturb>>
  \/ /\ Disturb("write") /\ Fail /\ UNCHANGED <<timerKey, timer>>
     /\ \/ UNCHANGED <<builder, cacheFresh, timerFresh>>
        \/ localFresh /\ Change(new)

Continue(new, next) ==
  pc' = next /\ local' = new /\ UNCHANGED <<queued, localFresh, timerKey, timer>>

-----------------------------------------------------------------------------
(* Reconcile                                                               *)

\* A Builder that is gone from the cache has its timer stopped.
StartReconcile ==
  /\ pc = "Idle" /\ queued /\ queued' = FALSE
  /\ \/ buildCache = builds /\ runCache = runs /\ UNCHANGED disturb
     \/ (buildCache # builds \/ runCache # runs) /\ Disturb("lag")
  /\ \/ /\ cache.live
        /\ pc' = IF cache.cancel THEN "Cancel" ELSE "Check"
        /\ local' = cache /\ localFresh' = cacheFresh
        /\ UNCHANGED timers
     \/ /\ ~cache.live
        /\ StopTimer /\ UNCHANGED <<pc, local, localFresh, timerFresh>>
  /\ UNCHANGED <<api, caches>>

\* Cancel asks the recorded BuildRun to stop, on every reconcile.  A BuildRun
\* the cache does not show is updated without a version, which the API server
\* refuses; one that is gone is ignored.
CancelRun ==
  /\ pc = "Cancel"
  /\ LET r == local.run IN
     \/ r = 0 /\ Goto("Check") /\ UNCHANGED <<runs, disturb>>
     \/ r # 0 /\ ~runs[r].live /\ Goto("Check") /\ UNCHANGED <<runs, disturb>>
     \/ /\ r # 0 /\ runs[r].live /\ runCache[r] = runs[r]
        /\ runs' = [runs EXCEPT ![r].cancel = TRUE]
        /\ Goto("Check") /\ UNCHANGED disturb
     \/ /\ r # 0 /\ runs[r].live /\ runCache[r] # runs[r]
        /\ Fail /\ UNCHANGED <<runs, disturb>>
     \/ /\ r # 0 /\ Disturb("write") /\ Fail
        /\ runs' \in {runs, [runs EXCEPT ![r].cancel = @ \/ (runs[r].live /\ runCache[r] = runs[r])]}
  /\ UNCHANGED <<timeout, builder, elapsed, builds, buildNum, runNum, caches, timers>>

\* A build that is over needs nothing; one whose timeout is over is ended here,
\* which is what a restarted operator relies on.
Check ==
  /\ pc = "Check"
  /\ \/ /\ IsCompleted(local) /\ Return
        /\ UNCHANGED <<builder, cacheFresh, timers, disturb>>
     \/ /\ ~IsCompleted(local) /\ timeout /\ elapsed
        /\ WriteStatus([local EXCEPT !.state = "Timeout"], Return /\ UNCHANGED <<timerKey, timer>>)
     \/ /\ ~IsCompleted(local) /\ ~(timeout /\ elapsed) /\ Goto("StartTimer")
        /\ UNCHANGED <<builder, cacheFresh, timers, disturb>>
  /\ UNCHANGED <<timeout, elapsed, builds, runs, buildNum, runNum, cache, buildCache, runCache>>

\* startTimer looks at the clock a second time.
StartTimer ==
  /\ pc = "StartTimer"
  /\ \/ /\ timeout /\ ~elapsed /\ ~timerKey
        /\ timerKey' = TRUE /\ timer' = "waiting" /\ timerFresh' = FALSE
     \/ ~(timeout /\ ~elapsed /\ ~timerKey) /\ UNCHANGED timers
  /\ Goto(IF local.started /\ local.state # "" THEN "Result" ELSE "Reset")
  /\ UNCHANGED <<api, caches, disturb>>

\* builderRun.Result: nothing before the Build was registered (or when it is
\* gone), then what the BuildRun says.
AnyEndSucceeds(b) ==  \* mutated form: the status of the condition is not looked at
  IF b.run # 0 /\ runCache[b.run].live /\ runCache[b.run].state # "" THEN "Succeeded" ELSE ""
Result(b) ==
  IF b.build # 0 /\ b.run # 0 /\ buildCache[b.build] = "registered" /\ runCache[b.run].live
  THEN runCache[b.run].state ELSE ""

GetBuilderResult ==
  /\ pc = "Result"
  /\ \/ /\ Result(local) = "" /\ Return
        /\ UNCHANGED <<builder, cacheFresh, timers, disturb>>
     \/ /\ Result(local) # ""
        /\ WriteStatus([local EXCEPT !.state = Result(local)], Return /\ StopTimer)
  /\ UNCHANGED <<timeout, elapsed, builds, runs, buildNum, runNum, cache, buildCache, runCache>>

\* The reset writes no news, but it is refused when the copy is out of date: it
\* keeps a reconcile that has not seen the start from starting again.
ResetStatus ==
  /\ pc = "Reset"
  /\ LET new == [local EXCEPT !.started = FALSE, !.state = "", !.build = 0, !.run = 0]
     IN WriteStatus(new, Continue(new, "CleanBuilds"))
  /\ UNCHANGED <<timeout, elapsed, builds, runs, buildNum, runNum, cache, buildCache, runCache>>

-----------------------------------------------------------------------------
(* builderRun.Start                                                        *)

\* Clean deletes the Builds, then the BuildRuns, that the cache shows.
CleanBuilds ==
  /\ pc = "CleanBuilds"
  /\ LET listed == {k \in Starts : buildCache[k] \in {"new", "registered"}}
         Without(D) == [k \in Starts |-> IF k \in D THEN "deleted" ELSE builds[k]]
     IN \/ builds' = Without(listed) /\ Goto("CleanRuns") /\ UNCHANGED disturb
        \/ Disturb("write") /\ Fail /\ \E D \in SUBSET listed : listed # {} /\ builds' = Without(D)
  /\ UNCHANGED <<timeout, builder, elapsed, runs, buildNum, runNum, caches, timers>>

NothingListed == {}  \* mutated form: Clean looks for another label
ListedRuns == {k \in Starts : runCache[k].live}
CleanRuns ==
  /\ pc = "CleanRuns"
  /\ LET Without(D) == [k \in Starts |-> [runs[k] EXCEPT !.live = @ /\ k \notin D]]
     IN \/ runs' = Without(ListedRuns) /\ Goto("CreateBuild") /\ UNCHANGED disturb
        \/ /\ Disturb("write") /\ Fail
           /\ \E D \in SUBSET ListedRuns : ListedRuns # {} /\ runs' = Without(D)
  /\ UNCHANGED <<timeout, builder, elapsed, builds, buildNum, runNum, caches, timers>>

CreateBuild ==
  /\ pc = "CreateBuild" /\ buildNum < MaxStarts
  /\ \/ /\ builds' = [builds EXCEPT ![buildNum + 1] = "new"] /\ buildNum' = buildNum + 1
        /\ \/ Goto("WaitForBuild") /\ UNCHANGED disturb
           \/ Fail /\ Disturb("write")
     \/ Disturb("write") /\ Fail /\ UNCHANGED <<builds, buildNum>>
  /\ UNCHANGED <<timeout, builder, elapsed, runs, runNum, caches, timers>>

\* waitForBuildReady waits until the cache shows the Build, for a minute.
WaitForBuild ==
  /\ pc = "WaitForBuild"
  /\ \/ buildCache[buildNum] \in {"new", "registered"} /\ Goto("CreateRun") /\ UNCHANGED disturb
     \/ builds[buildNum] = "deleted" /\ Fail /\ UNCHANGED disturb
     \/ buildCache[buildNum] = "none" /\ Disturb("lag") /\ Fail
  /\ UNCHANGED <<api, caches, timers>>

CreateRun ==
  /\ pc = "CreateRun" /\ runNum < MaxStarts
  /\ \/ /\ runs' = [runs EXCEPT ![runNum + 1] = [NoRun EXCEPT !.live = TRUE]]
        /\ runNum' = runNum + 1
        /\ \/ Goto("Record") /\ UNCHANGED disturb
           \/ Fail /\ Disturb("write")
     \/ Disturb("write") /\ Fail /\ UNCHANGED <<runs, runNum>>
  /\ UNCHANGED <<timeout, builder, elapsed, builds, buildNum, caches, timers>>

Started(b) ==
  [b EXCEPT !.started = TRUE, !.state = "Building", !.build = buildNum, !.run = runNum]
RecordStart ==
  /\ pc = "Record"
  /\ WriteStatus(Started(local), Return /\ UNCHANGED <<timerKey, timer>>)
  /\ UNCHANGED <<timeout, elapsed, builds, runs, buildNum, runNum, cache, buildCache, runCache>>

WorkerStep ==
  \/ StartReconcile \/ CancelRun \/ Check \/ StartTimer \/ GetBuilderResult
  \/ ResetStatus \/ CleanBuilds \/ CleanRuns \/ CreateBuild \/ WaitForBuild
  \/ CreateRun \/ RecordStart

-----------------------------------------------------------------------------
(* The timer goroutine                                                     *)

\* buildTimeout reads the Builder: gone or over, and the goroutine ends.
StillThere(b) == b.live  \* mutated form: the end of the build is not looked at
TimerDue(b) == b.live /\ ~IsCompleted(b)

TimerFires ==
  /\ timer = "waiting" /\ elapsed
  /\ \/ TimerDue(cache) /\ timer' = "updating" /\ timerFresh' = cacheFresh /\ UNCHANGED timerKey
     \/ ~TimerDue(cache) /\ timer' = "off" /\ timerKey' = FALSE /\ UNCHANGED timerFresh
  /\ UNCHANGED <<api, caches, worker, disturb>>

\* When the update is refused the goroutine backs off and tries again.
GiveUp == timer' = "off" /\ timerKey' = FALSE  \* mutated form: no second attempt
Retry == timer' = "waiting" /\ UNCHANGED timerKey

TimerWrites ==
  /\ timer = "updating"
  /\ \/ /\ timerFresh
        /\ builder' = [builder EXCEPT !.state = "Timeout"]
        /\ \/ timer' = "off" /\ timerKey' = FALSE /\ UNCHANGED disturb
           \/ Disturb("write") /\ Retry
        /\ cacheFresh' = FALSE /\ localFresh' = FALSE /\ timerFresh' = FALSE
     \/ /\ ~timerFresh /\ Retry
        /\ UNCHANGED <<builder, cacheFresh, localFresh, timerFresh, disturb>>
     \/ /\ Disturb("write") /\ Retry
        /\ UNCHANGED <<builder, cacheFresh, localFresh, timerFresh>>
  /\ UNCHANGED <<timeout, elapsed, builds, runs, buildNum, runNum, cache, buildCache, runCache,
                 pc, queued, local>>

-----------------------------------------------------------------------------
(* The rest of the world                                                   *)

Elapse ==
  /\ timeout /\ ~elapsed /\ elapsed' = TRUE
  /\ UNCHANGED <<timeout, builder, builds, runs, buildNum, runNum, caches, worker, timers, disturb>>

SyncBuilder ==
  /\ ~cacheFresh /\ cache' = builder /\ cacheFresh' = TRUE /\ queued' = TRUE
  /\ UNCHANGED <<api, buildCache, runCache, pc, local, localFresh, timers, disturb>>
SyncBuilds ==
  /\ buildCache # builds /\ buildCache' = builds /\ queued' = TRUE
  /\ UNCHANGED <<api, cache, cacheFresh, runCache, pc, local, localFresh, timers, disturb>>
SyncRunsUnwatched ==  \* mutated form: Registry leaves BuildRuns out
  /\ runCache # runs /\ runCache' = runs
  /\ UNCHANGED <<api, cache, cacheFresh, buildCache, worker, timers, disturb>>
SyncRuns ==
  /\ runCache # runs /\ runCache' = runs /\ queued' = TRUE
  /\ UNCHANGED <<api, cache, cacheFresh, buildCache, pc, local, localFresh, timers, disturb>>

\* A new process: full caches, every Builder enqueued, no timers.
Crash ==
  /\ Disturb("crash")
  /\ cache' = builder /\ cacheFresh' = TRUE /\ buildCache' = builds /\ runCache' = runs
  /\ Leave /\ queued' = TRUE
  /\ timerKey' = FALSE /\ timer' = "off" /\ timerFresh' = FALSE
  /\ UNCHANGED api

\* Shipwright registers a Build and runs a BuildRun; one that was cancelled may
\* still end otherwise, and one that nobody stops may hang.
RegisterBuild(k) ==
  /\ builds[k] = "new" /\ builds' = [builds EXCEPT ![k] = "registered"]
  /\ UNCHANGED <<timeout, builder, elapsed, runs, buildNum, runNum, caches, worker, timers, disturb>>
EndRun(k, result) ==
  /\ runs[k].live /\ runs[k].state = "" /\ runs' = [runs EXCEPT ![k].state = result]
  /\ UNCHANGED <<timeout, builder, elapsed, builds, buildNum, runNum, caches, worker, timers, disturb>>
RunEnds(k) == \E result \in RunResults : EndRun(k, result)
RunIsCancelled(k) == runs[k].cancel /\ EndRun(k, "Canceled")

\* The Function reconciler or a user cancels or deletes the Builder; with it the
\* garbage collector deletes what it owns.
Touch(new) ==
  /\ Change(new) /\ localFresh' = FALSE
  /\ UNCHANGED <<timeout, elapsed, builds, runs, buildNum, runNum, cache, buildCache, runCache,
                 pc, queued, local, timerKey, timer>>
CancelBuilder ==
  /\ builder.live /\ ~builder.cancel
  /\ Touch([builder EXCEPT !.cancel = TRUE]) /\ UNCHANGED disturb
DeleteBuilder == builder.live /\ Disturb("delete") /\ Touch([builder EXCEPT !.live = FALSE])
CollectGarbage ==
  /\ ~builder.live
  /\ builds' = [k \in Starts |-> IF builds[k] = "none" THEN "none" ELSE "deleted"]
  /\ runs' = [k \in Starts |-> [runs[k] EXCEPT !.live = FALSE]]
  /\ <<builds, runs>> # <<builds', runs'>>
  /\ UNCHANGED <<timeout, builder, elapsed, buildNum, runNum, caches, worker, timers, disturb>>

DeleteBuild(k) ==
  /\ builds[k] \in {"new", "registered"} /\ Disturb("delete")
  /\ builds' = [builds EXCEPT ![k] = "deleted"]
  /\ UNCHANGED <<timeout, builder, elapsed, runs, buildNum, runNum, caches, worker, timers>>
DeleteRun(k) ==
  /\ runs[k].live /\ Disturb("delete")
  /\ runs' = [runs EXCEPT ![k].live = FALSE]
  /\ UNCHANGED <<timeout, builder, elapsed, builds, buildNum, runNum, caches, worker, timers>>

Next ==
  \/ WorkerStep \/ TimerFires \/ TimerWrites
  \/ Elapse \/ SyncBuilder \/ SyncBuilds \/ SyncRuns \/ Crash
  \/ \E k \in Starts : RegisterBuild(k) \/ RunEnds(k) \/ RunIsCancelled(k)
  \/ CancelBuilder \/ DeleteBuilder \/ CollectGarbage
  \/ \E k \in Starts : DeleteBuild(k) \/ DeleteRun(k)

Spec == Init /\ [][Next]_vars

\* The worker, the goroutine, the informers, the clock and Shipwright go on; a
\* BuildRun that is not cancelled need not end, and nobody has to interfere.
Fairness ==
  /\ WF_vars(WorkerStep) /\ WF_vars(TimerFires) /\ WF_vars(TimerWrites) /\ WF_vars(Elapse)
  /\ WF_vars(SyncBuilder) /\ WF_vars(SyncBuilds) /\ WF_vars(SyncRuns)
  /\ \A k \in Starts : WF_vars(RegisterBuild(k)) /\ WF_vars(RunIsCancelled(k))

FairSpec == Spec /\ Fairness
=============================================================================
