------------------------- MODULE FunctionProperties -------------------------
(* What the Function reconciler promises, over the state of                *)
(* FunctionController.                                                     *)
EXTENDS FunctionController

\* Every variable stays in its type: no reference leaves the names handed out.
TypeOK ==
  /\ fn \in Function
  /\ builders \in [Builders -> Builder] /\ servings \in [Servings -> Serving]
  /\ builderNum \in 0 .. MaxBuilders /\ servingNum \in 0 .. MaxServings
  /\ httpRoute \in 0 .. MaxServings /\ service \in Service
  /\ fnCache \in Function /\ cacheFresh \in BOOLEAN
  /\ builderCache \in [Builders -> Builder] /\ servingCache \in [Servings -> Serving]
  /\ pc \in PCs /\ queued \in BOOLEAN
  /\ local \in Function /\ localFresh \in BOOLEAN
  /\ edits \in 0 .. MaxEdits /\ disturb \in 0 .. MaxDisturb

-----------------------------------------------------------------------------
(* Builds                                                                  *)

\* A build is reported as succeeded only if the builder the status refers to
\* was created from the recorded hash and did succeed, whatever the caches
\* missed in between (updateFuncWithBuilderStatus, createBuilder).
SucceededIsBuilt ==
  LET c == fn.status.build IN
  c.state = "Succeeded" =>
    c.ref # 0 /\ IsSucceeded(builders[c.ref]) /\ builders[c.ref].spec = c.hash

\* The recorded revision is the digest of an image that a successful builder of
\* this function pushed, never of one that failed or was cancelled.
RevisionIsPushed ==
  LET d == fn.status.revision IN d # 0 => IsSucceeded(builders[d]) /\ builders[d].digest

\* The recorded build belongs to the spec the user asks for now.
BuildIsCurrent == fn.status.build.hash = BuilderSpecOf(fn.spec)

\* Once the build of the current spec is recorded as succeeded nothing but an
\* edit undoes it: no stale cache, restart, retry or deleted builder leads to
\* another build (needToCreateBuilder, reset before create).
BuildSuccessIsStable ==
  [][fn.status.build.state = "Succeeded" /\ BuildIsCurrent
     => fn'.status.build = fn.status.build]_vars

\* cancelOldBuilder: "Only one builder can run at the same time".
OneActiveBuilder ==
  Cardinality({b \in Builders : builders[b].live /\ ~IsCompleted(builders[b])}) <= 1

\* The worker has nothing to do and the caches are current: whatever is wrong
\* with the function now stays wrong until somebody changes something.
Quiescent ==
  /\ pc = "Idle" /\ ~queued
  /\ cacheFresh /\ builderCache = builders /\ servingCache = servings

\* createBuilder returned to wait for the builders it cancelled.
WaitingForCancel ==
  /\ fn.status.build.ref = 0 /\ fn.status.build.state = ""
  /\ \E b \in Builders : builders[b].live /\ ~IsCompleted(builders[b]) /\ builders[b].cancel

\* When everything is quiet the recorded build is the one the spec asks for and
\* shows what its builder reports: no event, conflict or error was lost.  (But the
\* build section may be gone again before the build that it asked for is recorded.)
BuildReflected ==
  Quiescent =>
    LET c == fn.status.build IN
    \/ WaitingForCancel
    \/ /\ BuildIsCurrent
       /\ fn.spec.build = NoBuild => c.state = "Skipped" \/ (edits > 1 /\ c.state = "")
       /\ fn.spec.build # NoBuild =>
            /\ c.ref # 0
            /\ builders[c.ref].live /\ builders[c.ref].started
               => c.state = builders[c.ref].state
            /\ ~builders[c.ref].live => c.state = "Succeeded"

\* "The build step will be skipped if Build is nil": a function that is quiet and has
\* no build section has its build skipped, unless a builder has still to be cancelled.
SkippedWithoutBuild ==
  Quiescent /\ fn.spec.build = NoBuild /\ ~WaitingForCancel
    => fn.status.build.state = "Skipped"

\* When everything is quiet no more completed builders are left than
\* successfulBuildsHistoryLimit and failedBuildsHistoryLimit allow (pruneBuilder).
HistoryBounded ==
  LET Completed(ok) ==
        {b \in Builders : /\ builders[b].live /\ IsCompleted(builders[b])
                          /\ IsSucceeded(builders[b]) = ok}
  IN Quiescent /\ fn.spec.build # NoBuild =>
       /\ Cardinality(Completed(TRUE)) <= SuccessfulBuildsHistoryLimit
       /\ Cardinality(Completed(FALSE)) <= FailedBuildsHistoryLimit

-----------------------------------------------------------------------------
(* Servings                                                                *)

\* A function reported as running has no other serving left: they are deleted
\* before the status says so, and nothing creates one without resetting the
\* status first (updateFuncWithServingStatus, cleanServing).
OnlyRunningServingLives ==
  fn.status.serving.state = "Running" =>
    \A s \in Servings : servings[s].live => s = fn.status.serving.ref

\* A serving is created only from a finished build: its image is pinned to the
\* digest of a builder that succeeded with the very build the reconcile's copy
\* of the spec asks for (needToCreateServing, getServingImage).
ServesTheBuiltCode ==
  [][servingNum' # servingNum /\ local.spec.build # NoBuild
     => LET d == servings'[servingNum'].spec.digest
        IN /\ d # 0 /\ IsSucceeded(builders[d])
           /\ builders[d].spec = BuilderSpecOf(local.spec)]_vars

\* Once the function is routed, no step of the reconcile deletes the last
\* serving that runs: "If new serving is running, clean old serving".
Up == \E s \in Servings : servings[s].live /\ servings[s].state = "Running"
NoOutage == [][httpRoute # 0 /\ Up /\ pc' # pc => Up']_vars

\* When everything is quiet and the build is done, the recorded serving is the
\* one the spec asks for, exists, shows what it reports, and the HTTPRoute and
\* the Service of a running HTTP function lead to it.
ServingReflected ==
  Quiescent /\ BuildDone(fn) =>
    LET c == fn.status.serving IN
    /\ c.hash = ServingSpecOf(fn)
    /\ fn.spec.serving = NoServing => c.state = "Skipped"
    /\ fn.spec.serving # NoServing =>
         /\ c.ref # 0 /\ servings[c.ref].live
         /\ servings[c.ref].started => c.state = servings[c.ref].state
         /\ c.state = "Running" /\ fn.spec.serving \in HttpImpls
            => httpRoute = c.ref /\ service.type = "ExternalName"

\* "The serving step will be skipped if Serving is nil": the reconcile of such
\* a function ends, it does not take the operator down.
NeverPanics == pc # "Panic"

-----------------------------------------------------------------------------
(* Progress                                                                *)

\* When nobody edits and nothing fails any more, the function gets to an end:
\* the build is over and, if it can be served, the serving is up, failed or skipped.
Settled ==
  /\ Quiescent
  /\ fn.status.build.state \notin {"", "Created", "Building"}
  /\ BuildDone(fn) => fn.status.serving.state \notin {"Nil", "", "Created", "Starting"}
Settles == <>[]Settled
-----------------------------------------------------------------------------
(* Inductive invariants                                                    *)

\* The worker updates the route only after it found an HTTP trigger.
TypeInv == TypeOK /\ (pc = "RouteStatus" => local.spec.serving \in HttpImpls)

\* A copy that still carries the current version is the object itself.
FreshCopies == (localFresh => local = fn) /\ (cacheFresh => fnCache = fn)

\* A name not handed out has no builder, and a success the cache shows is final.
UnbornBuilders ==
  \A b \in Builders : b > builderNum => ~builders[b].live /\ builders[b].state = ""
CacheMirrors ==
  \A b \in Builders : IsSucceeded(builderCache[b]) =>
    IsSucceeded(builders[b]) /\ builderCache[b].digest = builders[b].digest

\* What holds of the status in each of its three copies: the reference is to a
\* builder of the recorded hash, a recorded success is one the cache still shows,
\* and the revision is a pushed image.
BuildRecordOK(c) ==
  /\ c.ref # 0 => c.ref <= builderNum /\ builders[c.ref].spec = c.hash
  /\ c.state = "Succeeded" => c.ref # 0 /\ IsSucceeded(builderCache[c.ref])
RevisionOK(d) == d # 0 => IsSucceeded(builders[d]) /\ builders[d].digest
StatusOK(s) == BuildRecordOK(s.build) /\ RevisionOK(s.revision)

\* Between the reset of a build and the record of the next one nothing is recorded,
\* and the builder to record is the newest one.
ResetPCs == {"CancelOldBuilder", "PruneOldBuilders", "CreateBuilder", "RecordBuilder", "SkipBuild"}
WorkerOK ==
  /\ pc \in ResetPCs => local.status.build.state = "" /\ local.status.build.ref = 0
  /\ pc = "RecordBuilder" =>
       builderNum # 0 /\ builders[builderNum].spec = BuilderSpecOf(local.spec)

\* The strengthening that SucceededIsBuilt, RevisionIsPushed and
\* BuildSuccessIsStable follow from (updateFuncWithBuilderStatus, createBuilder).
BuildInv ==
  /\ FreshCopies /\ UnbornBuilders /\ CacheMirrors
  /\ StatusOK(fn.status) /\ StatusOK(fnCache.status) /\ StatusOK(local.status)
  /\ WorkerOK

-----------------------------------------------------------------------------
(* Records, and the steps of a pass                                        *)

\* A child that was started reports a state of its own, never one that only the
\* function records.
ChildrenOK ==
  /\ \A b \in Builders : \A c \in {builders[b], builderCache[b]} :
       c.state \notin {"Created", "Skipped"} /\ (c.started => c.state # "")
  /\ \A s \in Servings : servings[s].state # "Nil" /\ servingCache[s].state # "Nil"

\* What is recorded of a build and of a serving goes together: names, hashes and states.
BuildAndHash(b) ==
  /\ b.ref # 0 => b.state # "" /\ b.hash # EmptyBuilderSpec
  /\ b.state = "Skipped" => b.hash = EmptyBuilderSpec
ServingAndHash(c) ==
  /\ c.ref # 0 => /\ c.ref <= servingNum /\ servings[c.ref].spec = c.hash
                  /\ c.hash # EmptyServingSpec
  /\ c.hash = EmptyServingSpec => c.state \in {"", "Skipped"}
RunningRecord(c) ==
  c.state = "Running" =>
    /\ c.ref # 0
    /\ c.service = IF servings[c.ref].spec.impl \in HttpImpls THEN c.ref ELSE 0
RecordOK(t) ==
  /\ BuildAndHash(t.build) /\ ServingAndHash(t.serving) /\ RunningRecord(t.serving)
  /\ t.build.state \in {"Succeeded", "Skipped"} => t.serving.state # "Nil"

\* What a pass knows at its steps: the build it goes on with is the one the spec
\* asks for, the serving was reset before another one is created.
BuiltPCs == {"PruneBuilder", "Serving", "CleanServing", "CreateServing", "AsyncService",
             "RecordServing", "SkipServing"}
ResetServingPCs == {"CleanServing", "CreateServing", "AsyncService", "RecordServing", "SkipServing"}
StepsOK ==
  /\ pc = "SkipBuild" => local.spec.build = NoBuild
  /\ pc \in {"CreateBuilder", "RecordBuilder"} => local.spec.build # NoBuild
  /\ pc \in BuiltPCs /\ BuildDone(local) => local.status.build.hash = BuilderSpecOf(local.spec)
  /\ pc \in ResetServingPCs => local.status.serving.state = "" /\ BuildDone(local)
  /\ pc \in {"CreateServing", "AsyncService", "RecordServing"} => local.spec.serving # NoServing
  /\ pc = "SkipServing" => local.spec.serving = NoServing
  /\ pc \in {"AsyncService", "RecordServing"} =>
       servingNum # 0 /\ servings[servingNum].spec = ServingSpecOf(local)
  /\ pc \in {"CleanOldServing", "RecordRunning"} =>
       local.status.serving.ref # 0 /\ local.status.serving.state # "Running"

RecordInv ==
  /\ ChildrenOK /\ StepsOK
  /\ RecordOK(fn.status) /\ RecordOK(fnCache.status) /\ RecordOK(local.status)

\* With it, for ServesTheBuiltCode: a success that names its image is also the one
\* the revision is pinned to (updateFuncWithBuilderStatus).
PinnedOK(t) == t.build.state = "Succeeded" => t.revision = t.build.ref
PinnedInv ==
  /\ \A b \in Builders : IsSucceeded(builders[b]) => builders[b].digest
  /\ PinnedOK(fn.status) /\ PinnedOK(fnCache.status) /\ PinnedOK(local.status)

\* For OneActiveBuilder: a pass that started with full caches sees every active
\* builder until it has cancelled them or found none.
Active(c) == c.live /\ ~IsCompleted(c)
ActiveInv ==
  /\ \A a, b \in Builders : Active(builders[a]) /\ Active(builders[b]) => a = b
  /\ pc \in {"Builder", "CancelOldBuilder"} =>
       \A b \in Builders : Active(builders[b]) => Active(builderCache[b])
  /\ pc \in {"PruneOldBuilders", "CreateBuilder"} => \A b \in Builders : ~Active(builders[b])

\* For OnlyRunningServingLives: such a pass sees every serving until it creates one,
\* which it does only after the status no longer says that one runs.
SeeingPCs == {"Builder", "CancelOldBuilder", "PruneOldBuilders", "CreateBuilder", "RecordBuilder",
              "SkipBuild", "PruneBuilder", "Serving", "CleanOldServing"}
AloneInv ==
  /\ OnlyRunningServingLives
  /\ pc \in SeeingPCs => \A s \in Servings : servings[s].live => servingCache[s].live
  /\ pc \in ResetServingPCs => fn.status.serving.state # "Running"
  /\ pc = "RecordRunning" => \A s \in Servings : servings[s].live => s = local.status.serving.ref

\* For BuildReflected and ServingReflected: a pass that nothing was reported to and
\* that wrote nothing has the current function, so what it found right is right.
Silent == ~queued /\ cacheFresh

\* A build that was skipped is undone only by edits: one that asks for a build, and one
\* that no longer does.
UndoneOK ==
  fn.status.build.hash = EmptyBuilderSpec =>
    /\ fn.spec.build # NoBuild => edits > 0
    /\ fn.status.build.state # "Skipped" =>
         /\ fn.status.build.state = "" /\ edits > 0
         /\ fn.spec.build = NoBuild => edits > 1
CancelSeen ==
  /\ fn.status.build.ref = 0 /\ fn.status.build.state = ""
  /\ \E b \in Builders : Active(builderCache[b]) /\ builders[b].cancel
BuildSeen ==
  /\ BuildIsCurrent
  /\ fn.spec.build # NoBuild =>
       LET c == fn.status.build IN
       /\ c.ref # 0
       /\ builderCache[c.ref].live /\ builderCache[c.ref].started
          => c.state = builderCache[c.ref].state
       /\ ~builderCache[c.ref].live => c.state = "Succeeded"
ServingSeen ==
  BuildDone(fn) =>
    LET c == fn.status.serving IN
    /\ c.hash = ServingSpecOf(fn)
    /\ fn.spec.serving = NoServing => c.state = "Skipped"
    /\ fn.spec.serving # NoServing =>
         /\ c.ref # 0 /\ servingCache[c.ref].live
         /\ servingCache[c.ref].started => c.state = servingCache[c.ref].state
RouteSeen ==
  BuildDone(fn) /\ fn.status.serving.state = "Running" /\ fn.spec.serving \in HttpImpls =>
    httpRoute = fn.status.serving.ref /\ service.type = "ExternalName"
RoutePCs == {"HTTPRoute", "RouteStatus", "Service"}
AfterBuildPCs == BuiltPCs \cup RoutePCs \cup {"CleanOldServing", "RecordRunning", "Idle"}
RestInv ==
  /\ UndoneOK
  /\ pc \in {"RouteStatus", "Service"} => httpRoute = local.status.serving.service
  /\ Silent =>
       /\ pc \notin {"Idle", "Panic"} => localFresh
       /\ pc \in AfterBuildPCs => CancelSeen \/ BuildSeen
       /\ pc \in RoutePCs \cup {"Idle"} => ServingSeen
       /\ pc = "Idle" => RouteSeen

\* For HistoryBounded: the completed builders are pruned before a new one is created,
\* so but for the one in progress and the one recorded they never exceed the limits;
\* the pass that sees the recorded one completed prunes again.
Done(b, ok) == builders[b].live /\ IsCompleted(builders[b]) /\ IsSucceeded(builders[b]) = ok
DoneBuilders(ok) == {b \in Builders : Done(b, ok)}
HistoryLimit(ok) == IF ok THEN SuccessfulBuildsHistoryLimit ELSE FailedBuildsHistoryLimit
Bounded == \A ok \in BOOLEAN : Cardinality(DoneBuilders(ok)) <= HistoryLimit(ok)
BoundedBut(r) ==
  /\ \A b \in Builders \ {r} : ~Active(builders[b])
  /\ \A ok \in BOOLEAN : Cardinality(DoneBuilders(ok) \ {r}) <= HistoryLimit(ok)
\* What leaves its first state was started, and what the cache shows completed is final.
CompletedOK ==
  \A b \in Builders :
    /\ \A c \in {builders[b], builderCache[b]} : c.state # "" => c.started
    /\ IsCompleted(builderCache[b]) => builders[b].state = builderCache[b].state
\* A pass that prunes sees every builder, and none that is active but the recorded one.
PruningOK ==
  /\ pc \in {"Builder", "CancelOldBuilder", "PruneOldBuilders", "PruneBuilder"} =>
       \A b \in Builders : builders[b].live => builderCache[b].live
  /\ pc \in {"Builder", "PruneBuilder"} /\ fn.status.build.ref # 0 =>
       \A b \in Builders \ {fn.status.build.ref} : ~Active(builderCache[b])
  /\ pc = "PruneOldBuilders" => \A b \in Builders : ~Active(builderCache[b])
PruneSeen ==
  fn.spec.build # NoBuild /\ fn.status.build.ref # 0 =>
    LET c == builderCache[fn.status.build.ref] IN c.live /\ IsCompleted(c) => Bounded
HistoryInv ==
  /\ CompletedOK /\ PruningOK
  /\ pc \in ResetPCs => fn.status.build.ref = 0
  /\ (\E b \in Builders : Active(builders[b])) \/ pc = "CreateBuilder" => Bounded
  /\ pc = "RecordBuilder" => BoundedBut(builderNum)
  /\ fn.status.build.ref # 0 => BoundedBut(fn.status.build.ref)
  /\ Silent /\ pc \in AfterBuildPCs \ {"PruneBuilder"} => PruneSeen
=============================================================================
