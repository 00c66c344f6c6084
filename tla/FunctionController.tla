------------------------- MODULE FunctionController -------------------------
(***************************************************************************)
(* The Function reconciler of OpenFunction (controllers/core/              *)
(* function_controller.go): one Function object, the Builders and Servings *)
(* it creates, its HTTPRoute and its Service.                              *)
(*                                                                         *)
(* A reconcile is a sequence of API writes with reads of the informer      *)
(* caches between them.  Every write is a step of its own, so that user    *)
(* edits, child objects that progress, other clients, a failing write and  *)
(* a crash of the operator can come between any two of them; a cache read  *)
(* belongs to the write (or the exit) that follows it.                     *)
(*                                                                         *)
(* Abstractions:                                                           *)
(*  - The resourceVersion of the Function is not counted.  The model keeps *)
(*    whether the cached copy (cacheFresh) and the reconcile's copy        *)
(*    (localFresh) still carry the current one: an update with a stale     *)
(*    version is a conflict, one that changes nothing leaves it alone.     *)
(*  - An informer catches up with the API server in one step, at any time. *)
(*  - GenerateName names are the numbers 1, 2, ... in creation order.      *)
(*  - An image digest is the number of the builder that pushed it.         *)
(*  - A nil Status.Build and an empty one are the same (every reader       *)
(*    treats them alike); a nil Status.Serving is the state Nil.           *)
(***************************************************************************)
EXTENDS Naturals, FiniteSets

CONSTANTS
  Specs,          \* the specs a user applies: [image, build, serving]
  Images,         \* values of spec.image
  BuildImpls,     \* values of spec.build other than nil
  HttpImpls,      \* values of spec.serving with an HTTP trigger
  AsyncImpls,     \* values of spec.serving with a Dapr trigger and a proxy
  NoImage, NoBuild, NoServing, NoHash,
  FailedBuildsHistoryLimit, SuccessfulBuildsHistoryLimit,
  BuilderMaxAge,  \* is spec.build.builderMaxAge set (builders expire)?
  EarlyTimeout,   \* may a builder or serving time out before it was started?
  MissingDigest,  \* may a successful build report no image digest?
  Disturbances,   \* which things go wrong: a subset of DisturbanceKinds
  MaxBuilders, MaxServings, MaxEdits, MaxDisturb  \* bounds of the model

ServingImpls == HttpImpls \cup AsyncImpls
SpecType == [image : Images \cup {NoImage}, build : BuildImpls \cup {NoBuild},
             serving : ServingImpls \cup {NoServing}]

ASSUME SpecsAssumption ==
  /\ Specs \subseteq SpecType
  /\ \A s \in Specs : s.build # NoBuild \/ s.serving # NoServing
ASSUME NilAssumption ==
  /\ NoImage \notin Images /\ NoBuild \notin BuildImpls /\ NoServing \notin ServingImpls
  /\ NoHash \notin [image : Images \cup {NoImage}, build : BuildImpls \cup {NoBuild}]
  /\ NoHash \notin [image : Images \cup {NoImage}, digest : 0 .. MaxBuilders,
                    impl : ServingImpls \cup {NoServing}]
ASSUME BoundsAssumption ==
  /\ MaxBuilders \in Nat /\ MaxServings \in Nat /\ MaxEdits \in Nat /\ MaxDisturb \in Nat
  /\ FailedBuildsHistoryLimit \in Nat /\ SuccessfulBuildsHistoryLimit \in Nat
\* The trigger of a serving decides which of the two it is.
ASSUME ImplsAssumption == HttpImpls \cap AsyncImpls = {}
ASSUME SwitchesAssumption ==
  BuilderMaxAge \in BOOLEAN /\ EarlyTimeout \in BOOLEAN /\ MissingDigest \in BOOLEAN

\* write: an API write fails, or takes effect and loses its reply;  lag: a
\* reconcile starts with child caches that are behind;  crash: the operator
\* restarts;  delete: a client deletes a child;  flap: a workload fails or recovers.
DisturbanceKinds == {"write", "lag", "crash", "delete", "flap"}
ASSUME DisturbancesAssumption == Disturbances \subseteq DisturbanceKinds

Builders == 1 .. MaxBuilders
Servings == 1 .. MaxServings

VARIABLES
  fn,           \* the Function in the API server: [spec, status]
  builders,     \* the Builders ever created; live = still in the API server
  servings,     \* the Servings ever created
  builderNum,   \* how many Builders were created
  servingNum,   \* how many Servings were created
  httpRoute,    \* the serving the HTTPRoute sends requests to, 0 = no route
  service,      \* the Service named after the function
  fnCache, cacheFresh,         \* informer cache of the Function
  builderCache, servingCache,  \* informer caches of Builders and Servings
  pc, queued,                  \* the worker and its work queue
  local, localFresh,           \* the reconcile's copy of the Function
  edits, disturb               \* bounded counters of the environment

api == <<fn, builders, servings, builderNum, servingNum, httpRoute, service>>
caches == <<fnCache, cacheFresh, builderCache, servingCache>>
worker == <<pc, queued, local, localFresh>>
vars == <<api, caches, worker, edits, disturb>>

-----------------------------------------------------------------------------
(* Types                                                                   *)

BuildStates == {"", "Created", "Building", "Succeeded", "Failed", "Canceled", "Timeout", "Skipped"}
ServingStates == {"Nil", "", "Created", "Starting", "Running", "Failed", "Timeout", "Skipped"}

BuilderHashes == [image : Images \cup {NoImage}, build : BuildImpls \cup {NoBuild}]
ServingHashes == [image : Images \cup {NoImage}, digest : 0 .. MaxBuilders,
                  impl : ServingImpls \cup {NoServing}]

BuildCondition == [state : BuildStates, ref : 0 .. MaxBuilders,
                   hash : BuilderHashes \cup {NoHash}]
ServingCondition == [state : ServingStates, ref : 0 .. MaxServings, last : 0 .. MaxServings,
                     service : 0 .. MaxServings, hash : ServingHashes \cup {NoHash}]
Status == [build : BuildCondition, serving : ServingCondition,
           revision : 0 .. MaxBuilders, route : HttpImpls \cup {NoServing}]
Function == [spec : SpecType, status : Status]

Builder == [live : BOOLEAN, spec : BuilderHashes, state : BuildStates, started : BOOLEAN,
            cancel : BOOLEAN, digest : BOOLEAN]
Serving == [live : BOOLEAN, spec : ServingHashes, state : ServingStates, started : BOOLEAN]
Service == [type : {"", "ClusterIP", "ExternalName"}, selector : 0 .. MaxServings]

EmptyBuilderSpec == [image |-> NoImage, build |-> NoBuild]
EmptyServingSpec == [image |-> NoImage, digest |-> 0, impl |-> NoServing]
EmptyServing == [state |-> "", ref |-> 0, last |-> 0, service |-> 0, hash |-> NoHash]
InitStatus ==
  [build |-> [state |-> "", ref |-> 0, hash |-> NoHash],
   serving |-> [EmptyServing EXCEPT !.state = "Nil"],
   revision |-> 0, route |-> NoServing]
NoFunction ==
  [spec |-> [image |-> NoImage, build |-> NoBuild, serving |-> NoServing], status |-> InitStatus]
NoBuilder == [live |-> FALSE, spec |-> EmptyBuilderSpec, state |-> "", started |-> FALSE,
              cancel |-> FALSE, digest |-> FALSE]
NoServingObject == [live |-> FALSE, spec |-> EmptyServingSpec, state |-> "", started |-> FALSE]

PCs == {"Idle", "Builder", "CancelOldBuilder", "PruneOldBuilders", "CreateBuilder",
        "RecordBuilder", "SkipBuild", "PruneBuilder", "Serving", "CleanServing",
        "CreateServing", "AsyncService", "RecordServing", "SkipServing", "CleanOldServing",
        "RecordRunning", "HTTPRoute", "RouteStatus", "Service", "Panic"}

-----------------------------------------------------------------------------
(* What the reconciler computes                                            *)

IsCompleted(b) == b.state # "" /\ b.state # "Building"
IsSucceeded(b) == b.state = "Succeeded"

\* createBuilderSpec and getBuilderHash: the limits, the max age, the timeout
\* and the state do not count.
BuilderSpecOf(s) ==
  IF s.build = NoBuild THEN EmptyBuilderSpec ELSE [image |-> s.image, build |-> s.build]

\* createServingSpec with getServingImage: the image is pinned by the digest
\* of the recorded revision.
ServingSpecOf(f) ==
  IF f.spec.serving = NoServing THEN EmptyServingSpec
  ELSE [image |-> f.spec.image, digest |-> f.status.revision, impl |-> f.spec.serving]

RebuildWhenDeleted(f) ==  \* mutated form: a finished build is not remembered
  LET b == f.status.build IN
  \/ b.hash = NoHash
  \/ b.ref = 0 /\ f.spec.build # NoBuild
  \/ b.hash # BuilderSpecOf(f.spec)
  \/ f.spec.build # NoBuild /\ b.ref # 0 /\ ~builderCache[b.ref].live
NeedToCreateBuilder(f) ==
  LET b == f.status.build IN
  \/ b.hash = NoHash
  \/ b.ref = 0 /\ f.spec.build # NoBuild
  \/ b.hash # BuilderSpecOf(f.spec)
  \/ /\ f.spec.build # NoBuild
     /\ b.ref # 0
     /\ ~builderCache[b.ref].live
     /\ b.state # "Succeeded"

BuildEnded(f) ==  \* mutated form: any end of the build will do
  f.status.build.state \notin {"", "Created", "Building"}
BuildDone(f) == f.status.build.state \in {"Succeeded", "Skipped"}

IgnoreDeletedServing(f) ==  \* mutated form: a deleted serving is not noticed
  LET s == f.status.serving IN
  /\ s.state # "Nil" /\ BuildDone(f)
  /\ \/ s.state = ""
     \/ s.hash = NoHash
     \/ s.ref = 0 /\ f.spec.serving # NoServing
     \/ s.hash # ServingSpecOf(f)
NeedToCreateServing(f) ==
  LET s == f.status.serving IN
  /\ s.state # "Nil" /\ BuildDone(f)
  /\ \/ s.state = ""
     \/ s.hash = NoHash
     \/ s.ref = 0 /\ f.spec.serving # NoServing
     \/ s.hash # ServingSpecOf(f)
     \/ f.spec.serving # NoServing /\ s.ref # 0 /\ ~servingCache[s.ref].live

\* The completed builders that pruneBuilder deletes: of the failed and of the
\* succeeded ones it keeps the newest, up to the history limits.
Newer(b, succeeded) ==
  {c \in Builders : /\ c > b /\ builderCache[c].live /\ IsCompleted(builderCache[c])
                    /\ IsSucceeded(builderCache[c]) = succeeded}
PrunableOneMore(s) ==  \* mutated form: one more than the limit is kept
  {b \in Builders :
     /\ builderCache[b].live /\ IsCompleted(builderCache[b])
     /\ Cardinality(Newer(b, IsSucceeded(builderCache[b]))) > FailedBuildsHistoryLimit}
Prunable(s) ==
  LET Limit(succeeded) ==
        CASE s.build = NoBuild -> IF succeeded THEN 0 ELSE 1
          [] s.build # NoBuild -> IF succeeded THEN SuccessfulBuildsHistoryLimit
                                  ELSE FailedBuildsHistoryLimit
  IN {b \in Builders :
        /\ builderCache[b].live /\ IsCompleted(builderCache[b])
        /\ LET ok == IsSucceeded(builderCache[b])
           IN Cardinality(Newer(b, ok)) >= Limit(ok)}

\* The servings cleanServing deletes: all but the recorded one and the last
\* successful one.
RedundantToRef(ref, last) ==  \* mutated form: the last successful one is forgotten
  {s \in Servings : servingCache[s].live /\ s # ref}
RedundantIdle(ref, last) ==  \* mutated form: whatever runs is kept
  {s \in Servings : servingCache[s].live /\ servingCache[s].state # "Running" /\ s # ref /\ s # last}
Redundant(ref, last) == {s \in Servings : servingCache[s].live /\ s # ref /\ s # last}

-----------------------------------------------------------------------------
(* Initial state: the user has applied a spec, the operator is idle.       *)

Init ==
  /\ \E s \in Specs : fn = [spec |-> s, status |-> InitStatus]
  /\ builders = [b \in Builders |-> NoBuilder]
  /\ servings = [s \in Servings |-> NoServingObject]
  /\ builderNum = 0 /\ servingNum = 0
  /\ httpRoute = 0
  /\ service = [type |-> "", selector |-> 0]
  /\ fnCache = fn /\ cacheFresh = TRUE
  /\ builderCache = builders /\ servingCache = servings
  /\ pc = "Idle" /\ queued = TRUE
  /\ local = NoFunction /\ localFresh = FALSE
  /\ edits = 0 /\ disturb = 0

-----------------------------------------------------------------------------
(* Steps of the worker                                                     *)

\* One of the bounded number of things that go wrong.
Disturb(kind) ==
  kind \in Disturbances /\ disturb < MaxDisturb /\ disturb' = disturb + 1

Goto(next) == pc' = next /\ UNCHANGED <<queued, local, localFresh>>

\* Reconcile returns nil.
Return == pc' = "Idle" /\ local' = NoFunction /\ localFresh' = FALSE /\ UNCHANGED queued

\* Reconcile returns an error: the request goes back to the queue.
FailQuietly ==  \* mutated form: the error is logged and nil returned
  pc' = "Idle" /\ local' = NoFunction /\ localFresh' = FALSE /\ UNCHANGED queued
Fail == pc' = "Idle" /\ local' = NoFunction /\ localFresh' = FALSE /\ queued' = TRUE

\* r.Status().Update(fn): a conflict if the copy is stale, and any write may
\* fail before it takes effect or lose its reply after it did.
WriteStatus(new, next) ==
  \/ /\ localFresh
     /\ fn' = [fn EXCEPT !.status = new]
     /\ local' = [local EXCEPT !.status = new]
     /\ cacheFresh' = (cacheFresh /\ new = fn.status)
     /\ pc' = next
     /\ UNCHANGED <<queued, localFresh, disturb>>
  \/ /\ ~localFresh
     /\ Fail /\ UNCHANGED <<fn, cacheFresh, disturb>>
  \/ /\ Disturb("write") /\ Fail
     /\ \/ UNCHANGED <<fn, cacheFresh>>
        \/ /\ localFresh
           /\ fn' = [fn EXCEPT !.status = new]
           /\ cacheFresh' = (cacheFresh /\ new = fn.status)

\* Delete the builders (servings) in T one after the other, or fail on the way.
DeleteBuilders(T, next) ==
  LET Deleted(D) == [b \in Builders |-> [builders[b] EXCEPT !.live = @ /\ b \notin D]] IN
  \/ builders' = Deleted(T) /\ Goto(next) /\ UNCHANGED disturb
  \/ Disturb("write") /\ Fail /\ \E D \in SUBSET T : T # {} /\ builders' = Deleted(D)

DeleteServings(T, next) ==
  LET Deleted(D) == [s \in Servings |-> [servings[s] EXCEPT !.live = @ /\ s \notin D]] IN
  \/ servings' = Deleted(T) /\ Goto(next) /\ UNCHANGED disturb
  \/ Disturb("write") /\ Fail /\ \E D \in SUBSET T : T # {} /\ servings' = Deleted(D)

\* The worker takes the request and reads the Function from the cache.  With
\* child caches that lag behind this costs one of the MaxDisturb.
StartReconcile ==
  /\ pc = "Idle" /\ queued
  /\ \/ builderCache = builders /\ servingCache = servings /\ UNCHANGED disturb
     \/ (builderCache # builders \/ servingCache # servings) /\ Disturb("lag")
  /\ queued' = FALSE
  /\ local' = fnCache /\ localFresh' = cacheFresh
  /\ pc' = "Builder"
  /\ UNCHANGED <<api, caches, edits>>

-----------------------------------------------------------------------------
(* createBuilder                                                           *)

\* Reset the recorded build before anything is cancelled, deleted or created.
ResetBuild ==
  /\ pc = "Builder" /\ NeedToCreateBuilder(local)
  /\ WriteStatus([local.status EXCEPT !.build.state = "", !.build.ref = 0], "CancelOldBuilder")
  /\ UNCHANGED <<builders, servings, builderNum, servingNum, httpRoute, service,
                 fnCache, builderCache, servingCache, edits>>

RunningOnly ==  \* mutated form: a builder that was not started yet is not cancelled
  {b \in Builders : builderCache[b].live /\ builderCache[b].state = "Building"}
RunningBuilders == {b \in Builders : builderCache[b].live /\ ~IsCompleted(builderCache[b])}

\* cancelOldBuilder: set spec.state = Cancelled in every builder the cache
\* shows running, then wait for them; an outdated copy is a conflict.
CancelOldBuilder ==
  /\ pc = "CancelOldBuilder"
  /\ LET running == RunningBuilders
         outdated == {b \in running : builderCache[b] # builders[b]}
         Cancelled(C) == [b \in Builders |-> [builders[b] EXCEPT !.cancel = @ \/ b \in C]]
     IN \/ running = {} /\ Goto("PruneOldBuilders") /\ UNCHANGED <<builders, disturb>>
        \/ /\ running # {} /\ outdated = {}
           /\ builders' = Cancelled(running) /\ Goto("Serving") /\ UNCHANGED disturb
        \/ /\ outdated # {} /\ Fail /\ UNCHANGED disturb
           /\ \E C \in SUBSET (running \ outdated) : builders' = Cancelled(C)
        \/ /\ running # {} /\ Disturb("write") /\ Fail
           /\ \E C \in SUBSET (running \ outdated) : builders' = Cancelled(C)
  /\ UNCHANGED <<fn, servings, builderNum, servingNum, httpRoute, service, caches, edits>>

\* pruneBuilder, before a new builder is created.
PruneOldBuilders ==
  /\ pc = "PruneOldBuilders"
  /\ DeleteBuilders(Prunable(local.spec),
                    IF local.spec.build = NoBuild THEN "SkipBuild" ELSE "CreateBuilder")
  /\ UNCHANGED <<fn, servings, builderNum, servingNum, httpRoute, service, caches, edits>>

SkipBuild ==
  /\ pc = "SkipBuild"
  /\ WriteStatus([local.status EXCEPT
                    !.build = [state |-> "Skipped", ref |-> 0, hash |-> EmptyBuilderSpec],
                    !.serving = EmptyServing], "Serving")
  /\ UNCHANGED <<builders, servings, builderNum, servingNum, httpRoute, service,
                 fnCache, builderCache, servingCache, edits>>

\* r.Create(builder), with a generated name: a lost reply leaves the builder behind.
CreateBuilder ==
  /\ pc = "CreateBuilder" /\ builderNum < MaxBuilders
  /\ LET created ==
           [builders EXCEPT ![builderNum + 1] =
              [NoBuilder EXCEPT !.live = TRUE, !.spec = BuilderSpecOf(local.spec)]]
     IN \/ /\ builders' = created /\ builderNum' = builderNum + 1
           /\ \/ Goto("RecordBuilder") /\ UNCHANGED disturb
              \/ Fail /\ Disturb("write")
        \/ Disturb("write") /\ Fail /\ UNCHANGED <<builders, builderNum>>
  /\ UNCHANGED <<fn, servings, servingNum, httpRoute, service, caches, edits>>

\* The builder just created is the newest one, number builderNum.
CreatedBuildOffByOne(f) ==  \* mutated form: the next name is recorded
  [state |-> "Created", ref |-> builderNum + 1, hash |-> BuilderSpecOf(f.spec)]
CreatedBuild(f) ==
  [state |-> "Created", ref |-> builderNum, hash |-> BuilderSpecOf(f.spec)]
RecordBuilder ==
  /\ pc = "RecordBuilder"
  /\ WriteStatus([local.status EXCEPT
                    !.build = CreatedBuild(local)], "Serving")
  /\ UNCHANGED <<builders, servings, builderNum, servingNum, httpRoute, service,
                 fnCache, builderCache, servingCache, edits>>

-----------------------------------------------------------------------------
(* updateFuncWithBuilderStatus                                             *)

\* The recorded build has a builder in the cache that was started.
BuilderStarted(f) ==
  /\ f.status.build.state # "" /\ f.status.build.ref # 0
  /\ LET b == builderCache[f.status.build.ref] IN b.live /\ b.started

\* Status after a build result.  A success pins the image, if the build
\* reported a digest, and asks for a new serving.
PinAnyResult(f) ==  \* mutated form: every end of a build moves the revision
  [f.status EXCEPT !.build.state = builderCache[f.status.build.ref].state,
                   !.revision = f.status.build.ref, !.serving.state = ""]
WithBuildResult(f) ==
  LET b == builderCache[f.status.build.ref]
      s == [f.status EXCEPT !.build.state = b.state]
  IN IF ~IsSucceeded(b) THEN s
     ELSE [s EXCEPT !.revision = IF b.digest THEN f.status.build.ref ELSE @,
                    !.serving.state = ""]

SkipBuilderStatus ==
  /\ pc = "Builder" /\ ~NeedToCreateBuilder(local) /\ ~BuilderStarted(local)
  /\ Goto("Serving")
  /\ UNCHANGED <<api, caches, edits, disturb>>

UpdateBuilderStatus ==
  /\ pc = "Builder" /\ ~NeedToCreateBuilder(local) /\ BuilderStarted(local)
  /\ \/ /\ local.status.build.state = builderCache[local.status.build.ref].state
        /\ Goto("PruneBuilder") /\ UNCHANGED <<fn, cacheFresh, disturb>>
     \/ /\ local.status.build.state # builderCache[local.status.build.ref].state
        /\ WriteStatus(WithBuildResult(local), "PruneBuilder")
  /\ UNCHANGED <<builders, servings, builderNum, servingNum, httpRoute, service,
                 fnCache, builderCache, servingCache, edits>>

\* pruneBuilder, after the recorded builder was looked at.
PruneBuilder ==
  /\ pc = "PruneBuilder"
  /\ DeleteBuilders(Prunable(local.spec), "Serving")
  /\ UNCHANGED <<fn, servings, builderNum, servingNum, httpRoute, service, caches, edits>>

-----------------------------------------------------------------------------
(* createServing                                                           *)

\* The last successful serving stays known.
WithoutServing(f) ==
  [f.status EXCEPT !.serving.state = "", !.serving.ref = 0, !.serving.hash = NoHash]

ResetServing ==
  /\ pc = "Serving" /\ NeedToCreateServing(local)
  /\ WriteStatus(WithoutServing(local), "CleanServing")
  /\ UNCHANGED <<builders, servings, builderNum, servingNum, httpRoute, service,
                 fnCache, builderCache, servingCache, edits>>

\* cleanServing after the reset: only the last successful serving is kept.
CleanServing ==
  /\ pc = "CleanServing"
  /\ DeleteServings(Redundant(local.status.serving.ref, local.status.serving.last),
                    IF local.spec.serving = NoServing THEN "SkipServing" ELSE "CreateServing")
  /\ UNCHANGED <<fn, builders, builderNum, servingNum, httpRoute, service, caches, edits>>

SkipServing ==
  /\ pc = "SkipServing"
  /\ WriteStatus([local.status EXCEPT
                    !.serving = [EmptyServing EXCEPT !.state = "Skipped",
                                                     !.hash = EmptyServingSpec]], "HTTPRoute")
  /\ UNCHANGED <<builders, servings, builderNum, servingNum, httpRoute, service,
                 fnCache, builderCache, servingCache, edits>>

CreateServing ==
  /\ pc = "CreateServing" /\ servingNum < MaxServings
  /\ LET created ==
           [servings EXCEPT ![servingNum + 1] =
              [NoServingObject EXCEPT !.live = TRUE, !.spec = ServingSpecOf(local)]]
         next == IF local.spec.serving \in AsyncImpls THEN "AsyncService" ELSE "RecordServing"
     IN \/ /\ servings' = created /\ servingNum' = servingNum + 1
           /\ \/ Goto(next) /\ UNCHANGED disturb
              \/ Fail /\ Disturb("write")
        \/ Disturb("write") /\ Fail /\ UNCHANGED <<servings, servingNum>>
  /\ UNCHANGED <<fn, builders, builderNum, httpRoute, service, caches, edits>>

\* CreateOrUpdateServiceForAsyncFunc: the selector moves to the new serving,
\* the type of a Service that exists is left alone.
AsyncService ==
  /\ pc = "AsyncService"
  /\ \/ /\ service' = [type |-> IF service.type = "" THEN "ClusterIP" ELSE service.type,
                       selector |-> servingNum]
        /\ \/ Goto("RecordServing") /\ UNCHANGED disturb
           \/ Fail /\ Disturb("write")
     \/ Disturb("write") /\ Fail /\ UNCHANGED service
  /\ UNCHANGED <<fn, builders, servings, builderNum, servingNum, httpRoute, caches, edits>>

RecordServing ==
  /\ pc = "RecordServing"
  /\ WriteStatus([local.status EXCEPT
                    !.serving = [state |-> "Created", ref |-> servingNum,
                                 last |-> local.status.serving.last, service |-> 0,
                                 hash |-> ServingSpecOf(local)]], "HTTPRoute")
  /\ UNCHANGED <<builders, servings, builderNum, servingNum, httpRoute, service,
                 fnCache, builderCache, servingCache, edits>>

-----------------------------------------------------------------------------
(* updateFuncWithServingStatus                                             *)

\* The recorded serving is in the cache, was started, and has another state.
ServingChanged(f) ==
  LET r == f.status.serving IN
  /\ r.state \notin {"Nil", ""} /\ r.ref # 0
  /\ servingCache[r.ref].live /\ servingCache[r.ref].started
  /\ servingCache[r.ref].state # r.state

UpdateServingStatus ==
  /\ pc = "Serving" /\ ~NeedToCreateServing(local)
  /\ LET seen == servingCache[local.status.serving.ref].state IN
     \/ /\ ~ServingChanged(local)
        /\ Goto("HTTPRoute") /\ UNCHANGED <<fn, cacheFresh, disturb>>
     \/ /\ ServingChanged(local) /\ seen = "Running"
        /\ Goto("CleanOldServing") /\ UNCHANGED <<fn, cacheFresh, disturb>>
     \/ /\ ServingChanged(local) /\ seen # "Running"
        /\ WriteStatus([local.status EXCEPT !.serving.state = seen], "HTTPRoute")
  /\ UNCHANGED <<builders, servings, builderNum, servingNum, httpRoute, service,
                 fnCache, builderCache, servingCache, edits>>

\* The new serving runs: every other serving is deleted before that is recorded.
CleanOldServing ==
  /\ pc = "CleanOldServing"
  /\ DeleteServings(Redundant(local.status.serving.ref, local.status.serving.ref), "RecordRunning")
  /\ UNCHANGED <<fn, builders, builderNum, servingNum, httpRoute, service, caches, edits>>

\* Only the HTTP engines report a service name.
RecordRunning ==
  /\ pc = "RecordRunning"
  /\ LET ref == local.status.serving.ref IN
     WriteStatus([local.status EXCEPT
                    !.serving.state = "Running", !.serving.last = ref,
                    !.serving.service =
                       IF servings[ref].spec.impl \in HttpImpls THEN ref ELSE 0], "HTTPRoute")
  /\ UNCHANGED <<builders, servings, builderNum, servingNum, httpRoute, service,
                 fnCache, builderCache, servingCache, edits>>

-----------------------------------------------------------------------------
(* createOrUpdateHTTPRoute and the end of Reconcile                        *)

Routed(f) == f.status.serving.state = "Running" /\ f.status.serving.service # 0

\* Nothing to route.
FinishReconcile ==
  /\ pc = "HTTPRoute"
  /\ ~Routed(local) \/ local.spec.serving \in AsyncImpls
  /\ Return
  /\ UNCHANGED <<api, caches, edits, disturb>>

\* fn.Spec.Serving.Triggers with a nil Serving: the operator process dies.
PanicNilServing ==
  /\ pc = "HTTPRoute" /\ Routed(local) /\ local.spec.serving = NoServing
  /\ pc' = "Panic" /\ local' = NoFunction /\ localFresh' = FALSE
  /\ UNCHANGED <<api, caches, queued, edits, disturb>>

\* Gateway and Knative service are read (either may be missing, the latter
\* because its serving was deleted), then the HTTPRoute is pointed at the serving.
WriteHTTPRoute ==
  /\ pc = "HTTPRoute" /\ Routed(local) /\ local.spec.serving \in HttpImpls
  /\ LET backend == local.status.serving.service IN
     \/ httpRoute' = backend /\ Goto("RouteStatus") /\ UNCHANGED disturb
     \/ ~servings[backend].live /\ Fail /\ UNCHANGED <<httpRoute, disturb>>
     \/ Disturb("write") /\ Fail /\ httpRoute' \in {httpRoute, backend}
  /\ UNCHANGED <<fn, builders, servings, builderNum, servingNum, service, caches, edits>>

\* updateFuncWithHTTPRouteStatus: hosts and paths follow from the spec.
RouteStatus ==
  /\ pc = "RouteStatus"
  /\ \/ /\ local.status.route = local.spec.serving
        /\ Goto("Service") /\ UNCHANGED <<fn, cacheFresh, disturb>>
     \/ /\ local.status.route # local.spec.serving
        /\ WriteStatus([local.status EXCEPT !.route = local.spec.serving], "Service")
  /\ UNCHANGED <<builders, servings, builderNum, servingNum, httpRoute, service,
                 fnCache, builderCache, servingCache, edits>>

\* mutateService: an ExternalName service for the gateway.
WriteService ==
  /\ pc = "Service"
  /\ \/ /\ service' = [service EXCEPT !.type = "ExternalName"]
        /\ Return /\ UNCHANGED disturb
     \/ Disturb("write") /\ Fail /\ UNCHANGED service
  /\ UNCHANGED <<fn, builders, servings, builderNum, servingNum, httpRoute, caches, edits>>

ReconcileStep ==
  \/ StartReconcile
  \/ ResetBuild \/ CancelOldBuilder \/ PruneOldBuilders \/ SkipBuild
  \/ CreateBuilder \/ RecordBuilder
  \/ SkipBuilderStatus \/ UpdateBuilderStatus \/ PruneBuilder
  \/ ResetServing \/ CleanServing \/ SkipServing
  \/ CreateServing \/ AsyncService \/ RecordServing
  \/ UpdateServingStatus \/ CleanOldServing \/ RecordRunning
  \/ FinishReconcile \/ PanicNilServing \/ WriteHTTPRoute \/ RouteStatus \/ WriteService

-----------------------------------------------------------------------------
(* The rest of the operator                                                *)

\* Informers deliver what changed and enqueue the function (For, Owns).
SyncFunction ==
  /\ ~cacheFresh
  /\ fnCache' = fn /\ cacheFresh' = TRUE /\ queued' = TRUE
  /\ UNCHANGED <<api, builderCache, servingCache, pc, local, localFresh, edits, disturb>>

SyncBuildersUnwatched ==  \* mutated form: SetupWithManager without Owns(Builder)
  /\ builderCache # builders /\ builderCache' = builders
  /\ UNCHANGED <<api, fnCache, cacheFresh, servingCache, worker, edits, disturb>>
SyncBuilders ==
  /\ builderCache # builders
  /\ builderCache' = builders /\ queued' = TRUE
  /\ UNCHANGED <<api, fnCache, cacheFresh, servingCache, pc, local, localFresh, edits, disturb>>

SyncServings ==
  /\ servingCache # servings
  /\ servingCache' = servings /\ queued' = TRUE
  /\ UNCHANGED <<api, fnCache, cacheFresh, builderCache, pc, local, localFresh, edits, disturb>>

\* cleanExpiredBuilder: the watcher goroutine deletes a completed builder that
\* is older than spec.build.builderMaxAge.
CleanExpiredBuilder(b) ==
  /\ BuilderMaxAge /\ fnCache.spec.build # NoBuild
  /\ builderCache[b].live /\ IsCompleted(builderCache[b]) /\ builders[b].live
  /\ builders' = [builders EXCEPT ![b].live = FALSE]
  /\ UNCHANGED <<fn, servings, builderNum, servingNum, httpRoute, service, caches,
                 worker, edits, disturb>>

\* The operator process ends and starts again with full caches; every object
\* is listed, so the function is enqueued.
Restart ==
  /\ fnCache' = fn /\ cacheFresh' = TRUE
  /\ builderCache' = builders /\ servingCache' = servings
  /\ pc' = "Idle" /\ queued' = TRUE /\ local' = NoFunction /\ localFresh' = FALSE
  /\ UNCHANGED <<api, edits>>

Crash == pc # "Panic" /\ Disturb("crash") /\ Restart
RestartAfterPanic == pc = "Panic" /\ Restart /\ UNCHANGED disturb

TimeoutAnyway(b) ==  \* mutated form: the timer does not look at the result first
  EarlyTimeout \/ b.started
TimeoutDue(b) == ~IsCompleted(b) /\ (EarlyTimeout \/ b.started)

\* What the Builder reconciler does to a builder that is not completed: it is
\* started (even when cancelled before: Cancel finds nothing to cancel) and gets
\* the result of its build.  A timeout before the start sets the state alone.
BuilderProgress(b) ==
  /\ builders[b].live
  /\ \/ /\ builders[b].state = ""
        /\ builders' = [builders EXCEPT ![b].state = "Building", ![b].started = TRUE]
     \/ /\ TimeoutDue(builders[b])
        /\ builders' = [builders EXCEPT ![b].state = "Timeout"]
     \/ /\ builders[b].state = "Building"
        /\ \E d \in IF MissingDigest THEN BOOLEAN ELSE {TRUE} :
             builders' = [builders EXCEPT ![b].state = "Succeeded", ![b].digest = d]
     \/ /\ builders[b].state = "Building"
        /\ \E result \in {"Failed"} \cup (IF builders[b].cancel THEN {"Canceled"} ELSE {}) :
             builders' = [builders EXCEPT ![b].state = result]
  /\ UNCHANGED <<fn, servings, builderNum, servingNum, httpRoute, service, caches,
                 worker, edits, disturb>>

\* What the Serving reconciler does: start the serving, then report its result.
ServingProgress(s) ==
  /\ servings[s].live
  /\ \/ /\ servings[s].state = ""
        /\ servings' = [servings EXCEPT ![s].state = "Starting", ![s].started = TRUE]
     \/ /\ servings[s].state = "" /\ EarlyTimeout
        /\ servings' = [servings EXCEPT ![s].state = "Timeout"]
     \/ /\ servings[s].state = "Starting"
        /\ \E result \in {"Running", "Failed", "Timeout"} :
             servings' = [servings EXCEPT ![s].state = result]
  /\ UNCHANGED <<fn, builders, builderNum, servingNum, httpRoute, service, caches,
                 worker, edits, disturb>>

\* A workload that started may fail and recover later.
ServingFlap(s) ==
  /\ servings[s].live /\ servings[s].started /\ Disturb("flap")
  /\ \/ servings[s].state = "Running" /\ servings' = [servings EXCEPT ![s].state = "Failed"]
     \/ servings[s].state = "Failed" /\ servings' = [servings EXCEPT ![s].state = "Running"]
  /\ UNCHANGED <<fn, builders, builderNum, servingNum, httpRoute, service, caches,
                 worker, edits>>

-----------------------------------------------------------------------------
(* Users and other clients                                                 *)

EditSpec ==
  /\ edits < MaxEdits /\ edits' = edits + 1
  /\ \E s \in Specs \ {fn.spec} : fn' = [fn EXCEPT !.spec = s]
  /\ cacheFresh' = FALSE /\ localFresh' = FALSE
  /\ UNCHANGED <<builders, servings, builderNum, servingNum, httpRoute, service,
                 fnCache, builderCache, servingCache, pc, queued, local, disturb>>

DeleteBuilder(b) ==
  /\ builders[b].live /\ Disturb("delete")
  /\ builders' = [builders EXCEPT ![b].live = FALSE]
  /\ UNCHANGED <<fn, servings, builderNum, servingNum, httpRoute, service, caches,
                 worker, edits>>

DeleteServing(s) ==
  /\ servings[s].live /\ Disturb("delete")
  /\ servings' = [servings EXCEPT ![s].live = FALSE]
  /\ UNCHANGED <<fn, builders, builderNum, servingNum, httpRoute, service, caches,
                 worker, edits>>

Next ==
  \/ ReconcileStep
  \/ SyncFunction \/ SyncBuilders \/ SyncServings
  \/ \E b \in Builders : CleanExpiredBuilder(b)
  \/ Crash \/ RestartAfterPanic
  \/ \E b \in Builders : BuilderProgress(b)
  \/ \E s \in Servings : ServingProgress(s)
  \/ \E s \in Servings : ServingFlap(s)
  \/ EditSpec
  \/ \E b \in Builders : DeleteBuilder(b)
  \/ \E s \in Servings : DeleteServing(s)

Spec == Init /\ [][Next]_vars

\* The worker, the informers and the other reconcilers keep running, and a build
\* or a start ends sooner or later; nobody has to edit, fail or crash.
Fairness ==
  /\ WF_vars(ReconcileStep) /\ WF_vars(RestartAfterPanic)
  /\ WF_vars(SyncFunction) /\ WF_vars(SyncBuilders) /\ WF_vars(SyncServings)
  /\ \A b \in Builders : WF_vars(BuilderProgress(b))
  /\ \A s \in Servings : WF_vars(ServingProgress(s))

FairSpec == Spec /\ Fairness
=============================================================================
