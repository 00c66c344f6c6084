------------------------- MODULE FunctionRest_proofs -------------------------
(* Proofs about a function at rest: when nothing is queued and the caches  *)
(* are current, the status, the HTTPRoute and the Service are what the     *)
(* spec and the children ask for.                                          *)
EXTENDS FunctionRollout_proofs

-----------------------------------------------------------------------------
(* What a step does in silence                                             *)

\* An edit, or a step that leaves the spec alone.
LEMMA EditStep ==
  ASSUME TypeInv, BuildInv, [Next]_vars
  PROVE  \/ fn'.spec = fn.spec /\ edits' = edits
         \/ fn'.status = fn.status /\ edits' = edits + 1
<1>1. CASE ReconcileStep
  <2>1. edits' = edits
    BY <1>1 DEF ReconcileStep, StartReconcile, ResetBuild, SkipBuild, RecordBuilder,
       CancelOldBuilder, PruneOldBuilders, CreateBuilder, PruneBuilder,
       SkipBuilderStatus, UpdateBuilderStatus, ResetServing, SkipServing, CleanServing,
       CreateServing, AsyncService, RecordServing, UpdateServingStatus, CleanOldServing,
       RecordRunning, FinishReconcile, PanicNilServing, WriteHTTPRoute, RouteStatus, WriteService
  <2> QED BY <1>1, <2>1, ReconcileMoves
<1>2. CASE EditSpec
  BY <1>2 DEF EditSpec, TypeInv, TypeOK, Function
<1>3. CASE \/ SyncFunction \/ SyncBuilders \/ SyncServings \/ Crash \/ RestartAfterPanic
           \/ UNCHANGED vars
  BY <1>3 DEF SyncFunction, SyncBuilders, SyncServings, Crash, RestartAfterPanic, Restart, vars, api
<1>4. CASE \/ \E b \in Builders : CleanExpiredBuilder(b) \/ DeleteBuilder(b) \/ BuilderProgress(b)
           \/ \E s \in Servings : ServingProgress(s) \/ ServingFlap(s) \/ DeleteServing(s)
  BY <1>4 DEF CleanExpiredBuilder, DeleteBuilder, BuilderProgress, ServingProgress, ServingFlap,
       DeleteServing
<1> QED BY <1>1, <1>2, <1>3, <1>4 DEF Next

\* A status update after which nothing is reported recorded nothing new.
LEMMA QuietWrite ==
  ASSUME TypeInv, NEW new, NEW next, WriteStatus(new, next), Silent'
  PROVE  fn' = fn /\ cacheFresh /\ queued' = queued
<1>1. ~Fail
  BY DEF Fail, Silent
<1>2. /\ localFresh /\ fn' = [fn EXCEPT !.status = new]
      /\ cacheFresh' = (cacheFresh /\ new = fn.status) /\ UNCHANGED queued
  BY <1>1 DEF WriteStatus
<1>3. cacheFresh /\ new = fn.status
  BY <1>2 DEF Silent
<1>4. [fn EXCEPT !.status = fn.status] = fn
  BY DEF TypeInv, TypeOK, Function
<1> QED BY <1>2, <1>3, <1>4

\* How a pass goes on in silence: nobody edits, the caches stay what they are.
QuietRest == Rests /\ localFresh' = localFresh /\ UNCHANGED <<httpRoute, service>>
Quiet ==
  /\ UNCHANGED <<fn, builderCache, servingCache>> /\ cacheFresh
  /\ \/ StartReconcile
     \/ /\ ~queued
        /\ QuietRest \/ Walks \/ Writes \/ FinishReconcile \/ PanicNilServing \/ WriteService

LEMMA QuietWrites ==
  ASSUME TypeInv, BuildInv, Silent',
         \/ ResetBuild \/ SkipBuild \/ RecordBuilder \/ UpdateBuilderStatus
         \/ ResetServing \/ SkipServing \/ RecordServing \/ UpdateServingStatus
         \/ RecordRunning \/ RouteStatus
  PROVE  Quiet
<1>1. /\ UNCHANGED <<httpRoute, service, builderCache, servingCache>>
      /\ pc \notin {"Idle", "Panic"}
  BY DEF ResetBuild, SkipBuild, RecordBuilder, UpdateBuilderStatus, ResetServing,
     SkipServing, RecordServing, UpdateServingStatus, RecordRunning, RouteStatus
<1>2. Gone \/ Rests \/ Starts \/ Walks \/ Writes
  BY ReconcileMoves DEF ReconcileStep, Moves
<1>3. \/ UNCHANGED <<fn, cacheFresh, queued, localFresh>> /\ pc' \notin {"Idle", "Panic"}
      \/ \E new : \E next : WriteStatus(new, next)
  <2>1. CASE ResetBuild \/ SkipBuild \/ RecordBuilder \/ ResetServing \/ SkipServing
             \/ RecordServing \/ RecordRunning
    BY <2>1 DEF ResetBuild, SkipBuild, RecordBuilder, ResetServing, SkipServing, RecordServing,
       RecordRunning
  <2>2. CASE UpdateBuilderStatus \/ UpdateServingStatus \/ RouteStatus
    BY <2>2 DEF UpdateBuilderStatus, UpdateServingStatus, RouteStatus, Goto
  <2> QED BY <2>1, <2>2
<1>4. CASE \E new : \E next : WriteStatus(new, next)
  <2>1. PICK new : \E next : WriteStatus(new, next)
    BY <1>4
  <2>2. PICK next : WriteStatus(new, next)
    BY <2>1
  <2>3. fn' = fn /\ cacheFresh /\ queued' = queued
    BY <2>2, QuietWrite
  <2>4. localFresh /\ localFresh' = localFresh
    BY <2>2 DEF WriteStatus, Fail, Silent
  <2> QED BY <1>1, <1>2, <2>3, <2>4 DEF Quiet, QuietRest, Gone, Starts, Silent
<1>5. CASE UNCHANGED <<fn, cacheFresh, queued, localFresh>> /\ pc' \notin {"Idle", "Panic"}
  BY <1>1, <1>2, <1>5 DEF Quiet, QuietRest, Gone, Starts, Silent
<1> QED BY <1>3, <1>4, <1>5

LEMMA QuietMoves ==
  ASSUME TypeInv, BuildInv, Silent',
         \/ CancelOldBuilder \/ PruneOldBuilders \/ CreateBuilder \/ SkipBuilderStatus
         \/ PruneBuilder \/ CleanServing \/ CreateServing \/ AsyncService
         \/ CleanOldServing \/ FinishReconcile \/ PanicNilServing \/ WriteHTTPRoute
         \/ WriteService
  PROVE  Quiet
<1>1. UNCHANGED <<fn, caches>> /\ pc # "Idle" /\ ~Fail
  BY DEF CancelOldBuilder, PruneOldBuilders, CreateBuilder, SkipBuilderStatus, PruneBuilder,
     CleanServing, CreateServing, AsyncService, CleanOldServing, FinishReconcile,
     PanicNilServing, WriteHTTPRoute, WriteService, api, Fail, Silent
<1>2. cacheFresh /\ UNCHANGED <<builderCache, servingCache>>
  BY <1>1 DEF caches, Silent
<1>3. CASE FinishReconcile \/ PanicNilServing \/ WriteService
  <2>1. queued' = queued
    BY <1>1, <1>3 DEF FinishReconcile, PanicNilServing, WriteService, Return
  <2> QED BY <1>1, <1>2, <1>3, <2>1 DEF Quiet, Silent
<1>4. CASE ~(FinishReconcile \/ PanicNilServing \/ WriteService)
  <2>1. queued' = queued /\ pc' \notin {"Idle", "Panic", pc}
    <3>1. CASE CancelOldBuilder \/ PruneOldBuilders \/ PruneBuilder
      BY <1>1, <3>1 DEF CancelOldBuilder, PruneOldBuilders, PruneBuilder, DeleteBuilders, Goto
    <3>2. CASE CreateBuilder \/ SkipBuilderStatus
      BY <1>1, <3>2 DEF CreateBuilder, SkipBuilderStatus, Goto
    <3>3. CASE CleanServing \/ CleanOldServing
      BY <1>1, <3>3 DEF CleanServing, CleanOldServing, DeleteServings, Goto
    <3>4. CASE CreateServing \/ AsyncService \/ WriteHTTPRoute
      BY <1>1, <3>4 DEF CreateServing, AsyncService, WriteHTTPRoute, Goto
    <3> QED BY <1>4, <3>1, <3>2, <3>3, <3>4
  <2>2. Walks \/ Writes
    BY <1>1, <2>1, ReconcileMoves DEF ReconcileStep, Moves, Gone, Rests, Starts
  <2> QED BY <1>1, <1>2, <2>1, <2>2 DEF Quiet, Silent
<1> QED BY <1>3, <1>4

LEMMA QuietStep ==
  ASSUME TypeInv, BuildInv, [Next]_vars, Silent'
  PROVE  Quiet
<1>1. CASE ReconcileStep
  <2>1. CASE StartReconcile
    BY <2>1 DEF StartReconcile, api, caches, Silent, Quiet
  <2>2. CASE ~StartReconcile
    BY <1>1, <2>2, QuietWrites, QuietMoves DEF ReconcileStep
  <2> QED BY <2>1, <2>2
<1>2. CASE SyncFunction \/ SyncBuilders \/ SyncServings \/ Crash \/ RestartAfterPanic \/ EditSpec
  BY <1>2 DEF SyncFunction, SyncBuilders, SyncServings, Crash, RestartAfterPanic, Restart,
     EditSpec, Silent
<1>3. CASE \/ \E b \in Builders : CleanExpiredBuilder(b) \/ DeleteBuilder(b) \/ BuilderProgress(b)
           \/ \E s \in Servings : ServingProgress(s) \/ ServingFlap(s) \/ DeleteServing(s)
           \/ UNCHANGED vars
  <2>1. UNCHANGED <<fn, httpRoute, service, caches, worker>>
    BY <1>3 DEF CleanExpiredBuilder, DeleteBuilder, BuilderProgress, ServingProgress, ServingFlap,
       DeleteServing, vars, api
  <2> QED BY <2>1 DEF caches, worker, Silent, Quiet, QuietRest, Rests
<1> QED BY <1>1, <1>2, <1>3 DEF Next

\* Only the step that writes the HTTPRoute moves it, to the serving in the pass.
LEMMA RouteStep ==
  ASSUME TypeInv, [Next]_vars
  PROVE  /\ httpRoute' = httpRoute \/ pc = "HTTPRoute"
         /\ pc = "HTTPRoute" /\ pc' = "RouteStatus" => httpRoute' = local.status.serving.service
<1>1. CASE WriteHTTPRoute
  BY <1>1 DEF WriteHTTPRoute, Goto, Fail
<1>2. CASE ReconcileStep /\ ~WriteHTTPRoute
  BY <1>2 DEF ReconcileStep, StartReconcile, ResetBuild, SkipBuild, RecordBuilder,
     CancelOldBuilder, PruneOldBuilders, CreateBuilder, PruneBuilder,
     SkipBuilderStatus, UpdateBuilderStatus, ResetServing, SkipServing, CleanServing,
     CreateServing, AsyncService, RecordServing, UpdateServingStatus, CleanOldServing,
     RecordRunning, FinishReconcile, PanicNilServing, RouteStatus, WriteService, Return, api
<1>3. CASE ~ReconcileStep
  BY <1>3 DEF Next, SyncFunction, SyncBuilders, SyncServings, CleanExpiredBuilder, Crash,
     RestartAfterPanic, Restart, BuilderProgress, ServingProgress, ServingFlap, EditSpec,
     DeleteBuilder, DeleteServing, vars, api, worker
<1> QED BY <1>1, <1>2, <1>3

-----------------------------------------------------------------------------
(* What a pass found right                                                 *)

\* A build that was skipped is undone only by edits.
LEMMA UndoneStep ==
  ASSUME TypeInv, BuildInv, RecordInv, UndoneOK, [Next]_vars
  PROVE  UndoneOK'
<1> DEFINE b == fn.status.build
<1>0. edits \in Nat
  BY BoundsAssumption DEF TypeInv, TypeOK
<1>1. CASE fn'.status = fn.status
  <2>1. CASE fn'.spec = fn.spec /\ edits' = edits
    BY <1>1, <2>1 DEF UndoneOK
  <2>2. CASE edits' = edits + 1
    <3>1. edits' > 0 /\ (edits > 0 => edits' > 1)
      BY <1>0, <2>2
    <3> QED BY <1>1, <3>1 DEF UndoneOK
  <2> QED BY <1>0, <2>1, <2>2, EditStep
<1>2. CASE Wrote(fn'.status) /\ local = fn /\ fn'.spec = fn.spec /\ fn'.status # fn.status
  <2> DEFINE t == fn'.status
  <2>0. edits' = edits
    BY <1>2, EditStep
  <2>1. CASE WroteReset(t)
    <3>1. ASSUME b.hash = EmptyBuilderSpec PROVE fn.spec.build # NoBuild
      <4>1. b.ref = 0 /\ b.hash # NoHash
        BY <3>1, EmptySpecs DEF RecordInv, RecordOK, BuildAndHash
      <4>2. NeedToCreateBuilder(fn)
        BY <1>2, <2>1 DEF WroteReset
      <4> QED BY <3>1, <4>1, <4>2 DEF NeedToCreateBuilder, BuilderSpecOf
    <3> QED BY <1>2, <2>0, <2>1, <3>1 DEF WroteReset, UndoneOK
  <2>2. CASE WroteSkip(t)
    BY <1>2, <2>2 DEF WroteSkip, UndoneOK, RecordInv, StepsOK
  <2>3. CASE WroteBuilder(t)
    <3>1. local.spec.build # NoBuild
      BY <2>3 DEF WroteBuilder, RecordInv, StepsOK
    <3>2. t.build.hash = BuilderSpecOf(local.spec)
      BY <2>3 DEF WroteBuilder, CreatedBuild
    <3> QED BY <3>1, <3>2, EmptySpecs DEF UndoneOK
  <2>4. CASE WroteResult(t)
    <3>1. t.build.hash # EmptyBuilderSpec
      BY <1>2, <2>4 DEF WroteResult, BuilderStarted, RecordInv, RecordOK, BuildAndHash
    <3> QED BY <3>1 DEF UndoneOK
  <2>5. CASE \/ WroteNoServing(t) \/ WroteSkipServing(t) \/ WroteServing(t)
             \/ WroteServingState(t) \/ WroteRunning(t) \/ WroteRoute(t)
    <3>1. t.build = b
      BY <1>2, <2>5 DEF WroteNoServing, WroteSkipServing, WroteServing, WroteServingState,
         WroteRunning, WroteRoute
    <3> QED BY <1>2, <2>0, <3>1 DEF UndoneOK
  <2> QED BY <1>2, <2>1, <2>2, <2>3, <2>4, <2>5 DEF Wrote
<1> QED BY <1>1, <1>2, StepMoves DEF Moves

\* A pass that goes on without a new builder, or without a new serving, has found
\* the recorded one right.
LEMMA SeesBuild ==
  ASSUME RecordInv, ~NeedToCreateBuilder(fn),
         BuilderStarted(fn) => fn.status.build.state = builderCache[fn.status.build.ref].state
  PROVE  BuildSeen
BY DEF NeedToCreateBuilder, BuilderStarted, BuildSeen, BuildIsCurrent, RecordInv, RecordOK,
   BuildAndHash

LEMMA SeesServing ==
  ASSUME RecordInv, ~NeedToCreateServing(fn), ~ServingChanged(fn)
  PROVE  ServingSeen
<1> SUFFICES ASSUME BuildDone(fn) PROVE ServingSeen
  BY DEF ServingSeen
<1> DEFINE c == fn.status.serving
<1>1. c.state # "Nil"
  BY DEF BuildDone, RecordInv, RecordOK
<1>2. /\ c.state # "" /\ c.hash = ServingSpecOf(fn)
      /\ fn.spec.serving # NoServing => c.ref # 0 /\ servingCache[c.ref].live
  BY <1>1 DEF NeedToCreateServing
<1>3. fn.spec.serving = NoServing => c.state = "Skipped"
  BY <1>2 DEF ServingSpecOf, RecordInv, RecordOK, ServingAndHash
<1>4. fn.spec.serving # NoServing /\ servingCache[c.ref].started
        => c.state = servingCache[c.ref].state
  BY <1>1, <1>2 DEF ServingChanged
<1> QED BY <1>2, <1>3, <1>4 DEF ServingSeen

\* The serving of an HTTP function that is recorded as running has a service.
LEMMA RunningIsRouted ==
  ASSUME RecordInv, ServingSeen, BuildDone(fn), fn.status.serving.state = "Running",
         fn.spec.serving \in HttpImpls
  PROVE  Routed(fn) /\ fn.status.serving.service = fn.status.serving.ref
<1> DEFINE c == fn.status.serving
<1>1. fn.spec.serving # NoServing
  BY NilAssumption DEF ServingImpls
<1>2. c.ref # 0 /\ c.hash = ServingSpecOf(fn) /\ servings[c.ref].spec = c.hash
  BY <1>1 DEF ServingSeen, RecordInv, RecordOK, ServingAndHash
<1>3. servings[c.ref].spec.impl = fn.spec.serving
  BY <1>1, <1>2 DEF ServingSpecOf
<1> QED BY <1>2, <1>3 DEF RecordInv, RecordOK, RunningRecord, Routed

LEMMA CancelStays ==
  ASSUME TypeInv, CancelSeen, [Next]_vars, UNCHANGED <<fn, builderCache>>,
         pc # "CreateBuilder" \/ pc' \in {"CreateBuilder", "Panic"}
  PROVE  CancelSeen'
<1>1. PICK b \in Builders : Active(builderCache[b]) /\ builders[b].cancel
  BY DEF CancelSeen
<1>2. builders'[b].cancel
  BY <1>1, BuildersChangeStep
     DEF BuildersChange, BuilderKept, BuilderMoved, BuilderBorn
<1>3. Active(builderCache'[b])
  BY <1>1
<1> QED BY <1>2, <1>3 DEF CancelSeen, Active, IsCompleted

\* A write in silence is one that the pass needs on the way to a new child.
LEMMA QuietWriteGoesOn ==
  ASSUME TypeInv, BuildInv, RecordInv, Writes, fn' = fn
  PROVE  \/ pc' = "CancelOldBuilder"
         \/ pc = "Serving" /\ pc' = "CleanServing"
         \/ pc = "RouteStatus" /\ pc' = "Service" /\ local'.status.serving = local.status.serving
<1> DEFINE t == local'.status
           st == local.status
<1>1. st = t /\ local = fn
  BY DEF Writes, BuildInv, FreshCopies
<1>2. ~WroteSkip(t) /\ ~WroteBuilder(t)
  <2>1. pc \in {"SkipBuild", "RecordBuilder"} => t.build.state = ""
    BY <1>1 DEF BuildInv, WorkerOK, ResetPCs
  <2>2. WroteSkip(t) => t.build.state = "Skipped"
    BY DEF WroteSkip
  <2>3. WroteBuilder(t) => t.build.state = "Created"
    BY DEF WroteBuilder, CreatedBuild
  <2>4. (WroteSkip(t) => pc = "SkipBuild") /\ (WroteBuilder(t) => pc = "RecordBuilder")
    BY DEF WroteSkip, WroteBuilder
  <2> QED BY <2>1, <2>2, <2>3, <2>4
<1>3. ~WroteResult(t)
  BY <1>1 DEF WroteResult
<1>4. ~WroteSkipServing(t) /\ ~WroteServing(t)
  <2>1. pc \in {"SkipServing", "RecordServing"} => t.serving.state = ""
    BY <1>1 DEF RecordInv, StepsOK, ResetServingPCs
  <2>2. [EmptyServing EXCEPT !.state = "Skipped", !.hash = EmptyServingSpec].state = "Skipped"
    BY DEF EmptyServing
  <2>3. WroteSkipServing(t) => t.serving.state = "Skipped"
    BY <2>2 DEF WroteSkipServing
  <2>4. WroteServing(t) => t.serving.state = "Created"
    BY DEF WroteServing
  <2>5. (WroteSkipServing(t) => pc = "SkipServing") /\ (WroteServing(t) => pc = "RecordServing")
    BY DEF WroteSkipServing, WroteServing
  <2> QED BY <2>1, <2>3, <2>4, <2>5
<1>5. ~WroteServingState(t)
  BY <1>1 DEF WroteServingState, ServingChanged
<1>6. ~WroteRunning(t)
  BY <1>1 DEF WroteRunning, RecordInv, StepsOK
<1> QED BY <1>2, <1>3, <1>4, <1>5, <1>6 DEF Writes, WroteNoServing, WroteRoute

LEMMA RestStep ==
  ASSUME TypeInv, TypeInv', BuildInv, RecordInv, RestInv, [Next]_vars
  PROVE  RestInv'
<1>1. UndoneOK'
  BY UndoneStep DEF RestInv
<1>2. ASSUME pc' \in {"RouteStatus", "Service"}
      PROVE  httpRoute' = local'.status.serving.service
  <2>1. CASE Rests
    BY <1>2, <2>1, RouteStep DEF Rests, RestInv
  <2>2. CASE Walks
    <3>1. pc = "HTTPRoute" \/ pc = "RouteStatus"
      BY <1>2, <2>2 DEF Walks
    <3> QED BY <1>2, <2>2, <3>1, RouteStep DEF Walks, RestInv
  <2>3. CASE Writes
    <3>1. WroteRoute(local'.status)
      BY <1>2, <2>3 DEF Writes
    <3> QED BY <1>2, <3>1, RouteStep DEF WroteRoute, RestInv
  <2> QED BY <1>2, <2>1, <2>2, <2>3, StepMoves DEF Moves, Gone, Starts
<1>3. CASE ~Silent'
  BY <1>1, <1>2, <1>3 DEF RestInv
<1>4. CASE Silent'
  <2>1. Quiet
    BY <1>4, QuietStep
  <2>2. CASE StartReconcile
    BY <1>1, <1>2, <2>1, <2>2 DEF StartReconcile, Quiet, RestInv, AfterBuildPCs, BuiltPCs, RoutePCs
  <2>3. CASE ~StartReconcile
    <3> DEFINE Seen == CancelSeen \/ BuildSeen
    <3>0. /\ Silent /\ UNCHANGED <<fn, builderCache, servingCache>>
          /\ QuietRest \/ Walks \/ Writes \/ FinishReconcile \/ PanicNilServing \/ WriteService
      BY <2>1, <2>3 DEF Quiet, Silent
    <3>1. (BuildSeen => BuildSeen') /\ (ServingSeen => ServingSeen')
      BY <3>0 DEF BuildSeen, BuildIsCurrent, ServingSeen, BuildDone, ServingSpecOf
    <3>2. RouteSeen /\ UNCHANGED <<httpRoute, service>> => RouteSeen'
      BY <3>0 DEF RouteSeen, BuildDone
    <3>3. CASE QuietRest
      <4>1. CancelSeen => CancelSeen'
        BY <3>0, <3>3, CancelStays DEF QuietRest, Rests
      <4> QED BY <1>1, <1>2, <3>0, <3>1, <3>2, <3>3, <4>1 DEF QuietRest, Rests, RestInv
    <3>4. CASE Walks \/ Writes
      <4>1. /\ localFresh /\ localFresh' /\ local = fn /\ local' = fn
            /\ pc \notin {"Idle", "Panic"} /\ pc' \notin {"Idle", "Panic"}
        <5>1. pc \notin {"Idle", "Panic"} /\ pc' \notin {"Idle", "Panic"}
          <6>1. CASE Walks
            BY <6>1 DEF Walks
          <6>2. CASE Writes
            BY <6>2 DEF Writes, WroteReset, WroteSkip, WroteBuilder, WroteResult, WroteNoServing,
               WroteSkipServing, WroteServing, WroteServingState, WroteRunning, WroteRoute
          <6> QED BY <3>4, <6>1, <6>2
        <5>2. localFresh /\ localFresh'
          BY <3>0, <3>4, <5>1 DEF RestInv, Walks, Writes
        <5>3. local = fn
          BY <5>2 DEF BuildInv, FreshCopies
        <5>4. local' = local
          <6>1. CASE Walks
            BY <6>1 DEF Walks
          <6>2. CASE Writes
            BY <3>0, <5>3, <6>2 DEF Writes, TypeInv, TypeOK, Function
          <6> QED BY <3>4, <6>1, <6>2
        <5> QED BY <5>1, <5>2, <5>3, <5>4
      <4>2. ASSUME pc' \in AfterBuildPCs
            PROVE  CancelSeen' \/ BuildSeen'
        <5>1. CASE pc \in AfterBuildPCs
          <6>1. pc # "CreateBuilder"
            BY <5>1 DEF AfterBuildPCs, BuiltPCs, RoutePCs
          <6> QED BY <3>0, <3>1, <5>1, <6>1, CancelStays DEF RestInv
        <5>2. CASE pc \notin AfterBuildPCs
          <6>1. pc' # "CancelOldBuilder" /\ pc \notin {"Serving", "RouteStatus"}
            BY <4>2, <5>2 DEF AfterBuildPCs, BuiltPCs, RoutePCs
          <6>2. Walks
            BY <3>0, <3>4, <6>1, QuietWriteGoesOn
          <6>3. \/ /\ pc = "Builder" /\ ~NeedToCreateBuilder(local)
                   /\ BuilderStarted(local) =>
                        local.status.build.state = builderCache[local.status.build.ref].state
                \/ pc = "CancelOldBuilder" /\ \E b \in RunningBuilders : builders'[b].cancel
            BY <4>2, <5>2, <6>2 DEF Walks, AfterBuildPCs, BuiltPCs, RoutePCs
          <6>4. CASE pc = "CancelOldBuilder" /\ \E b \in RunningBuilders : builders'[b].cancel
            <7>1. \E b \in Builders : Active(builderCache'[b]) /\ builders'[b].cancel
              BY <3>0, <6>4 DEF RunningBuilders, Active
            <7>2. fn'.status.build.ref = 0 /\ fn'.status.build.state = ""
              BY <3>0, <4>1, <6>4 DEF BuildInv, WorkerOK, ResetPCs
            <7> QED BY <7>1, <7>2 DEF CancelSeen, Active, IsCompleted
          <6> QED BY <3>1, <4>1, <6>3, <6>4, SeesBuild
        <5> QED BY <5>1, <5>2
      <4>3. ASSUME pc' \in RoutePCs
            PROVE  ServingSeen'
        <5>1. CASE pc \in RoutePCs
          BY <3>0, <3>1, <5>1 DEF RestInv
        <5>2. CASE pc \notin RoutePCs
          <6>1. pc' \notin {"CancelOldBuilder", "CleanServing"} /\ pc # "RouteStatus"
            BY <4>3, <5>2 DEF RoutePCs
          <6>2. Walks
            BY <3>0, <3>4, <6>1, QuietWriteGoesOn
          <6>3. ~NeedToCreateServing(local) /\ ~ServingChanged(local)
            BY <4>3, <5>2, <6>2 DEF Walks, RoutePCs
          <6> QED BY <3>1, <4>1, <6>3, SeesServing
        <5> QED BY <5>1, <5>2
      <4> QED BY <1>1, <1>2, <4>1, <4>2, <4>3 DEF RestInv
    <3>5. CASE FinishReconcile \/ WriteService
      <4>1. pc \in {"HTTPRoute", "Service"} /\ pc' = "Idle" /\ httpRoute' = httpRoute
        BY <1>4, <3>5 DEF FinishReconcile, WriteService, Return, Fail, Silent, api
      <4>2. local = fn
        BY <3>0, <4>1 DEF RestInv, BuildInv, FreshCopies
      <4>3. (CancelSeen \/ BuildSeen) /\ ServingSeen
        BY <3>0, <4>1 DEF RestInv, AfterBuildPCs, RoutePCs
      <4>4. CancelSeen => CancelSeen'
        BY <3>0, <4>1, CancelStays
      <4>5. ASSUME BuildDone(fn), fn.status.serving.state = "Running",
                   fn.spec.serving \in HttpImpls
            PROVE  httpRoute = fn.status.serving.ref /\ service'.type = "ExternalName"
        <5>1. Routed(local) /\ fn.status.serving.service = fn.status.serving.ref
          BY <4>2, <4>3, <4>5, RunningIsRouted
        <5>2. ~FinishReconcile
          BY <4>2, <4>5, <5>1, ImplsAssumption DEF FinishReconcile
        <5>3. pc = "Service" /\ service' = [service EXCEPT !.type = "ExternalName"]
          BY <1>4, <3>5, <5>2 DEF WriteService, Fail, Silent
        <5>4. service'.type = "ExternalName"
          BY <5>3 DEF TypeInv, TypeOK, Service
        <5> QED BY <4>2, <5>1, <5>3, <5>4 DEF RestInv
      <4>6. RouteSeen'
        BY <3>0, <4>1, <4>5 DEF RouteSeen, BuildDone
      <4> QED BY <1>1, <1>2, <3>1, <4>1, <4>3, <4>4, <4>6 DEF RestInv
    <3>6. CASE PanicNilServing
      BY <1>1, <1>2, <3>6 DEF PanicNilServing, RestInv, AfterBuildPCs, BuiltPCs, RoutePCs
    <3> QED BY <3>0, <3>3, <3>4, <3>5, <3>6
  <2> QED BY <2>2, <2>3
<1> QED BY <1>3, <1>4

LEMMA InitRest == Init => RestInv
<1> SUFFICES ASSUME Init PROVE RestInv
  OBVIOUS
<1>1. fn.status.build.hash = NoHash
  <2>1. \E sp \in Specs : fn = [spec |-> sp, status |-> InitStatus]
    BY DEF Init
  <2>2. InitStatus.build.hash = NoHash
    BY DEF InitStatus
  <2> QED BY <2>1, <2>2
<1>2. NoHash # EmptyBuilderSpec
  BY InitType, EmptySpecs
<1> QED BY <1>1, <1>2 DEF Init, RestInv, UndoneOK, Silent

LEMMA Rest == Spec => [](TypeInv /\ BuildInv /\ RecordInv /\ RestInv)
<1>1. TypeInv /\ TypeInv' /\ BuildInv /\ RecordInv /\ RestInv /\ [Next]_vars => RestInv'
  BY RestStep
<1> QED BY <1>1, InitRest, Records, PTL DEF Spec

-----------------------------------------------------------------------------
(* A function at rest                                                      *)

\* When everything is quiet the recorded build is the one the spec asks for and shows
\* what its builder reports, whatever was lost, repeated, delayed or restarted before:
\* every change that the record misses leaves an event or a retry in the queue.
THEOREM BuildIsReflected == Spec => []BuildReflected
<1>1. TypeInv /\ RestInv => BuildReflected
  <2> SUFFICES ASSUME RestInv, Quiescent PROVE BuildReflected
    BY DEF BuildReflected
  <2> DEFINE c == fn.status.build
  <2>1. builderCache = builders /\ (CancelSeen \/ BuildSeen)
    BY DEF Quiescent, RestInv, Silent, AfterBuildPCs
  <2>2. CASE CancelSeen
    BY <2>1, <2>2 DEF CancelSeen, Active, WaitingForCancel, BuildReflected
  <2>3. CASE BuildSeen
    <3>1. fn.spec.build = NoBuild => c.hash = EmptyBuilderSpec
      BY <2>3 DEF BuildSeen, BuildIsCurrent, BuilderSpecOf
    <3>2. fn.spec.build = NoBuild => c.state = "Skipped" \/ (edits > 1 /\ c.state = "")
      BY <3>1 DEF RestInv, UndoneOK
    <3> QED BY <2>1, <2>3, <3>2 DEF BuildSeen, BuildReflected
  <2> QED BY <2>1, <2>2, <2>3
<1> QED BY <1>1, Rest, PTL

\* When everything is quiet and the build is done, the recorded serving is the one the
\* spec asks for and shows what it reports, and the HTTPRoute and the Service of a
\* running HTTP function lead to it.
THEOREM ServingIsReflected == Spec => []ServingReflected
<1>1. RecordInv /\ RestInv => ServingReflected
  <2> SUFFICES ASSUME RestInv, Quiescent, BuildDone(fn) PROVE ServingReflected
    BY DEF ServingReflected
  <2>1. servingCache = servings /\ ServingSeen /\ RouteSeen
    BY DEF Quiescent, RestInv, Silent, RoutePCs
  <2> QED BY <2>1 DEF ServingSeen, RouteSeen, ServingReflected
<1> QED BY <1>1, Rest, PTL

-----------------------------------------------------------------------------
(* The history of a function at rest                                       *)

\* A finite set of names has a least one.
LEMMA Least ==
  ASSUME NEW S \in SUBSET Nat, IsFiniteSet(S), S # {}
  PROVE  \E m \in S : \A x \in S : m <= x
<1> DEFINE Below(k) == {x \in S : x < k}
           T == {Below(k) : k \in S}
<1>1. IsWellFoundedOn(StrictSubsetOrdering(S), SUBSET S)
  BY FS_StrictSubsetOrderingWellFounded, FS_FiniteSubsetsOfFinite
<1>2. T \subseteq SUBSET S /\ T # {}
  OBVIOUS
<1>3. \E t \in T : \A u \in T : ~(<<u, t>> \in StrictSubsetOrdering(S))
  BY <1>1, <1>2, WFMin
<1>4. PICK m \in S : \A x \in S : ~(<<Below(x), Below(m)>> \in StrictSubsetOrdering(S))
  BY <1>3
<1>0. ASSUME NEW A \in SUBSET S, NEW B \in SUBSET S, A \subseteq B, A # B
      PROVE  <<A, B>> \in StrictSubsetOrdering(S)
  BY <1>0 DEF StrictSubsetOrdering
<1>5. ASSUME NEW x \in S PROVE m <= x
  <2>1. SUFFICES ASSUME x < m PROVE FALSE
    OBVIOUS
  <2>2. Below(x) \subseteq Below(m) /\ x \in Below(m) /\ x \notin Below(x)
    <3>1. \A y \in S : y < x => y < m
      BY <2>1
    <3>2. ~(x < x)
      OBVIOUS
    <3> QED BY <2>1, <3>1, <3>2
  <2>3. Below(x) \in SUBSET S /\ Below(m) \in SUBSET S
    OBVIOUS
  <2> HIDE DEF Below
  <2>4. <<Below(x), Below(m)>> \in StrictSubsetOrdering(S)
    BY <1>0, <2>2, <2>3
  <2> QED BY <1>4, <2>4
<1> QED BY <1>5

\* Of a set of names the newest ones, those with fewer than n newer ones, are n at most.
LEMMA NewestAreFew ==
  ASSUME NEW D \in SUBSET Nat, IsFiniteSet(D), NEW n \in Nat,
         NEW K \in SUBSET D, \A k \in K : Cardinality({d \in D : d > k}) < n
  PROVE  Cardinality(K) <= n
<1>1. CASE K = {}
  BY <1>1, FS_EmptySet
<1>2. CASE K # {}
  <2>1. PICK k \in K : \A x \in K : k <= x
    BY <1>2, FS_Subset, Least
  <2> DEFINE N == {d \in D : d > k}
  <2>2. K \ {k} \subseteq N
    BY <2>1
  <2>3. IsFiniteSet(N) /\ IsFiniteSet(K) /\ Cardinality(N) < n
    BY FS_Subset
  <2>4. Cardinality(K \ {k}) <= Cardinality(N) /\ Cardinality(N) \in Nat
    BY <2>2, <2>3, FS_Subset, FS_CardinalityType
  <2>5. Cardinality(K \ {k}) = Cardinality(K) - 1 /\ Cardinality(K) \in Nat
    BY <2>1, <2>3, FS_RemoveElement, FS_CardinalityType
  <2> QED BY <2>3, <2>4, <2>5
<1> QED BY <1>1, <1>2

LEMMA FewerBuilders ==
  ASSUME NEW S \in SUBSET Builders, NEW T \in SUBSET S, NEW ok \in BOOLEAN,
         Cardinality(S) <= HistoryLimit(ok)
  PROVE  Cardinality(T) <= HistoryLimit(ok)
<1>1. IsFiniteSet(Builders)
  BY FS_Interval, BoundsAssumption DEF Builders
<1>2. IsFiniteSet(S)
  BY <1>1, FS_Subset
<1>3. Cardinality(T) <= Cardinality(S) /\ Cardinality(T) \in Nat /\ Cardinality(S) \in Nat
  BY <1>2, FS_Subset, FS_CardinalityType
<1>4. HistoryLimit(ok) \in Nat
  BY BoundsAssumption DEF HistoryLimit
<1> QED BY <1>3, <1>4

\* A builder that is not active stays as it is until it is deleted; a new one is active.
LEMMA SettledStay ==
  ASSUME TypeInv, [Next]_vars, NEW b \in Builders
  PROVE  /\ Active(builders'[b]) => Active(builders[b]) \/ BuilderBorn(b)
         /\ ~Active(builders[b]) =>
              \A ok : Done(b, ok)' => Done(b, ok)
<1>1. BuilderKept(b) \/ BuilderMoved(b) \/ BuilderBorn(b)
  BY BuildersChangeStep DEF BuildersChange
<1>2. CASE BuilderKept(b)
  BY <1>2 DEF BuilderKept, Active, Done, IsCompleted, IsSucceeded
<1>3. CASE BuilderMoved(b)
  BY <1>3 DEF BuilderMoved, Active
<1>4. CASE BuilderBorn(b)
  <2>1. ~IsCompleted(builders'[b])
    BY <1>4 DEF BuilderBorn, NoBuilder, IsCompleted
  <2> QED BY <1>4, <2>1 DEF Done
<1> QED BY <1>1, <1>2, <1>3, <1>4

LEMMA BoundedStays ==
  ASSUME TypeInv, [Next]_vars, Bounded,
         \A b \in Builders : ~Active(builders[b]) \/ Active(builders'[b])
  PROVE  Bounded'
<1> SUFFICES ASSUME NEW ok \in BOOLEAN
             PROVE  Cardinality(DoneBuilders(ok)') <= HistoryLimit(ok)
  BY DEF Bounded, HistoryLimit
<1>1. ASSUME NEW b \in Builders, Done(b, ok)' PROVE Done(b, ok)
  <2>1. ~Active(builders'[b])
    BY <1>1 DEF Done, Active
  <2> QED BY <1>1, <2>1, SettledStay
<1>2. DoneBuilders(ok)' \subseteq DoneBuilders(ok) /\ DoneBuilders(ok) \subseteq Builders
  BY <1>1 DEF DoneBuilders
<1> QED BY <1>2, FewerBuilders DEF Bounded

LEMMA BoundedButStays ==
  ASSUME TypeInv, [Next]_vars, NEW r, BoundedBut(r),
         \A b \in Builders \ {r} : ~BuilderBorn(b)
  PROVE  BoundedBut(r)'
<1>1. \A b \in Builders \ {r} : ~Active(builders'[b])
  BY SettledStay DEF BoundedBut
<1>2. ASSUME NEW ok \in BOOLEAN
      PROVE  Cardinality(DoneBuilders(ok)' \ {r}) <= HistoryLimit(ok)
  <2>1. DoneBuilders(ok)' \ {r} \subseteq DoneBuilders(ok) \ {r}
    BY SettledStay DEF BoundedBut, DoneBuilders
  <2>2. DoneBuilders(ok) \ {r} \subseteq Builders
    BY DEF DoneBuilders
  <2> QED BY <2>1, <2>2, FewerBuilders DEF BoundedBut
<1> QED BY <1>1, <1>2 DEF BoundedBut, Active, IsCompleted, HistoryLimit

LEMMA BoundedIsBoundedBut ==
  ASSUME Bounded, NEW r, \A b \in Builders \ {r} : ~Active(builders[b])
  PROVE  BoundedBut(r)
<1> SUFFICES ASSUME NEW ok \in BOOLEAN
             PROVE  Cardinality(DoneBuilders(ok) \ {r}) <= HistoryLimit(ok)
  BY DEF BoundedBut
<1>1. DoneBuilders(ok) \ {r} \subseteq DoneBuilders(ok) /\ DoneBuilders(ok) \subseteq Builders
  BY DEF DoneBuilders
<1> QED BY <1>1, FewerBuilders DEF Bounded

\* pruneBuilder: what the cache shows completed is bounded afterwards.
LEMMA PrunedIsBounded ==
  ASSUME local.spec.build # NoBuild, Pruned,
         \A b \in Builders : \A ok \in BOOLEAN : Done(b, ok)' =>
           /\ builderCache[b].live /\ IsCompleted(builderCache[b])
           /\ IsSucceeded(builderCache[b]) = ok
  PROVE  Bounded'
<1> SUFFICES ASSUME NEW ok \in BOOLEAN
             PROVE  Cardinality(DoneBuilders(ok)') <= HistoryLimit(ok)
  BY DEF Bounded, HistoryLimit
<1> DEFINE D == {b \in Builders : /\ builderCache[b].live /\ IsCompleted(builderCache[b])
                                  /\ IsSucceeded(builderCache[b]) = ok}
           K == D \ Prunable(local.spec)
<1>1. D \in SUBSET Nat /\ IsFiniteSet(D) /\ K \in SUBSET D /\ K \subseteq Builders
  <2>1. IsFiniteSet(Builders) /\ Builders \subseteq Nat
    BY FS_Interval, BoundsAssumption DEF Builders
  <2>2. D \in SUBSET Builders /\ K \in SUBSET D
    OBVIOUS
  <2> HIDE DEF D, K
  <2>3. IsFiniteSet(D)
    BY <2>1, <2>2, FS_Subset
  <2> QED BY <2>1, <2>2, <2>3
<1>2. HistoryLimit(ok) \in Nat
  BY BoundsAssumption DEF HistoryLimit
<1>3. ASSUME NEW k \in K PROVE Cardinality({d \in D : d > k}) < HistoryLimit(ok)
  <2>1. {d \in D : d > k} = Newer(k, ok)
    BY DEF Newer
  <2>2. Cardinality(Newer(k, ok)) \in Nat
    BY <1>1, <2>1, FS_Subset, FS_CardinalityType
  <2>3. ~(Cardinality(Newer(k, ok)) >= HistoryLimit(ok))
    BY <1>3 DEF Prunable, HistoryLimit
  <2>4. Cardinality(Newer(k, ok)) < HistoryLimit(ok)
    BY <1>2, <2>2, <2>3
  <2> QED BY <2>1, <2>4
<1>4. Cardinality(K) <= HistoryLimit(ok)
  BY <1>1, <1>2, <1>3, NewestAreFew
<1>5. DoneBuilders(ok)' \subseteq K
  BY DEF DoneBuilders, Pruned, Done
<1> QED BY <1>1, <1>4, <1>5, FewerBuilders

LEMMA CompletedStep ==
  ASSUME TypeInv, BuildInv, CompletedOK, ~EarlyTimeout, [Next]_vars
  PROVE  CompletedOK'
<1>1. BuildersChange /\ CacheAdvance
  BY BuildersChangeStep, BuildersAdvanceStep DEF BuildInv
<1>2. ASSUME NEW b \in Builders
      PROVE  /\ builders'[b].state # "" => builders'[b].started
             /\ IsCompleted(builderCache[b]) => builders'[b].state = builderCache[b].state
  <2>1. /\ builders[b].state # "" => builders[b].started
        /\ IsCompleted(builderCache[b]) => builders[b].state = builderCache[b].state
    BY DEF CompletedOK
  <2>2. CASE BuilderKept(b)
    BY <2>1, <2>2 DEF BuilderKept
  <2>3. CASE BuilderMoved(b)
    <3>1. builders'[b].started
      BY <2>1, <2>3 DEF BuilderMoved, TimeoutDue
    <3>2. ~IsCompleted(builderCache[b])
      BY <2>1, <2>3 DEF BuilderMoved, IsCompleted
    <3> QED BY <3>1, <3>2
  <2>4. CASE BuilderBorn(b)
    <3>1. builders'[b].state = ""
      BY <2>4 DEF BuilderBorn, NoBuilder
    <3>2. builders[b].state = ""
      <4>1. b > builderNum
        BY <2>4, BoundsAssumption DEF BuilderBorn, TypeInv, TypeOK
      <4> QED BY <4>1 DEF BuildInv, UnbornBuilders
    <3>3. ~IsCompleted(builderCache[b])
      BY <2>1, <3>2 DEF IsCompleted
    <3> QED BY <3>1, <3>3
  <2> QED BY <1>1, <2>2, <2>3, <2>4 DEF BuildersChange
<1> QED BY <1>1, <1>2 DEF CacheAdvance, CompletedOK, IsCompleted

\* How the recorded name changes.
LEMMA RefStep ==
  ASSUME TypeInv, BuildInv, HistoryInv, [Next]_vars
  PROVE  /\ fn'.status.build.ref # 0 =>
              /\ \A b \in Builders : ~BuilderBorn(b)
              /\ \/ fn'.status.build.ref = fn.status.build.ref
                 \/ fn'.status.build.ref = builderNum /\ pc = "RecordBuilder"
         /\ pc' \in ResetPCs => fn'.status.build.ref = 0
<1> DEFINE t == fn'.status
           r == fn.status.build.ref
<1>1. Moves
  BY StepMoves
<1>2. t.build.ref # 0 => t.build.ref = r \/ (t.build.ref = builderNum /\ pc = "RecordBuilder")
  <2>1. CASE t = fn.status
    BY <2>1
  <2>2. CASE Wrote(t) /\ local = fn
    <3>1. CASE WroteReset(t) \/ WroteSkip(t)
      BY <3>1 DEF WroteReset, WroteSkip
    <3>2. CASE WroteBuilder(t)
      BY <3>2 DEF WroteBuilder, CreatedBuild
    <3>3. CASE WroteResult(t)
      BY <2>2, <3>3 DEF WroteResult
    <3>4. CASE \/ WroteNoServing(t) \/ WroteSkipServing(t) \/ WroteServing(t)
               \/ WroteServingState(t) \/ WroteRunning(t) \/ WroteRoute(t)
      BY <2>2, <3>4 DEF WroteNoServing, WroteSkipServing, WroteServing, WroteServingState,
         WroteRunning, WroteRoute
    <3> QED BY <2>2, <3>1, <3>2, <3>3, <3>4 DEF Wrote
  <2> QED BY <1>1, <2>1, <2>2 DEF Moves
<1>3. t.build.ref # 0 => \A b \in Builders : ~BuilderBorn(b)
  BY <1>2 DEF BuilderBorn, HistoryInv, ResetPCs
<1>4. ASSUME pc' \in ResetPCs PROVE t.build.ref = 0
  <2>1. CASE Writes
    BY <1>4, <2>1 DEF Writes, WroteReset, ResetPCs
  <2>2. CASE ~Writes
    <3>1. t = fn.status /\ pc \in ResetPCs
      BY <1>1, <1>4, <2>2 DEF Moves, Gone, Rests, Starts, Walks, ResetPCs
    <3> QED BY <3>1 DEF HistoryInv
  <2> QED BY <2>1, <2>2
<1> QED BY <1>2, <1>3, <1>4

\* What a pass that prunes sees.
LEMMA PruningStep ==
  ASSUME TypeInv, BuildInv, ActiveInv, HistoryInv, "lag" \notin Disturbances, [Next]_vars
  PROVE  PruningOK'
<1> DEFINE r == fn'.status.build.ref
           Seers == {"Builder", "CancelOldBuilder", "PruneOldBuilders", "PruneBuilder"}
<1>1. Moves /\ BuildersChange /\ CacheAdvance
  BY StepMoves, BuildersChangeStep, BuildersAdvanceStep DEF BuildInv
<1>2. CASE Starts
  <2>1. StartReconcile
    BY <1>2, WhoStarts DEF Starts, CleanOldServing
  <2>2. /\ builders' = builders /\ builderCache' = builders /\ fn' = fn
    BY <2>1 DEF StartReconcile, Disturb, api, caches
  <2>3. r # 0 => \A b \in Builders \ {r} : ~Active(builders[b])
    BY <2>2 DEF HistoryInv, BoundedBut
  <2> QED BY <1>2, <2>2, <2>3 DEF Starts, PruningOK, Active, IsCompleted
<1>3. CASE ~Starts
  <2>1. ASSUME pc' \in Seers, NEW b \in Builders, builders'[b].live
        PROVE  builderCache'[b].live
    <3>1. pc \in Seers
      BY <1>1, <1>3, <2>1 DEF Moves, Gone, Rests, Walks, Writes, WroteReset, WroteResult
    <3>2. builders[b].live
      BY <1>1, <2>1, <3>1 DEF BuildersChange, BuilderKept, BuilderMoved, BuilderBorn
    <3> QED BY <1>1, <3>1, <3>2 DEF HistoryInv, PruningOK, CacheAdvance
  <2>2. ASSUME pc' \in {"Builder", "PruneBuilder"}, r # 0, NEW b \in Builders \ {r}
        PROVE  ~Active(builderCache'[b])
    <3>1. pc \in {"Builder", "PruneBuilder"}
      BY <1>1, <1>3, <2>2 DEF Moves, Gone, Rests, Walks, Writes, WroteReset, WroteResult
    <3>2. r = fn.status.build.ref
      BY <2>2, <3>1, RefStep
    <3> QED BY <1>1, <2>2, <3>1, <3>2 DEF HistoryInv, PruningOK, BoundedBut, CacheAdvance
  <2>3. ASSUME pc' = "PruneOldBuilders", NEW b \in Builders
        PROVE  ~Active(builderCache'[b])
    <3>1. \/ pc = "PruneOldBuilders"
          \/ pc = "CancelOldBuilder" /\ RunningBuilders = {}
      BY <1>1, <1>3, <2>3 DEF Moves, Gone, Rests, Walks, Writes
    <3>2. ~Active(builderCache[b]) /\ ~Active(builders[b])
      BY <3>1 DEF HistoryInv, PruningOK, ActiveInv, RunningBuilders, Active
    <3> QED BY <1>1, <3>2 DEF CacheAdvance
  <2> QED BY <2>1, <2>2, <2>3 DEF PruningOK, Active, IsCompleted
<1> QED BY <1>2, <1>3

\* A new builder is created only after the completed ones were pruned.
LEMMA BoundStep ==
  ASSUME TypeInv, BuildInv, ActiveInv, HistoryInv, [Next]_vars
  PROVE  /\ (\E b \in Builders : Active(builders'[b])) \/ pc' = "CreateBuilder" => Bounded'
         /\ pc' = "RecordBuilder" => BoundedBut(builderNum)'
         /\ fn'.status.build.ref # 0 => BoundedBut(fn.status.build.ref)'
<1>1. Moves /\ BuildersChange
  BY StepMoves, BuildersChangeStep
<1>2. ASSUME NEW a \in Builders, Active(builders'[a]) PROVE Bounded'
  <2>1. CASE BuilderBorn(a)
    <3>1. Bounded /\ \A b \in Builders : ~Active(builders[b])
      BY <2>1 DEF BuilderBorn, HistoryInv, ActiveInv
    <3> QED BY <3>1, BoundedStays
  <2>2. CASE ~BuilderBorn(a)
    <3>1. Active(builders[a])
      BY <1>2, <2>2, SettledStay
    <3>2. \A b \in Builders : Active(builders[b]) => b = a
      BY <3>1 DEF ActiveInv
    <3>3. Bounded
      BY <3>1 DEF HistoryInv
    <3> QED BY <1>2, <3>2, <3>3, BoundedStays
  <2> QED BY <2>1, <2>2
<1>3. ASSUME pc' = "CreateBuilder" PROVE Bounded'
  <2>1. CASE pc = "CreateBuilder"
    <3>1. Bounded /\ \A b \in Builders : ~Active(builders[b])
      BY <2>1 DEF HistoryInv, ActiveInv
    <3> QED BY <3>1, BoundedStays
  <2>2. CASE pc # "CreateBuilder"
    <3>1. pc = "PruneOldBuilders" /\ local.spec.build # NoBuild /\ Pruned
      BY <1>1, <1>3, <2>2 DEF Moves, Gone, Rests, Starts, Walks, Writes
    <3>2. ASSUME NEW b \in Builders, NEW ok \in BOOLEAN, Done(b, ok)'
          PROVE  /\ builderCache[b].live /\ IsCompleted(builderCache[b])
                 /\ IsSucceeded(builderCache[b]) = ok
      <4>1. ~Active(builders[b]) /\ ~Active(builderCache[b])
        BY <3>1 DEF ActiveInv, HistoryInv, PruningOK
      <4>2. Done(b, ok)
        BY <3>2, <4>1, SettledStay
      <4>3. builderCache[b].live
        BY <3>1, <4>2 DEF Done, HistoryInv, PruningOK
      <4>4. IsCompleted(builderCache[b]) /\ builders[b].state = builderCache[b].state
        BY <4>1, <4>3 DEF Active, HistoryInv, CompletedOK
      <4> QED BY <4>2, <4>3, <4>4 DEF Done, IsSucceeded
    <3> QED BY <3>1, <3>2, PrunedIsBounded
  <2> QED BY <2>1, <2>2
<1>4. ASSUME pc' = "RecordBuilder" PROVE BoundedBut(builderNum)'
  <2>1. CASE pc = "CreateBuilder"
    <3>1. PICK r : r = builderNum'
      OBVIOUS
    <3>2. BoundedBut(r)
      BY <2>1, BoundedIsBoundedBut DEF HistoryInv, ActiveInv
    <3>3. \A b \in Builders \ {r} : ~BuilderBorn(b)
      BY <3>1 DEF BuilderBorn
    <3>4. BoundedBut(r)'
      BY <3>2, <3>3, BoundedButStays
    <3> QED BY <3>1, <3>4 DEF BoundedBut
  <2>2. CASE pc # "CreateBuilder"
    <3>1. pc = "RecordBuilder"
      BY <1>1, <1>4, <2>2 DEF Moves, Gone, Rests, Starts, Walks, Writes
    <3>2. builderNum' = builderNum /\ \A b \in Builders : ~BuilderBorn(b)
      BY <1>1, <2>2 DEF BuildersChange, BuilderBorn
    <3>3. PICK r : r = builderNum
      OBVIOUS
    <3>4. BoundedBut(r)'
      BY <3>1, <3>2, <3>3, BoundedButStays DEF HistoryInv
    <3> QED BY <3>2, <3>3, <3>4 DEF BoundedBut
  <2> QED BY <2>1, <2>2
<1>5. ASSUME fn'.status.build.ref # 0 PROVE BoundedBut(fn.status.build.ref)'
  <2>1. PICK r : r = fn'.status.build.ref
    OBVIOUS
  <2>2. BoundedBut(r) /\ \A b \in Builders : ~BuilderBorn(b)
    BY <1>5, <2>1, RefStep DEF HistoryInv
  <2>3. BoundedBut(r)'
    BY <2>2, BoundedButStays
  <2> QED BY <2>1, <2>3 DEF BoundedBut
<1> QED BY <1>2, <1>3, <1>4, <1>5

\* A pass that goes on in silence has pruned after it saw the recorded build completed.
LEMMA PruneSeenStep ==
  ASSUME TypeInv, BuildInv, RecordInv, RestInv, HistoryInv, [Next]_vars,
         Silent', pc' \in AfterBuildPCs \ {"PruneBuilder"}
  PROVE  PruneSeen'
<1> DEFINE r == fn.status.build.ref
           c == builderCache[r]
<1>1. Quiet
  BY QuietStep
<1>2. /\ Silent /\ UNCHANGED <<fn, builderCache>>
      /\ QuietRest \/ Walks \/ Writes \/ FinishReconcile \/ PanicNilServing \/ WriteService
  BY <1>1 DEF Quiet, Silent, StartReconcile, AfterBuildPCs, BuiltPCs, RoutePCs
<1>3. SUFFICES ASSUME fn.spec.build # NoBuild, r # 0, c.live, IsCompleted(c)
               PROVE  Bounded'
  BY <1>2 DEF PruneSeen, IsCompleted
<1>4. r \in Builders
  <2>1. r \in 0 .. MaxBuilders
    BY DEF TypeInv, TypeOK, Function, Status, BuildCondition
  <2> QED BY <1>3, <2>1, BoundsAssumption DEF Builders
<1>5. /\ builders[r].state = c.state
      /\ \A b \in Builders : ~Active(builders[b])
  <2>1. builders[r].state = c.state
    BY <1>3, <1>4 DEF HistoryInv, CompletedOK
  <2>2. ~Active(builders[r])
    BY <1>3, <2>1 DEF Active, IsCompleted
  <2> QED BY <1>3, <2>1, <2>2 DEF HistoryInv, BoundedBut
<1>6. CASE pc \in AfterBuildPCs \ {"PruneBuilder"}
  <2>1. Bounded
    BY <1>2, <1>3, <1>6 DEF HistoryInv, PruneSeen
  <2> QED BY <1>5, <2>1, BoundedStays
<1>7. CASE pc = "PruneBuilder"
  <2>1. Pruned
    BY <1>2, <1>7, QuietWriteGoesOn
       DEF QuietRest, Rests, Walks, FinishReconcile, PanicNilServing, WriteService,
           AfterBuildPCs, BuiltPCs, RoutePCs
  <2>2. local.spec.build # NoBuild
    BY <1>2, <1>3, <1>7 DEF RestInv, BuildInv, FreshCopies
  <2>3. ASSUME NEW b \in Builders, NEW ok \in BOOLEAN, Done(b, ok)'
        PROVE  /\ builderCache[b].live /\ IsCompleted(builderCache[b])
               /\ IsSucceeded(builderCache[b]) = ok
    <3>1. Done(b, ok)
      BY <1>5, <2>3, SettledStay
    <3>2. builderCache[b].live
      BY <1>7, <3>1 DEF Done, HistoryInv, PruningOK
    <3>3. IsCompleted(builderCache[b])
      BY <1>3, <1>7, <3>2 DEF HistoryInv, PruningOK, Active
    <3>4. builders[b].state = builderCache[b].state
      BY <3>3 DEF HistoryInv, CompletedOK
    <3> QED BY <3>1, <3>2, <3>3, <3>4 DEF Done, IsSucceeded
  <2> QED BY <2>1, <2>2, <2>3, PrunedIsBounded
<1>8. CASE pc \notin AfterBuildPCs
  <2>1. pc' # "CancelOldBuilder" /\ pc \notin {"Serving", "RouteStatus", "HTTPRoute", "Service"}
    BY <1>8 DEF AfterBuildPCs, BuiltPCs, RoutePCs
  <2>2. Walks
    BY <1>2, <1>8, <2>1, QuietWriteGoesOn
       DEF QuietRest, Rests, FinishReconcile, PanicNilServing, WriteService
  <2>3. \/ pc = "Builder" /\ ~BuilderStarted(local)
        \/ pc = "CancelOldBuilder"
    BY <1>8, <2>2 DEF Walks, AfterBuildPCs, BuiltPCs, RoutePCs
  <2>4. pc # "CancelOldBuilder"
    BY <1>3 DEF HistoryInv, ResetPCs
  <2>5. local = fn
    BY <1>2, <2>3 DEF RestInv, BuildInv, FreshCopies
  <2>6. fn.status.build.state # "" /\ c.started
    BY <1>3, <1>4 DEF RecordInv, RecordOK, BuildAndHash, HistoryInv, CompletedOK, IsCompleted
  <2> QED BY <1>3, <2>3, <2>4, <2>5, <2>6 DEF BuilderStarted
<1> QED BY <1>6, <1>7, <1>8

LEMMA HistoryStep ==
  ASSUME TypeInv, BuildInv, RecordInv, RestInv, ActiveInv, HistoryInv,
         "lag" \notin Disturbances, ~EarlyTimeout, [Next]_vars
  PROVE  HistoryInv'
<1>1. CompletedOK' /\ PruningOK'
  BY CompletedStep, PruningStep DEF HistoryInv
<1>2. pc' \in ResetPCs => fn'.status.build.ref = 0
  BY RefStep
<1>3. Silent' /\ pc' \in AfterBuildPCs \ {"PruneBuilder"} => PruneSeen'
  BY PruneSeenStep
<1> QED BY <1>1, <1>2, <1>3, BoundStep DEF HistoryInv, Active, IsCompleted

LEMMA InitHistory == Init => HistoryInv
<1> SUFFICES ASSUME Init PROVE HistoryInv
  OBVIOUS
<1>1. fn.status.build.ref = 0
  <2>1. \E sp \in Specs : fn = [spec |-> sp, status |-> InitStatus]
    BY DEF Init
  <2>2. InitStatus.build.ref = 0
    BY DEF InitStatus
  <2> QED BY <2>1, <2>2
<1>2. \A b \in Builders : builders[b] = NoBuilder /\ builderCache[b] = NoBuilder
  BY DEF Init
<1>3. NoBuilder.live = FALSE /\ NoBuilder.state = ""
  BY DEF NoBuilder
<1>4. CompletedOK
  BY <1>2, <1>3 DEF CompletedOK, IsCompleted
<1>5. pc = "Idle" /\ queued
  BY DEF Init
<1> QED BY <1>1, <1>2, <1>3, <1>4, <1>5 DEF HistoryInv, PruningOK, Active, ResetPCs, Silent

\* When passes start with caches that hold every builder and builders end only after
\* they started, a function at rest has no more completed builders than its history
\* limits allow: the pass that sees its build completed prunes, and whatever deletes,
\* cancels or restarts in between does not add to them (pruneBuilder).
THEOREM HistoryIsBounded ==
  ASSUME "lag" \notin Disturbances, ~EarlyTimeout
  PROVE  Spec => []HistoryBounded
<1>1. TypeInv /\ BuildInv /\ ActiveInv /\ [Next]_vars => ActiveInv'
  BY ActiveStep
<1>2. TypeInv /\ BuildInv /\ RecordInv /\ RestInv /\ ActiveInv /\ HistoryInv /\ [Next]_vars
        => HistoryInv'
  BY HistoryStep
<1>3. RestInv /\ HistoryInv => HistoryBounded
  <2> SUFFICES ASSUME RestInv, HistoryInv, Quiescent, fn.spec.build # NoBuild
               PROVE  Bounded
    BY DEF HistoryBounded, Bounded, DoneBuilders, Done, HistoryLimit
  <2> DEFINE r == fn.status.build.ref
  <2>1. builderCache = builders /\ (CancelSeen \/ BuildSeen) /\ PruneSeen
    BY DEF Quiescent, RestInv, HistoryInv, Silent, AfterBuildPCs
  <2>2. CASE CancelSeen
    BY <2>1, <2>2 DEF CancelSeen, HistoryInv
  <2>3. CASE r # 0 /\ builders[r].live /\ IsCompleted(builders[r])
    BY <2>1, <2>3 DEF PruneSeen
  <2>4. CASE r # 0 /\ ~(builders[r].live /\ IsCompleted(builders[r]))
    <3>1. \A ok \in BOOLEAN : DoneBuilders(ok) \ {r} = DoneBuilders(ok)
      BY <2>4 DEF DoneBuilders, Done
    <3> QED BY <2>4, <3>1 DEF HistoryInv, BoundedBut, Bounded
  <2>5. BuildSeen => r # 0
    BY DEF BuildSeen
  <2> QED BY <2>1, <2>2, <2>3, <2>4, <2>5
<1> QED BY <1>1, <1>2, <1>3, InitActive, InitHistory, Rest, PTL DEF Spec
=============================================================================
