----------------------- MODULE FunctionRollout_proofs -----------------------
(* Proofs about what the Function reconciler does to the builders and      *)
(* servings of a function: one build at a time, one serving that runs, and *)
(* a serving only of what was built.                                       *)
EXTENDS FunctionController_proofs, FiniteSetTheorems

-----------------------------------------------------------------------------
(* What a pass of the reconcile writes                                     *)

\* The statuses the steps of the reconcile want to record, field by field.
WroteReset(t) ==        \* createBuilder: the recorded build is reset
  /\ pc = "Builder" /\ NeedToCreateBuilder(local)
  /\ t.build.state = "" /\ t.build.ref = 0 /\ t.build.hash = local.status.build.hash
  /\ t.serving = local.status.serving /\ t.revision = local.status.revision
WroteSkip(t) ==         \* the build is skipped
  /\ pc = "SkipBuild"
  /\ t.build.state = "Skipped" /\ t.build.ref = 0 /\ t.build.hash = EmptyBuilderSpec
  /\ t.serving = EmptyServing /\ t.revision = local.status.revision
WroteBuilder(t) ==      \* the new builder is recorded
  /\ pc = "RecordBuilder"
  /\ t.build = CreatedBuild(local)
  /\ t.serving = local.status.serving /\ t.revision = local.status.revision
WroteResult(t) ==       \* updateFuncWithBuilderStatus
  /\ pc = "Builder" /\ ~NeedToCreateBuilder(local) /\ BuilderStarted(local)
  /\ LET b == builderCache[local.status.build.ref] IN
     /\ local.status.build.state # b.state
     /\ t.build.state = b.state /\ t.build.ref = local.status.build.ref
     /\ t.build.hash = local.status.build.hash
     /\ t.serving.state = IF IsSucceeded(b) THEN "" ELSE local.status.serving.state
     /\ t.revision = IF IsSucceeded(b) /\ b.digest THEN local.status.build.ref
                     ELSE local.status.revision
  /\ t.serving.ref = local.status.serving.ref /\ t.serving.last = local.status.serving.last
  /\ t.serving.service = local.status.serving.service
  /\ t.serving.hash = local.status.serving.hash
WroteNoServing(t) ==    \* createServing: the recorded serving is reset
  /\ pc = "Serving" /\ NeedToCreateServing(local)
  /\ t.build = local.status.build /\ t.revision = local.status.revision
  /\ t.serving.state = "" /\ t.serving.ref = 0 /\ t.serving.hash = NoHash
WroteSkipServing(t) ==  \* the serving is skipped
  /\ pc = "SkipServing"
  /\ t.build = local.status.build /\ t.revision = local.status.revision
  /\ t.serving = [EmptyServing EXCEPT !.state = "Skipped", !.hash = EmptyServingSpec]
WroteServing(t) ==      \* the new serving is recorded
  /\ pc = "RecordServing"
  /\ t.build = local.status.build /\ t.revision = local.status.revision
  /\ t.serving = [state |-> "Created", ref |-> servingNum, last |-> local.status.serving.last,
                  service |-> 0, hash |-> ServingSpecOf(local)]
WroteServingState(t) == \* updateFuncWithServingStatus
  /\ pc = "Serving" /\ ~NeedToCreateServing(local) /\ ServingChanged(local)
  /\ t.build = local.status.build /\ t.revision = local.status.revision
  /\ t.serving.state = servingCache[local.status.serving.ref].state
  /\ t.serving.state # "Running"
  /\ t.serving.ref = local.status.serving.ref /\ t.serving.last = local.status.serving.last
  /\ t.serving.service = local.status.serving.service
  /\ t.serving.hash = local.status.serving.hash
WroteRunning(t) ==      \* the new serving runs, the others are gone
  /\ pc = "RecordRunning"
  /\ t.build = local.status.build /\ t.revision = local.status.revision
  /\ t.serving.state = "Running"
  /\ t.serving.ref = local.status.serving.ref /\ t.serving.last = local.status.serving.ref
  /\ t.serving.service = IF servings[local.status.serving.ref].spec.impl \in HttpImpls
                         THEN local.status.serving.ref ELSE 0
  /\ t.serving.hash = local.status.serving.hash
WroteRoute(t) ==        \* updateFuncWithHTTPRouteStatus
  /\ pc = "RouteStatus"
  /\ t.build = local.status.build /\ t.revision = local.status.revision
  /\ t.serving = local.status.serving

Wrote(t) ==
  \/ WroteReset(t) \/ WroteSkip(t) \/ WroteBuilder(t) \/ WroteResult(t)
  \/ WroteNoServing(t) \/ WroteSkipServing(t) \/ WroteServing(t) \/ WroteServingState(t)
  \/ WroteRunning(t) \/ WroteRoute(t)

\* How a step moves the worker and its copy of the function.
Gone == pc' \in {"Idle", "Panic"} /\ local' = NoFunction /\ localFresh' = FALSE
Rests == pc' = pc /\ local' = local /\ localFresh' \in {localFresh, FALSE}
Starts == pc = "Idle" /\ pc' = "Builder" /\ local' = fnCache /\ localFresh' = cacheFresh
Pruned == \A b \in Prunable(local.spec) : ~builders'[b].live
Walks ==
  /\ local' = local /\ localFresh' = localFresh
  /\ \/ /\ pc = "Builder" /\ ~NeedToCreateBuilder(local) /\ pc' \in {"PruneBuilder", "Serving"}
        /\ BuilderStarted(local) =>
             /\ local.status.build.state = builderCache[local.status.build.ref].state
             /\ pc' = "PruneBuilder"
     \/ pc = "CancelOldBuilder" /\ pc' = "PruneOldBuilders" /\ RunningBuilders = {}
     \/ /\ pc = "CancelOldBuilder" /\ pc' = "Serving"
        /\ \E b \in RunningBuilders : builders'[b].cancel
     \/ pc = "PruneOldBuilders" /\ pc' = "SkipBuild" /\ local.spec.build = NoBuild
     \/ /\ pc = "PruneOldBuilders" /\ pc' = "CreateBuilder" /\ local.spec.build # NoBuild
        /\ Pruned
     \/ pc = "CreateBuilder" /\ pc' = "RecordBuilder"
     \/ pc = "PruneBuilder" /\ pc' = "Serving" /\ Pruned
     \/ /\ pc = "Serving" /\ ~NeedToCreateServing(local) /\ ~ServingChanged(local)
        /\ pc' = "HTTPRoute"
     \/ /\ pc = "Serving" /\ ~NeedToCreateServing(local) /\ ServingChanged(local)
        /\ servingCache[local.status.serving.ref].state = "Running"
        /\ pc' = "CleanOldServing"
     \/ pc = "CleanServing" /\ pc' = "SkipServing" /\ local.spec.serving = NoServing
     \/ pc = "CleanServing" /\ pc' = "CreateServing" /\ local.spec.serving # NoServing
     \/ pc = "CreateServing" /\ pc' \in {"AsyncService", "RecordServing"}
     \/ pc = "AsyncService" /\ pc' = "RecordServing"
     \/ pc = "CleanOldServing" /\ pc' = "RecordRunning"
     \/ pc = "HTTPRoute" /\ pc' = "RouteStatus"
     \/ pc = "RouteStatus" /\ pc' = "Service"
Writes ==
  /\ localFresh /\ localFresh' /\ local'.spec = local.spec /\ fn'.status = local'.status
  /\ \/ WroteReset(local'.status) /\ pc' = "CancelOldBuilder"
     \/ WroteSkip(local'.status) /\ pc' = "Serving"
     \/ WroteBuilder(local'.status) /\ pc' = "Serving"
     \/ WroteResult(local'.status) /\ pc' = "PruneBuilder"
     \/ WroteNoServing(local'.status) /\ pc' = "CleanServing"
     \/ WroteSkipServing(local'.status) /\ pc' = "HTTPRoute"
     \/ WroteServing(local'.status) /\ pc' = "HTTPRoute"
     \/ WroteServingState(local'.status) /\ pc' = "HTTPRoute"
     \/ WroteRunning(local'.status) /\ pc' = "HTTPRoute"
     \/ WroteRoute(local'.status) /\ pc' = "Service"

\* A status update takes effect and the pass goes on, or the pass ends.
LEMMA WriteEffect ==
  ASSUME TypeInv, BuildInv, NEW new \in Status, NEW next, WriteStatus(new, next)
  PROVE  \/ /\ localFresh /\ localFresh' /\ local = fn
            /\ fn'.status = new /\ local'.status = new
            /\ fn'.spec = fn.spec /\ local'.spec = local.spec /\ pc' = next
         \/ /\ Gone /\ pc' = "Idle" /\ localFresh /\ local = fn
            /\ fn'.status = new /\ fn'.spec = fn.spec
         \/ Gone /\ pc' = "Idle" /\ fn' = fn
<1>1. fn \in Function /\ local \in Function /\ cacheFresh \in BOOLEAN
  BY DEF TypeInv, TypeOK
<1>2. /\ [fn EXCEPT !.status = new].status = new /\ [fn EXCEPT !.status = new].spec = fn.spec
      /\ [local EXCEPT !.status = new].status = new
      /\ [local EXCEPT !.status = new].spec = local.spec
  BY <1>1 DEF Function
<1>3. localFresh => local = fn
  BY DEF BuildInv, FreshCopies
<1>4. CASE /\ localFresh /\ fn' = [fn EXCEPT !.status = new]
           /\ local' = [local EXCEPT !.status = new]
           /\ pc' = next /\ UNCHANGED <<queued, localFresh, disturb>>
  <2>1. localFresh'
    BY <1>4
  <2> QED BY <1>2, <1>3, <1>4, <2>1
<1>5. CASE Fail /\ localFresh /\ fn' = [fn EXCEPT !.status = new]
  BY <1>2, <1>3, <1>5 DEF Fail, Gone
<1>6. CASE Fail /\ UNCHANGED <<fn, cacheFresh>>
  BY <1>6 DEF Fail, Gone
<1> QED BY <1>1, <1>4, <1>5, <1>6, WriteStatusCases

\* Every step that updates the status records one of these.
LEMMA BuildWriters ==
  ASSUME TypeInv, ResetBuild \/ SkipBuild \/ RecordBuilder \/ UpdateBuilderStatus
  PROVE  \/ Walks /\ fn' = fn
         \/ \E new \in Status : \E next :
              /\ WriteStatus(new, next)
              /\ \/ WroteReset(new) /\ next = "CancelOldBuilder"
                 \/ WroteSkip(new) /\ next = "Serving"
                 \/ WroteBuilder(new) /\ next = "Serving"
                 \/ WroteResult(new) /\ next = "PruneBuilder"
<1> DEFINE st == local.status
<1>0. st \in Status /\ st.build \in BuildCondition /\ st.serving \in ServingCondition
  BY DEF TypeInv, TypeOK, Function, Status
<1>1. CASE ResetBuild
  <2> DEFINE new == [st EXCEPT !.build.state = "", !.build.ref = 0]
  <2>1. WroteReset(new)
    BY <1>0, <1>1 DEF ResetBuild, WroteReset, Status, BuildCondition
  <2>2. new \in Status /\ WriteStatus(new, "CancelOldBuilder")
    BY <1>1, BuildWritesType DEF ResetBuild
  <2> HIDE DEF new
  <2> QED BY <2>1, <2>2
<1>2. CASE SkipBuild
  <2> DEFINE new == [st EXCEPT
                       !.build = [state |-> "Skipped", ref |-> 0, hash |-> EmptyBuilderSpec],
                       !.serving = EmptyServing]
  <2>1. WroteSkip(new)
    BY <1>0, <1>2 DEF SkipBuild, WroteSkip, Status
  <2>2. new \in Status /\ WriteStatus(new, "Serving")
    BY <1>2, BuildWritesType DEF SkipBuild
  <2> HIDE DEF new
  <2> QED BY <2>1, <2>2
<1>3. CASE RecordBuilder
  <2> DEFINE new == [st EXCEPT !.build = CreatedBuild(local)]
  <2>1. WroteBuilder(new)
    BY <1>0, <1>3 DEF RecordBuilder, WroteBuilder, Status
  <2>2. new \in Status /\ WriteStatus(new, "Serving")
    BY <1>3, BuildWritesType DEF RecordBuilder
  <2> HIDE DEF new
  <2> QED BY <2>1, <2>2
<1>4. CASE UpdateBuilderStatus
  <2>1. CASE /\ st.build.state = builderCache[st.build.ref].state
             /\ Goto("PruneBuilder") /\ UNCHANGED <<fn, cacheFresh, disturb>>
    BY <1>4, <2>1 DEF UpdateBuilderStatus, Goto, Walks
  <2>2. CASE /\ st.build.state # builderCache[st.build.ref].state
             /\ WriteStatus(WithBuildResult(local), "PruneBuilder")
    <3> DEFINE b == builderCache[st.build.ref]
               u == [st EXCEPT !.build.state = b.state]
    <3>1. /\ pc = "Builder" /\ ~NeedToCreateBuilder(local) /\ BuilderStarted(local)
          /\ WithBuildResult(local) \in Status
      BY <1>4, BuildWritesType DEF UpdateBuilderStatus
    <3>2. /\ u.build.state = b.state /\ u.build.ref = st.build.ref /\ u.build.hash = st.build.hash
          /\ u.serving = st.serving /\ u.revision = st.revision
          /\ DOMAIN u = DOMAIN st
      BY <1>0 DEF Status, BuildCondition
    <3>3. CASE ~IsSucceeded(b)
      <4>1. WithBuildResult(local) = u
        BY <3>3 DEF WithBuildResult
      <4> HIDE DEF u
      <4> QED BY <2>2, <3>1, <3>2, <3>3, <4>1 DEF WroteResult
    <3>4. CASE IsSucceeded(b)
      <4> DEFINE rev == IF b.digest THEN st.build.ref ELSE u.revision
                 w == [u EXCEPT !.revision = rev, !.serving.state = ""]
      <4>1. WithBuildResult(local) = w
        BY <3>4 DEF WithBuildResult
      <4>2. u \in [build : {u.build}, serving : ServingCondition, revision : {u.revision},
                   route : {u.route}]
        BY <1>0 DEF Status
      <4>3. /\ w.build = u.build /\ w.revision = rev
            /\ w.serving = [u.serving EXCEPT !.state = ""]
        <5> HIDE DEF u, rev
        <5> QED BY <4>2
      <4>4. /\ w.serving.state = "" /\ w.serving.ref = st.serving.ref
            /\ w.serving.last = st.serving.last /\ w.serving.service = st.serving.service
            /\ w.serving.hash = st.serving.hash
        <5> HIDE DEF w, u
        <5> QED BY <1>0, <3>2, <4>3 DEF ServingCondition
      <4>5. w.revision = IF b.digest THEN st.build.ref ELSE st.revision
        <5> HIDE DEF w, u
        <5> QED BY <3>2, <4>3
      <4> HIDE DEF w, u
      <4>6. WroteResult(w)
        BY <2>2, <3>1, <3>2, <3>4, <4>3, <4>4, <4>5 DEF WroteResult
      <4> QED BY <2>2, <3>1, <4>1, <4>6
    <3> QED BY <3>3, <3>4
  <2> QED BY <1>4, <2>1, <2>2 DEF UpdateBuilderStatus
<1> QED BY <1>1, <1>2, <1>3, <1>4

LEMMA ServingWriters ==
  ASSUME TypeInv,
         \/ ResetServing \/ SkipServing \/ RecordServing \/ UpdateServingStatus
         \/ RecordRunning \/ RouteStatus
  PROVE  \/ Walks /\ fn' = fn
         \/ \E new \in Status : \E next :
              /\ WriteStatus(new, next)
              /\ \/ WroteNoServing(new) /\ next = "CleanServing"
                 \/ WroteSkipServing(new) /\ next = "HTTPRoute"
                 \/ WroteServing(new) /\ next = "HTTPRoute"
                 \/ WroteServingState(new) /\ next = "HTTPRoute"
                 \/ WroteRunning(new) /\ next = "HTTPRoute"
                 \/ WroteRoute(new) /\ next = "Service"
<1> DEFINE st == local.status
<1>0. st \in Status /\ st.build \in BuildCondition /\ st.serving \in ServingCondition
  BY DEF TypeInv, TypeOK, Function, Status
<1>1. CASE ResetServing
  <2>1. WroteNoServing(WithoutServing(local))
    BY <1>0, <1>1 DEF ResetServing, WroteNoServing, WithoutServing, Status, ServingCondition
  <2>2. WithoutServing(local) \in Status /\ WriteStatus(WithoutServing(local), "CleanServing")
    BY <1>1, ServingWritesType DEF ResetServing
  <2> QED BY <2>1, <2>2
<1>2. CASE SkipServing
  <2> DEFINE new == [st EXCEPT !.serving =
                       [EmptyServing EXCEPT !.state = "Skipped", !.hash = EmptyServingSpec]]
  <2>1. WroteSkipServing(new)
    BY <1>0, <1>2 DEF SkipServing, WroteSkipServing, Status
  <2>2. new \in Status /\ WriteStatus(new, "HTTPRoute")
    BY <1>2, ServingWritesType DEF SkipServing
  <2> HIDE DEF new
  <2> QED BY <2>1, <2>2
<1>3. CASE RecordServing
  <2> DEFINE new == [st EXCEPT !.serving =
                       [state |-> "Created", ref |-> servingNum, last |-> st.serving.last,
                        service |-> 0, hash |-> ServingSpecOf(local)]]
  <2>1. WroteServing(new)
    BY <1>0, <1>3 DEF RecordServing, WroteServing, Status
  <2>2. new \in Status /\ WriteStatus(new, "HTTPRoute")
    BY <1>3, ServingWritesType DEF RecordServing
  <2> HIDE DEF new
  <2> QED BY <2>1, <2>2
<1>4. CASE UpdateServingStatus
  <2> DEFINE seen == servingCache[st.serving.ref].state
             new == [st EXCEPT !.serving.state = seen]
  <2>1. CASE \/ ~ServingChanged(local) /\ Goto("HTTPRoute") /\ fn' = fn
             \/ /\ ServingChanged(local) /\ seen = "Running"
                /\ Goto("CleanOldServing") /\ fn' = fn
    BY <1>4, <2>1 DEF UpdateServingStatus, Goto, Walks
  <2>2. CASE ServingChanged(local) /\ seen # "Running" /\ WriteStatus(new, "HTTPRoute")
    <3>1. st.serving.ref \in 0 .. MaxServings /\ st.serving.ref # 0
      BY <1>0, <2>2 DEF ServingChanged, ServingCondition
    <3>2. st.serving.ref \in Servings
      BY <3>1, BoundsAssumption DEF Servings
    <3>3. new \in Status
      BY <3>2, ServingWritesType DEF TypeInv, TypeOK, Serving
    <3>4. WroteServingState(new)
      BY <1>0, <1>4, <2>2
         DEF UpdateServingStatus, WroteServingState, Status, ServingCondition
    <3> HIDE DEF new
    <3> QED BY <2>2, <3>3, <3>4
  <2> QED BY <1>4, <2>1, <2>2 DEF UpdateServingStatus
<1>5. CASE RecordRunning
  <2> DEFINE ref == st.serving.ref
             to == IF servings[ref].spec.impl \in HttpImpls THEN ref ELSE 0
             new == [st EXCEPT !.serving.state = "Running", !.serving.last = ref,
                               !.serving.service = to]
  <2>1. WriteStatus(new, "HTTPRoute") /\ pc = "RecordRunning"
    BY <1>5 DEF RecordRunning
  <2>2. to \in {0, ref}
    OBVIOUS
  <2>3. new \in Status
    BY <2>2, ServingWritesType
  <2>4. /\ new.build = st.build /\ new.revision = st.revision
        /\ new.serving = [st.serving EXCEPT !.state = "Running", !.last = ref, !.service = to]
    <3> HIDE DEF to, ref
    <3> QED BY <1>0 DEF Status
  <2>5. /\ new.serving.state = "Running" /\ new.serving.ref = ref /\ new.serving.last = ref
        /\ new.serving.service = to /\ new.serving.hash = st.serving.hash
    <3> HIDE DEF to, new
    <3> QED BY <1>0, <2>4 DEF ServingCondition
  <2> HIDE DEF new
  <2>6. WroteRunning(new)
    BY <2>1, <2>4, <2>5 DEF WroteRunning
  <2> QED BY <2>1, <2>3, <2>6
<1>6. CASE RouteStatus
  <2> DEFINE new == [st EXCEPT !.route = local.spec.serving]
  <2>1. CASE Goto("Service") /\ fn' = fn
    BY <1>6, <2>1 DEF RouteStatus, Goto, Walks
  <2>2. CASE WriteStatus(new, "Service")
    <3>1. WroteRoute(new)
      BY <1>0, <1>6 DEF RouteStatus, WroteRoute, Status
    <3>2. new \in Status
      BY <1>6, ServingWritesType DEF RouteStatus, TypeInv
    <3> HIDE DEF new
    <3> QED BY <2>2, <3>1, <3>2
  <2> QED BY <1>6, <2>1, <2>2 DEF RouteStatus
<1> QED BY <1>1, <1>2, <1>3, <1>4, <1>5, <1>6

\* What a step does to the worker and to the three copies of the status.
Moves ==
  /\ Gone \/ Rests \/ Starts \/ Walks \/ Writes
  /\ \/ fn'.status = fn.status
     \/ /\ Wrote(fn'.status) /\ (Gone \/ Writes)
        /\ localFresh /\ local = fn /\ fn'.spec = fn.spec
  /\ fnCache'.status \in {fnCache.status, fn.status}

LEMMA ReconcileMoves ==
  ASSUME TypeInv, BuildInv, ReconcileStep
  PROVE  Moves /\ fn'.spec = fn.spec /\ fnCache' = fnCache
<1>1. CASE ResetBuild \/ SkipBuild \/ RecordBuilder \/ UpdateBuilderStatus
           \/ ResetServing \/ SkipServing \/ RecordServing \/ UpdateServingStatus
           \/ RecordRunning \/ RouteStatus
  <2>1. fnCache' = fnCache
    BY <1>1 DEF ResetBuild, SkipBuild, RecordBuilder, UpdateBuilderStatus, ResetServing,
         SkipServing, RecordServing, UpdateServingStatus, RecordRunning, RouteStatus
  <2>2. CASE Walks /\ fn' = fn
    BY <2>1, <2>2 DEF Moves
  <2>3. ASSUME NEW new \in Status, NEW next, WriteStatus(new, next),
               \/ WroteReset(new) /\ next = "CancelOldBuilder"
               \/ WroteSkip(new) /\ next = "Serving"
               \/ WroteBuilder(new) /\ next = "Serving"
               \/ WroteResult(new) /\ next = "PruneBuilder"
               \/ WroteNoServing(new) /\ next = "CleanServing"
               \/ WroteSkipServing(new) /\ next = "HTTPRoute"
               \/ WroteServing(new) /\ next = "HTTPRoute"
               \/ WroteServingState(new) /\ next = "HTTPRoute"
               \/ WroteRunning(new) /\ next = "HTTPRoute"
               \/ WroteRoute(new) /\ next = "Service"
        PROVE  (Gone \/ Writes)
               /\ (fn' = fn \/ (Wrote(fn'.status) /\ localFresh /\ local = fn /\ fn'.spec = fn.spec))
    <3>1. Wrote(new)
      BY <2>3 DEF Wrote
    <3> QED BY <2>3, <3>1, WriteEffect DEF Writes
  <2> QED BY <1>1, <2>1, <2>2, <2>3, BuildWriters, ServingWriters DEF Moves
<1>2. CASE \/ CancelOldBuilder \/ PruneOldBuilders \/ CreateBuilder \/ SkipBuilderStatus
           \/ PruneBuilder \/ CleanServing \/ CreateServing \/ AsyncService
           \/ CleanOldServing \/ FinishReconcile \/ PanicNilServing \/ WriteHTTPRoute
           \/ WriteService
  <2>1. fn' = fn /\ fnCache' = fnCache
    BY <1>2
       DEF CancelOldBuilder, PruneOldBuilders, CreateBuilder, SkipBuilderStatus, PruneBuilder,
           CleanServing, CreateServing, AsyncService, CleanOldServing, FinishReconcile,
           PanicNilServing, WriteHTTPRoute, WriteService, api, caches
  <2>2. Gone \/ Walks
    <3>1. CASE Fail \/ Return \/ PanicNilServing
      BY <3>1 DEF Fail, Return, PanicNilServing, Gone
    <3>2. CASE ~(Fail \/ Return \/ PanicNilServing)
      <4>1. CASE CancelOldBuilder
        <5>1. CASE RunningBuilders = {} /\ Goto("PruneOldBuilders")
          BY <4>1, <5>1 DEF CancelOldBuilder, Goto, Walks
        <5>2. CASE /\ RunningBuilders # {} /\ Goto("Serving")
                   /\ builders' = [b \in Builders |-> [builders[b] EXCEPT
                                     !.cancel = @ \/ b \in RunningBuilders]]
          <6>1. PICK b \in RunningBuilders : TRUE
            BY <5>2
          <6>2. b \in Builders /\ builders[b] \in Builder
            BY DEF RunningBuilders, TypeInv, TypeOK
          <6>3. builders'[b].cancel
            BY <5>2, <6>2 DEF Builder
          <6> QED BY <4>1, <5>2, <6>1, <6>3 DEF CancelOldBuilder, Goto, Walks
        <5> QED BY <3>2, <4>1, <5>1, <5>2 DEF CancelOldBuilder
      <4>2. CASE PruneOldBuilders \/ PruneBuilder
        <5>1. builders' = [b \in Builders |->
                             [builders[b] EXCEPT !.live = @ /\ b \notin Prunable(local.spec)]]
          BY <3>2, <4>2 DEF PruneOldBuilders, PruneBuilder, DeleteBuilders
        <5>2. Prunable(local.spec) \subseteq Builders
          BY DEF Prunable
        <5>3. Pruned
          BY <5>1, <5>2 DEF Pruned, TypeInv, TypeOK, Builder
        <5> QED BY <3>2, <4>2, <5>3 DEF PruneOldBuilders, PruneBuilder, DeleteBuilders, Goto, Walks
      <4>3. CASE CreateBuilder \/ SkipBuilderStatus
        BY <3>2, <4>3 DEF CreateBuilder, SkipBuilderStatus, Goto, Walks
      <4>4. CASE CleanServing \/ CleanOldServing
        BY <3>2, <4>4 DEF CleanServing, CleanOldServing, DeleteServings, Goto, Walks
      <4>5. CASE CreateServing \/ AsyncService \/ WriteHTTPRoute
        BY <3>2, <4>5 DEF CreateServing, AsyncService, WriteHTTPRoute, Goto, Walks
      <4>6. CASE FinishReconcile \/ WriteService
        BY <3>2, <4>6 DEF FinishReconcile, WriteService
      <4> QED BY <1>2, <3>2, <4>1, <4>2, <4>3, <4>4, <4>5, <4>6
    <3> QED BY <3>1, <3>2
  <2> QED BY <2>1, <2>2 DEF Moves
<1>3. CASE StartReconcile
  BY <1>3 DEF StartReconcile, Starts, Moves, api, caches
<1> QED BY <1>1, <1>2, <1>3 DEF ReconcileStep

LEMMA StepMoves ==
  ASSUME TypeInv, BuildInv, [Next]_vars
  PROVE  Moves
<1>1. CASE ReconcileStep
  BY <1>1, ReconcileMoves
<1>2. CASE SyncFunction \/ SyncBuilders \/ SyncServings
  BY <1>2 DEF SyncFunction, SyncBuilders, SyncServings, Moves, Rests, api, worker
<1>3. CASE Crash \/ RestartAfterPanic
  BY <1>3 DEF Crash, RestartAfterPanic, Restart, Moves, Gone, api
<1>4. CASE EditSpec
  <2>1. fn'.status = fn.status
    BY <1>4 DEF EditSpec, TypeInv, TypeOK, Function
  <2> QED BY <1>4, <2>1 DEF EditSpec, Moves, Rests
<1>5. CASE \/ \E b \in Builders : CleanExpiredBuilder(b) \/ DeleteBuilder(b) \/ BuilderProgress(b)
           \/ \E s \in Servings : ServingProgress(s) \/ ServingFlap(s) \/ DeleteServing(s)
  BY <1>5 DEF CleanExpiredBuilder, DeleteBuilder, BuilderProgress, ServingProgress, ServingFlap,
       DeleteServing, Moves, Rests, caches, worker
<1>6. CASE UNCHANGED vars
  BY <1>6 DEF vars, api, caches, worker, Moves, Rests
<1> QED BY <1>1, <1>2, <1>3, <1>4, <1>5, <1>6 DEF Next

-----------------------------------------------------------------------------
(* What a step does to the builders and the servings                       *)

\* A builder that is deleted or cancelled, one that makes progress, a new one.
BuilderKept(b) ==
  /\ builders'[b].state = builders[b].state /\ builders'[b].started = builders[b].started
  /\ builders'[b].digest = builders[b].digest
  /\ builders[b].cancel => builders'[b].cancel
  /\ builders'[b].live => builders[b].live
BuilderMoved(b) ==
  /\ builders[b].live /\ builders'[b].live /\ ~IsCompleted(builders[b])
  /\ builders'[b].cancel = builders[b].cancel
  /\ \/ builders'[b].state = "Building" /\ builders'[b].started
     \/ /\ builders'[b].state = "Timeout" /\ TimeoutDue(builders[b])
        /\ builders'[b].started = builders[b].started
     \/ /\ builders[b].state = "Building"
        /\ builders'[b].state \in {"Succeeded", "Failed", "Canceled"}
        /\ builders'[b].started = builders[b].started
        /\ IsSucceeded(builders'[b]) /\ ~MissingDigest => builders'[b].digest
BuilderBorn(b) ==
  /\ pc = "CreateBuilder" /\ pc' \in {"RecordBuilder", "Idle"}
  /\ builderNum' = builderNum + 1 /\ b = builderNum'
  /\ builders'[b] = [NoBuilder EXCEPT !.live = TRUE, !.spec = BuilderSpecOf(local.spec)]
  /\ \A a \in Builders \ {b} : builders'[a] = builders[a]
BuildersChange ==
  /\ \A b \in Builders : BuilderKept(b) \/ BuilderMoved(b) \/ BuilderBorn(b)
  /\ builderNum' = builderNum \/ BuilderBorn(builderNum')

\* A new serving, or old ones that are deleted or make progress.
ServingBorn ==
  /\ pc = "CreateServing" /\ pc' \in {"AsyncService", "RecordServing", "Idle"}
  /\ servingNum' = servingNum + 1 /\ servingNum' \in Servings
  /\ servings'[servingNum'] = [NoServingObject EXCEPT !.live = TRUE, !.spec = ServingSpecOf(local)]
  /\ \A s \in Servings \ {servingNum'} : servings'[s] = servings[s]
ServingsKept ==
  /\ servingNum' = servingNum
  /\ pc = "CreateServing" => pc' \in {pc, "Idle"}
  /\ \A s \in Servings :
       /\ servings'[s].spec = servings[s].spec
       /\ servings'[s].live => servings[s].live
       /\ servings'[s].state \in {servings[s].state, "Starting", "Running", "Failed", "Timeout"}
ServingsChange == ServingBorn \/ ServingsKept
ServingCacheAdvance ==
  \/ servingCache' = servingCache
  \/ servingCache' = servings /\ servings' = servings

LEMMA BuildersChangeStep ==
  ASSUME TypeInv, [Next]_vars
  PROVE  BuildersChange
<1>1. builders \in [Builders -> Builder] /\ builderNum \in 0 .. MaxBuilders
  BY DEF TypeInv, TypeOK
<1>2. CASE UNCHANGED <<builders, builderNum>>
  BY <1>2 DEF BuildersChange, BuilderKept
<1>3. CASE PruneOldBuilders \/ PruneBuilder
  <2>1. \E D : builders' = [b \in Builders |-> [builders[b] EXCEPT !.live = @ /\ b \notin D]]
    BY <1>3 DEF PruneOldBuilders, PruneBuilder, DeleteBuilders
  <2>3. builderNum' = builderNum
    BY <1>3 DEF PruneOldBuilders, PruneBuilder
  <2>2. \A b \in Builders : BuilderKept(b)
    BY <1>1, <2>1 DEF Builder, BuilderKept
  <2> QED BY <2>2, <2>3 DEF BuildersChange
<1>4. CASE CancelOldBuilder
  <2>1. \/ builders' = builders
        \/ \E C : builders' = [b \in Builders |-> [builders[b] EXCEPT !.cancel = @ \/ b \in C]]
    BY <1>4 DEF CancelOldBuilder
  <2>3. builderNum' = builderNum
    BY <1>4 DEF CancelOldBuilder
  <2>2. \A b \in Builders : BuilderKept(b)
    BY <1>1, <2>1 DEF Builder, BuilderKept
  <2> QED BY <2>2, <2>3 DEF BuildersChange
<1>5. CASE CreateBuilder
  <2> DEFINE new == [NoBuilder EXCEPT !.live = TRUE, !.spec = BuilderSpecOf(local.spec)]
  <2>1. CASE /\ builders' = [builders EXCEPT ![builderNum + 1] = new]
             /\ builderNum' = builderNum + 1 /\ pc' \in {"RecordBuilder", "Idle"}
    <3>1. builderNum + 1 \in Builders /\ pc = "CreateBuilder"
      BY <1>1, <1>5, BoundsAssumption DEF CreateBuilder, Builders
    <3>2. \A b \in Builders : b # builderNum + 1 => BuilderKept(b)
      BY <1>1, <2>1 DEF BuilderKept
    <3>3. BuilderBorn(builderNum + 1)
      <4> HIDE DEF new
      <4>1. builders'[builderNum + 1] = new
        BY <1>1, <2>1, <3>1
      <4> QED BY <1>1, <2>1, <3>1, <4>1 DEF BuilderBorn, new
    <3> QED BY <2>1, <3>2, <3>3 DEF BuildersChange
  <2> QED BY <1>2, <1>5, <2>1 DEF CreateBuilder, Goto, Fail
<1>6. ASSUME NEW b \in Builders, CleanExpiredBuilder(b) \/ DeleteBuilder(b)
      PROVE  BuildersChange
  <2>1. builders' = [builders EXCEPT ![b].live = FALSE]
    BY <1>6 DEF CleanExpiredBuilder, DeleteBuilder
  <2>3. builderNum' = builderNum
    BY <1>6 DEF CleanExpiredBuilder, DeleteBuilder
  <2>2. \A a \in Builders : BuilderKept(a)
    BY <1>1, <2>1 DEF BuilderKept, Builder
  <2> QED BY <2>2, <2>3 DEF BuildersChange
<1>7. ASSUME NEW b \in Builders, BuilderProgress(b)
      PROVE  BuildersChange
  <2>1. \A a \in Builders \ {b} : builders'[a] = builders[a]
    BY <1>1, <1>7 DEF BuilderProgress
  <2>2. BuilderMoved(b)
    <3>1. builders[b] \in Builder /\ builders[b].live
      BY <1>1, <1>7 DEF BuilderProgress
    <3>2. CASE /\ builders[b].state = ""
               /\ builders' = [builders EXCEPT ![b].state = "Building", ![b].started = TRUE]
      BY <1>1, <3>1, <3>2 DEF BuilderMoved, Builder, IsCompleted
    <3>3. CASE /\ TimeoutDue(builders[b])
               /\ builders' = [builders EXCEPT ![b].state = "Timeout"]
      BY <1>1, <3>1, <3>3 DEF BuilderMoved, Builder, TimeoutDue
    <3>4. CASE /\ builders[b].state = "Building"
               /\ \E d \in IF MissingDigest THEN BOOLEAN ELSE {TRUE} :
                    builders' = [builders EXCEPT ![b].state = "Succeeded", ![b].digest = d]
      <4>1. PICK d \in BOOLEAN : /\ builders' = [builders EXCEPT ![b].state = "Succeeded", ![b].digest = d]
                                 /\ ~MissingDigest => d
        BY <3>4, SwitchesAssumption
      <4>2. builders'[b] = [builders[b] EXCEPT !.state = "Succeeded", !.digest = d]
        BY <1>1, <4>1
      <4>3. /\ builders'[b].live = builders[b].live /\ builders'[b].cancel = builders[b].cancel
            /\ builders'[b].state = "Succeeded" /\ builders'[b].started = builders[b].started
            /\ builders'[b].digest = d
        BY <3>1, <4>2 DEF Builder
      <4> QED BY <3>1, <3>4, <4>1, <4>3 DEF BuilderMoved, IsCompleted
    <3>5. CASE /\ builders[b].state = "Building"
               /\ \E x \in {"Failed", "Canceled"} :
                    builders' = [builders EXCEPT ![b].state = x]
      BY <1>1, <3>1, <3>5 DEF BuilderMoved, Builder, IsCompleted, IsSucceeded
    <3> QED BY <1>7, <3>2, <3>3, <3>4, <3>5 DEF BuilderProgress
  <2>3. builderNum' = builderNum
    BY <1>7 DEF BuilderProgress
  <2> QED BY <2>1, <2>2, <2>3 DEF BuildersChange, BuilderKept
<1>8. CASE ReconcileStep
           /\ ~(PruneOldBuilders \/ PruneBuilder \/ CancelOldBuilder \/ CreateBuilder)
  <2>1. UNCHANGED <<builders, builderNum>>
    BY <1>8 DEF ReconcileStep, StartReconcile, ResetBuild, SkipBuild, RecordBuilder,
         SkipBuilderStatus, UpdateBuilderStatus, ResetServing, CleanServing, SkipServing,
         CreateServing, AsyncService, RecordServing, UpdateServingStatus, CleanOldServing,
         RecordRunning, FinishReconcile, PanicNilServing, WriteHTTPRoute, RouteStatus,
         WriteService, api
  <2> QED BY <1>2, <2>1
<1>9. CASE \/ SyncFunction \/ SyncBuilders \/ SyncServings \/ Crash \/ RestartAfterPanic
           \/ EditSpec \/ UNCHANGED vars
           \/ \E s \in Servings : ServingProgress(s) \/ ServingFlap(s) \/ DeleteServing(s)
  <2>1. UNCHANGED <<builders, builderNum>>
    BY <1>9 DEF SyncFunction, SyncBuilders, SyncServings, Crash, RestartAfterPanic, Restart,
         EditSpec, vars, api, ServingProgress, ServingFlap, DeleteServing
  <2> QED BY <1>2, <2>1
<1> QED BY <1>3, <1>4, <1>5, <1>6, <1>7, <1>8, <1>9 DEF Next

LEMMA ServingsChangeStep ==
  ASSUME TypeInv, [Next]_vars
  PROVE  ServingsChange /\ ServingCacheAdvance
<1>1. servings \in [Servings -> Serving] /\ servingNum \in 0 .. MaxServings
  BY DEF TypeInv, TypeOK
<1>2. ASSUME UNCHANGED <<servings, servingNum>>, pc = "CreateServing" => pc' \in {pc, "Idle"}
      PROVE  ServingsChange
  BY <1>2 DEF ServingsChange, ServingsKept
<1>3. CASE CleanServing \/ CleanOldServing
  <2>1. \E D : servings' = [s \in Servings |-> [servings[s] EXCEPT !.live = @ /\ s \notin D]]
    BY <1>3 DEF CleanServing, CleanOldServing, DeleteServings
  <2>2. servingNum' = servingNum /\ servingCache' = servingCache /\ pc # "CreateServing"
    BY <1>3 DEF CleanServing, CleanOldServing, caches
  <2>3. \A s \in Servings : /\ servings'[s].spec = servings[s].spec
                            /\ servings'[s].live => servings[s].live
                            /\ servings'[s].state = servings[s].state
    BY <1>1, <2>1 DEF Serving
  <2> QED BY <2>2, <2>3 DEF ServingsChange, ServingsKept, ServingCacheAdvance
<1>4. CASE CreateServing
  <2> DEFINE new == [NoServingObject EXCEPT !.live = TRUE, !.spec = ServingSpecOf(local)]
  <2>0. servingCache' = servingCache /\ pc = "CreateServing"
    BY <1>4 DEF CreateServing, caches
  <2>1. CASE /\ servings' = [servings EXCEPT ![servingNum + 1] = new]
             /\ servingNum' = servingNum + 1
    <3>1. servingNum + 1 \in Servings
      BY <1>1, <1>4, BoundsAssumption DEF CreateServing, Servings
    <3>2. pc' \in {"AsyncService", "RecordServing", "Idle"}
      BY <1>4 DEF CreateServing, Goto, Fail
    <3>3. servings'[servingNum'] = new /\ \A s \in Servings \ {servingNum'} : servings'[s] = servings[s]
      <4> HIDE DEF new
      <4> QED BY <1>1, <2>1, <3>1
    <3> QED BY <2>0, <2>1, <3>1, <3>2, <3>3 DEF ServingsChange, ServingBorn, ServingCacheAdvance
  <2>2. CASE Fail /\ UNCHANGED <<servings, servingNum>>
    BY <1>2, <2>0, <2>2 DEF Fail, ServingCacheAdvance
  <2> QED BY <1>4, <2>1, <2>2 DEF CreateServing
<1>5. ASSUME NEW s \in Servings, ServingProgress(s) \/ ServingFlap(s) \/ DeleteServing(s)
      PROVE  ServingsChange /\ ServingCacheAdvance
  <2>1. /\ servingNum' = servingNum /\ servingCache' = servingCache /\ pc' = pc
        /\ \A a \in Servings \ {s} : servings'[a] = servings[a]
    BY <1>1, <1>5 DEF ServingProgress, ServingFlap, DeleteServing, caches, worker
  <2>2. servings[s] \in Serving /\ DOMAIN servings = Servings
    BY <1>1
  <2>3. /\ servings'[s].spec = servings[s].spec
        /\ servings'[s].live => servings[s].live
        /\ servings'[s].state \in {servings[s].state, "Starting", "Running", "Failed", "Timeout"}
    <3>1. CASE DeleteServing(s)
      BY <2>2, <3>1 DEF DeleteServing, Serving
    <3>2. CASE servings' = [servings EXCEPT ![s].state = "Starting", ![s].started = TRUE]
      BY <2>2, <3>2 DEF Serving
    <3>3. CASE \E x \in {"Running", "Failed", "Timeout"} : servings' = [servings EXCEPT ![s].state = x]
      BY <2>2, <3>3 DEF Serving
    <3> QED BY <1>5, <3>1, <3>2, <3>3 DEF ServingProgress, ServingFlap
  <2> QED BY <2>1, <2>3 DEF ServingsChange, ServingsKept, ServingCacheAdvance
<1>6. CASE SyncServings \/ Crash \/ RestartAfterPanic
  <2>1. UNCHANGED <<servings, servingNum>> /\ servingCache' = servings /\ pc' \in {pc, "Idle"}
    BY <1>6 DEF SyncServings, Crash, RestartAfterPanic, Restart, api
  <2> QED BY <1>2, <2>1 DEF ServingCacheAdvance
<1>7. ASSUME UNCHANGED <<servings, servingNum, servingCache>>, pc # "CreateServing" \/ pc' = pc
      PROVE  ServingsChange /\ ServingCacheAdvance
  BY <1>2, <1>7 DEF ServingCacheAdvance
<1>8. CASE ReconcileStep /\ ~(CleanServing \/ CleanOldServing \/ CreateServing)
  <2>1. UNCHANGED <<servings, servingNum, servingCache>> /\ pc # "CreateServing"
    BY <1>8 DEF ReconcileStep, StartReconcile, ResetBuild, SkipBuild, RecordBuilder,
         CancelOldBuilder, PruneOldBuilders, CreateBuilder, PruneBuilder,
         SkipBuilderStatus, UpdateBuilderStatus, ResetServing, SkipServing,
         AsyncService, RecordServing, UpdateServingStatus,
         RecordRunning, FinishReconcile, PanicNilServing, WriteHTTPRoute, RouteStatus,
         WriteService, api, caches
  <2> QED BY <1>7, <2>1
<1>9. CASE \/ SyncFunction \/ SyncBuilders \/ EditSpec \/ UNCHANGED vars
           \/ \E b \in Builders : CleanExpiredBuilder(b) \/ DeleteBuilder(b) \/ BuilderProgress(b)
  <2>1. UNCHANGED <<servings, servingNum, servingCache, pc>>
    BY <1>9 DEF SyncFunction, SyncBuilders, EditSpec, vars, api, caches, worker,
         CleanExpiredBuilder, DeleteBuilder, BuilderProgress
  <2> QED BY <1>7, <2>1
<1> QED BY <1>3, <1>4, <1>5, <1>6, <1>8, <1>9 DEF Next

-----------------------------------------------------------------------------
(* Records and steps                                                       *)

\* The reports of the children stay what the Builder and the Serving reconciler
\* report.
LEMMA ChildrenStep ==
  ASSUME TypeInv, BuildInv, ChildrenOK, [Next]_vars
  PROVE  ChildrenOK'
<1>1. BuildersChange /\ ServingsChange /\ ServingCacheAdvance
  BY BuildersChangeStep, ServingsChangeStep
<1>2. CacheAdvance
  BY BuildersAdvanceStep DEF BuildInv
<1>3. ASSUME NEW b \in Builders
      PROVE  builders'[b].state \notin {"Created", "Skipped"}
             /\ (builders'[b].started => builders'[b].state # "")
  <2>1. builders[b].state \notin {"Created", "Skipped"}
        /\ (builders[b].started => builders[b].state # "")
    BY DEF ChildrenOK
  <2>2. CASE BuilderKept(b)
    BY <2>1, <2>2 DEF BuilderKept
  <2>3. CASE BuilderMoved(b)
    BY <2>1, <2>3 DEF BuilderMoved
  <2>4. CASE BuilderBorn(b)
    BY <2>4 DEF BuilderBorn, NoBuilder
  <2> QED BY <1>1, <2>2, <2>3, <2>4 DEF BuildersChange
<1>4. ASSUME NEW b \in Builders
      PROVE  builderCache'[b].state \notin {"Created", "Skipped"}
             /\ (builderCache'[b].started => builderCache'[b].state # "")
  BY <1>2, <1>4 DEF ChildrenOK, CacheAdvance
<1>5. ASSUME NEW s \in Servings
      PROVE  servings'[s].state # "Nil" /\ servingCache'[s].state # "Nil"
  <2>1. servings'[s].state # "Nil"
    <3>1. CASE ServingBorn
      BY <3>1 DEF ServingBorn, NoServingObject, ChildrenOK
    <3>2. CASE ServingsKept
      BY <3>2 DEF ServingsKept, ChildrenOK
    <3> QED BY <1>1, <3>1, <3>2 DEF ServingsChange
  <2> QED BY <1>1, <2>1 DEF ServingCacheAdvance, ChildrenOK
<1> QED BY <1>3, <1>4, <1>5 DEF ChildrenOK

\* A recorded serving keeps its spec.
LEMMA RecordStays ==
  ASSUME TypeInv, ServingsChange, NEW t \in Status, RecordOK(t)
  PROVE  RecordOK(t)'
<1>1. /\ t.serving.ref \in 0 .. MaxServings /\ servingNum \in 0 .. MaxServings
      /\ \A x \in 0 .. MaxServings : x \in Nat /\ (x # 0 => x \in Servings)
  BY BoundsAssumption DEF Status, ServingCondition, TypeInv, TypeOK, Servings
<1>2. ASSUME t.serving.ref # 0
      PROVE  /\ t.serving.ref <= servingNum /\ t.serving.ref <= servingNum'
             /\ servings'[t.serving.ref].spec = servings[t.serving.ref].spec
  <2>1. t.serving.ref <= servingNum /\ t.serving.ref \in Servings
    BY <1>1, <1>2 DEF RecordOK, ServingAndHash
  <2>2. CASE ServingBorn
    <3>1. t.serving.ref # servingNum' /\ t.serving.ref <= servingNum'
      BY <1>1, <2>1, <2>2 DEF ServingBorn
    <3> QED BY <2>1, <2>2, <3>1 DEF ServingBorn
  <2>3. CASE ServingsKept
    BY <2>1, <2>3 DEF ServingsKept
  <2> QED BY <2>1, <2>2, <2>3 DEF ServingsChange
<1>3. ServingAndHash(t.serving)'
  BY <1>2 DEF RecordOK, ServingAndHash
<1>4. RunningRecord(t.serving)'
  BY <1>2 DEF RecordOK, RunningRecord
<1> QED BY <1>3, <1>4 DEF RecordOK, BuildAndHash

\* A serving spec is the empty one only without a serving section; no hash is.
LEMMA EmptySpecs ==
  ASSUME TypeInv
  PROVE  /\ NoHash # EmptyServingSpec /\ NoHash # EmptyBuilderSpec
         /\ local.spec.serving # NoServing => ServingSpecOf(local) # EmptyServingSpec
         /\ local.spec.build # NoBuild => BuilderSpecOf(local.spec) # EmptyBuilderSpec
<1>1. EmptyServingSpec \in ServingHashes /\ EmptyBuilderSpec \in BuilderHashes
  BY BoundsAssumption DEF EmptyServingSpec, EmptyBuilderSpec, ServingHashes, BuilderHashes
<1>2. NoHash # EmptyServingSpec /\ NoHash # EmptyBuilderSpec
  BY <1>1, NilAssumption DEF ServingHashes, BuilderHashes
<1> QED BY <1>2 DEF ServingSpecOf, EmptyServingSpec, BuilderSpecOf, EmptyBuilderSpec

\* What the reconcile writes is a record in this sense.
LEMMA WrittenRecords ==
  ASSUME TypeInv, BuildInv, RecordInv, NEW t \in Status, Wrote(t)
  PROVE  RecordOK(t)
<1> DEFINE st == local.status
<1>0. /\ st \in Status /\ st.build \in BuildCondition /\ st.serving \in ServingCondition
      /\ RecordOK(st)
  BY DEF TypeInv, TypeOK, Function, Status, RecordInv
<1>1. CASE WroteReset(t)
  BY <1>0, <1>1, EmptySpecs
     DEF WroteReset, RecordOK, BuildAndHash
<1>2. CASE WroteSkip(t)
  <2>1. t.serving.state = "" /\ t.serving.ref = 0 /\ t.serving.hash = NoHash
    <3>1. EmptyServing.state = "" /\ EmptyServing.ref = 0 /\ EmptyServing.hash = NoHash
      BY DEF EmptyServing
    <3> QED BY <1>2, <3>1 DEF WroteSkip
  <2>2. ServingAndHash(t.serving) /\ RunningRecord(t.serving)
    BY <2>1, EmptySpecs DEF ServingAndHash, RunningRecord
  <2>3. BuildAndHash(t.build) /\ t.serving.state # "Nil"
    BY <1>2, <2>1 DEF WroteSkip, BuildAndHash
  <2> QED BY <2>2, <2>3 DEF RecordOK
<1>3. CASE WroteBuilder(t)
  <2>1. local.spec.build # NoBuild
    BY <1>3 DEF WroteBuilder, RecordInv, StepsOK
  <2>2. t.build.state = "Created" /\ t.build.hash = BuilderSpecOf(local.spec)
    BY <1>3 DEF WroteBuilder, CreatedBuild
  <2>3. BuildAndHash(t.build)
    BY <2>1, <2>2, EmptySpecs DEF BuildAndHash
  <2> QED BY <1>0, <1>3, <2>2, <2>3 DEF WroteBuilder, RecordOK
<1>4. CASE WroteResult(t)
  <2>1. st.build.ref \in 0 .. MaxBuilders /\ st.build.ref # 0
    BY <1>0, <1>4 DEF WroteResult, BuilderStarted, BuildCondition
  <2>2. st.build.ref \in Builders
    BY <2>1, BoundsAssumption DEF Builders
  <2>3. t.build.state \notin {"", "Created", "Skipped"}
    BY <1>4, <2>2 DEF WroteResult, BuilderStarted, RecordInv, ChildrenOK
  <2>4. BuildAndHash(t.build)
    BY <1>0, <1>4, <2>1, <2>3 DEF WroteResult, RecordOK, BuildAndHash
  <2>5. ServingAndHash(t.serving) /\ RunningRecord(t.serving)
    BY <1>0, <1>4 DEF WroteResult, RecordOK, ServingAndHash, RunningRecord
  <2>6. t.build.state = "Succeeded" => t.serving.state # "Nil"
    BY <1>4 DEF WroteResult, IsSucceeded
  <2> QED BY <2>3, <2>4, <2>5, <2>6 DEF RecordOK
<1>5. CASE WroteNoServing(t)
  BY <1>0, <1>5, EmptySpecs
     DEF WroteNoServing, RecordOK, BuildAndHash, ServingAndHash, RunningRecord
<1>6. CASE WroteSkipServing(t)
  BY <1>0, <1>6
     DEF WroteSkipServing, RecordOK, BuildAndHash, ServingAndHash, RunningRecord, EmptyServing
<1>7. CASE WroteServing(t)
  <2>1. /\ servingNum # 0 /\ servings[servingNum].spec = ServingSpecOf(local)
        /\ local.spec.serving # NoServing
    BY <1>7 DEF WroteServing, RecordInv, StepsOK
  <2>2. servingNum <= servingNum
    BY BoundsAssumption DEF TypeInv, TypeOK
  <2>3. t.serving.state = "Created" /\ t.serving.ref = servingNum
        /\ t.serving.hash = ServingSpecOf(local)
    BY <1>7 DEF WroteServing
  <2>4. ServingAndHash(t.serving) /\ RunningRecord(t.serving)
    BY <2>1, <2>2, <2>3, EmptySpecs DEF ServingAndHash, RunningRecord
  <2> QED BY <1>0, <1>7, <2>3, <2>4 DEF WroteServing, RecordOK
<1>8. CASE WroteServingState(t)
  <2>1. st.serving.ref \in 0 .. MaxServings /\ st.serving.ref # 0
    BY <1>0, <1>8 DEF WroteServingState, ServingChanged, ServingCondition
  <2>2. st.serving.ref \in Servings
    BY <2>1, BoundsAssumption DEF Servings
  <2>3. t.serving.state # "Nil"
    BY <1>8, <2>2 DEF WroteServingState, RecordInv, ChildrenOK
  <2>4. ServingAndHash(t.serving) /\ RunningRecord(t.serving)
    BY <1>0, <1>8, <2>1 DEF WroteServingState, RecordOK, ServingAndHash, RunningRecord
  <2> QED BY <1>0, <1>8, <2>3, <2>4 DEF WroteServingState, RecordOK
<1>9. CASE WroteRunning(t)
  <2>1. st.serving.ref # 0
    BY <1>9 DEF WroteRunning, RecordInv, StepsOK
  <2>2. ServingAndHash(t.serving) /\ RunningRecord(t.serving)
    BY <1>0, <1>9, <2>1 DEF WroteRunning, RecordOK, ServingAndHash, RunningRecord
  <2> QED BY <1>0, <1>9, <2>2 DEF WroteRunning, RecordOK
<1>10. CASE WroteRoute(t)
  BY <1>0, <1>10 DEF WroteRoute, RecordOK
<1> QED BY <1>1, <1>2, <1>3, <1>4, <1>5, <1>6, <1>7, <1>8, <1>9, <1>10 DEF Wrote

\* A pass keeps what it knows of the build it goes on with.
LEMMA StepsStep ==
  ASSUME TypeInv, TypeInv', BuildInv, RecordInv, [Next]_vars
  PROVE  StepsOK'
<1>0. Moves /\ ServingsChange
  BY StepMoves, ServingsChangeStep
<1>1. CASE Gone \/ Starts
  BY <1>1 DEF Gone, Starts, StepsOK, BuiltPCs, ResetServingPCs
<1>2. CASE Rests
  <2>1. pc \in {"AsyncService", "RecordServing"} =>
          servingNum' = servingNum /\ servings'[servingNum].spec = servings[servingNum].spec
    <3>1. ASSUME pc \in {"AsyncService", "RecordServing"}
          PROVE  servingNum \in Servings /\ ServingsKept
      <4>1. servingNum \in 0 .. MaxServings /\ servingNum # 0
        BY <3>1 DEF RecordInv, StepsOK, TypeInv, TypeOK
      <4> QED BY <1>0, <3>1, <4>1, BoundsAssumption DEF Servings, ServingsChange, ServingBorn
    <3> QED BY <3>1 DEF ServingsKept
  <2> QED BY <1>2, <2>1 DEF Rests, RecordInv, StepsOK, BuildDone, ServingSpecOf
<1>3. CASE Walks
  <2>1. pc' = "RecordServing" /\ pc = "AsyncService" =>
          servingNum' # 0 /\ servings'[servingNum'].spec = ServingSpecOf(local)
    <3>1. ASSUME pc = "AsyncService"
          PROVE  /\ servingNum' = servingNum /\ servingNum # 0
                 /\ servings'[servingNum].spec = servings[servingNum].spec
                 /\ servings[servingNum].spec = ServingSpecOf(local)
      <4>1. /\ servingNum \in 0 .. MaxServings /\ servingNum # 0
            /\ servings[servingNum].spec = ServingSpecOf(local)
        BY <3>1 DEF RecordInv, StepsOK, TypeInv, TypeOK
      <4> QED BY <1>0, <3>1, <4>1, BoundsAssumption
          DEF Servings, ServingsChange, ServingBorn, ServingsKept
    <3> QED BY <3>1
  <2>2. pc' \in {"AsyncService", "RecordServing"} /\ pc = "CreateServing" =>
          servingNum' # 0 /\ servings'[servingNum'].spec = ServingSpecOf(local)
    <3>1. ASSUME pc' \in {"AsyncService", "RecordServing"}, pc = "CreateServing"
          PROVE  ServingBorn
      BY <1>0, <3>1 DEF ServingsChange, ServingsKept
    <3>2. servingNum + 1 # 0
      BY BoundsAssumption DEF TypeInv, TypeOK
    <3> QED BY <3>1, <3>2 DEF ServingBorn, NoServingObject
  <2>3. pc = "Builder" /\ ~NeedToCreateBuilder(local) =>
          local.status.build.hash = BuilderSpecOf(local.spec)
    BY DEF NeedToCreateBuilder
  <2>4. pc = "CancelOldBuilder" => ~BuildDone(local)
    BY DEF BuildInv, WorkerOK, ResetPCs, BuildDone
  <2>5. pc = "Serving" /\ ServingChanged(local)
          /\ servingCache[local.status.serving.ref].state = "Running"
        => local.status.serving.ref # 0 /\ local.status.serving.state # "Running"
    BY DEF ServingChanged
  <2>6. local' = local
    BY <1>3 DEF Walks
  <2>7. \/ pc' \in {"PruneOldBuilders", "HTTPRoute", "RouteStatus", "Service"}
        \/ /\ pc = "CancelOldBuilder" /\ pc' = "Serving"
           /\ \E b \in RunningBuilders : builders'[b].cancel
        \/ pc = "Builder" /\ ~NeedToCreateBuilder(local) /\ pc' \in {"PruneBuilder", "Serving"}
        \/ pc = "PruneOldBuilders" /\ pc' = "SkipBuild" /\ local.spec.build = NoBuild
        \/ pc = "PruneOldBuilders" /\ pc' = "CreateBuilder" /\ local.spec.build # NoBuild
        \/ pc = "CreateBuilder" /\ pc' = "RecordBuilder"
        \/ pc = "PruneBuilder" /\ pc' = "Serving"
        \/ /\ pc = "Serving" /\ ServingChanged(local) /\ pc' = "CleanOldServing"
           /\ servingCache[local.status.serving.ref].state = "Running"
        \/ pc = "CleanServing" /\ pc' = "SkipServing" /\ local.spec.serving = NoServing
        \/ pc = "CleanServing" /\ pc' = "CreateServing" /\ local.spec.serving # NoServing
        \/ pc = "CreateServing" /\ pc' \in {"AsyncService", "RecordServing"}
        \/ pc = "AsyncService" /\ pc' = "RecordServing"
        \/ pc = "CleanOldServing" /\ pc' = "RecordRunning"
    BY <1>3 DEF Walks
  <2>8. \A f : (BuildDone(f) <=> f.status.build.state \in {"Succeeded", "Skipped"})
    BY DEF BuildDone
  <2>9. ServingSpecOf(local)' = ServingSpecOf(local) /\ BuildDone(local)' = BuildDone(local)
    BY <2>6 DEF ServingSpecOf, BuildDone
  <2> QED
    BY <2>1, <2>2, <2>3, <2>4, <2>5, <2>6, <2>7, <2>9
       DEF RecordInv, StepsOK, BuiltPCs, ResetServingPCs
<1>4. CASE Writes
  <2>1. CASE pc' \in {"CancelOldBuilder", "HTTPRoute", "Service"}
    BY <2>1 DEF StepsOK, BuiltPCs, ResetServingPCs
  <2>2. CASE WroteSkip(local'.status) /\ pc' = "Serving"
    <3>1. local'.spec = local.spec /\ local.spec.build = NoBuild
      BY <1>4, <2>2 DEF Writes, WroteSkip, RecordInv, StepsOK
    <3> QED BY <2>2, <3>1 DEF WroteSkip, StepsOK, ResetServingPCs, BuilderSpecOf
  <2>3. CASE WroteBuilder(local'.status) /\ pc' = "Serving"
    BY <2>3 DEF WroteBuilder, CreatedBuild, StepsOK, ResetServingPCs, BuildDone
  <2>4. CASE WroteResult(local'.status) /\ pc' = "PruneBuilder"
    <3>1. local'.spec = local.spec /\ local.status.build.hash = BuilderSpecOf(local.spec)
      BY <1>4, <2>4 DEF Writes, WroteResult, NeedToCreateBuilder
    <3> QED BY <2>4, <3>1 DEF WroteResult, StepsOK, ResetServingPCs
  <2>5. CASE WroteNoServing(local'.status) /\ pc' = "CleanServing"
    <3>1. /\ local'.spec = local.spec /\ BuildDone(local) /\ pc = "Serving"
          /\ local'.status.build = local.status.build
      BY <1>4, <2>5 DEF Writes, WroteNoServing, NeedToCreateServing
    <3>2. local.status.build.hash = BuilderSpecOf(local.spec) /\ BuildDone(local)'
      BY <3>1 DEF RecordInv, StepsOK, BuiltPCs, BuildDone
    <3> QED BY <2>5, <3>1, <3>2 DEF WroteNoServing, StepsOK
  <2> QED BY <1>4, <2>1, <2>2, <2>3, <2>4, <2>5 DEF Writes
<1> QED BY <1>0, <1>1, <1>2, <1>3, <1>4 DEF Moves

LEMMA RecordStep ==
  ASSUME TypeInv, TypeInv', BuildInv, RecordInv, [Next]_vars
  PROVE  RecordInv'
<1>1. Moves /\ ServingsChange
  BY StepMoves, ServingsChangeStep
<1>2. /\ fn.status \in Status /\ fnCache.status \in Status /\ local.status \in Status
      /\ fn'.status \in Status /\ local'.status \in Status /\ InitStatus \in Status
      /\ NoFunction.status = InitStatus
  BY NoFunctionType DEF TypeInv, TypeOK, Function, NoFunction
<1>3. RecordOK(InitStatus)
  BY EmptySpecs DEF InitStatus, EmptyServing, RecordOK, BuildAndHash, ServingAndHash, RunningRecord
<1>4. \A t \in {fn.status, fnCache.status, local.status, InitStatus} : RecordOK(t)'
  BY <1>1, <1>2, <1>3, RecordStays DEF RecordInv
<1>5. \A t \in {fn'.status, local'.status} : Wrote(t) => RecordOK(t)
  BY <1>2, WrittenRecords
<1>6. ASSUME NEW t \in Status, RecordOK(t) PROVE RecordOK(t)'
  BY <1>1, <1>6, RecordStays
<1>7. RecordOK(fn.status)'
  <2>1. CASE fn'.status = fn.status
    BY <1>4, <2>1 DEF RecordOK, BuildAndHash, ServingAndHash, RunningRecord
  <2>2. CASE Wrote(fn'.status)
    BY <1>2, <1>5, <1>6, <2>2 DEF RecordOK, BuildAndHash, ServingAndHash, RunningRecord
  <2> QED BY <1>1, <2>1, <2>2 DEF Moves
<1>8. RecordOK(fnCache.status)'
  <2>1. fnCache'.status \in {fnCache.status, fn.status}
    BY <1>1 DEF Moves
  <2> QED BY <1>4, <2>1 DEF RecordOK, BuildAndHash, ServingAndHash, RunningRecord
<1>9. RecordOK(local.status)'
  <2>1. CASE local'.status \in {fnCache.status, local.status, InitStatus}
    BY <1>4, <2>1 DEF RecordOK, BuildAndHash, ServingAndHash, RunningRecord
  <2>2. CASE Wrote(local'.status)
    BY <1>2, <1>5, <1>6, <2>2 DEF RecordOK, BuildAndHash, ServingAndHash, RunningRecord
  <2> QED BY <1>1, <1>2, <2>1, <2>2 DEF Moves, Gone, Rests, Starts, Walks, Writes, Wrote
<1> QED BY <1>7, <1>8, <1>9, ChildrenStep, StepsStep DEF RecordInv

LEMMA InitRecords == Init => RecordInv
<1> SUFFICES ASSUME Init PROVE RecordInv
  OBVIOUS
<1>1. fn.status = InitStatus /\ fnCache.status = InitStatus /\ local.status = InitStatus
  <2>1. \E sp \in Specs : fn = [spec |-> sp, status |-> InitStatus]
    BY DEF Init
  <2>2. fnCache = fn /\ local.status = InitStatus
    BY DEF Init, NoFunction
  <2> QED BY <2>1, <2>2
<1>2. TypeInv
  BY InitType
<1>3. RecordOK(InitStatus)
  BY <1>2, EmptySpecs
     DEF InitStatus, EmptyServing, RecordOK, BuildAndHash, ServingAndHash, RunningRecord
<1>4. ChildrenOK
  <2>1. NoBuilder.state = "" /\ NoBuilder.started = FALSE /\ NoServingObject.state = ""
    BY DEF NoBuilder, NoServingObject
  <2>2. /\ \A b \in Builders : builders[b] = NoBuilder /\ builderCache[b] = NoBuilder
        /\ \A s \in Servings : servings[s] = NoServingObject /\ servingCache[s] = NoServingObject
    BY DEF Init
  <2> QED BY <2>1, <2>2 DEF ChildrenOK
<1>5. StepsOK
  BY DEF Init, StepsOK, BuiltPCs, ResetServingPCs
<1> QED BY <1>1, <1>3, <1>4, <1>5 DEF RecordInv

\* The invariants about what is recorded hold together.
LEMMA Records == Spec => [](TypeInv /\ BuildInv /\ RecordInv)
<1>1. Init => RecordInv
  BY InitRecords
<1>2. TypeInv /\ BuildInv /\ TypeInv' /\ RecordInv /\ [Next]_vars => RecordInv'
  BY RecordStep
<1> QED BY <1>1, <1>2, Invariants, PTL DEF Spec

-----------------------------------------------------------------------------
(* What is served                                                          *)

LEMMA PinnedStep ==
  ASSUME TypeInv, TypeInv', BuildInv, PinnedInv, ~MissingDigest, [Next]_vars
  PROVE  PinnedInv'
<1> DEFINE st == local.status
<1>1. Moves /\ BuildersChange
  BY StepMoves, BuildersChangeStep
<1>2. NoFunction.status = InitStatus /\ PinnedOK(InitStatus)
  BY DEF NoFunction, InitStatus, PinnedOK
<1>3. \A b \in Builders : IsSucceeded(builders'[b]) => builders'[b].digest
  <2>1. ASSUME NEW b \in Builders, IsSucceeded(builders'[b])
        PROVE  builders'[b].digest
    <3>1. CASE BuilderKept(b)
      BY <2>1, <3>1 DEF BuilderKept, IsSucceeded, PinnedInv
    <3>2. CASE BuilderMoved(b)
      BY <2>1, <3>2 DEF BuilderMoved, IsSucceeded
    <3>3. CASE BuilderBorn(b)
      BY <2>1, <3>3 DEF BuilderBorn, NoBuilder, IsSucceeded
    <3> QED BY <1>1, <3>1, <3>2, <3>3 DEF BuildersChange
  <2> QED BY <2>1
<1>4. ASSUME NEW t, Wrote(t) PROVE PinnedOK(t)
  <2>1. PinnedOK(st)
    BY DEF PinnedInv
  <2>2. CASE WroteResult(t)
    <3>1. st.build.ref \in 0 .. MaxBuilders /\ st.build.ref # 0
      BY <2>2 DEF WroteResult, BuilderStarted, TypeInv, TypeOK, Function, Status, BuildCondition
    <3>2. st.build.ref \in Builders
      BY <3>1, BoundsAssumption DEF Builders
    <3>3. IsSucceeded(builderCache[st.build.ref]) => builderCache[st.build.ref].digest
      BY <3>2 DEF BuildInv, CacheMirrors, PinnedInv
    <3> QED BY <2>2, <3>3 DEF WroteResult, PinnedOK, IsSucceeded
  <2>3. CASE WroteReset(t) \/ WroteSkip(t) \/ WroteBuilder(t)
    BY <2>3 DEF WroteReset, WroteSkip, WroteBuilder, CreatedBuild, PinnedOK
  <2>4. CASE \/ WroteNoServing(t) \/ WroteSkipServing(t) \/ WroteServing(t)
             \/ WroteServingState(t) \/ WroteRunning(t) \/ WroteRoute(t)
    <3>1. t.build = st.build /\ t.revision = st.revision
      BY <2>4 DEF WroteNoServing, WroteSkipServing, WroteServing, WroteServingState,
           WroteRunning, WroteRoute
    <3> QED BY <2>1, <3>1 DEF PinnedOK
  <2> QED BY <1>4, <2>2, <2>3, <2>4 DEF Wrote
<1>5. PinnedOK(fn'.status) /\ PinnedOK(fnCache'.status)
  BY <1>1, <1>4 DEF Moves, PinnedInv
<1>6. PinnedOK(local'.status)
  BY <1>1, <1>2, <1>4 DEF Moves, Gone, Rests, Starts, Walks, Writes, Wrote, PinnedInv
<1> QED BY <1>3, <1>5, <1>6 DEF PinnedInv, PinnedOK, IsSucceeded

LEMMA InitPinned == Init => PinnedInv
<1> SUFFICES ASSUME Init PROVE PinnedInv
  OBVIOUS
<1>1. fn.status = InitStatus /\ fnCache.status = InitStatus /\ local.status = InitStatus
  <2>1. \E sp \in Specs : fn = [spec |-> sp, status |-> InitStatus]
    BY DEF Init
  <2>2. fnCache = fn /\ local.status = InitStatus
    BY DEF Init, NoFunction
  <2> QED BY <2>1, <2>2
<1>2. PinnedOK(InitStatus)
  BY DEF InitStatus, PinnedOK
<1>3. \A b \in Builders : ~IsSucceeded(builders[b])
  BY DEF Init, NoBuilder, IsSucceeded
<1> QED BY <1>1, <1>2, <1>3 DEF PinnedInv

\* As long as builds report the digest of what they push, a serving is created only
\* from an image of a build that succeeded, and of the very build that the spec in
\* the pass asks for: no stale cache, lost reply or restart lets an image of an
\* earlier spec through (needToCreateServing, getServingImage).
THEOREM ServedIsBuilt ==
  ASSUME ~MissingDigest
  PROVE  Spec => ServesTheBuiltCode
<1> DEFINE Served ==
      servingNum' # servingNum /\ local.spec.build # NoBuild
      => LET d == servings'[servingNum'].spec.digest
         IN /\ d # 0 /\ IsSucceeded(builders[d])
            /\ builders[d].spec = BuilderSpecOf(local.spec)
<1>1. TypeInv /\ BuildInv /\ RecordInv /\ PinnedInv /\ [Next]_vars => Served
  <2> SUFFICES ASSUME TypeInv, BuildInv, RecordInv, PinnedInv, [Next]_vars,
                      servingNum' # servingNum, local.spec.build # NoBuild
               PROVE  LET d == servings'[servingNum'].spec.digest
                      IN /\ d # 0 /\ IsSucceeded(builders[d])
                         /\ builders[d].spec = BuilderSpecOf(local.spec)
    OBVIOUS
  <2> DEFINE b == local.status.build
  <2>1. ServingBorn
    BY ServingsChangeStep DEF ServingsChange, ServingsKept
  <2>2. /\ servings'[servingNum'].spec = ServingSpecOf(local) /\ local.spec.serving # NoServing
        /\ BuildDone(local) /\ b.hash = BuilderSpecOf(local.spec)
    BY <2>1 DEF ServingBorn, NoServingObject, RecordInv, StepsOK, BuiltPCs, ResetServingPCs
  <2>3. servings'[servingNum'].spec.digest = local.status.revision
    BY <2>2 DEF ServingSpecOf
  <2>4. b.state = "Succeeded"
    BY <2>2, EmptySpecs DEF BuildDone, RecordInv, RecordOK, BuildAndHash
  <2>5. /\ local.status.revision = b.ref /\ b.ref # 0 /\ IsSucceeded(builderCache[b.ref])
        /\ builders[b.ref].spec = b.hash /\ b.ref \in 0 .. MaxBuilders
    BY <2>4 DEF PinnedInv, PinnedOK, BuildInv, StatusOK, BuildRecordOK,
         TypeInv, TypeOK, Function, Status, BuildCondition
  <2>6. b.ref \in Builders
    BY <2>5, BoundsAssumption DEF Builders
  <2>7. IsSucceeded(builders[b.ref])
    BY <2>5, <2>6 DEF BuildInv, CacheMirrors
  <2> QED BY <2>2, <2>3, <2>5, <2>7
<1>2. TypeInv /\ BuildInv /\ RecordInv /\ PinnedInv /\ [Next]_vars => [Served]_vars
  BY <1>1
<1>3. TypeInv /\ TypeInv' /\ BuildInv /\ PinnedInv /\ [Next]_vars => PinnedInv'
  BY PinnedStep
<1>4. Init => PinnedInv
  BY InitPinned
<1> QED BY <1>2, <1>3, <1>4, Records, PTL DEF ServesTheBuiltCode, Spec

-----------------------------------------------------------------------------
(* One build, one serving                                                  *)

\* Only StartReconcile starts a pass, only CleanOldServing goes on to record that the
\* new serving runs.
LEMMA WhoStarts ==
  ASSUME [Next]_vars, \/ Starts
                      \/ pc = "CleanOldServing" /\ pc' = "RecordRunning"
  PROVE  StartReconcile \/ CleanOldServing
<1>1. \/ pc = "Idle" /\ pc' = "Builder"
      \/ pc = "CleanOldServing" /\ pc' = "RecordRunning"
  BY DEF Starts
<1>2. CASE ReconcileStep
  BY <1>1, <1>2 DEF ReconcileStep, ResetBuild, SkipBuild, RecordBuilder,
     CancelOldBuilder, PruneOldBuilders, CreateBuilder, PruneBuilder,
     SkipBuilderStatus, UpdateBuilderStatus, ResetServing, SkipServing, CleanServing,
     CreateServing, AsyncService, RecordServing, UpdateServingStatus,
     RecordRunning, FinishReconcile, PanicNilServing, WriteHTTPRoute, RouteStatus, WriteService
<1>3. CASE ~ReconcileStep
  BY <1>1, <1>3 DEF Next, SyncFunction, SyncBuilders, SyncServings, CleanExpiredBuilder, Crash,
     RestartAfterPanic, Restart, BuilderProgress, ServingProgress, ServingFlap, EditSpec,
     DeleteBuilder, DeleteServing, vars, worker
<1> QED BY <1>2, <1>3

\* A pass that started with full caches.
LEMMA ActiveStep ==
  ASSUME TypeInv, BuildInv, ActiveInv, "lag" \notin Disturbances, [Next]_vars
  PROVE  ActiveInv'
<1>1. BuildersChange /\ CacheAdvance
  BY BuildersChangeStep, BuildersAdvanceStep DEF BuildInv
<1>2. Moves
  BY StepMoves
<1>3. \A b \in Builders : Active(builders'[b]) => Active(builders[b]) \/ BuilderBorn(b)
  BY <1>1 DEF BuildersChange, BuilderKept, BuilderMoved, Active, IsCompleted
<1>4. \A a, b \in Builders : Active(builders'[a]) /\ Active(builders'[b]) => a = b
  <2>1. CASE \E b \in Builders : BuilderBorn(b)
    <3>1. PICK b \in Builders : BuilderBorn(b)
      BY <2>1
    <3>2. \A a \in Builders \ {b} : ~Active(builders'[a])
      BY <3>1 DEF BuilderBorn, ActiveInv
    <3> QED BY <3>2
  <2>2. CASE ~\E b \in Builders : BuilderBorn(b)
    BY <1>3, <2>2 DEF ActiveInv
  <2> QED BY <2>1, <2>2
<1>5. pc' \in {"Builder", "CancelOldBuilder", "PruneOldBuilders", "CreateBuilder"} =>
        \A b \in Builders : Active(builders'[b]) => Active(builders[b])
  BY <1>3 DEF BuilderBorn
<1>6. CASE Starts
  <2>1. StartReconcile
    BY <1>6, WhoStarts DEF Starts, CleanOldServing
  <2>2. builders' = builders /\ builderCache' = builderCache /\ builderCache = builders
    BY <2>1 DEF StartReconcile, Disturb, api, caches
  <2> QED BY <1>4, <1>6, <2>2 DEF ActiveInv, Starts
<1>7. CASE ~Starts
  <2>1. ASSUME pc' \in {"Builder", "CancelOldBuilder"},
               NEW b \in Builders, Active(builders'[b])
        PROVE  Active(builderCache'[b])
    <3>1. pc \in {"Builder", "CancelOldBuilder"}
      BY <1>2, <1>7, <2>1 DEF Moves, Gone, Rests, Walks, Writes, WroteReset
    <3>2. Active(builders[b]) /\ Active(builderCache[b])
      BY <1>5, <2>1, <3>1 DEF ActiveInv
    <3> QED BY <1>1, <3>2 DEF CacheAdvance
  <2>2. ASSUME pc' \in {"PruneOldBuilders", "CreateBuilder"}, NEW b \in Builders
        PROVE  ~Active(builders'[b])
    <3>1. CASE pc \in {"PruneOldBuilders", "CreateBuilder"}
      BY <1>5, <2>2, <3>1 DEF ActiveInv
    <3>2. CASE pc \notin {"PruneOldBuilders", "CreateBuilder"}
      <4>1. pc = "CancelOldBuilder" /\ RunningBuilders = {}
        BY <1>2, <1>7, <2>2, <3>2 DEF Moves, Gone, Rests, Walks, Writes
      <4>2. ~Active(builderCache[b])
        BY <4>1 DEF RunningBuilders, Active
      <4> QED BY <1>5, <2>2, <4>1, <4>2 DEF ActiveInv
    <3> QED BY <3>1, <3>2
  <2> QED BY <1>4, <2>1, <2>2 DEF ActiveInv, Active, IsCompleted
<1> QED BY <1>6, <1>7

LEMMA InitActive == Init => ActiveInv
<1> SUFFICES ASSUME Init PROVE ActiveInv
  OBVIOUS
<1>1. NoBuilder.live = FALSE
  BY DEF NoBuilder
<1>2. \A b \in Builders : builders[b] = NoBuilder
  BY DEF Init
<1> QED BY <1>1, <1>2 DEF Init, ActiveInv, Active

\* When passes start with caches that hold every builder, no two builders of a
\* function are active, whatever failed, was cancelled, deleted or restarted
\* (cancelOldBuilder, the reset in createBuilder).
THEOREM OneActiveBuilderHolds ==
  ASSUME "lag" \notin Disturbances
  PROVE  Spec => []OneActiveBuilder
<1>1. TypeInv /\ BuildInv /\ ActiveInv /\ [Next]_vars => ActiveInv'
  BY ActiveStep
<1>2. ActiveInv => OneActiveBuilder
  <2> SUFFICES ASSUME ActiveInv PROVE OneActiveBuilder
    OBVIOUS
  <2> DEFINE S == {b \in Builders : builders[b].live /\ ~IsCompleted(builders[b])}
  <2>1. \A a, b \in S : a = b
    BY DEF ActiveInv, Active
  <2>2. \E x : S \subseteq {x}
    <3>1. CASE S = {}
      BY <3>1
    <3>2. CASE S # {}
      <4>1. PICK x \in S : TRUE
        BY <3>2
      <4> QED BY <2>1, <4>1
    <3> QED BY <3>1, <3>2
  <2>3. PICK x : S \subseteq {x}
    BY <2>2
  <2>4. IsFiniteSet({x}) /\ Cardinality({x}) = 1
    BY FS_Singleton
  <2>5. Cardinality(S) <= Cardinality({x})
    BY <2>3, <2>4, FS_Subset
  <2> QED BY <2>4, <2>5 DEF OneActiveBuilder
<1> QED BY <1>1, <1>2, InitActive, Invariants, PTL DEF Spec

LEMMA AloneStep ==
  ASSUME TypeInv, BuildInv, AloneInv, "lag" \notin Disturbances, [Next]_vars
  PROVE  AloneInv'
<1> DEFINE st == local.status
<1>1. Moves /\ ServingsChange /\ ServingCacheAdvance
  BY StepMoves, ServingsChangeStep
<1>2. ASSUME Wrote(fn'.status), pc # "RecordRunning", fn'.status.serving.state = "Running"
      PROVE  st.serving.state = "Running" /\ fn'.status.serving.ref = st.serving.ref
  <2> DEFINE t == fn'.status
  <2>1. EmptyServing.state = ""
    BY DEF EmptyServing
  <2>2. [EmptyServing EXCEPT !.state = "Skipped", !.hash = EmptyServingSpec].state = "Skipped"
    BY DEF EmptyServing
  <2>3. ~WroteSkip(t) /\ ~WroteNoServing(t)
    BY <1>2, <2>1 DEF WroteSkip, WroteNoServing
  <2>4. ~WroteSkipServing(t) /\ ~WroteServing(t) /\ ~WroteServingState(t) /\ ~WroteRunning(t)
    <3>1. ~WroteSkipServing(t)
      BY <1>2, <2>2 DEF WroteSkipServing
    <3>2. ~WroteServing(t)
      BY <1>2 DEF WroteServing
    <3>3. ~WroteServingState(t) /\ ~WroteRunning(t)
      BY <1>2 DEF WroteServingState, WroteRunning
    <3> QED BY <3>1, <3>2, <3>3
  <2>5. CASE WroteReset(t) \/ WroteBuilder(t) \/ WroteRoute(t)
    BY <1>2, <2>5 DEF WroteReset, WroteBuilder, WroteRoute
  <2>6. CASE WroteResult(t)
    BY <1>2, <2>6 DEF WroteResult
  <2> QED BY <1>2, <2>3, <2>4, <2>5, <2>6 DEF Wrote
<1>3. pc' \notin {"AsyncService", "RecordServing", "Idle"} =>
        \A s \in Servings : servings'[s].live => servings[s].live
  BY <1>1 DEF ServingsChange, ServingBorn, ServingsKept
<1>4. OnlyRunningServingLives'
  <2> SUFFICES ASSUME fn'.status.serving.state = "Running",
                      NEW s \in Servings, servings'[s].live
               PROVE  s = fn'.status.serving.ref
    BY DEF OnlyRunningServingLives
  <2>1. CASE ServingBorn
    <3>1. pc = "CreateServing" /\ ~Wrote(fn'.status)
      BY <2>1 DEF ServingBorn, Wrote, WroteReset, WroteSkip, WroteBuilder, WroteResult,
         WroteNoServing, WroteSkipServing, WroteServing, WroteServingState, WroteRunning, WroteRoute
    <3> QED BY <1>1, <3>1 DEF Moves, AloneInv, ResetServingPCs
  <2>2. CASE ServingsKept
    <3>1. servings[s].live
      BY <2>2 DEF ServingsKept
    <3>2. CASE fn'.status = fn.status
      BY <3>1, <3>2 DEF AloneInv, OnlyRunningServingLives
    <3>3. CASE Wrote(fn'.status) /\ local = fn
      <4>1. CASE pc = "RecordRunning"
        <5>1. fn'.status.serving.ref = st.serving.ref
          BY <3>3, <4>1 DEF Wrote, WroteReset, WroteSkip, WroteBuilder, WroteResult, WroteNoServing,
             WroteSkipServing, WroteServing, WroteServingState, WroteRunning, WroteRoute
        <5> QED BY <3>1, <4>1, <5>1 DEF AloneInv
      <4>2. CASE pc # "RecordRunning"
        BY <1>2, <3>1, <3>3, <4>2 DEF AloneInv, OnlyRunningServingLives
      <4> QED BY <4>1, <4>2
    <3> QED BY <1>1, <3>2, <3>3 DEF Moves
  <2> QED BY <1>1, <2>1, <2>2 DEF ServingsChange
<1>5. ASSUME pc' \in SeeingPCs, NEW s \in Servings, servings'[s].live
      PROVE  servingCache'[s].live
  <2>1. CASE Starts
    <3>1. StartReconcile
      BY <2>1, WhoStarts DEF Starts, CleanOldServing
    <3> QED BY <1>5, <3>1 DEF StartReconcile, Disturb, api, caches
  <2>2. CASE ~Starts
    <3>1. pc \in SeeingPCs
      BY <1>1, <1>5, <2>2 DEF Moves, Gone, Rests, Walks, Writes, SeeingPCs,
         WroteReset, WroteSkip, WroteBuilder, WroteResult
    <3>2. servings[s].live
      BY <1>3, <1>5 DEF SeeingPCs
    <3> QED BY <1>1, <1>5, <3>1, <3>2 DEF AloneInv, ServingCacheAdvance
  <2> QED BY <2>1, <2>2
<1>6. ASSUME pc' \in ResetServingPCs
      PROVE  fn'.status.serving.state # "Running"
  <2>1. CASE pc \in ResetServingPCs
    <3>1. CASE fn'.status = fn.status
      BY <2>1, <3>1 DEF AloneInv
    <3>2. CASE Wrote(fn'.status) /\ local = fn
      BY <1>2, <2>1, <3>2 DEF AloneInv, ResetServingPCs
    <3> QED BY <1>1, <3>1, <3>2 DEF Moves
  <2>2. CASE pc \notin ResetServingPCs
    <3>1. Writes /\ WroteNoServing(local'.status)
      BY <1>1, <1>6, <2>2 DEF Moves, Gone, Rests, Starts, Walks, Writes, ResetServingPCs
    <3> QED BY <3>1 DEF Writes, WroteNoServing
  <2> QED BY <2>1, <2>2
<1>7. ASSUME pc' = "RecordRunning", NEW s \in Servings, servings'[s].live
      PROVE  s = local'.status.serving.ref
  <2>0. servings[s].live
    BY <1>3, <1>7
  <2>1. CASE Rests
    BY <1>7, <2>0, <2>1 DEF Rests, AloneInv
  <2>2. CASE ~Rests
    <3>1. pc = "CleanOldServing" /\ local' = local
      BY <1>1, <1>7, <2>2 DEF Moves, Gone, Starts, Walks, Writes
    <3>2. CleanOldServing
      BY <1>7, <3>1, WhoStarts DEF StartReconcile
    <3>3. servings' = [x \in Servings |-> [servings[x] EXCEPT !.live =
                         @ /\ x \notin Redundant(st.serving.ref, st.serving.ref)]]
      BY <1>7, <3>2 DEF CleanOldServing, DeleteServings, Fail
    <3>4. s \notin Redundant(st.serving.ref, st.serving.ref)
      BY <1>7, <3>3 DEF TypeInv, TypeOK, Serving
    <3>5. servingCache[s].live
      BY <2>0, <3>1 DEF AloneInv, SeeingPCs
    <3> QED BY <3>1, <3>4, <3>5 DEF Redundant
  <2> QED BY <2>1, <2>2
<1> QED BY <1>4, <1>5, <1>6, <1>7 DEF AloneInv

LEMMA InitAlone == Init => AloneInv
<1> SUFFICES ASSUME Init PROVE AloneInv
  OBVIOUS
<1>1. fn.status.serving.state = "Nil"
  <2>1. \E sp \in Specs : fn = [spec |-> sp, status |-> InitStatus]
    BY DEF Init
  <2>2. InitStatus.serving.state = "Nil"
    BY DEF InitStatus, EmptyServing
  <2> QED BY <2>1, <2>2
<1> QED BY <1>1 DEF Init, AloneInv, OnlyRunningServingLives, SeeingPCs, ResetServingPCs

\* When passes start with caches that hold every serving, a function reported as
\* running has no other serving left: the others are deleted before the status says
\* so, and none is created before the status was reset (updateFuncWithServingStatus,
\* cleanServing, createServing).
THEOREM OnlyRunningServingHolds ==
  ASSUME "lag" \notin Disturbances
  PROVE  Spec => []OnlyRunningServingLives
<1>1. TypeInv /\ BuildInv /\ AloneInv /\ [Next]_vars => AloneInv'
  BY AloneStep
<1>2. AloneInv => OnlyRunningServingLives
  BY DEF AloneInv
<1> QED BY <1>1, <1>2, InitAlone, Invariants, PTL DEF Spec
=============================================================================
