---------------------- MODULE FunctionController_proofs ----------------------
(* Proofs about the Function reconciler, for every set of specs, every     *)
(* number of builders, servings, edits and disturbances, and all limits.   *)
EXTENDS FunctionProperties, TLAPS

-----------------------------------------------------------------------------
(* Types of what the reconciler computes                                   *)

\* The recorded hash of a build is a builder spec (createBuilderSpec).
LEMMA BuilderSpecType ==
  ASSUME NEW s \in SpecType
  PROVE  BuilderSpecOf(s) \in BuilderHashes
BY DEF BuilderSpecOf, SpecType, BuilderHashes, EmptyBuilderSpec

\* The recorded hash of a serving is a serving spec (createServingSpec).
LEMMA ServingSpecType ==
  ASSUME NEW f \in Function
  PROVE  ServingSpecOf(f) \in ServingHashes
BY BoundsAssumption DEF ServingSpecOf, Function, SpecType, Status, ServingHashes, EmptyServingSpec

\* Deleting children changes no type.
LEMMA DeleteType ==
  ASSUME builders \in [Builders -> Builder], servings \in [Servings -> Serving],
         NEW D
  PROVE  /\ [b \in Builders |-> [builders[b] EXCEPT !.live = @ /\ b \notin D]]
              \in [Builders -> Builder]
         /\ [s \in Servings |-> [servings[s] EXCEPT !.live = @ /\ s \notin D]]
              \in [Servings -> Serving]
BY DEF Builder, Serving

\* A reset serving condition is one.
LEMMA EmptyServingType == EmptyServing \in ServingCondition
BY BoundsAssumption DEF EmptyServing, ServingCondition, ServingStates

\* The worker without a request holds no function.
LEMMA NoFunctionType == NoFunction \in Function
<1>1. NoFunction.spec \in SpecType
  BY DEF NoFunction, SpecType
<1>2. [state |-> "", ref |-> 0, hash |-> NoHash] \in BuildCondition
  BY BoundsAssumption DEF BuildCondition, BuildStates
<1>3. [EmptyServing EXCEPT !.state = "Nil"] \in ServingCondition
  BY EmptyServingType DEF ServingCondition, ServingStates
<1>4. 0 \in 0 .. MaxBuilders
  BY BoundsAssumption
<1>5. InitStatus \in Status
  BY <1>2, <1>3, <1>4 DEF InitStatus, Status
<1> QED BY <1>1, <1>5 DEF NoFunction, Function

\* What a status update can do: take effect and go on, take effect and fail all
\* the same, or just fail.
LEMMA WriteStatusCases ==
  ASSUME NEW new, NEW next, WriteStatus(new, next), cacheFresh \in BOOLEAN
  PROVE  \/ /\ localFresh /\ fn' = [fn EXCEPT !.status = new]
            /\ local' = [local EXCEPT !.status = new]
            /\ cacheFresh' = (cacheFresh /\ new = fn.status)
            /\ pc' = next /\ UNCHANGED <<queued, localFresh, disturb>>
         \/ /\ Fail /\ localFresh /\ fn' = [fn EXCEPT !.status = new]
            /\ cacheFresh' = (cacheFresh /\ new = fn.status)
            /\ UNCHANGED disturb \/ Disturb("write")
         \/ /\ Fail /\ UNCHANGED <<fn, cacheFresh>>
            /\ UNCHANGED disturb \/ Disturb("write")
BY DEF WriteStatus

\* A status update keeps the types, and leaves the spec of the copy alone.
LEMMA WriteStatusType ==
  ASSUME TypeInv, NEW new \in Status, NEW next \in PCs, WriteStatus(new, next)
  PROVE  /\ fn' \in Function /\ cacheFresh' \in BOOLEAN
         /\ pc' \in PCs /\ queued' \in BOOLEAN
         /\ local' \in Function /\ localFresh' \in BOOLEAN
         /\ disturb' \in 0 .. MaxDisturb
         /\ pc' = "Idle" \/ (pc' = next /\ local'.spec = local.spec)
<1>0. cacheFresh' \in BOOLEAN
  BY WriteStatusCases DEF TypeInv, TypeOK
<1>1. fn \in Function /\ local \in Function /\ disturb \in 0 .. MaxDisturb
  BY DEF TypeInv, TypeOK
<1>2. [fn EXCEPT !.status = new] \in Function /\ [local EXCEPT !.status = new] \in Function
      /\ [local EXCEPT !.status = new].spec = local.spec
  BY <1>1 DEF Function
<1>3. NoFunction \in Function /\ "Idle" \in PCs
  BY NoFunctionType DEF PCs
<1>4. (UNCHANGED disturb \/ Disturb("write")) => disturb' \in 0 .. MaxDisturb
  BY <1>1, BoundsAssumption DEF Disturb
<1>5. CASE /\ fn' = [fn EXCEPT !.status = new] /\ local' = [local EXCEPT !.status = new]
           /\ pc' = next /\ UNCHANGED <<queued, localFresh, disturb>>
  BY <1>0, <1>2, <1>5 DEF TypeInv, TypeOK
<1>6. CASE /\ Fail /\ fn' \in {fn, [fn EXCEPT !.status = new]}
           /\ UNCHANGED disturb \/ Disturb("write")
  <2>1. disturb' \in 0 .. MaxDisturb
    BY <1>4, <1>6
  <2>2. fn' \in Function
    BY <1>1, <1>2, <1>6
  <2> QED
    BY <1>0, <1>3, <1>6, <2>1, <2>2 DEF Fail
<1> QED
  <2>1. \/ /\ fn' = [fn EXCEPT !.status = new] /\ local' = [local EXCEPT !.status = new]
           /\ pc' = next /\ UNCHANGED <<queued, localFresh, disturb>>
        \/ /\ Fail /\ fn' \in {fn, [fn EXCEPT !.status = new]}
           /\ UNCHANGED disturb \/ Disturb("write")
    BY WriteStatusCases DEF TypeInv, TypeOK
  <2> QED BY <1>5, <1>6, <2>1

\* Every status the reconcile writes about the build is a status.
LEMMA BuildWritesType ==
  ASSUME TypeInv
  PROVE  /\ [local.status EXCEPT !.build.state = "", !.build.ref = 0] \in Status
         /\ [local.status EXCEPT
               !.build = [state |-> "Skipped", ref |-> 0, hash |-> EmptyBuilderSpec],
               !.serving = EmptyServing] \in Status
         /\ [local.status EXCEPT !.build = CreatedBuild(local)] \in Status
         /\ BuilderStarted(local) => WithBuildResult(local) \in Status
<1>1. /\ local.status \in Status /\ local.spec \in SpecType
      /\ local.status.build \in BuildCondition /\ local.status.serving \in ServingCondition
      /\ builderNum \in 0 .. MaxBuilders /\ builderCache \in [Builders -> Builder]
  BY DEF TypeInv, TypeOK, Function, Status
<1>2. /\ 0 \in 0 .. MaxBuilders /\ {"", "Skipped", "Created"} \subseteq BuildStates
      /\ "" \in ServingStates
  BY BoundsAssumption DEF BuildStates, ServingStates
<1>3. [local.status EXCEPT !.build.state = "", !.build.ref = 0] \in Status
  BY <1>1, <1>2 DEF Status, BuildCondition
<1>4. [local.status EXCEPT
         !.build = [state |-> "Skipped", ref |-> 0, hash |-> EmptyBuilderSpec],
         !.serving = EmptyServing] \in Status
  <2>1. [state |-> "Skipped", ref |-> 0, hash |-> EmptyBuilderSpec] \in BuildCondition
    BY <1>2 DEF BuildCondition, BuilderHashes, EmptyBuilderSpec
  <2> QED BY <1>1, <2>1, EmptyServingType DEF Status
<1>5. [local.status EXCEPT !.build = CreatedBuild(local)] \in Status
  <2>1. CreatedBuild(local) \in BuildCondition
    BY <1>1, <1>2, BuilderSpecType DEF CreatedBuild, BuildCondition
  <2> QED BY <1>1, <2>1 DEF Status
<1>6. ASSUME BuilderStarted(local) PROVE WithBuildResult(local) \in Status
  <2>1. local.status.build.ref \in Builders
    <3>1. local.status.build.ref \in 0 .. MaxBuilders /\ local.status.build.ref # 0
      BY <1>1, <1>6 DEF BuilderStarted, BuildCondition
    <3> QED BY <3>1, BoundsAssumption DEF Builders
  <2>2. /\ builderCache[local.status.build.ref].state \in BuildStates
        /\ local.status.build.ref \in 0 .. MaxBuilders
    BY <1>1, <2>1 DEF Builder, BuildCondition
  <2>3. [local.status EXCEPT !.build.state = builderCache[local.status.build.ref].state] \in Status
    BY <1>1, <2>2 DEF Status, BuildCondition
  <2>4. \A t \in Status : \A r \in 0 .. MaxBuilders :
          [t EXCEPT !.revision = r, !.serving.state = ""] \in Status
    BY <1>2 DEF Status, ServingCondition
  <2>5. local.status.revision \in 0 .. MaxBuilders
    BY <1>1 DEF Status
  <2> QED BY <1>1, <2>2, <2>3, <2>4, <2>5 DEF WithBuildResult, Status
<1> QED BY <1>3, <1>4, <1>5, <1>6

\* And every status it writes about the serving and the route.
LEMMA ServingWritesType ==
  ASSUME TypeInv
  PROVE  /\ WithoutServing(local) \in Status
         /\ [local.status EXCEPT !.serving =
               [EmptyServing EXCEPT !.state = "Skipped", !.hash = EmptyServingSpec]] \in Status
         /\ [local.status EXCEPT !.serving =
               [state |-> "Created", ref |-> servingNum, last |-> local.status.serving.last,
                service |-> 0, hash |-> ServingSpecOf(local)]] \in Status
         /\ \A x \in ServingStates :
              [local.status EXCEPT !.serving.state = x] \in Status
         /\ \A x \in {0, local.status.serving.ref} :
              [local.status EXCEPT !.serving.state = "Running",
                                   !.serving.last = local.status.serving.ref,
                                   !.serving.service = x] \in Status
         /\ local.spec.serving \in HttpImpls =>
              [local.status EXCEPT !.route = local.spec.serving] \in Status
<1>1. /\ local \in Function /\ local.status \in Status
      /\ local.status.serving \in ServingCondition
      /\ servingNum \in 0 .. MaxServings
  BY DEF TypeInv, TypeOK, Function, Status
<1>2. /\ 0 \in 0 .. MaxServings /\ {"", "Skipped", "Created", "Running"} \subseteq ServingStates
      /\ EmptyServingSpec \in ServingHashes
  BY BoundsAssumption DEF ServingStates, EmptyServingSpec, ServingHashes
<1>3. \A c \in ServingCondition : [local.status EXCEPT !.serving = c] \in Status
  BY <1>1 DEF Status
<1>4. WithoutServing(local) \in Status
  BY <1>1, <1>2 DEF WithoutServing, Status, ServingCondition
<1>5. [EmptyServing EXCEPT !.state = "Skipped", !.hash = EmptyServingSpec] \in ServingCondition
  BY <1>2, EmptyServingType DEF ServingCondition
<1>6. [state |-> "Created", ref |-> servingNum, last |-> local.status.serving.last,
       service |-> 0, hash |-> ServingSpecOf(local)] \in ServingCondition
  BY <1>1, <1>2, ServingSpecType DEF ServingCondition
<1>7. \A x \in ServingStates : [local.status EXCEPT !.serving.state = x] \in Status
  BY <1>1 DEF Status, ServingCondition
<1>8. \A x \in {0, local.status.serving.ref} :
        [local.status EXCEPT !.serving.state = "Running",
                             !.serving.last = local.status.serving.ref,
                             !.serving.service = x] \in Status
  BY <1>1, <1>2 DEF Status, ServingCondition
<1>9. local.spec.serving \in HttpImpls =>
        [local.status EXCEPT !.route = local.spec.serving] \in Status
  BY <1>1 DEF Status
<1> QED BY <1>3, <1>4, <1>5, <1>6, <1>7, <1>8, <1>9

\* The steps that write a status and nothing else keep the types.
LEMMA WriteStepType ==
  ASSUME TypeInv, NEW new \in Status, NEW next \in PCs \ {"RouteStatus"},
         WriteStatus(new, next),
         UNCHANGED <<builders, servings, builderNum, servingNum, httpRoute, service,
                     fnCache, builderCache, servingCache, edits>>
  PROVE  TypeInv'
BY WriteStatusType DEF TypeInv, TypeOK

\* The steps that only move the worker keep the types.
LEMMA MoveType ==
  ASSUME TypeInv
  PROVE  /\ \A next \in PCs : Goto(next) =>
              pc' \in PCs /\ queued' \in BOOLEAN /\ local' = local /\ localFresh' \in BOOLEAN
              /\ pc' = next
         /\ Fail \/ Return =>
              pc' \in PCs /\ queued' \in BOOLEAN /\ local' \in Function /\ localFresh' \in BOOLEAN
              /\ pc' = "Idle"
         /\ \A kind : Disturb(kind) => disturb' \in 0 .. MaxDisturb
<1>1. "Idle" \in PCs
  BY DEF PCs
<1>2. ASSUME NEW next \in PCs, Goto(next)
      PROVE  /\ pc' \in PCs /\ queued' \in BOOLEAN /\ local' = local
             /\ localFresh' \in BOOLEAN /\ pc' = next
  BY <1>2 DEF Goto, TypeInv, TypeOK
<1>3. Fail \/ Return =>
        pc' \in PCs /\ queued' \in BOOLEAN /\ local' \in Function /\ localFresh' \in BOOLEAN
        /\ pc' = "Idle"
  BY <1>1, NoFunctionType DEF Fail, Return, TypeInv, TypeOK
<1>4. ASSUME NEW kind, Disturb(kind) PROVE disturb' \in 0 .. MaxDisturb
  BY <1>4, BoundsAssumption DEF Disturb, TypeInv, TypeOK
<1> QED BY <1>2, <1>3, <1>4

\* Steps that delete builders (pruneBuilder) or servings (cleanServing) keep the types.
LEMMA DeleteStepType ==
  ASSUME TypeInv, NEW T, NEW next \in PCs \ {"RouteStatus"},
         UNCHANGED <<fn, builderNum, servingNum, httpRoute, service, caches, edits>>,
         \/ DeleteBuilders(T, next) /\ UNCHANGED servings
         \/ DeleteServings(T, next) /\ UNCHANGED builders
  PROVE  TypeInv'
<1>1. builders' \in [Builders -> Builder] /\ servings' \in [Servings -> Serving]
  <2>1. CASE DeleteBuilders(T, next) /\ UNCHANGED servings
    <3>1. \E D : builders' = [b \in Builders |-> [builders[b] EXCEPT !.live = @ /\ b \notin D]]
      BY <2>1 DEF DeleteBuilders
    <3> QED BY <2>1, <3>1, DeleteType DEF TypeInv, TypeOK
  <2>2. CASE DeleteServings(T, next) /\ UNCHANGED builders
    <3>1. \E D : servings' = [s \in Servings |-> [servings[s] EXCEPT !.live = @ /\ s \notin D]]
      BY <2>2 DEF DeleteServings
    <3> QED BY <2>2, <3>1, DeleteType DEF TypeInv, TypeOK
  <2> QED BY <2>1, <2>2
<1>2. /\ pc' \in PCs \ {"RouteStatus"} /\ queued' \in BOOLEAN
      /\ local' \in Function /\ localFresh' \in BOOLEAN
      /\ disturb' \in 0 .. MaxDisturb
  BY MoveType DEF DeleteBuilders, DeleteServings, TypeInv, TypeOK
<1> QED BY <1>1, <1>2 DEF TypeInv, TypeOK, caches

\* Every step of the reconcile keeps the types.
LEMMA ReconcileStepType ==
  ASSUME TypeInv, ReconcileStep
  PROVE  TypeInv'
<1> USE DEF PCs
<1>1. CASE StartReconcile
  BY <1>1, MoveType DEF StartReconcile, TypeInv, TypeOK, api, caches
<1>2. CASE ResetBuild
  BY <1>2, BuildWritesType, WriteStepType DEF ResetBuild
<1>3. CASE CancelOldBuilder
  <2>1. \A C : [b \in Builders |-> [builders[b] EXCEPT !.cancel = @ \/ b \in C]]
                \in [Builders -> Builder]
    BY DEF TypeInv, TypeOK, Builder
  <2>2. builders' \in [Builders -> Builder]
    <3>1. \/ builders' = builders
          \/ \E C : builders' = [b \in Builders |-> [builders[b] EXCEPT !.cancel = @ \/ b \in C]]
      BY <1>3 DEF CancelOldBuilder
    <3> QED BY <2>1, <3>1 DEF TypeInv, TypeOK
  <2>3. /\ pc' \in PCs \ {"RouteStatus"} /\ queued' \in BOOLEAN
        /\ local' \in Function /\ localFresh' \in BOOLEAN /\ disturb' \in 0 .. MaxDisturb
    BY <1>3, MoveType DEF CancelOldBuilder, TypeInv, TypeOK
  <2> QED BY <1>3, <2>2, <2>3 DEF CancelOldBuilder, TypeInv, TypeOK, caches
<1>4. CASE PruneOldBuilders
  BY <1>4, DeleteStepType DEF PruneOldBuilders
<1>5. CASE SkipBuild
  BY <1>5, BuildWritesType, WriteStepType DEF SkipBuild
<1>6. CASE CreateBuilder
  <2> DEFINE b == [NoBuilder EXCEPT !.live = TRUE, !.spec = BuilderSpecOf(local.spec)]
  <2>1. b \in Builder
    BY BuilderSpecType DEF TypeInv, TypeOK, Function, NoBuilder, Builder, BuildStates
  <2>2. [builders EXCEPT ![builderNum + 1] = b] \in [Builders -> Builder]
    BY <2>1 DEF TypeInv, TypeOK
  <2>3. builders' \in [Builders -> Builder] /\ builderNum' \in 0 .. MaxBuilders
    BY <1>6, <2>2, BoundsAssumption DEF CreateBuilder, TypeInv, TypeOK
  <2>4. /\ pc' \in PCs \ {"RouteStatus"} /\ queued' \in BOOLEAN
        /\ local' \in Function /\ localFresh' \in BOOLEAN /\ disturb' \in 0 .. MaxDisturb
    BY <1>6, MoveType DEF CreateBuilder, TypeInv, TypeOK
  <2> QED BY <1>6, <2>3, <2>4 DEF CreateBuilder, TypeInv, TypeOK, caches
<1>7. CASE RecordBuilder
  BY <1>7, BuildWritesType, WriteStepType DEF RecordBuilder
<1>8. CASE SkipBuilderStatus
  BY <1>8, MoveType DEF SkipBuilderStatus, TypeInv, TypeOK, api, caches
<1>9. CASE UpdateBuilderStatus
  <2>1. CASE Goto("PruneBuilder") /\ UNCHANGED <<fn, cacheFresh, disturb>>
    BY <1>9, <2>1, MoveType DEF UpdateBuilderStatus, TypeInv, TypeOK
  <2>2. CASE WriteStatus(WithBuildResult(local), "PruneBuilder")
    BY <1>9, <2>2, BuildWritesType, WriteStepType DEF UpdateBuilderStatus
  <2> QED BY <1>9, <2>1, <2>2 DEF UpdateBuilderStatus
<1>10. CASE PruneBuilder
  BY <1>10, DeleteStepType DEF PruneBuilder
<1>11. CASE ResetServing
  BY <1>11, ServingWritesType, WriteStepType DEF ResetServing
<1>12. CASE CleanServing
  BY <1>12, DeleteStepType DEF CleanServing
<1>13. CASE SkipServing
  BY <1>13, ServingWritesType, WriteStepType DEF SkipServing
<1>14. CASE CreateServing
  <2> DEFINE s == [NoServingObject EXCEPT !.live = TRUE, !.spec = ServingSpecOf(local)]
  <2>1. s \in Serving
    BY ServingSpecType DEF TypeInv, TypeOK, NoServingObject, Serving, ServingStates
  <2>2. [servings EXCEPT ![servingNum + 1] = s] \in [Servings -> Serving]
    BY <2>1 DEF TypeInv, TypeOK
  <2>3. servings' \in [Servings -> Serving] /\ servingNum' \in 0 .. MaxServings
    BY <1>14, <2>2, BoundsAssumption DEF CreateServing, TypeInv, TypeOK
  <2>4. /\ pc' \in PCs \ {"RouteStatus"} /\ queued' \in BOOLEAN
        /\ local' \in Function /\ localFresh' \in BOOLEAN /\ disturb' \in 0 .. MaxDisturb
    BY <1>14, MoveType DEF CreateServing, TypeInv, TypeOK
  <2> QED BY <1>14, <2>3, <2>4 DEF CreateServing, TypeInv, TypeOK, caches
<1>15. CASE AsyncService
  <2>1. service' \in Service
    <3>1. /\ service.type \in {"", "ClusterIP", "ExternalName"} /\ service \in Service
          /\ servingNum \in 0 .. MaxServings
      BY DEF TypeInv, TypeOK, Service
    <3>2. \/ service' = service
          \/ service' = [type |-> IF service.type = "" THEN "ClusterIP" ELSE service.type,
                         selector |-> servingNum]
      BY <1>15 DEF AsyncService
    <3>3. \A t \in {"", "ClusterIP", "ExternalName"} :
            [type |-> t, selector |-> servingNum] \in Service
      BY <3>1 DEF Service
    <3> QED BY <3>1, <3>2, <3>3
  <2>2. /\ pc' \in PCs \ {"RouteStatus"} /\ queued' \in BOOLEAN
        /\ local' \in Function /\ localFresh' \in BOOLEAN /\ disturb' \in 0 .. MaxDisturb
    BY <1>15, MoveType DEF AsyncService, TypeInv, TypeOK
  <2> QED BY <1>15, <2>1, <2>2 DEF AsyncService, TypeInv, TypeOK, caches
<1>16. CASE RecordServing
  BY <1>16, ServingWritesType, WriteStepType DEF RecordServing
<1>17. CASE UpdateServingStatus
  <2> DEFINE seen == servingCache[local.status.serving.ref].state
  <2>1. CASE Goto("HTTPRoute") /\ UNCHANGED <<fn, cacheFresh, disturb>>
    BY <1>17, <2>1, MoveType DEF UpdateServingStatus, TypeInv, TypeOK
  <2>2. CASE Goto("CleanOldServing") /\ UNCHANGED <<fn, cacheFresh, disturb>>
    BY <1>17, <2>2, MoveType DEF UpdateServingStatus, TypeInv, TypeOK
  <2>3. CASE ServingChanged(local)
             /\ WriteStatus([local.status EXCEPT !.serving.state = seen], "HTTPRoute")
    <3>1. local.status.serving.ref \in 0 .. MaxServings /\ local.status.serving.ref # 0
      BY <2>3 DEF ServingChanged, TypeInv, TypeOK, Function, Status, ServingCondition
    <3>2. local.status.serving.ref \in Servings
      BY <3>1, BoundsAssumption DEF Servings
    <3>3. seen \in ServingStates
      BY <3>2 DEF TypeInv, TypeOK, Serving
    <3> QED BY <1>17, <2>3, <3>3, ServingWritesType, WriteStepType DEF UpdateServingStatus
  <2> QED BY <1>17, <2>1, <2>2, <2>3 DEF UpdateServingStatus
<1>18. CASE CleanOldServing
  BY <1>18, DeleteStepType DEF CleanOldServing
<1>19. CASE RecordRunning
  <2> DEFINE ref == local.status.serving.ref
             to == IF servings[ref].spec.impl \in HttpImpls THEN ref ELSE 0
  <2>1. to \in {0, ref}
    OBVIOUS
  <2>2. WriteStatus([local.status EXCEPT !.serving.state = "Running", !.serving.last = ref,
                                         !.serving.service = to], "HTTPRoute")
    BY <1>19 DEF RecordRunning
  <2> QED BY <1>19, <2>1, <2>2, ServingWritesType, WriteStepType DEF RecordRunning
<1>20. CASE FinishReconcile
  BY <1>20, MoveType DEF FinishReconcile, TypeInv, TypeOK, api, caches
<1>21. CASE PanicNilServing
  BY <1>21, NoFunctionType DEF PanicNilServing, TypeInv, TypeOK, api, caches
<1>22. CASE WriteHTTPRoute
  <2>1. httpRoute' \in 0 .. MaxServings
    BY <1>22 DEF WriteHTTPRoute, TypeInv, TypeOK, Function, Status, ServingCondition
  <2>2. /\ pc' \in PCs /\ queued' \in BOOLEAN
        /\ local' \in Function /\ localFresh' \in BOOLEAN /\ disturb' \in 0 .. MaxDisturb
        /\ pc' = "RouteStatus" => local'.spec.serving \in HttpImpls
    BY <1>22, MoveType DEF WriteHTTPRoute, TypeInv, TypeOK
  <2> QED BY <1>22, <2>1, <2>2 DEF WriteHTTPRoute, TypeInv, TypeOK, caches
<1>23. CASE RouteStatus
  <2>1. CASE Goto("Service") /\ UNCHANGED <<fn, cacheFresh, disturb>>
    BY <1>23, <2>1, MoveType DEF RouteStatus, TypeInv, TypeOK
  <2>2. CASE WriteStatus([local.status EXCEPT !.route = local.spec.serving], "Service")
    BY <1>23, <2>2, ServingWritesType, WriteStepType DEF RouteStatus, TypeInv
  <2> QED BY <1>23, <2>1, <2>2 DEF RouteStatus
<1>24. CASE WriteService
  <2>1. service' \in Service
    BY <1>24 DEF WriteService, TypeInv, TypeOK, Service
  <2>2. /\ pc' \in PCs \ {"RouteStatus"} /\ queued' \in BOOLEAN
        /\ local' \in Function /\ localFresh' \in BOOLEAN /\ disturb' \in 0 .. MaxDisturb
    BY <1>24, MoveType DEF WriteService, TypeInv, TypeOK
  <2> QED BY <1>24, <2>1, <2>2 DEF WriteService, TypeInv, TypeOK, caches
<1> QED
  BY <1>1, <1>2, <1>3, <1>4, <1>5, <1>6, <1>7, <1>8, <1>9, <1>10, <1>11, <1>12, <1>13, <1>14, <1>15, <1>16, <1>17, <1>18, <1>19, <1>20, <1>21, <1>22, <1>23, <1>24 DEF ReconcileStep

\* So do the informers, the other reconcilers, users and restarts.
LEMMA EnvironmentStepType ==
  ASSUME TypeInv, [Next]_vars, ~ReconcileStep
  PROVE  TypeInv'
<1>1. CASE SyncFunction \/ SyncBuilders \/ SyncServings
  BY <1>1 DEF SyncFunction, SyncBuilders, SyncServings, TypeInv, TypeOK, api
<1>2. CASE Crash \/ RestartAfterPanic
  <2>1. disturb' \in 0 .. MaxDisturb
    BY <1>2, MoveType DEF Crash, RestartAfterPanic, TypeInv, TypeOK
  <2>2. Restart
    BY <1>2 DEF Crash, RestartAfterPanic
  <2> QED
    BY <2>1, <2>2, NoFunctionType DEF Restart, TypeInv, TypeOK, api, PCs
<1>3. ASSUME NEW b \in Builders, CleanExpiredBuilder(b) \/ DeleteBuilder(b) \/ BuilderProgress(b)
      PROVE  TypeInv'
  <2>1. builders \in [Builders -> Builder]
    BY DEF TypeInv, TypeOK
  <2>2. \E r \in Builder : builders' = [builders EXCEPT ![b] = r]
    <3>1. CASE CleanExpiredBuilder(b) \/ DeleteBuilder(b)
      <4>1. [builders[b] EXCEPT !.live = FALSE] \in Builder
        BY <2>1 DEF Builder
      <4>2. builders' = [builders EXCEPT ![b] = [builders[b] EXCEPT !.live = FALSE]]
        BY <2>1, <3>1 DEF CleanExpiredBuilder, DeleteBuilder
      <4> QED BY <4>1, <4>2
    <3>2. CASE BuilderProgress(b)
      <4>1. \A x \in BuildStates, y \in BOOLEAN :
              /\ [builders[b] EXCEPT !.state = x, !.started = y] \in Builder
              /\ [builders[b] EXCEPT !.state = x, !.digest = y] \in Builder
              /\ [builders[b] EXCEPT !.state = x] \in Builder
        BY <2>1 DEF Builder
      <4>2. {"Building", "Timeout", "Succeeded", "Failed", "Canceled"} \subseteq BuildStates
        BY DEF BuildStates
      <4>3. \/ builders' = [builders EXCEPT ![b] =
                              [builders[b] EXCEPT !.state = "Building", !.started = TRUE]]
            \/ builders' = [builders EXCEPT ![b] = [builders[b] EXCEPT !.state = "Timeout"]]
            \/ \E d \in BOOLEAN : builders' =
                 [builders EXCEPT ![b] = [builders[b] EXCEPT !.state = "Succeeded", !.digest = d]]
            \/ \E x \in {"Failed", "Canceled"} :
                 builders' = [builders EXCEPT ![b] = [builders[b] EXCEPT !.state = x]]
        BY <2>1, <3>2 DEF BuilderProgress
      <4> QED BY <4>1, <4>2, <4>3
    <3> QED BY <1>3, <3>1, <3>2
  <2>3. builders' \in [Builders -> Builder]
    BY <2>1, <2>2
  <2>4. disturb' \in 0 .. MaxDisturb
    BY <1>3, MoveType DEF CleanExpiredBuilder, DeleteBuilder, BuilderProgress, TypeInv, TypeOK
  <2> QED
    BY <1>3, <2>3, <2>4
       DEF CleanExpiredBuilder, DeleteBuilder, BuilderProgress, TypeInv, TypeOK, caches, worker
<1>4. ASSUME NEW s \in Servings, ServingProgress(s) \/ ServingFlap(s) \/ DeleteServing(s)
      PROVE  TypeInv'
  <2>1. servings \in [Servings -> Serving]
    BY DEF TypeInv, TypeOK
  <2>2. \E r \in Serving : servings' = [servings EXCEPT ![s] = r]
    <3>1. CASE DeleteServing(s)
      <4>1. [servings[s] EXCEPT !.live = FALSE] \in Serving
        BY <2>1 DEF Serving
      <4>2. servings' = [servings EXCEPT ![s] = [servings[s] EXCEPT !.live = FALSE]]
        BY <2>1, <3>1 DEF DeleteServing
      <4> QED BY <4>1, <4>2
    <3>2. CASE ServingProgress(s) \/ ServingFlap(s)
      <4>1. \A x \in ServingStates, y \in BOOLEAN :
              /\ [servings[s] EXCEPT !.state = x, !.started = y] \in Serving
              /\ [servings[s] EXCEPT !.state = x] \in Serving
        BY <2>1 DEF Serving
      <4>2. {"Starting", "Timeout", "Running", "Failed"} \subseteq ServingStates
        BY DEF ServingStates
      <4>3. \/ servings' = [servings EXCEPT ![s] =
                              [servings[s] EXCEPT !.state = "Starting", !.started = TRUE]]
            \/ \E x \in {"Running", "Failed", "Timeout"} :
                 servings' = [servings EXCEPT ![s] = [servings[s] EXCEPT !.state = x]]
        BY <2>1, <3>2 DEF ServingProgress, ServingFlap
      <4> QED BY <4>1, <4>2, <4>3
    <3> QED BY <1>4, <3>1, <3>2
  <2>3. servings' \in [Servings -> Serving]
    BY <2>1, <2>2
  <2>4. disturb' \in 0 .. MaxDisturb
    BY <1>4, MoveType DEF ServingProgress, ServingFlap, DeleteServing, TypeInv, TypeOK
  <2> QED
    BY <1>4, <2>3, <2>4
       DEF ServingProgress, ServingFlap, DeleteServing, TypeInv, TypeOK, caches, worker
<1>5. CASE EditSpec
  <2>1. fn' \in Function
    BY <1>5, SpecsAssumption DEF EditSpec, TypeInv, TypeOK, Function
  <2>2. edits' \in 0 .. MaxEdits
    BY <1>5, BoundsAssumption DEF EditSpec, TypeInv, TypeOK
  <2> QED BY <1>5, <2>1, <2>2 DEF EditSpec, TypeInv, TypeOK
<1>6. CASE UNCHANGED vars
  BY <1>6 DEF vars, api, caches, worker, TypeInv, TypeOK
<1> QED BY <1>1, <1>2, <1>3, <1>4, <1>5, <1>6 DEF Next

\* The initial state is well typed: a user applied one of the specs.
LEMMA InitType == Init => TypeInv
<1> SUFFICES ASSUME Init PROVE TypeInv
  OBVIOUS
<1>1. fn \in Function
  <2>1. InitStatus \in Status
    BY NoFunctionType DEF NoFunction, Function
  <2>2. PICK s \in Specs : fn = [spec |-> s, status |-> InitStatus]
    BY DEF Init
  <2>3. s \in SpecType
    BY SpecsAssumption
  <2> QED BY <2>1, <2>2, <2>3 DEF Function
<1>2. NoBuilder \in Builder
  BY DEF NoBuilder, Builder, EmptyBuilderSpec, BuilderHashes, BuildStates
<1>3. NoServingObject \in Serving
  BY BoundsAssumption
     DEF NoServingObject, Serving, EmptyServingSpec, ServingHashes, ServingStates
<1>4. service \in Service
  <2>1. 0 \in 0 .. MaxServings /\ "" \in {"", "ClusterIP", "ExternalName"}
    BY BoundsAssumption
  <2> QED BY <2>1 DEF Init, Service
<1>5. /\ 0 \in 0 .. MaxServings /\ 0 \in 0 .. MaxBuilders
      /\ 0 \in 0 .. MaxEdits /\ 0 \in 0 .. MaxDisturb
  BY BoundsAssumption
<1>6. builders \in [Builders -> Builder] /\ servings \in [Servings -> Serving]
  BY <1>2, <1>3 DEF Init
<1> QED
  BY <1>1, <1>4, <1>5, <1>6, NoFunctionType DEF Init, TypeInv, TypeOK, PCs

\* The state of the Function, of its children and of the caches stays well typed
\* whatever the bounds: in particular no reference leaves the names handed out.
THEOREM TypeCorrect == Spec => []TypeOK
<1>1. Init => TypeInv
  BY InitType
<1>2. TypeInv /\ [Next]_vars => TypeInv'
  BY ReconcileStepType, EnvironmentStepType
<1>3. TypeInv => TypeOK
  BY DEF TypeInv
<1> QED BY <1>1, <1>2, <1>3, PTL DEF Spec

-----------------------------------------------------------------------------
(* What is recorded about builds                                           *)

\* What every step does to the builders: a new name is the next one, a builder
\* keeps its spec, and a success and its digest are final.
BuildersAdvance ==
  /\ builderNum <= builderNum'
  /\ \A b \in Builders :
       /\ b <= builderNum =>
            /\ builders'[b].spec = builders[b].spec
            /\ IsSucceeded(builders[b]) =>
                 IsSucceeded(builders'[b]) /\ builders'[b].digest = builders[b].digest
       /\ b > builderNum' => ~builders'[b].live /\ builders'[b].state = ""

\* The informer shows what it showed, or what there is.
CacheAdvance ==
  builderCache' = builderCache \/ (builderCache' = builders /\ builders' = builders)

\* Only createBuilder, cancelOldBuilder, pruneBuilder, expiry, other clients and
\* the Builder reconciler touch builders, and none of them undoes a success.
LEMMA BuildersAdvanceStep ==
  ASSUME TypeInv, UnbornBuilders, [Next]_vars
  PROVE  BuildersAdvance /\ CacheAdvance
<1>1. /\ builders \in [Builders -> Builder] /\ builderNum \in 0 .. MaxBuilders
      /\ builderNum \in Nat /\ Builders \subseteq Nat
  BY BoundsAssumption DEF TypeInv, TypeOK, Builders
<1>2. ASSUME builderNum' = builderNum,
             \A b \in Builders :
               /\ builders'[b].spec = builders[b].spec /\ builders'[b].state = builders[b].state
               /\ builders'[b].digest = builders[b].digest
               /\ builders'[b].live => builders[b].live
      PROVE  BuildersAdvance
  <2>1. builderNum <= builderNum'
    BY <1>1, <1>2
  <2> QED BY <1>2, <2>1 DEF BuildersAdvance, UnbornBuilders, IsSucceeded
<1>3. ASSUME UNCHANGED <<builders, builderNum>>
      PROVE  BuildersAdvance
  <2>1. builders' = builders /\ builderNum' = builderNum
    BY <1>3
  <2> QED BY <1>2, <2>1
<1>4. CASE PruneOldBuilders \/ PruneBuilder
  <2>1. builderNum' = builderNum /\ builderCache' = builderCache
    BY <1>4 DEF PruneOldBuilders, PruneBuilder, caches
  <2>2. \E D : builders' = [b \in Builders |-> [builders[b] EXCEPT !.live = @ /\ b \notin D]]
    BY <1>4 DEF PruneOldBuilders, PruneBuilder, DeleteBuilders
  <2>3. \A b \in Builders :
          /\ builders'[b].spec = builders[b].spec /\ builders'[b].state = builders[b].state
          /\ builders'[b].digest = builders[b].digest
          /\ builders'[b].live => builders[b].live
    BY <1>1, <2>2 DEF Builder
  <2> QED BY <1>2, <2>1, <2>3 DEF CacheAdvance
<1>5. CASE CancelOldBuilder
  <2>1. builderNum' = builderNum /\ builderCache' = builderCache
    BY <1>5 DEF CancelOldBuilder, caches
  <2>2. \/ builders' = builders
        \/ \E C : builders' = [b \in Builders |-> [builders[b] EXCEPT !.cancel = @ \/ b \in C]]
    BY <1>5 DEF CancelOldBuilder
  <2>3. \A b \in Builders :
          /\ builders'[b].spec = builders[b].spec /\ builders'[b].state = builders[b].state
          /\ builders'[b].digest = builders[b].digest
          /\ builders'[b].live => builders[b].live
    BY <1>1, <2>2 DEF Builder
  <2> QED BY <1>2, <2>1, <2>3 DEF CacheAdvance
<1>6. CASE CreateBuilder
  <2>1. builderCache' = builderCache
    BY <1>6 DEF CreateBuilder, caches
  <2>2. CASE UNCHANGED <<builders, builderNum>>
    BY <1>3, <2>1, <2>2 DEF CacheAdvance
  <2>3. CASE /\ builderNum' = builderNum + 1
             /\ \E r : builders' = [builders EXCEPT ![builderNum + 1] = r]
    <3>1. PICK r : builders' = [builders EXCEPT ![builderNum + 1] = r]
      BY <2>3
    <3>2. \A b \in Builders : b # builderNum + 1 => builders'[b] = builders[b]
      BY <1>1, <3>1
    <3>3. \A b \in Builders :
            /\ b <= builderNum => b # builderNum + 1
            /\ b > builderNum' => b # builderNum + 1 /\ b > builderNum
      BY <1>1, <2>3
    <3>4. builderNum <= builderNum'
      BY <1>1, <2>3
    <3> QED BY <2>1, <3>2, <3>3, <3>4 DEF BuildersAdvance, CacheAdvance, UnbornBuilders
  <2> QED BY <1>6, <2>2, <2>3 DEF CreateBuilder
<1>7. ASSUME NEW b \in Builders, CleanExpiredBuilder(b) \/ DeleteBuilder(b) \/ BuilderProgress(b)
      PROVE  BuildersAdvance /\ CacheAdvance
  <2>1. builderNum' = builderNum /\ builderCache' = builderCache /\ builders[b].live
    BY <1>7 DEF CleanExpiredBuilder, DeleteBuilder, BuilderProgress, caches
  <2>2. b <= builderNum /\ b \in Nat
    <3>1. ~(b > builderNum)
      BY <2>1 DEF UnbornBuilders
    <3>2. b \in Nat /\ builderNum \in Nat
      BY <1>1
    <3> QED BY <3>1, <3>2
  <2>3. /\ builders'[b].spec = builders[b].spec
        /\ IsSucceeded(builders[b]) =>
             IsSucceeded(builders'[b]) /\ builders'[b].digest = builders[b].digest
        /\ \A c \in Builders : c # b => builders'[c] = builders[c]
    <3>1. CASE CleanExpiredBuilder(b) \/ DeleteBuilder(b)
      BY <1>1, <3>1 DEF CleanExpiredBuilder, DeleteBuilder, IsSucceeded, Builder
    <3>2. CASE BuilderProgress(b)
      <4>1. builders[b] \in Builder /\ DOMAIN builders = Builders
        BY <1>1
      <4>2. ~IsSucceeded(builders[b])
        BY <3>2 DEF BuilderProgress, TimeoutDue, IsCompleted, IsSucceeded
      <4>3. PICK s, started, digest :
              builders' = [builders EXCEPT ![b] =
                [@ EXCEPT !.state = s, !.started = started, !.digest = digest]]
        <5> DEFINE Ended(s, started, digest) ==
              builders' = [builders EXCEPT ![b] =
                [@ EXCEPT !.state = s, !.started = started, !.digest = digest]]
        <5>1. CASE builders' = [builders EXCEPT ![b].state = "Building", ![b].started = TRUE]
          <6>1. Ended("Building", TRUE, builders[b].digest)
            BY <4>1, <5>1 DEF Builder
          <6> QED BY <6>1
        <5>2. ASSUME NEW s, builders' = [builders EXCEPT ![b].state = s]
              PROVE  \E t, started, digest : Ended(t, started, digest)
          <6>1. Ended(s, builders[b].started, builders[b].digest)
            BY <4>1, <5>2 DEF Builder
          <6> QED BY <6>1
        <5>3. ASSUME NEW d,
                     builders' = [builders EXCEPT ![b].state = "Succeeded", ![b].digest = d]
              PROVE  \E t, started, digest : Ended(t, started, digest)
          <6>1. Ended("Succeeded", builders[b].started, d)
            BY <4>1, <5>3 DEF Builder
          <6> QED BY <6>1
        <5> QED BY <3>2, <5>1, <5>2, <5>3 DEF BuilderProgress
      <4> QED BY <4>1, <4>2, <4>3 DEF Builder
    <3> QED BY <1>7, <3>1, <3>2
  <2>4. \A c \in Builders : c > builderNum => c # b
    BY <1>1, <2>2
  <2>5. builderNum <= builderNum'
    BY <1>1, <2>1
  <2> QED BY <2>1, <2>3, <2>4, <2>5 DEF BuildersAdvance, CacheAdvance, UnbornBuilders
<1>8. CASE SyncBuilders \/ Crash \/ RestartAfterPanic
  <2>1. UNCHANGED <<builders, builderNum>> /\ builderCache' = builders
    BY <1>8 DEF SyncBuilders, Crash, RestartAfterPanic, Restart, api
  <2> QED BY <1>3, <2>1 DEF CacheAdvance
<1>9. ASSUME UNCHANGED <<builders, builderNum, builderCache>>
      PROVE  BuildersAdvance /\ CacheAdvance
  BY <1>3, <1>9 DEF CacheAdvance
<1>10. CASE ReconcileStep
           /\ ~(PruneOldBuilders \/ PruneBuilder \/ CancelOldBuilder \/ CreateBuilder)
  <2>1. UNCHANGED <<builders, builderNum, builderCache>>
    BY <1>10 DEF ReconcileStep, StartReconcile, ResetBuild, SkipBuild, RecordBuilder,
         SkipBuilderStatus, UpdateBuilderStatus, ResetServing, CleanServing, SkipServing,
         CreateServing, AsyncService, RecordServing, UpdateServingStatus, CleanOldServing,
         RecordRunning, FinishReconcile, PanicNilServing, WriteHTTPRoute, RouteStatus,
         WriteService, api, caches
  <2> QED BY <1>9, <2>1
<1>11. ASSUME NEW s \in Servings, ServingProgress(s) \/ ServingFlap(s) \/ DeleteServing(s)
      PROVE  BuildersAdvance /\ CacheAdvance
  <2>1. UNCHANGED <<builders, builderNum, builderCache>>
    BY <1>11 DEF ServingProgress, ServingFlap, DeleteServing, caches
  <2> QED BY <1>9, <2>1
<1>12. CASE SyncFunction \/ SyncServings \/ EditSpec \/ UNCHANGED vars
  <2>1. UNCHANGED <<builders, builderNum, builderCache>>
    BY <1>12 DEF SyncFunction, SyncServings, EditSpec, vars, api, caches
  <2> QED BY <1>9, <2>1
<1> QED BY <1>4, <1>5, <1>6, <1>7, <1>8, <1>10, <1>11, <1>12 DEF Next

\* A builder that succeeded was created.
LEMMA SuccessIsBorn ==
  ASSUME TypeInv, UnbornBuilders, NEW b \in Builders, IsSucceeded(builders[b])
  PROVE  b <= builderNum
<1>1. builderNum \in Nat /\ b \in Nat
  BY BoundsAssumption DEF TypeInv, TypeOK, Builders
<1>2. ~(b > builderNum)
  BY DEF UnbornBuilders, IsSucceeded
<1> QED BY <1>1, <1>2

\* So what a status records about builds stays true as long as it is not rewritten.
LEMMA StatusStaysOK ==
  ASSUME TypeInv, TypeInv', UnbornBuilders, CacheMirrors, BuildersAdvance, CacheAdvance,
         NEW t \in Status, StatusOK(t)
  PROVE  StatusOK(t)'
<1>1. /\ builderNum \in Nat /\ builderNum' \in Nat /\ Builders \subseteq Nat
      /\ \A x \in 0 .. MaxBuilders : x # 0 => x \in Builders
  BY BoundsAssumption DEF TypeInv, TypeOK, Builders
<1>2. t.build.ref \in 0 .. MaxBuilders /\ t.revision \in 0 .. MaxBuilders
  BY DEF Status, BuildCondition
<1>3. \A b \in Builders : IsSucceeded(builders[b]) => b <= builderNum
  BY <1>1, SuccessIsBorn
<1>4. t.revision # 0 => IsSucceeded(builders'[t.revision]) /\ builders'[t.revision].digest
  BY <1>1, <1>2, <1>3 DEF BuildersAdvance, StatusOK, RevisionOK
<1>5. ASSUME t.build.ref # 0
      PROVE  t.build.ref <= builderNum' /\ builders'[t.build.ref].spec = t.build.hash
  <2>1. t.build.ref \in Builders /\ t.build.ref <= builderNum /\ t.build.ref \in Nat
    BY <1>1, <1>2, <1>5 DEF StatusOK, BuildRecordOK
  <2>2. t.build.ref <= builderNum'
    <3>1. builderNum <= builderNum'
      BY DEF BuildersAdvance
    <3> QED BY <1>1, <2>1, <3>1
  <2> QED BY <1>5, <2>1, <2>2 DEF BuildersAdvance, StatusOK, BuildRecordOK
<1>6. ASSUME t.build.state = "Succeeded"
      PROVE  t.build.ref # 0 /\ IsSucceeded(builderCache'[t.build.ref])
  <2>1. t.build.ref # 0 /\ IsSucceeded(builderCache[t.build.ref])
    BY <1>6 DEF StatusOK, BuildRecordOK
  <2>2. t.build.ref \in Builders
    BY <1>1, <1>2, <2>1
  <2> QED BY <2>1, <2>2 DEF CacheAdvance, CacheMirrors
<1> QED BY <1>4, <1>5, <1>6 DEF StatusOK, BuildRecordOK, RevisionOK, IsSucceeded

\* No step lets a name that is not handed out get a builder, or the cache show a
\* success that is none.
LEMMA MirrorsStep ==
  ASSUME TypeInv, TypeInv', UnbornBuilders, CacheMirrors, BuildersAdvance, CacheAdvance
  PROVE  UnbornBuilders' /\ CacheMirrors'
<1>1. builderNum \in Nat /\ Builders \subseteq Nat
  BY BoundsAssumption DEF TypeInv, TypeOK, Builders
<1>2. \A b \in Builders : IsSucceeded(builders[b]) => b <= builderNum
  BY <1>1, SuccessIsBorn
<1>3. UnbornBuilders'
  BY DEF UnbornBuilders, BuildersAdvance
<1>4. CASE builderCache' = builderCache
  BY <1>2, <1>3, <1>4 DEF CacheMirrors, BuildersAdvance, IsSucceeded
<1>5. CASE builderCache' = builders /\ builders' = builders
  BY <1>3, <1>5 DEF CacheMirrors, IsSucceeded
<1> QED BY <1>4, <1>5 DEF CacheAdvance

\* A status update with a status that is right leaves all three copies right.
LEMMA WriteStepOK ==
  ASSUME TypeInv, BuildInv, UNCHANGED <<builders, builderNum, builderCache, fnCache>>,
         NEW new \in Status, StatusOK(new),
         NEW next \in PCs \ {"RecordBuilder"}, WriteStatus(new, next),
         next \in ResetPCs => new.build.state = "" /\ new.build.ref = 0
  PROVE  BuildInv'
<1>1. fn \in Function /\ local \in Function /\ cacheFresh \in BOOLEAN
  BY DEF TypeInv, TypeOK
<1>2. /\ [fn EXCEPT !.status = new].status = new /\ [fn EXCEPT !.status = new].spec = fn.spec
      /\ [local EXCEPT !.status = new].status = new
      /\ fn.status = new => [fn EXCEPT !.status = new] = fn
  BY <1>1 DEF Function
<1>3. NoFunction.status = InitStatus /\ InitStatus.build.ref = 0 /\ InitStatus.revision = 0
      /\ InitStatus.build.state = ""
  BY DEF NoFunction, InitStatus
<1>4. StatusOK(NoFunction.status)
  BY <1>3 DEF StatusOK, BuildRecordOK, RevisionOK
<1>5. (UnbornBuilders /\ CacheMirrors)'
  BY DEF BuildInv, UnbornBuilders, CacheMirrors, IsSucceeded
<1>6. ASSUME NEW t, StatusOK(t) PROVE StatusOK(t)'
  BY <1>6 DEF StatusOK, BuildRecordOK, RevisionOK, IsSucceeded
<1>7. CASE /\ localFresh /\ fn' = [fn EXCEPT !.status = new]
           /\ local' = [local EXCEPT !.status = new]
           /\ cacheFresh' = (cacheFresh /\ new = fn.status)
           /\ pc' = next /\ UNCHANGED localFresh
  <2>1. FreshCopies'
    BY <1>1, <1>2, <1>7 DEF FreshCopies, BuildInv
  <2>2. fn'.status = new /\ local'.status = new
    BY <1>2, <1>7
  <2>3. WorkerOK'
    BY <1>7, <2>2 DEF WorkerOK, ResetPCs
  <2>4. StatusOK(fn.status)' /\ StatusOK(local.status)' /\ StatusOK(fnCache.status)'
    BY <1>6, <2>2 DEF BuildInv, StatusOK, BuildRecordOK, RevisionOK, IsSucceeded
  <2> QED BY <1>5, <2>1, <2>3, <2>4 DEF BuildInv
<1>8. CASE Fail /\ localFresh /\ fn' = [fn EXCEPT !.status = new]
           /\ cacheFresh' = (cacheFresh /\ new = fn.status)
  <2>1. FreshCopies'
    BY <1>1, <1>2, <1>8 DEF FreshCopies, BuildInv, Fail
  <2>2. fn'.status = new /\ local'.status = NoFunction.status
    BY <1>2, <1>8 DEF Fail
  <2>3. WorkerOK'
    BY <1>8 DEF WorkerOK, ResetPCs, Fail
  <2>4. StatusOK(fn.status)' /\ StatusOK(local.status)' /\ StatusOK(fnCache.status)'
    BY <1>4, <1>6, <2>2 DEF BuildInv, StatusOK, BuildRecordOK, RevisionOK, IsSucceeded
  <2> QED BY <1>5, <2>1, <2>3, <2>4 DEF BuildInv
<1>9. CASE Fail /\ UNCHANGED <<fn, cacheFresh>>
  <2>1. FreshCopies'
    BY <1>9 DEF FreshCopies, BuildInv, Fail
  <2>2. local'.status = NoFunction.status
    BY <1>9 DEF Fail
  <2>3. WorkerOK'
    BY <1>9 DEF WorkerOK, ResetPCs, Fail
  <2>4. StatusOK(fn.status)' /\ StatusOK(local.status)' /\ StatusOK(fnCache.status)'
    BY <1>4, <1>6, <1>9, <2>2 DEF BuildInv, StatusOK, BuildRecordOK, RevisionOK, IsSucceeded
  <2> QED BY <1>5, <2>1, <2>3, <2>4 DEF BuildInv
<1> QED BY <1>1, <1>7, <1>8, <1>9, WriteStatusCases

\* What the reconcile records about the build is right when it is written.
LEMMA BuildWritesOK ==
  ASSUME TypeInv, BuildInv
  PROVE  /\ StatusOK([local.status EXCEPT !.build.state = "", !.build.ref = 0])
         /\ StatusOK([local.status EXCEPT
              !.build = [state |-> "Skipped", ref |-> 0, hash |-> EmptyBuilderSpec],
              !.serving = EmptyServing])
         /\ pc = "RecordBuilder" =>
              StatusOK([local.status EXCEPT !.build = CreatedBuild(local)])
         /\ BuilderStarted(local) => StatusOK(WithBuildResult(local))
<1>1. local.status \in Status /\ local.status.build \in BuildCondition
  BY DEF TypeInv, TypeOK, Function, Status
<1>2. StatusOK(local.status)
  BY DEF BuildInv
<1>3. StatusOK([local.status EXCEPT !.build.state = "", !.build.ref = 0])
  BY <1>1, <1>2 DEF StatusOK, BuildRecordOK, Status, BuildCondition
<1>4. StatusOK([local.status EXCEPT
         !.build = [state |-> "Skipped", ref |-> 0, hash |-> EmptyBuilderSpec],
         !.serving = EmptyServing])
  BY <1>1, <1>2 DEF StatusOK, BuildRecordOK, Status
<1>5. ASSUME pc = "RecordBuilder"
      PROVE  StatusOK([local.status EXCEPT !.build = CreatedBuild(local)])
  <2>1. builderNum <= builderNum
    BY BoundsAssumption DEF TypeInv, TypeOK
  <2> QED
    BY <1>1, <1>2, <1>5, <2>1
       DEF StatusOK, BuildRecordOK, CreatedBuild, BuildInv, WorkerOK, Status
<1>6. ASSUME BuilderStarted(local)
      PROVE  StatusOK(WithBuildResult(local))
  <2> DEFINE r == local.status.build.ref
             u == [local.status EXCEPT !.build.state = builderCache[r].state]
  <2>1. r # 0 /\ r \in Builders
    <3>1. r # 0 /\ r \in 0 .. MaxBuilders
      BY <1>1, <1>6 DEF BuilderStarted, BuildCondition
    <3> QED BY <3>1, BoundsAssumption DEF Builders
  <2>2. StatusOK(u) /\ u \in Status /\ u.build.ref = r
    <3>1. builderCache[r].state \in BuildStates
      BY <2>1 DEF TypeInv, TypeOK, Builder
    <3> QED
      BY <1>1, <1>2, <2>1, <3>1
         DEF StatusOK, BuildRecordOK, Status, BuildCondition, IsSucceeded
  <2>3. CASE ~IsSucceeded(builderCache[r])
    BY <2>2, <2>3 DEF WithBuildResult
  <2>4. CASE IsSucceeded(builderCache[r])
    <3>1. WithBuildResult(local) =
            [u EXCEPT !.revision = IF builderCache[r].digest THEN r ELSE @, !.serving.state = ""]
      BY <2>4 DEF WithBuildResult
    <3>2. builderCache[r].digest => RevisionOK(r)
      BY <2>1, <2>4 DEF BuildInv, CacheMirrors, RevisionOK
    <3>3. WithBuildResult(local).build = u.build
      BY <2>2, <3>1 DEF Status
    <3>4. WithBuildResult(local).revision = IF builderCache[r].digest THEN r ELSE u.revision
      BY <2>2, <3>1 DEF Status
    <3> QED BY <2>2, <3>2, <3>3, <3>4 DEF StatusOK
  <2> QED BY <2>3, <2>4
<1> QED BY <1>3, <1>4, <1>5, <1>6

\* What it records about the serving and the route leaves the build alone.
LEMMA ServingWritesOK ==
  ASSUME BuildInv, NEW t, t.build = local.status.build, t.revision = local.status.revision
  PROVE  StatusOK(t)
BY DEF BuildInv, StatusOK

\* A step of the reconcile that writes no status keeps the copies right.
LEMMA MoveOK ==
  ASSUME TypeInv, TypeInv', BuildInv, BuildersAdvance, CacheAdvance,
         UNCHANGED <<fn, fnCache, cacheFresh>>,
         \/ UNCHANGED <<local, localFresh>>
         \/ local' = NoFunction /\ localFresh' = FALSE
         \/ local' = fnCache /\ localFresh' = cacheFresh,
         WorkerOK'
  PROVE  BuildInv'
<1>1. /\ fn.status \in Status /\ fnCache.status \in Status /\ local.status \in Status
      /\ NoFunction.status \in Status
  BY NoFunctionType DEF TypeInv, TypeOK, Function
<1>2. StatusOK(NoFunction.status)
  BY DEF NoFunction, InitStatus, StatusOK, BuildRecordOK, RevisionOK
<1>3. UnbornBuilders' /\ CacheMirrors'
  BY MirrorsStep DEF BuildInv
<1>4. StatusOK(fn.status)' /\ StatusOK(fnCache.status)'
  <2>1. \A t \in {fn.status, fnCache.status} : StatusOK(t)'
    BY <1>1, StatusStaysOK DEF BuildInv
  <2> QED BY <2>1 DEF StatusOK, BuildRecordOK, RevisionOK, IsSucceeded
<1>5. StatusOK(local.status)'
  <2>1. \A t \in {local.status, NoFunction.status, fnCache.status} : StatusOK(t)'
    BY <1>1, <1>2, StatusStaysOK DEF BuildInv
  <2> QED BY <2>1 DEF StatusOK, BuildRecordOK, RevisionOK, IsSucceeded
<1>6. FreshCopies'
  BY DEF FreshCopies, BuildInv
<1> QED BY <1>3, <1>4, <1>5, <1>6 DEF BuildInv

\* The writes about the serving and the route keep the copies right.
LEMMA ServingStepOK ==
  ASSUME TypeInv, BuildInv, UNCHANGED <<builders, builderNum, builderCache, fnCache>>,
         NEW new \in Status, new.build = local.status.build,
         new.revision = local.status.revision,
         NEW next \in PCs \ ResetPCs, WriteStatus(new, next)
  PROVE  BuildInv'
<1>1. StatusOK(new)
  BY DEF BuildInv, StatusOK
<1>2. next \in PCs \ {"RecordBuilder"}
  BY DEF ResetPCs
<1> QED BY <1>1, <1>2, WriteStepOK

\* Every step of the reconcile keeps what is recorded about builds right.
LEMMA ReconcileStepOK ==
  ASSUME TypeInv, BuildInv, ReconcileStep
  PROVE  BuildInv'
<1> USE DEF PCs
<1> DEFINE st == local.status
<1>0. st \in Status /\ st.build \in BuildCondition /\ st.serving \in ServingCondition
  BY DEF TypeInv, TypeOK, Function, Status
<1>1. TypeInv' /\ BuildersAdvance /\ CacheAdvance
  BY ReconcileStepType, BuildersAdvanceStep DEF BuildInv, Next
<1>2. CASE ResetBuild
  <2> DEFINE new == [st EXCEPT !.build.state = "", !.build.ref = 0]
  <2>1. WriteStatus(new, "CancelOldBuilder")
        /\ UNCHANGED <<builders, builderNum, builderCache, fnCache>>
    BY <1>2 DEF ResetBuild
  <2>2. new.build.state = "" /\ new.build.ref = 0
    BY <1>0 DEF Status, BuildCondition
  <2>3. new \in Status /\ StatusOK(new)
    BY BuildWritesType, BuildWritesOK
  <2> QED BY <2>1, <2>2, <2>3, WriteStepOK
<1>3. CASE SkipBuild
  <2> DEFINE new == [st EXCEPT
                       !.build = [state |-> "Skipped", ref |-> 0, hash |-> EmptyBuilderSpec],
                       !.serving = EmptyServing]
  <2>1. WriteStatus(new, "Serving")
        /\ UNCHANGED <<builders, builderNum, builderCache, fnCache>>
    BY <1>3 DEF SkipBuild
  <2>2. new \in Status /\ StatusOK(new)
    BY BuildWritesType, BuildWritesOK
  <2> QED BY <2>1, <2>2, WriteStepOK DEF ResetPCs
<1>4. CASE RecordBuilder
  <2> DEFINE new == [st EXCEPT !.build = CreatedBuild(local)]
  <2>1. /\ WriteStatus(new, "Serving") /\ pc = "RecordBuilder"
        /\ UNCHANGED <<builders, builderNum, builderCache, fnCache>>
    BY <1>4 DEF RecordBuilder
  <2>2. new \in Status /\ StatusOK(new)
    BY <2>1, BuildWritesType, BuildWritesOK
  <2> QED BY <2>1, <2>2, WriteStepOK DEF ResetPCs
<1>5. CASE UpdateBuilderStatus
  <2>1. CASE Goto("PruneBuilder") /\ UNCHANGED <<fn, cacheFresh, disturb>>
    <3>1. WorkerOK'
      BY <2>1 DEF Goto, WorkerOK, ResetPCs
    <3> QED BY <1>1, <1>5, <2>1, <3>1, MoveOK DEF UpdateBuilderStatus, Goto
  <2>2. CASE WriteStatus(WithBuildResult(local), "PruneBuilder")
    <3>1. BuilderStarted(local) /\ UNCHANGED <<builders, builderNum, builderCache, fnCache>>
      BY <1>5 DEF UpdateBuilderStatus
    <3>2. WithBuildResult(local) \in Status /\ StatusOK(WithBuildResult(local))
      BY <3>1, BuildWritesType, BuildWritesOK
    <3> QED BY <2>2, <3>1, <3>2, WriteStepOK DEF ResetPCs
  <2> QED BY <1>5, <2>1, <2>2 DEF UpdateBuilderStatus
<1>6. CASE ResetServing
  <2>1. WriteStatus(WithoutServing(local), "CleanServing")
        /\ UNCHANGED <<builders, builderNum, builderCache, fnCache>>
    BY <1>6 DEF ResetServing
  <2>2. WithoutServing(local) \in Status
    BY ServingWritesType
  <2>3. WithoutServing(local).build = st.build /\ WithoutServing(local).revision = st.revision
    BY <1>0 DEF WithoutServing, Status
  <2> QED BY <2>1, <2>2, <2>3, ServingStepOK DEF ResetPCs
<1>7. CASE SkipServing
  <2> DEFINE new == [st EXCEPT !.serving =
                       [EmptyServing EXCEPT !.state = "Skipped", !.hash = EmptyServingSpec]]
  <2>1. WriteStatus(new, "HTTPRoute")
        /\ UNCHANGED <<builders, builderNum, builderCache, fnCache>>
    BY <1>7 DEF SkipServing
  <2>2. new \in Status
    BY ServingWritesType
  <2>3. new.build = st.build /\ new.revision = st.revision
    BY <1>0 DEF Status
  <2> QED BY <2>1, <2>2, <2>3, ServingStepOK DEF ResetPCs
<1>8. CASE RecordServing
  <2> DEFINE new == [st EXCEPT !.serving =
                       [state |-> "Created", ref |-> servingNum, last |-> st.serving.last,
                        service |-> 0, hash |-> ServingSpecOf(local)]]
  <2>1. WriteStatus(new, "HTTPRoute")
        /\ UNCHANGED <<builders, builderNum, builderCache, fnCache>>
    BY <1>8 DEF RecordServing
  <2>2. new \in Status
    BY ServingWritesType
  <2>3. new.build = st.build /\ new.revision = st.revision
    BY <1>0 DEF Status
  <2> QED BY <2>1, <2>2, <2>3, ServingStepOK DEF ResetPCs
<1>9. CASE UpdateServingStatus
  <2> DEFINE seen == servingCache[st.serving.ref].state
             new == [st EXCEPT !.serving.state = seen]
  <2>1. UNCHANGED <<builders, builderNum, builderCache, fnCache>>
    BY <1>9 DEF UpdateServingStatus
  <2>2. CASE /\ Goto("HTTPRoute") \/ Goto("CleanOldServing")
             /\ UNCHANGED <<fn, cacheFresh, disturb>>
    <3>1. WorkerOK'
      BY <2>2 DEF Goto, WorkerOK, ResetPCs
    <3> QED BY <1>1, <2>1, <2>2, <3>1, MoveOK DEF Goto
  <2>3. CASE ServingChanged(local) /\ WriteStatus(new, "HTTPRoute")
    <3>1. st.serving.ref \in 0 .. MaxServings /\ st.serving.ref # 0
      BY <1>0, <2>3 DEF ServingChanged, ServingCondition
    <3>2. st.serving.ref \in Servings
      BY <3>1, BoundsAssumption DEF Servings
    <3>3. seen \in ServingStates
      BY <3>2 DEF TypeInv, TypeOK, Serving
    <3>4. new \in Status /\ new.build = st.build /\ new.revision = st.revision
      BY <1>0, <3>3, ServingWritesType DEF Status
    <3> QED BY <2>1, <2>3, <3>4, ServingStepOK DEF ResetPCs
  <2> QED BY <1>9, <2>2, <2>3 DEF UpdateServingStatus
<1>10. CASE RecordRunning
  <2> DEFINE ref == st.serving.ref
             to == IF servings[ref].spec.impl \in HttpImpls THEN ref ELSE 0
             new == [st EXCEPT !.serving.state = "Running", !.serving.last = ref,
                               !.serving.service = to]
  <2>1. WriteStatus(new, "HTTPRoute")
        /\ UNCHANGED <<builders, builderNum, builderCache, fnCache>>
    BY <1>10 DEF RecordRunning
  <2>2. to \in {0, ref}
    OBVIOUS
  <2>3. new \in Status
    BY <2>2, ServingWritesType
  <2>4. new.build = st.build /\ new.revision = st.revision
    BY <1>0 DEF Status
  <2>5. "HTTPRoute" \in PCs \ ResetPCs
    BY DEF ResetPCs
  <2> HIDE DEF new
  <2> QED BY <2>1, <2>3, <2>4, <2>5, ServingStepOK
<1>11. CASE RouteStatus
  <2>1. UNCHANGED <<builders, builderNum, builderCache, fnCache>>
    BY <1>11 DEF RouteStatus
  <2>2. CASE Goto("Service") /\ UNCHANGED <<fn, cacheFresh, disturb>>
    <3>1. WorkerOK'
      BY <2>2 DEF Goto, WorkerOK, ResetPCs
    <3> QED BY <1>1, <2>1, <2>2, <3>1, MoveOK DEF Goto
  <2>3. CASE WriteStatus([st EXCEPT !.route = local.spec.serving], "Service")
    <3>1. [st EXCEPT !.route = local.spec.serving] \in Status
      BY <1>11, ServingWritesType DEF RouteStatus, TypeInv
    <3>2. /\ [st EXCEPT !.route = local.spec.serving].build = st.build
          /\ [st EXCEPT !.route = local.spec.serving].revision = st.revision
      BY <1>0 DEF Status
    <3> QED BY <2>1, <2>3, <3>1, <3>2, ServingStepOK DEF ResetPCs
  <2> QED BY <1>11, <2>2, <2>3 DEF RouteStatus
<1>12. CASE CancelOldBuilder
  <2>1. UNCHANGED <<fn, fnCache, cacheFresh, builderNum>>
    BY <1>12 DEF CancelOldBuilder, caches
  <2>2. \/ Goto("PruneOldBuilders") \/ Goto("Serving") \/ Fail
    BY <1>12 DEF CancelOldBuilder
  <2>3. WorkerOK'
    BY <1>12, <2>2 DEF Goto, Fail, WorkerOK, ResetPCs, BuildInv, CancelOldBuilder
  <2> QED BY <1>1, <2>1, <2>2, <2>3, MoveOK DEF Goto, Fail
<1>13. CASE PruneOldBuilders
  <2>1. UNCHANGED <<fn, fnCache, cacheFresh, builderNum>>
    BY <1>13 DEF PruneOldBuilders, caches
  <2>2. \/ Goto("SkipBuild") \/ Goto("CreateBuilder") \/ Fail
    BY <1>13 DEF PruneOldBuilders, DeleteBuilders
  <2>3. WorkerOK'
    BY <1>13, <2>2 DEF Goto, Fail, WorkerOK, ResetPCs, BuildInv, PruneOldBuilders
  <2> QED BY <1>1, <2>1, <2>2, <2>3, MoveOK DEF Goto, Fail
<1>14. CASE CreateBuilder
  <2>1. UNCHANGED <<fn, fnCache, cacheFresh>> /\ pc = "CreateBuilder"
    BY <1>14 DEF CreateBuilder, caches
  <2>2. CASE Fail
    <3>1. WorkerOK'
      BY <2>2 DEF Fail, WorkerOK, ResetPCs
    <3> QED BY <1>1, <2>1, <2>2, <3>1, MoveOK DEF Fail
  <2>3. CASE /\ Goto("RecordBuilder") /\ builderNum' = builderNum + 1
             /\ builders' = [builders EXCEPT ![builderNum + 1] =
                   [NoBuilder EXCEPT !.live = TRUE, !.spec = BuilderSpecOf(local.spec)]]
    <3>1. builderNum + 1 \in Builders /\ builderNum + 1 # 0
      BY <1>14, BoundsAssumption DEF CreateBuilder, TypeInv, TypeOK, Builders
    <3>2. builders'[builderNum'].spec = BuilderSpecOf(local.spec)
      BY <2>3, <3>1 DEF TypeInv, TypeOK, NoBuilder
    <3>3. local' = local /\ pc' = "RecordBuilder"
      BY <2>3 DEF Goto
    <3>4. local.status.build.state = "" /\ local.status.build.ref = 0
      BY <2>1 DEF BuildInv, WorkerOK, ResetPCs
    <3>5. WorkerOK'
      BY <2>3, <3>1, <3>2, <3>3, <3>4 DEF WorkerOK, BuilderSpecOf
    <3> QED BY <1>1, <2>1, <2>3, <3>5, MoveOK DEF Goto
  <2> QED BY <1>14, <2>2, <2>3 DEF CreateBuilder
<1>15. CASE StartReconcile
  <2>1. /\ UNCHANGED <<fn, fnCache, cacheFresh>> /\ pc' = "Builder"
        /\ local' = fnCache /\ localFresh' = cacheFresh
    BY <1>15 DEF StartReconcile, api, caches
  <2>2. WorkerOK'
    BY <2>1 DEF WorkerOK, ResetPCs
  <2> QED BY <1>1, <2>1, <2>2, MoveOK
<1>16. CASE \/ SkipBuilderStatus \/ PruneBuilder \/ CleanServing \/ CreateServing
            \/ AsyncService \/ CleanOldServing \/ FinishReconcile \/ PanicNilServing
            \/ WriteHTTPRoute \/ WriteService
  <2>1. UNCHANGED <<fn, fnCache, cacheFresh>> /\ pc' \notin ResetPCs
    BY <1>16
       DEF SkipBuilderStatus, PruneBuilder, CleanServing, CreateServing, AsyncService,
           CleanOldServing, FinishReconcile, PanicNilServing, WriteHTTPRoute, WriteService,
           DeleteBuilders, DeleteServings, Goto, Fail, Return, ResetPCs, api, caches
  <2>2. UNCHANGED <<local, localFresh>> \/ (local' = NoFunction /\ localFresh' = FALSE)
    BY <1>16
       DEF SkipBuilderStatus, PruneBuilder, CleanServing, CreateServing, AsyncService,
           CleanOldServing, FinishReconcile, PanicNilServing, WriteHTTPRoute, WriteService,
           DeleteBuilders, DeleteServings, Goto, Fail, Return
  <2>3. WorkerOK'
    BY <2>1 DEF WorkerOK, ResetPCs
  <2> QED BY <1>1, <2>1, <2>2, <2>3, MoveOK
<1> QED
  BY <1>2, <1>3, <1>4, <1>5, <1>6, <1>7, <1>8, <1>9, <1>10, <1>11, <1>12, <1>13, <1>14,
     <1>15, <1>16 DEF ReconcileStep

\* And so does everybody else: informers, other reconcilers, users, restarts.
LEMMA EnvironmentStepOK ==
  ASSUME TypeInv, BuildInv, [Next]_vars, ~ReconcileStep
  PROVE  BuildInv'
<1>1. TypeInv' /\ BuildersAdvance /\ CacheAdvance
  BY EnvironmentStepType, BuildersAdvanceStep DEF BuildInv
<1>2. /\ fn.status \in Status /\ fnCache.status \in Status /\ local.status \in Status
      /\ NoFunction.status \in Status
  BY NoFunctionType DEF TypeInv, TypeOK, Function
<1>3. StatusOK(NoFunction.status)
  BY DEF NoFunction, InitStatus, StatusOK, BuildRecordOK, RevisionOK
<1>4. UnbornBuilders' /\ CacheMirrors'
  BY <1>1, MirrorsStep DEF BuildInv
<1>5. \A t \in {fn.status, fnCache.status, local.status, NoFunction.status} : StatusOK(t)'
  BY <1>1, <1>2, <1>3, StatusStaysOK DEF BuildInv
<1>6. ASSUME /\ fn'.status = fn.status
             /\ fnCache'.status \in {fnCache.status, fn.status}
             /\ local'.status \in {local.status, NoFunction.status},
             FreshCopies', WorkerOK'
      PROVE  BuildInv'
  <2>1. StatusOK(fn.status)' /\ StatusOK(fnCache.status)' /\ StatusOK(local.status)'
    BY <1>5, <1>6 DEF StatusOK, BuildRecordOK, RevisionOK, IsSucceeded
  <2> QED BY <1>4, <1>6, <2>1 DEF BuildInv
<1>7. CASE SyncFunction \/ SyncBuilders \/ SyncServings
  <2>1. /\ UNCHANGED <<fn, builders, builderNum, pc, local, localFresh>>
        /\ UNCHANGED <<fnCache, cacheFresh>> \/ fnCache' = fn
    BY <1>7 DEF SyncFunction, SyncBuilders, SyncServings, api, worker
  <2>2. FreshCopies'
    BY <2>1 DEF BuildInv, FreshCopies
  <2>3. WorkerOK'
    BY <2>1 DEF BuildInv, WorkerOK
  <2> QED BY <1>6, <2>1, <2>2, <2>3
<1>8. CASE Crash \/ RestartAfterPanic
  <2>1. /\ fn' = fn /\ fnCache' = fn /\ local' = NoFunction
        /\ localFresh' = FALSE /\ pc' = "Idle"
    BY <1>8 DEF Crash, RestartAfterPanic, Restart, api
  <2>2. FreshCopies' /\ WorkerOK'
    BY <2>1 DEF FreshCopies, WorkerOK, ResetPCs
  <2> QED BY <1>6, <2>1, <2>2
<1>9. CASE EditSpec
  <2>1. PICK sp \in Specs : fn' = [fn EXCEPT !.spec = sp]
    BY <1>9 DEF EditSpec
  <2>2. fn'.status = fn.status
    BY <2>1 DEF TypeInv, TypeOK, Function
  <2>3. FreshCopies' /\ WorkerOK'
    BY <1>9 DEF EditSpec, BuildInv, FreshCopies, WorkerOK
  <2> QED BY <1>6, <1>9, <2>2, <2>3 DEF EditSpec
<1>10. ASSUME NEW b \in Builders, CleanExpiredBuilder(b) \/ DeleteBuilder(b) \/ BuilderProgress(b)
       PROVE  BuildInv'
  <2>1. UNCHANGED <<fn, builderNum, fnCache, cacheFresh, pc, local, localFresh>>
    BY <1>10 DEF CleanExpiredBuilder, DeleteBuilder, BuilderProgress, caches, worker
  <2>2. FreshCopies'
    BY <2>1 DEF BuildInv, FreshCopies
  <2>3. ASSUME pc = "RecordBuilder" PROVE builders'[builderNum].spec = builders[builderNum].spec
    <3>1. builderNum \in 0 .. MaxBuilders /\ builderNum # 0
      BY <2>3 DEF TypeInv, TypeOK, BuildInv, WorkerOK
    <3>2. builderNum \in Builders /\ builderNum <= builderNum
      BY <3>1, BoundsAssumption DEF Builders
    <3> QED BY <1>1, <3>2 DEF BuildersAdvance
  <2>4. WorkerOK'
    BY <2>1, <2>3 DEF BuildInv, WorkerOK, BuilderSpecOf
  <2> QED BY <1>6, <2>1, <2>2, <2>4
<1>11. ASSUME NEW s \in Servings, ServingProgress(s) \/ ServingFlap(s) \/ DeleteServing(s)
       PROVE  BuildInv'
  <2>1. UNCHANGED <<fn, builders, builderNum, fnCache, cacheFresh, pc, local, localFresh>>
    BY <1>11 DEF ServingProgress, ServingFlap, DeleteServing, caches, worker
  <2>2. FreshCopies' /\ WorkerOK'
    BY <2>1 DEF BuildInv, FreshCopies, WorkerOK
  <2> QED BY <1>6, <2>1, <2>2
<1>12. CASE UNCHANGED vars
  <2>1. UNCHANGED <<fn, builders, builderNum, fnCache, cacheFresh, pc, local, localFresh>>
    BY <1>12 DEF vars, api, caches, worker
  <2>2. FreshCopies' /\ WorkerOK'
    BY <2>1 DEF BuildInv, FreshCopies, WorkerOK
  <2> QED BY <1>6, <2>1, <2>2
<1> QED BY <1>7, <1>8, <1>9, <1>10, <1>11, <1>12 DEF Next

\* Nothing is recorded of a function that was just applied.
LEMMA InitOK == Init => BuildInv
<1> SUFFICES ASSUME Init PROVE BuildInv
  OBVIOUS
<1>1. fn.status = InitStatus /\ fnCache.status = InitStatus /\ local.status = InitStatus
  <2>1. \E sp \in Specs : fn = [spec |-> sp, status |-> InitStatus]
    BY DEF Init
  <2>2. fn.status = InitStatus
    BY <2>1
  <2>3. fnCache = fn /\ local.status = InitStatus
    BY DEF Init, NoFunction
  <2> QED BY <2>2, <2>3
<1>2. StatusOK(InitStatus)
  BY DEF InitStatus, StatusOK, BuildRecordOK, RevisionOK
<1>3. UnbornBuilders /\ CacheMirrors /\ FreshCopies /\ WorkerOK
  BY DEF Init, UnbornBuilders, CacheMirrors, FreshCopies, WorkerOK, NoBuilder, IsSucceeded, ResetPCs
<1> QED BY <1>1, <1>2, <1>3 DEF BuildInv

\* The two inductive invariants hold together.
LEMMA Invariants == Spec => [](TypeInv /\ BuildInv)
<1>1. Init => TypeInv /\ BuildInv
  BY InitType, InitOK
<1>2. TypeInv /\ BuildInv /\ [Next]_vars => (TypeInv /\ BuildInv)'
  BY ReconcileStepType, EnvironmentStepType, ReconcileStepOK, EnvironmentStepOK
<1> QED BY <1>1, <1>2, PTL DEF Spec

\* A function is reported as built only when a builder of the recorded spec did
\* succeed, whatever conflicts, stale caches, lost replies and restarts came
\* in between (updateFuncWithBuilderStatus).
THEOREM SuccessIsTrue == Spec => []SucceededIsBuilt
<1>1. TypeInv /\ BuildInv => SucceededIsBuilt
  <2> SUFFICES ASSUME TypeInv, BuildInv, fn.status.build.state = "Succeeded"
               PROVE  /\ fn.status.build.ref # 0
                      /\ IsSucceeded(builders[fn.status.build.ref])
                      /\ builders[fn.status.build.ref].spec = fn.status.build.hash
    BY DEF SucceededIsBuilt
  <2>1. /\ fn.status.build.ref # 0 /\ fn.status.build.ref \in 0 .. MaxBuilders
        /\ builders[fn.status.build.ref].spec = fn.status.build.hash
        /\ IsSucceeded(builderCache[fn.status.build.ref])
    BY DEF BuildInv, StatusOK, BuildRecordOK, TypeInv, TypeOK, Function, Status, BuildCondition
  <2>2. fn.status.build.ref \in Builders
    BY <2>1, BoundsAssumption DEF Builders
  <2> QED BY <2>1, <2>2 DEF BuildInv, CacheMirrors
<1> QED BY <1>1, Invariants, PTL

\* The revision a function reports was pushed by a build that succeeded.
THEOREM RevisionIsTrue == Spec => []RevisionIsPushed
<1>1. BuildInv => RevisionIsPushed
  BY DEF BuildInv, StatusOK, RevisionOK, RevisionIsPushed
<1> QED BY <1>1, Invariants, PTL

\* A finished build needs no other one as long as the spec stays the same.
LEMMA SuccessNeedsNoBuilder ==
  ASSUME TypeInv, BuildInv, local = fn, fn.status.build.state = "Succeeded", BuildIsCurrent
  PROVE  ~NeedToCreateBuilder(local)
<1>1. fn.status.build.ref # 0
  BY DEF BuildInv, StatusOK, BuildRecordOK
<1>2. BuilderSpecOf(fn.spec) \in BuilderHashes
  BY BuilderSpecType DEF TypeInv, TypeOK, Function
<1>3. fn.status.build.hash # NoHash
  BY <1>2, NilAssumption DEF BuildIsCurrent, BuilderHashes
<1> QED BY <1>1, <1>3 DEF NeedToCreateBuilder, BuildIsCurrent

\* A status update changes the recorded build only to what the reconcile, which
\* then has the current function, wants to record.
LEMMA WriteKeepsBuild ==
  ASSUME TypeInv, BuildInv, NEW new, NEW next, WriteStatus(new, next),
         local = fn => new.build = fn.status.build
  PROVE  fn'.status.build = fn.status.build
<1>1. fn' = fn \/ (localFresh /\ fn' = [fn EXCEPT !.status = new])
  BY WriteStatusCases DEF TypeInv, TypeOK
<1> QED BY <1>1 DEF BuildInv, FreshCopies, TypeInv, TypeOK, Function

\* Once the build of the current spec is recorded as succeeded, nothing but an
\* edit undoes it: neither a stale cache nor a lost reply, a restart or the
\* deletion of the builder (needToCreateBuilder, the reset in createBuilder).
THEOREM SuccessIsStable == Spec => BuildSuccessIsStable
<1> DEFINE Kept == fn.status.build.state = "Succeeded" /\ BuildIsCurrent
                   => fn'.status.build = fn.status.build
<1>1. TypeInv /\ BuildInv /\ [Next]_vars => Kept
  <2> SUFFICES ASSUME TypeInv, BuildInv, [Next]_vars,
                      fn.status.build.state = "Succeeded", BuildIsCurrent
               PROVE  fn'.status.build = fn.status.build
    OBVIOUS
  <2> DEFINE st == local.status
  <2>0. st \in Status /\ fn.status \in Status
    BY DEF TypeInv, TypeOK, Function
  <2>1. CASE UNCHANGED fn
    BY <2>1
  <2>2. CASE ResetBuild \/ SkipBuild \/ RecordBuilder
    <3>1. local # fn
      BY <2>2, SuccessNeedsNoBuilder
         DEF ResetBuild, SkipBuild, RecordBuilder, BuildInv, WorkerOK, ResetPCs
    <3>2. \E new, next : WriteStatus(new, next)
      BY <2>2 DEF ResetBuild, SkipBuild, RecordBuilder
    <3> QED BY <3>1, <3>2, WriteKeepsBuild
  <2>3. CASE UpdateBuilderStatus
    <3>1. CASE UNCHANGED fn
      BY <3>1
    <3>2. CASE /\ local.status.build.state # builderCache[local.status.build.ref].state
               /\ WriteStatus(WithBuildResult(local), "PruneBuilder")
      <4>1. local # fn
        BY <3>2 DEF BuildInv, StatusOK, BuildRecordOK, IsSucceeded
      <4> QED BY <3>2, <4>1, WriteKeepsBuild
    <3> QED BY <2>3, <3>1, <3>2 DEF UpdateBuilderStatus
  <2>4. CASE ResetServing \/ SkipServing \/ RecordServing \/ UpdateServingStatus
             \/ RecordRunning \/ RouteStatus
    <3>1. WithoutServing(local).build = st.build
      BY <2>0 DEF WithoutServing, Status
    <3>2. \A c : [st EXCEPT !.serving = c].build = st.build
      BY <2>0 DEF Status
    <3>3. \A x : [st EXCEPT !.serving.state = x].build = st.build
      BY <2>0 DEF Status
    <3>4. \A x, y : [st EXCEPT !.serving.state = "Running", !.serving.last = x,
                               !.serving.service = y].build = st.build
      BY <2>0 DEF Status
    <3>5. \A x : [st EXCEPT !.route = x].build = st.build
      BY <2>0 DEF Status
    <3>6. fn' = fn \/ \E new, next : WriteStatus(new, next) /\ new.build = st.build
      <4>1. CASE ResetServing
        BY <3>1, <4>1 DEF ResetServing
      <4>2. CASE SkipServing \/ RecordServing
        BY <3>2, <4>2 DEF SkipServing, RecordServing
      <4>3. CASE UpdateServingStatus
        BY <3>3, <4>3 DEF UpdateServingStatus
      <4>4. CASE RecordRunning
        <5> DEFINE ref == local.status.serving.ref
                   to == IF servings[ref].spec.impl \in HttpImpls THEN ref ELSE 0
        <5>1. WriteStatus([st EXCEPT !.serving.state = "Running", !.serving.last = ref,
                                     !.serving.service = to], "HTTPRoute")
          BY <4>4 DEF RecordRunning
        <5> HIDE DEF to
        <5> QED BY <3>4, <5>1
      <4>5. CASE RouteStatus
        BY <3>5, <4>5 DEF RouteStatus
      <4> QED BY <2>4, <4>1, <4>2, <4>3, <4>4, <4>5
    <3> QED BY <3>6, WriteKeepsBuild
  <2>5. CASE EditSpec
    BY <2>5 DEF EditSpec, TypeInv, TypeOK, Function
  <2>6. CASE ReconcileStep
    <3>1. CASE \/ StartReconcile \/ CancelOldBuilder \/ PruneOldBuilders \/ CreateBuilder
               \/ SkipBuilderStatus \/ PruneBuilder \/ CleanServing \/ CreateServing
               \/ AsyncService \/ CleanOldServing \/ FinishReconcile \/ PanicNilServing
               \/ WriteHTTPRoute \/ WriteService
      BY <3>1 DEF StartReconcile, CancelOldBuilder, PruneOldBuilders, CreateBuilder,
           SkipBuilderStatus, PruneBuilder, CleanServing, CreateServing, AsyncService,
           CleanOldServing, FinishReconcile, PanicNilServing, WriteHTTPRoute, WriteService, api
    <3> QED BY <2>2, <2>3, <2>4, <2>6, <3>1 DEF ReconcileStep
  <2>7. CASE \/ SyncFunction \/ SyncBuilders \/ SyncServings \/ Crash \/ RestartAfterPanic
             \/ UNCHANGED vars
    BY <2>7 DEF SyncFunction, SyncBuilders, SyncServings, Crash, RestartAfterPanic, Restart,
         vars, api
  <2>8. CASE \/ \E b \in Builders : CleanExpiredBuilder(b) \/ BuilderProgress(b) \/ DeleteBuilder(b)
             \/ \E s \in Servings : ServingProgress(s) \/ ServingFlap(s) \/ DeleteServing(s)
    BY <2>8 DEF CleanExpiredBuilder, BuilderProgress, DeleteBuilder, ServingProgress, ServingFlap,
         DeleteServing
  <2> QED BY <2>5, <2>6, <2>7, <2>8 DEF Next
<1>2. TypeInv /\ BuildInv /\ [Next]_vars => [Kept]_vars
  BY <1>1
<1> QED BY <1>2, Invariants, PTL DEF BuildSuccessIsStable, Spec

=============================================================================
