# OpenFunction in TLA+

Models, model checks and proofs of the operator of this repository. OpenFunction is
a Kubernetes operator: one process (`src/main.go`) runs a controller-runtime manager
with a reconciler per custom resource. A reconciler takes a request from its work
queue, reads informer caches, writes to the API server, and returns; the next request
comes from a watch event or from an error return. Nothing else orders the
reconcilers, the users and the controllers of other projects (Shipwright, Knative,
KEDA, the Gateway API), and every write may be refused because the copy it was made
from is out of date. That is what the models are about.

## 1. Inventory

| Component | State it keeps | Operations | Interacts with |
|---|---|---|---|
| Function controller (`controllers/core/function_controller.go`) | `Function.status` (build, serving, revision, route), the Builders, Servings, HTTPRoute and Service it owns; a map of watcher goroutines | `Reconcile` = `createBuilder`, `updateFuncWithBuilderStatus`, `createServing`, `updateFuncWithServingStatus`, `createOrUpdateHTTPRoute`; the expiry watcher | Builders and Servings (creates, watches, cancels, deletes), Gateway, Knative Service |
| Builder controller (`controllers/core/builder_controller.go`) | `Builder.status`, a map of timers | `Reconcile`, `getBuilderResult`, timer goroutine | build run, Function controller (through the object) |
| Shipwright build run (`pkg/core/builder/shipwright`) | Builds and BuildRuns of a Builder | `Start`, `Clean`, `Cancel`, `Result` | Shipwright |
| Serving controller (`controllers/core/serving_controller.go`) | `Serving.status`, a map of timers | `Reconcile`, `getServingResult`, timer goroutine | serving engines, Function controller |
| Serving engines (`pkg/core/serving/{knative,kedahttp,openfuncasync}`) | workload, Service, scaler, Dapr components of a Serving | `Run`, `Clean`, `Result` | Knative, KEDA, Dapr |
| Serving helpers (`pkg/core/serving/common`) | - | Dapr components, Dapr proxy, pod spec, function context | engines |
| Gateway controller (`controllers/networking/gateway_controller.go`) | listeners of a shared Kubernetes Gateway, annotations with the last configuration, a Service, a finalizer | `createOrUpdateGateway`, `reconcileK8sGateway`, `cleanK8sGatewayResources`, status sync | other Gateways on the same Kubernetes Gateway, Functions (routes) |
| Gateway webhook (`apis/networking/v1alpha1/gateway_webhook.go`) | - | defaulting, validation | API server |
| EventSource controller (`controllers/events/eventsource_controller.go`) | a Function per event, the label and sink of the EventSource, its conditions; fields of the reconciler | `createOrUpdateEventSource`, three watches | event buses, Function controller |
| Trigger controller (`controllers/events/trigger_controller.go`) | a Function per Trigger, its label and conditions | `createOrUpdateTrigger`, `handleSubscriber`, three watches | event buses, Function controller |
| Event buses (`apis/events/v1alpha1`) | EventBus and ClusterEventBus objects | users only; `retrieveEventBus` | both event controllers |
| Function webhook (`apis/core/v1beta2/function_webhook.go`) | - | `Default`, `Validate` | API server |
| Conversion (`apis/core/v1beta1/*_conversion.go`) | - | `ConvertTo`, `ConvertFrom` of Function, Serving, Builder | API server, clients of v1beta1 |
| API types, `pkg/client`, `zz_generated*` | - | generated code | - |

What is hard about them, and what makes each correct:

- **Function controller.** A reconcile is up to a dozen writes with reads of lagging
  caches between them, and it may stop after any of them (conflict, error, crash). It
  is correct if a recorded result is always one that a child really reported, if one
  build runs at a time, if what is served was built from the spec, if a rollout never
  leaves a routed function without a running serving, if history stays bounded, and
  if it converges.
- **Builder controller and build run.** Worker and timer goroutine both end a build;
  `Start` creates two objects before it records them; cancellation and timeout race
  with the result. Correct if a builder starts once, ends once, never runs two builds
  side by side, and ends when it is cancelled or timed out.
- **Serving controller and engines.** The same shape; the result is not final
  (workloads fail and recover); cleaning up after a failed `Run` covers several kinds
  of objects. Correct if no workload is left behind and the status follows the workload.
- **Gateway controller.** Several Gateways edit the listeners of one object. Correct
  if each one's listeners, and nobody else's, are what it asks for.
- **Events.** Fields of the reconciler that another object set before; buses that two
  controllers follow by watches of their own, one of them by a label that is written last;
  reconciles that write the object they were queued for; outputs of many subscribers under
  generated names. Correct if the functions end up on the bus and the sinks as they are, if
  the spec stays the user's, and if an event reaches the subscriber whose condition holds.
- **Webhook, conversions, function context.** A function is written in two versions and read
  by frameworks of two versions. Correct if the controllers always find what they dereference,
  if a field is lost once or never, if a client that changes nothing rolls nothing out, and if
  frameworks of both versions are led to the same components and hooks.

`PROJECT.json` lists each hazard at its line with the properties that cover it.

## 2. Plan

| # | Module | Content | Composes with | State |
|---|---|---|---|---|
| 1 | `FunctionController`, `FunctionProperties`, `MCFunction`, `FunctionController_proofs`, `FunctionRollout_proofs`, `FunctionRest_proofs` | one Function with its children, caches, worker, users, faults | assumes the lifecycles of Builder and Serving | done |
| 2 | `BuilderController`, `BuilderProperties`, abstract `BuilderLifecycle`, `BuilderController_proofs` | one Builder with its Builds, BuildRuns, worker and timer | implements `BuilderLifecycle`, which module 1 assumes | done |
| 3 | `ServingController`, `ServingProperties`, abstract `ServingLifecycle`, `ServingController_proofs` | one Serving with its objects, worker and timer; `Run`, `Clean` and `Result` of the three engines | implements `ServingLifecycle`, which module 1 assumes | done |
| 4 | `GatewayController`, `GatewayProperties`, `MCGateway`, `GatewayController_proofs` | Gateways that share a Kubernetes Gateway, annotations, finalizer, Service | - | done |
| 5 | `EventBuses`, `EventSourceController`, `TriggerController`, `Subscribers`, `Eventing`, `MCEvents`, `Eventing_proofs` | event sources and triggers on shared buses, the function each becomes, outputs of subscribers | `Eventing` composes the two controllers | done |
| 6 | `ObjectVersions`, `FunctionWebhook` | conversions, defaults and validation as operators | used by module 8 | done |
| 7 | `FunctionContext` | what the engines make of a Serving: components, workload, scaler, proxy, the two contexts | used by module 8; the order of the writes is in module 3 | done |
| 8 | `FunctionAPI`, `MCAPI`, `FunctionAPI_proofs` | a stored function under clients of both versions, the Serving and the Builder made of it | composes 6 and 7 | done |

Abstract specifications worth stating: `BuilderLifecycle` and `ServingLifecycle`, which are
there and proved to be implemented. Theorems worth proving: every safety property that the runs check,
which section 5 has but for `NoOutage` (see there).

## 3. Modules

### FunctionController

The state is the Function in the API server (`fn`: spec and status), every Builder and
Serving ever created (`builders`, `servings`, with `live` while the object exists), the
HTTPRoute's backend and the Service; the informer caches of the three kinds; the worker
(`pc`, its copy of the Function, the work queue). Actions are named after the methods:

| Code | Actions |
|---|---|
| `createBuilder` | `ResetBuild`, `CancelOldBuilder`, `PruneOldBuilders`, `SkipBuild`, `CreateBuilder`, `RecordBuilder` |
| `updateFuncWithBuilderStatus`, `pruneBuilder` | `SkipBuilderStatus`, `UpdateBuilderStatus`, `PruneBuilder` |
| `createServing`, `cleanServing`, `CreateOrUpdateServiceForAsyncFunc` | `ResetServing`, `CleanServing`, `SkipServing`, `CreateServing`, `AsyncService`, `RecordServing` |
| `updateFuncWithServingStatus` | `UpdateServingStatus`, `CleanOldServing`, `RecordRunning` |
| `createOrUpdateHTTPRoute`, `updateFuncWithHTTPRouteStatus`, `mutateService` | `WriteHTTPRoute`, `RouteStatus`, `WriteService`, `FinishReconcile`, `PanicNilServing` |
| informers, `SetupWithManager` | `SyncFunction`, `SyncBuilders`, `SyncServings` |
| expiry watcher | `CleanExpiredBuilder` |
| process | `Crash`, `RestartAfterPanic` |
| Builder and Serving controllers | `BuilderProgress`, `ServingProgress`, `ServingFlap` |
| users | `EditSpec`, `DeleteBuilder`, `DeleteServing` |

Each API write is one step; the cache reads before a write belong to it. A write may be
a conflict (`localFresh` is false), fail, or take effect and lose its reply.

Abstractions: resourceVersions are the two freshness bits; `GenerateName` names are
numbers; a digest is the number of the builder that pushed it; hashes are injective;
wording of reasons and messages, labels and pod specs are left out. Not modelled: the
route through the KEDA interceptor (HTTP functions use the Knative engine), Services of
`ExternalName` type without a cluster address, an empty digest string (only a missing
output), deletion of the Function (the garbage collector deletes all it owns), ties of
creation timestamps (they have a granularity of a second) in `pruneBuilder`, stale reads
of the HTTPRoute and of the Service.

### BuilderController and BuilderLifecycle

`BuilderController` has the Builder (`builder`), its Builds and BuildRuns numbered in
creation order, their caches, the worker, and the timer goroutine as `timer` (`off`,
`waiting`, or `updating` with a copy read from the cache) with its entry `timerKey` in
`r.timers`. `StartReconcile`, `CancelRun`, `Check`, `StartTimer`, `GetBuilderResult`,
`ResetStatus` and `RecordStart` are `Reconcile`; `CleanBuilds`, `CleanRuns`, `CreateBuild`,
`WaitForBuild` and `CreateRun` are `Start`; `TimerFires` and `TimerWrites` are
`waitBuildTimeout` and `buildTimeout`. `ResetStatus` matters although it writes nothing
new: it is refused on an outdated copy and so keeps a reconcile that has not seen the
start from starting again. A timed out builder's BuildRun is left to Shipwright's own
timeout. Accesses to the map `r.timers`, which nothing locks, are atomic in the model; the
Go runtime may abort the process on a concurrent access, which is a `Crash`.

`BuilderLifecycle` is the promise: started at most once, ended at most once, `Canceled`
only after a cancellation, an end is final, a timeout may come before the start. It has
the same alternatives as `BuilderProgress` of module 1.

### ServingController and ServingLifecycle

`ServingController` has the Serving (`serving`; `ref` is `status.resourceRef` and the Service
name), the objects made for it, their caches, the worker, and the timer goroutine as in
`BuilderController`. An object is named by its kind (`component`, `workload`, `service`,
`scaler`, `proxy`) and the call of `Run` that made it.

| Code | Actions and operators |
|---|---|
| `Reconcile` | `StartReconcile`, `Check`, `StartTimer`, `Decide`, `LateClean`, `LateRecord`, `ResetStatus`, `RecordStart` |
| `getServingResult` | `GetServingResult` |
| `Run` of each engine, `CreateComponents`, `CreateDaprProxy` | `CleanBeforeRun`, `Create`, with `KnativeRun`, `KedaHttpRun`, `AsyncRun` as the order |
| `Clean` of each engine, `CleanDaprProxy` | `Clean`, with `KnativeClean`, `KedaHttpClean`, `AsyncClean` as what is found |
| `Result` of each engine | `KnativeResult`, `KedaHttpResult`, `AsyncResult`, `ProxyResult` |
| goroutine of `startTimer`, `stopTimer` | `TimerFires`, `TimerWrites`, `StopTimer` |
| `SetupWithManager`, `Registry` | `SyncServing`, `SyncObjects` |
| process | `Crash` |
| Knative, Kubernetes, users | `ObjectProgress`, `ObjectFlaps`, `DeleteServing`, `CollectGarbage`, `DeleteObject` |

The clock is looked at three times, as in the code. The engine `job` stands for the async
engine with a workload other than a Deployment, of which `Result` says that it runs without a
look. A workload is `new` until its controller has written a condition; `unready`, `ready` and
`failed` stand for its conditions. Of a proxy only a failure counts, so it is `new` or `failed`
(and `ready` when it recovers). Components are one object: they are created one after the
other and found by one label. Left out: reasons and messages (a status that differs only there
is written again), Kubernetes events, the ConfigMap patch after the first failing `Run`, what is
in pod specs and scalers.

`Missing` is the rest of the order in which the engine creates its objects: an attempt goes on
with the first of it, and nothing comes out of that order.

`ServingLifecycle` is the promise: started at most once, `Running` and `Failed` only after the
start and in any order, a timeout only before the serving ran and final. Module 1 assumes these
steps in `ServingProgress` and `ServingFlap`.

### GatewayController

The state is the OpenFunction Gateways (`gw`: spec, the annotation `config` with the spec
last applied, finalizer, deletion mark, status), the Kubernetes Gateways (`k8s`: listeners,
the annotation `injected` with the listeners put there last, the listeners their
implementation reports), the Service of each Gateway, the informer caches of both kinds, and
the one worker (`pc`, `self`, `local`, `queue`).

| Code | Actions |
|---|---|
| `Reconcile` (deletion, finalizer) | `StartReconcile`, `AddFinalizer`, `CleanDeleted`, `RemoveFinalizer` |
| `cleanExternalResources`, `cleanK8sGatewayResources` | `CleanOld`, `CleanDeleted` |
| `createOrUpdateGateway`, `createK8sGateway`, `reconcileK8sGateway`, `needReconcileK8sGateway`, `syncStatusFromK8sGateway` | `CreateOrUpdateGateway` |
| the deferred `updateGatewayStatus` | `UpdateGatewayStatus` |
| `updateGatewayAnnotations` | `UpdateGatewayAnnotations` |
| `createOrUpdateService` | `CreateOrUpdateService` |
| `SetupWithManager`, `filterK8sGatewayUpdateEvent`, `findObjectsForK8sGateway` | `SyncGateway`, `SyncK8sGateway` |
| process | `Crash` |
| users, administrators, the Gateway API implementation | `EditSpec`, `DeleteGateway`, `AdminEdits`, `K8sGatewayDeleted`, `Program` |

`Defaulted` and `Validated` are what the webhook makes of a spec and demands of it; every
spec of the model satisfies both.

`k8sNews` are the changes of Kubernetes Gateways that the informer has not delivered yet, one by
one: the predicate compares an event's old object with its new one, and so drops the events that
change only the status, while one that lags by several changes still passes each of them on.

Abstractions: listeners are a function from names, for the code finds them by name and their
order means nothing; what a listener says is one of `Configs`. `GatewayClass`, addresses,
labels, host and path templates and the wording of conditions are left out; a status is the
reason of its condition and the names of its listeners. The status is a subresource: the update that
records the annotations leaves it as it is in the API server. Each Gateway has a namespace of its
own (see 6 for two in one). The garbage collector takes the Service at once. A stale read of
the Service repeats the reconcile and nothing else. A user does not wipe the annotation. The
field `k8sGateway` of the reconciler is overwritten by every reconcile, which is safe only
because there is one worker. `overtaken` is a history variable: the Gateways whose user changed
them before their last spec was recorded.

### EventBuses, EventSourceController, TriggerController, Subscribers, Eventing

`EventBuses` has the EventBus and ClusterEventBus objects (`bus`) and their cache, which both
controllers share; a bus is the version of its NATS section, or has none. Each controller
module has its objects, their cache, the functions it writes, its queue, the changes of buses
that its watch handlers have yet to map, and its one worker.

| Code | Actions |
|---|---|
| `Reconcile`, `createOrUpdateEventSource` up to the first write | `SourceGone`, `StartSource` |
| `handleEventSource`, `createOrUpdateEventSourceFunction` | `WriteFunction` (one per event), `SourceWriteFails` |
| `CreateOrUpdate` of the EventSource with `mutateEventSource` | `UpdateSource` |
| `SaveStatus` at the end, or deferred | `ReadySource`, `FailSource` |
| `SetupWithManager` (own kind, EventBus, ClusterEventBus) | `SyncSource`, `MapBus`, `MapClusterBus` |
| users, the garbage collector | `EditSource`, `DeleteSource`, `CollectFunction`, `ChangeBus` |
| process | `CrashEvents` (both controllers) |

`TriggerController` has the same actions for Triggers; what `handleSubscriber` makes of the
subscribers is `HandleSubscriber` in `Subscribers`: a fold over the list that carries outputs,
component bindings, the configuration by condition, the topics seen and the next index.

The optimistic lock: a write is refused when the copy differs from the object in the API
server, which serves as the resourceVersion; `saves` makes every write of the status, which
appends conditions, a change. `SaveStatus` logs a refusal and goes on. `newSinkUri` is the
field of the reconciler: it keeps the sink of the last EventSource that had one, for all of them.

Abstractions: the sections of the event kinds are part of the name of an event, those of the
bus of its version; a sink is its address; conditions are the last one. A function is what it
was made from. `missed` and `overlooked` are history variables: objects whose bus changed
between the read of the bus and the moment their label could be found.

### ObjectVersions, FunctionWebhook, FunctionContext, FunctionAPI

`ObjectVersions` has the conversions as operators with the names of the functions: `...To` goes
from v1beta1 to v1beta2, `...From` back. A build may be converted to any of a set of builds,
because its parameters come out of a Go map. `FunctionWebhook` is `Default` and `Validate`.
`FunctionContext` is `Run` of the three engines as far as a property is about it: which
components are created under which names, the environment (`GenOpenFunctionContextV1beta1` and
`...V1beta2` with hooks, tracing, states, inputs and outputs), runtime class, Dapr mode, scaler
and proxy; a merge that changes the Serving in place is a different Serving for what comes
later (`MergedInPlace`). The v1beta2 context resolves names and types of outputs, inputs and states, but
of a Dapr trigger only the name; the ConfigMap has a tracing key for each version, and v1beta2 falls back
on the other's. Where the code dereferences nil there are operators
(`BuildPanics`, `ConvertFails`, `RunPanics`) that guard the actions.

`FunctionAPI` is one stored function. `PutHub` and `PutSpoke` write it in either version,
through conversion, defaults, conversion back and validation as the API server chains them;
`TouchSpoke` reads and writes it at v1beta1; `CreateServing`, `RunServing`, `CreateBuilder`,
`FinishBuilder`, `CancelBuilder` and `Report` are what the controllers do with it, without the
conditions under which they do it (module 1 has those); `TouchServing` and `TouchBuilder` are
clients of v1beta1. `pods` also says what specification and configuration the engine had, for a
touch may change the Serving later. `ComponentsAgree` and `HooksAgree` say of any such workload what
`SameComponents` and `SameHooks` say of the one in `pods`. Which fields the parts of an object have is said once, by the
`Is...` predicates (`IsFunction2` and so on), which `FunctionsAssumption` demands of everything that
is sent or reported. Texts are values that are well-formed or not (`IllFormed`); images,
environments and templates that every direction copies are one field, `kept`.

## 4. Runs

| Run | Question | Bounds | Result |
|---|---|---|---|
| `builds` | Are the recorded build and revision always real ones, single, bounded and up to date? | 2 builders, 1 edit, 1 of {failed write, crash, deletion}, expiry, missing digests | 577 000 states, holds |
| `rollout` | Does an edit of build, serving or trigger, or one that removes the serving, roll out without serving the wrong image, an outage or a serving left behind? | 2 builders, 3 servings, 1 edit, early timeouts | 410 000 states, holds |
| `faults` | Does every function converge after any one fault? | 3 builders, 4 servings, 1 of {failed write, stale cache, crash, deletion, flapping workload} | 127 000 states, holds |
| `builder` | Does a Builder keep its lifecycle, run one build and end? | 3 starts, 1 of {failed write, crash, deletion}, one cancellation at any time | 385 000 states, holds |
| `serving` | Does a Serving keep its lifecycle, leave nothing behind and say what its workload says? | 4 engines, 2 attempts, 1 of {failed write of worker or goroutine, stale cache, crash, deletion, flapping workload} | 989 000 states, holds |
| `gateway` | Are the listeners on a shared Kubernetes Gateway those its users ask for, and nobody else's touched, whatever fails in between? | 2 Gateways, 2 Kubernetes Gateways, 1 edit or deletion, 1 of {failed write, crash, administrator's edit, removal, report} | 584 000 states, holds |
| `events` | Do a source and a trigger come to the same bus, sink and subscribers, does a spec keep the sink it was read with, and does the work end? | 1 source with 2 events, 1 trigger with up to 2 subscribers, 1 of {edit, deletion, change of a bus, failed write, crash}, 2 generations | 179 000 states, holds; evaluates `Handled` for 16 000 lists of subscribers |
| `api` | What do conversions, webhook and contexts lose, and what never? | 11 functions sent at v1beta1 and 14 at v1beta2, 16 that the webhook refuses, 3 statuses, the configurations of `MCConfigs` | 23 000 states, holds |
| `edit_race_outage` | | 2 edits | violated, see 6 |
| `edit_undone` | | 2 edits | violated, see 6 |
| `panic` | | 1 edit | violated, see 6 |
| `foreign_sink` | | 2 sources with 1 event, no trigger, 1 change | violated, see 6 |

The bounds: every property is about at most the recorded child, its predecessor and one
that a retry created, so two to four children cover the interleavings; a second edit or
fault only repeats them (it was tried for single properties while the models grew and
found nothing new). `MaxBuilders`, `MaxServings`, `MaxStarts` and `MaxAttempts` are guards of the
create actions: where a liveness property is checked they are large enough never to be
met. `CHECK_DEADLOCK FALSE` is set because a function that is settled, and a builder that is
over, has nothing left to do. `MaxChanges` bounds what users do and what fails in `events`;
`MaxGen` bounds the generations, for a source whose sink the reconciler and a lagging
cache write back and forth has no last one: past `MaxGen` a reconcile waits for the cache, which
cuts off the repetition and nothing else. `Unfollowed` keeps the function of `api` as it is while a
Serving or Builder made of it is followed: no action on the one reads the other.

Fairness. `FairSpec` of module 1: the worker, the informers and the other reconcilers go
on, a build and a start end sooner or later. The first three are what controller-runtime
gives; that builds end is what `builder` shows for builders with a timeout, and an
assumption on Shipwright for the others. `FairSpec` of module 2 assumes less: the worker,
the goroutine, the informers and the clock go on, a BuildRun ends if it is cancelled, but
may hang if not. `FairSpec` of `ServingController` is the same without the BuildRuns: no workload
has to become ready. `FairSpec` of `GatewayController` is again the worker and the informers, with
strong fairness for the start of each request: the work queue is first in, first out, so a
request that is queued again and again is not passed over for ever. `EventsFairness` is the two workers, the
informers and the watch handlers; with one source and one trigger no request can be passed over. No edit, fault, crash or cancellation is ever fair.

Properties that do not hold in general are stated for where they do: `HistoryBounded`,
`OneActiveBuilder` and `OneActiveRun` are checked without stale caches, `NoOutage` in
`rollout` without stale or faulty steps and for specs with a build (`edit_race_outage` shows what an
ill-timed edit does, section 6 what the removal of a build does), `BuildReflected` of builders that were started (and but for a build section that two edits added
and removed, see `edit_undone`), `Accounted` except for what a Gateway in
`overtaken` left, and `Converges` of Gateways that agree on the listeners whose names they share. `TimeoutEnds` names the one window
in which a timeout is missed: `Reconcile` looks at the clock twice, and if the timeout is
over between the two looks of the first reconcile after a restart, no timer is started and
nothing brings the request back before the informers resync (hours). For a Serving it also
names the update of the goroutine that fails, for there is no second attempt. `NothingTwice` and
`OnlyRecorded` leave out what `Clean` does not look for, and behaviours with a stale cache;
`RecordedStay` leaves out servings that are about to time out; `StatusFollows` ends with the
timeout (see 6). `FunctionsFollow`, `SubscribersReached` and `Connected` leave out the bus of objects in
`missed` or `overlooked`; `SubscribersReached` is about subscribers with conditions and topics of
their own, one sink address per namespace and no dead letter sinks (`Plain`).
`EventsSettle` is stated for objects that can be served in the end: the others are retried for ever.
`TouchRollsNothingOut` is about functions that v1beta1 can express (`Expressible`), with one build
parameter at most, and sources recorded beside the revision. `SameComponents` asks that the component
exists only where the type is left open or is the Serving's own (`OfServing`), for a type that is given is
taken as it is; `SameHooks` leaves out a ConfigMap with an order or with v1beta2 hooks (`Unordered`),
which one version of the frameworks does not read. Of the type of a trigger `SameComponents` asks
only that what the v1beta2 context says, if anything, agrees with v1beta1 (`SameTrigger`): that it says one at all,
as the comment of the type promises, does not hold (see 6). `SpecsAreTheUsers` says which sink is written for
a source that was read with one, and of the others only that nothing but the sink changes, and only after an edit;
`SinkIsItsOwn` asks for more of those and fails (`foreign_sink`). `WritableBack` names the two cases in
which a v1beta1 client cannot write back what it read.

The type invariants of `BuilderController`, `ServingController` and `GatewayController` are proved
(section 5); that of `Eventing` was checked on the same instance. No run repeats them. Two more instances held and are
left out because their properties are proved for every value of the constants: `builds` with an edit that
takes the build section away (6 million states), and `FunctionsFollow` and `SpecsAreTheUsers` on the two sources of
`foreign_sink` (111 000 states). Of the edits of a build section the runs have `edit_undone`.

## 5. Proofs

`FunctionController_proofs` proves, for every value of the constants (any number of
builders, servings, edits and faults, any set of specs):

| Theorem | States |
|---|---|
| `TypeCorrect` | `Spec => []TypeOK` |
| `SuccessIsTrue` | `Spec => []SucceededIsBuilt`: a recorded success is that of a builder of the recorded hash |
| `RevisionIsTrue` | `Spec => []RevisionIsPushed`: the recorded revision is a pushed image |
| `SuccessIsStable` | `Spec => BuildSuccessIsStable`: only an edit undoes the success of the current build |

`TypeOK` is not inductive: `RouteStatus` writes the serving of the spec into the status, so
`TypeInv` adds that the worker gets there with an HTTP serving only. For the other three the
inductive invariant is `BuildInv` (in `FunctionProperties`): a copy
that still has the current version is the object (`FreshCopies`); what the cache shows as
succeeded has succeeded (`CacheMirrors`); names not handed out have no builder
(`UnbornBuilders`); each of the three copies of the status - API server, cache, worker -
refers to a builder of the recorded hash, and a recorded success is one the cache still
shows (`StatusOK`); and between the reset of a build and the record of the next one the
worker's copy refers to nothing, while the builder about to be recorded is the newest
(`WorkerOK`). The last is why the status is reset before a builder is created, and why a
lost reply cannot pair an old hash with a new builder. The proof first bounds what any step
does to builders and caches (they only advance), then shows per action that the written
status is sound.

The assumptions are the named ASSUMEs of `FunctionController`: the specs are well typed, the
`No...` values are none of the ordinary ones, the bounds are naturals, the switches are
Boolean, and an HTTP trigger is no async one.

`FunctionRollout_proofs` and `FunctionRest_proofs` go on from there:

| Theorem | States | Provided that |
|---|---|---|
| `ServedIsBuilt` | `Spec => ServesTheBuiltCode`: a serving is created from the image of the build its pass asks for | builds report a digest (`~MissingDigest`) |
| `OneActiveBuilderHolds` | `Spec => []OneActiveBuilder` | no pass starts with lagging caches (`"lag" \notin Disturbances`) |
| `OnlyRunningServingHolds` | `Spec => []OnlyRunningServingLives` | the same |
| `BuildIsReflected` | `Spec => []BuildReflected`: at rest the recorded build is the one asked for and says what its builder says | - |
| `ServingIsReflected` | `Spec => []ServingReflected`: the same of the serving, the HTTPRoute and the Service | - |
| `HistoryIsBounded` | `Spec => []HistoryBounded` | no lag, and no builder times out before it started (`~EarlyTimeout`) |

The provisos are the code's: it has no lock but the resourceVersion of the Function, and lists the
children from caches. Each of them is needed: without it TLC finds the property violated (see 6;
with `EarlyTimeout` a builder without a phase is neither active nor pruned).

- `RecordInv` (needed by all) says what is recorded together: a reference has its hash and a
  state, a running serving has its service, and the worker's steps know for which section of the spec
  they work (`StepsOK`). `PinnedInv` adds that a recorded success is the one the revision is pinned
  to, which leads from the image of a new serving back to the build of the spec in the same pass.
- `ActiveInv` and `AloneInv` follow what a pass has seen. A pass that began with full caches sees
  every active builder until it has cancelled them (`Builder`, `CancelOldBuilder`), and from
  `PruneOldBuilders` to `CreateBuilder` there is none. It sees every serving until it creates one,
  which it does only after the status was reset; so `RecordRunning` finds the recorded one alone.
- `RestInv` is about a pass to which nothing was reported and that wrote nothing since it began
  (`Silent`): its copy is the Function, and what it has passed is right, the build after
  `createBuilder` (`BuildSeen`, or `CancelSeen` while it waits for a builder to end), the serving
  and the route at the end (`ServingSeen`, `RouteSeen`). Any write or event ends the silence and
  leaves a request in the queue, so at rest all of it holds. `UndoneOK` is the exception that
  `edit_undone` shows: it counts the edits a skipped build takes to be forgotten.
- `HistoryInv` counts. Between two builds the completed builders are within the limits (`Bounded`);
  while one is recorded they are, but for that one (`BoundedBut`); the pass that sees it completed
  prunes, with a cache that has every builder (`PruningOK`), and until then a request is pending
  (`PruneSeen`). The lemmas under it are about cardinalities: the oldest of a list beyond the limit
  are as many as it exceeds it by (`NewestAreFew`), and pruning them leaves the limit
  (`PrunedIsBounded`).

The proofs bound the effect of every step once (`Walks`, `Moves`, `BuildersChange`,
`BuilderBorn` and the `Wrote...` operators: the status a step may write, field by field), so that a
lemma about an invariant has to look at these effects instead of at thirty actions.

`BuilderController_proofs`, for any number of Builds, BuildRuns and disturbances:

| Theorem | States | Provided that |
|---|---|---|
| `TypeOKHolds` | `Spec => []TypeOK` | - |
| `RecordedRunIsLastHolds` | `Spec => []RecordedRunIsLast` | - |
| `EndIsTheRunsHolds` | `Spec => []EndIsTheRuns` | - |
| `ImplementsLifecycleHolds` | `Spec => ImplementsLifecycle`: the refinement of `BuilderLifecycle` | - |
| `OneActiveRunHolds` | `Spec => []OneActiveRun` | no reconcile starts with lagging caches |

The argument: a copy with the current version is the Builder (`CopiesInv`), also the copy of the
goroutine; a cancellation in any copy or BuildRun was asked for (`CancelInv`); from the reset of the
status to the record of the start nothing is recorded (`WorkerInv`), so that a reconcile that does
not know of a start is refused by its reset; BuildRuns end once (`RunsInv`). Every write of the
status then maps to a step of `BuilderLifecycle` or to a stutter. `CleanInv` says where the
leftovers of a failed `Start` are.

`ServingController_proofs`, for every engine, any number of attempts and disturbances:

| Theorem | States |
|---|---|
| `TypeOKHolds` | `Spec => []TypeOK` |
| `RecordedStayHolds` | `Spec => []RecordedStay` |
| `ImplementsLifecycleHolds` | `Spec => ImplementsLifecycle`: the refinement of `ServingLifecycle` |
| `NothingTwiceHolds` | `Spec => []NothingTwice` |
| `OnlyRecordedHolds` | `Spec => []OnlyRecorded` |
| `StatusFollowsHolds` | `Spec => []StatusFollows` |

Beside the counterparts of the Builder's invariants: nobody speaks of a timeout before it is over
(`ClockInv`); a serving that runs was seen to be started, so a reconcile that does not see the start
is behind by no more than that (`SeenInv`), which keeps it away from the objects of one that runs
(`GoneInv`); what an attempt has left goes before the next one begins (`KeptInv`, as long as no
reconcile started with lagging caches: the proviso is in the properties themselves); a Serving is
in the queue, or will be when the informer brings its last change, or the worker has it, or its
status is right (`FollowInv`).

`GatewayController_proofs`, for any Gateways, Kubernetes Gateways, specs, edits and disturbances:

| Theorem | States |
|---|---|
| `TypeOKHolds` | `Spec => []TypeOK` |
| `ForeignKeptHolds` | `Spec => ForeignKept` |
| `AccountedHolds` | `Spec => []Accounted` |
| `ReflectedHolds` | `Spec => []Reflected` |

`CoreInv` says how the copies age (`CopiesInv`: the cache and the worker have an older version of
each Gateway; `K8sInv`: a Kubernetes Gateway without news is as the cache has it), what the worker's
step tells of its copy (`StageInv`), that a Gateway with a finalizer goes only when the worker has
seen its deletion (`GoneInv`), and that the copies of a Gateway nobody overtook are at the spec or
at the recorded one (`LineInv`). `Accounted` is not inductive, for one Gateway takes off listeners
that another still has: `ClaimedInv` names the specs by which each Gateway may have something on a
Kubernetes Gateway, `CreatorInv` does so for one that the cache does not have yet, and `CleanedInv`
says that between the clean up and the record of the new spec whatever is left of the old one is
claimed by somebody else. For `Reflected`, `PlacedInv` follows the listeners from the update to
the record, and `FollowInv` says that a Gateway is in the queue, behind in the cache, at the
worker, or done. `GatewayAssumption` has the webhook's rules for specs, and that there is a
Kubernetes Gateway and a configuration of a listener at all.

`Eventing_proofs` proves, for any number of sources, triggers, events, buses, changes and faults,
and with the Trigger reconciler beside it:

| Theorem | States |
|---|---|
| `InvHolds` | `EventsSpec => []IInv`: the inductive invariant |
| `FunctionsFollowHolds` | `EventsSpec => []FunctionsFollow`: with nothing left to do, every EventSource is served on its bus and sinks as they are |
| `SpecsAreTheUsersHolds` | `EventsSpec => SpecsAreTheUsers`: the reconciler writes a spec only after its sink was edited, changes only the sink, and gives a source that was read with a sink that one back, for any number of sources |
| `TriggersHold` | `EventsSpec => [](IInv /\ TriggersInv)`: with the inductive invariant of the triggers |
| `TriggersServed` | with nothing left to do, every Trigger has a function made of its spec and its bus as they are |
| `SubscribersReachedHolds` | given `Handled`, `EventsSpec => []SubscribersReached`: and what the function sends reaches the subscribers |
| `ConnectedHolds` | `EventsSpec => []Connected`: each input of a Trigger is on the bus on which its source publishes |

`FunctionsFollow` speaks of a reconciler at rest, so `IInv` says where the work is before that
(`SourceInv`): a live source is in the queue; or its cached copy lags by a generation or a deletion,
and the informer will queue it (`Stale`); or the worker is at it and failed; or the worker is at it
and what it has written so far is right (`Working`); or the last reconcile went through (`Done`).
What was made of a bus counts as right while the change of that bus has still to be mapped
(`Coming`). `Done` includes the label, because the ClusterEventBus watch finds a source by
nothing else; `CacheInv` bounds what the cache may show of the label and the spec, and `WorkerInv`
keeps the worker's sink and its bus until the EventSource is written. The proof has a lemma for each
step; what a write or a status update does to an object is bounded once (`WhatIsWritten`,
`WhatIsSaved`), and what a step leaves alone likewise (`Untouched`, `BusSideKeeps`).

`TriggersInv` says the same of Triggers: each is in the queue, behind in the cache, failed at the
worker, being made (`MakingTrigger`) or made (`MadeTrigger`); `TriggerCacheInv` and
`TriggerWorkerInv` bound the cache and the worker's copy. It leans on `IInv` for the buses and their cache,
which both controllers share, and `ConnectedHolds` puts the two halves together: both followed the
same bus. `SubscribersReachedHolds` takes as hypothesis that `handleSubscriber` does right by each
list of subscribers in a spec (`Handled`), because `HandleSubscriber` is a fold over the list;
`MCEvents` has TLC evaluate it for every list of up to two subscribers of the instance (without dead
letter sinks, which `Plain` excludes).

The assumptions are `BusesAssumption`, `SourceAssumption`, `ServingAssumption`, `TriggerAssumption`,
`MadeFromAssumption` and `InputsAssumption`: specs are well typed, inputs name events of
EventSources, and the value for "nothing there" is no bus, no version and no function.

`FunctionAPI_proofs` proves, for any functions that clients send in either version, any statuses,
hooks and configurations:

| Theorem | States |
|---|---|
| `InvHolds` | `APISpec => []IInv`: the inductive invariant |
| `DefaultedHolds` | `APISpec => []Defaulted`: what is stored is valid and has triggers, port, route, gateway and strategy where the controllers need them; WebAssembly runs under a runtime class |
| `RecordsSurviveHolds` | `APISpec => RecordsSurvive`: no write at v1beta1 changes what the controllers steer by |
| `WritableBackHolds` | `APISpec => []WritableBack`: what was read at v1beta1 can be written back, but for jobs and broken annotations |
| `SettledInSpokeHolds` | `APISpec => []SettledInSpoke`: what was written at v1beta1 means the same after any number of touches there |
| `TouchRollsNothingOutHolds` | `APISpec => TouchRollsNothingOut`: a touch at v1beta1 changes nothing that is hashed |
| `SameComponentsHolds` | `APISpec => []SameComponents`: the contexts of workload and proxy lead to the same components in both versions, and to the same types but for triggers whose type the specification leaves open |
| `SameHooksHolds` | `APISpec => []SameHooks`: the hooks are the same by the annotations and by the specification |

`Defaulted` speaks of `Default(fn) = fn`, which says nothing by itself of what a conversion does to it, nor
of what `Default` fills in, so it names what the controllers dereference as well (`Reachable`, and the strategy);
`Filled` says field by field what there is nothing left to fill in of (`DefaultFixed`: the two are the
same). `Default` fills everything in (`DefaultFills`); a function that is filled in still is after a
conversion to v1beta1 and back (`FilledConverted`), except for an http trigger at port 0 beside Dapr
triggers, which v1beta1 cannot hold - and which `Default` never leaves on what came from v1beta1
(`NoPortZero`). So whatever the webhook admits of a v1beta1 write is filled in (`AdmittedFilled`), for
each of the orders in which the parameters may come out. `IInv` adds that a Serving has the mark of
WebAssembly that its function has (`ServingInv`, the touches included) and that what runs was made of such
a Serving (`PodsInv`), with contexts that agree (`ComponentsAgree`). For `RecordsSurvive` the parameters go from a list to a map to some list and mean
the same (`ParamsBack`, by the cardinality theorems: a sequence of all elements of a finite set, each
once, is onto), and conditions and statuses keep their records (`ConditionConverted`, `StatusThere`).
`WritableBack` follows the sections of a valid function through both conversions (`BuildBack`,
`ScaleBack`).

`SettledInSpoke` is not inductive: that a function means the same after one touch does not say what a
second one does. `SpokeInv` says instead what a function written at v1beta1 looks like: it is `Expressible`,
section by section (`ServingExpressible`, `BuildExpressible`, `ExpressibleTo`), because every part of it came
out of `ConvertTo` and passed the webhook. The other half is that what is expressible comes back: triggers,
outputs, scale, hooks and notes are what they were (`TriggersBack`, `OutputsBack`, `ScaleThere`, `HooksBack`,
`NotesBack`, put together in `ServingThere`), the build but for the order of its parameters (`BuildThere`),
so a touch keeps the meaning (`MeaningKept`). Outputs that are all bound stay in place because the n-th of
the indices kept is n (`NthKept`). `TouchRollsNothingOut` needs more: that the webhook has nothing to
default on the way (`TouchAdmitted`, by `FilledConverted`), that a list of one parameter is the only one its
map may become (`OneListed`), and that the revision stays beside sources (`RevisionKept`).

For the contexts `SpokeInv` and `ServingInv` add that the annotations of what v1beta1 wrote say what its
specification says (`Annotated`), touches included. `HooksParsed` compares the two ways of the hooks, and
`TracingMerged` shows that a second merge of the tracing configuration changes nothing, so that workload and
proxy are told the same although the specification was changed in between (`ContextsAgain`). A component
that `Run` did not fail on is created or there already (`ComponentThere`, `StateThere`); keys that do not
collide keep their values in the map that a loop fills (`KeyedAlone`).

The assumptions are `RuntimesAssumption`, `DefaultsAssumption` (the defaults are set) and
`FunctionsAssumption` (objects have the fields of their types, a list is finite). The theorems have one
hypothesis more, `NoneIsNoObject`: what stands for a field that is not set is no object, list or map, that
is no function in the sense of TLA+. TLC cannot evaluate this of a model value, which is why it is
no ASSUME.

Only model-checked, and why:

- Liveness (`Settles`, `TimeoutEnds` of both kinds, `CancelEnds`, `Converges`, `EventsSettle`): fairness and
  ENABLED are out of the prover's reach.
- `Handled`, the hypothesis of `SubscribersReachedHolds` about what `HandleSubscriber` makes of a list: an
  induction over data.
- `NoOutage` holds only in `rollout`, where nothing goes wrong; in general it does not (see 6).

## 6. Where the code does not do what it says

The runs that expect a violation:

- `edit_race_outage`: old servings are deleted before the new one is recorded as the last
  successful one. An edit between the two makes the next reconcile keep the deleted one
  and delete the one that runs.
- `panic`: a running function whose `spec.serving` is removed together with a change of
  its build is routed while the build is under way, and `fn.Spec.Serving.Triggers` is read
  through nil.
- `edit_undone`: the reset of a build keeps the recorded hash. A build section that is added to a
  function without one and removed again before the new builder is recorded leaves the hash of no
  build with an empty state: `needToCreateBuilder` sees nothing to do, the build is not skipped, and no
  serving is created until the next edit of the build.
- `foreign_sink`: `newSinkUri` is shared by all EventSources and set only for one that has a sink as it is
  read. A user who gives an EventSource its first sink between that read and the update gets the sink of another
  EventSource in its place, and the next reconcile serves it.

Also seen while modelling, without a run of their own:

- A Deployment that was just created has no conditions, and `Result` of the async and KEDA
  engines calls it running (`pkg/core/interface.go:46` has `""` for "starting"). The function then
  deletes its old servings before a pod of the new one has started.
- A cancellation makes the record of a start conflict; the retry's `Clean` does not see the
  first BuildRun in its cache yet, and it stays beside the second.
- `filterK8sGatewayUpdateEvent` drops the events that change nothing but the status of the
  Kubernetes Gateway, so the listeners in the status of a Gateway stay those of the last change of
  the listeners themselves.
- `cancelOldBuilder` lists an informer cache; behind it, a second builder starts beside the first
  (`OneActiveBuilder` with the disturbance `lag`).
- With `failedBuildsHistoryLimit: 0` a builder that failed is deleted as soon as its end is recorded, and
  `needToCreateBuilder` takes it for one deleted before it completed: the failing build is repeated for ever. A
  failed builder that expires by `builderMaxAge` is built again, too.
- `pruneBuilder` lists again after the recorded builder was read. With the default
  `successfulBuildsHistoryLimit` of 0 a builder that succeeded in between is deleted before
  its success is recorded, and the build is repeated.
- A completed builder that a lagging cache hid from the last pruning is never pruned.
- A builder that times out before it was started has no phase, and
  `updateFuncWithBuilderStatus` ignores it: the function stays in `Created`.
- Removing `spec.build` replaces the serving condition, which forgets the last successful
  serving: the running one is deleted before its successor runs. The revision is kept and
  pins the new image to the digest of the old build.
- Removing `spec.serving` keeps the last successful serving for ever.
- A change from an HTTP to a Dapr trigger leaves the Service an `ExternalName`.
- A builder whose Build or BuildRun is deleted and that has no timeout stays in `Building`.
- An edit of a Gateway that comes after its listeners were written and before the annotation
  records them makes the record fail. The spec in between is forgotten and the listeners only it
  had stay on the Kubernetes Gateway.
- A deleted Gateway is cleaned up by its spec, not by its annotation: an edit that was not
  applied before the deletion leaves the listeners of the spec before.
- Two Gateways whose listeners of one name differ (`ofn-http-internal` with different cluster
  domains) overwrite each other's for ever.
- The Gateway that defined a Kubernetes Gateway deletes it together with the listeners of every
  Gateway that refers to it.
- All Gateways of a namespace write the one Service `gateway`.
- Deleting a Gateway takes `ofn-http-internal` from the others on the same Kubernetes Gateway
  until their next reconcile repairs it.
- Once its timeout is over the status of a Serving is frozen, also of one that runs:
  `Reconcile` returns before it looks at the workload.
- `Clean` of the HTTP engines does not look for Dapr components, and the Service that the KEDA
  engine creates has no labels: every failed `Run` leaves them behind until the Serving goes.
- A failed update of the timer goroutine of a Serving is not repeated: the Serving stays in
  `Starting` until something else happens to it.
- `stopTimer` stops the timer but not the goroutine, which waits for it for ever: one goroutine per
  Serving with a timeout that ran.
- The patch of `config-features` after a failed `Run` is in a `doOnce`, which the first failure
  of any kind uses up.
- The Service of an async function is pointed at the new proxy when the serving is created,
  long before it runs.

Events:

- An EventSource whose cached copy lags behind its own writes has its sink written back to an
  older one, and the reconcile after that forth again, as long as the cache lags.
- The step of `foreign_sink` writes `""` when no EventSource had a sink before (the property leaves
  that out), and the reconcile after it serves the empty address.
- A ClusterEventBus that changes between the read of the bus and the moment the label can be
  found is missed for good: the functions stay on the old version.
- A sink with a reference and no uri, and a dead letter sink of a subscriber without a sink, end
  the operator (nil dereference).
- A dead letter sink becomes a second output to the sink itself, and the name in the
  handler's configuration for it has no output.
- Two subscribers with the same condition: the last one's configuration wins. A topic that is
  named twice gets an empty output name the second time. Sinks of one namespace share one
  component, the last address wins.
- A Trigger on a bus without NATS section makes a function without a name, which the API server
  refuses for ever. Addresses behind a sink reference are read once and not watched.
- Functions of events that were removed from an EventSource are never deleted; a function that
  another client deletes or changes stays so until something else queues its source.

Conversions and contexts:

- `GenOpenFunctionContextV1beta2` looks up the type of a Dapr trigger's component, uses it for the name and
  leaves `type` as it is in the specification (`pkg/core/serving/common/common.go:691`). A trigger without
  one, of which `apis/core/v1beta2/serving_types.go:71` says "controller will get it automatically", reaches the
  framework untyped, unlike outputs, inputs and states, and unlike in the context of v1beta1.
- Every write at v1beta1 drops `status.serving.service`, which the controller copies again only
  when state, reason or message change: until then `createOrUpdateHTTPRoute` returns early. Without
  recorded sources it drops revision, addresses and route as well.
- Build parameters come out of a Go map in any order, and the order counts for the builder's
  hash: with two parameters a touch at v1beta1 may start a build.
- The image of a bundle becomes the name of its credentials, and without credentials there is a
  nil dereference; parameters without a Shipwright section are another, a ScaledJob without a
  ScaledObject a third (and with both, the webhook refuses what was read).
- Lost at v1beta1: the build timeout, the HTTPScaledObject, the fallback of a scaled object, the HTTP
  engine, the policy of hooks, inputs of triggers, Dapr triggers beside an HTTP one, outputs whose
  component the serving does not define.
- Hooks and tracing that are removed at v1beta2 come back with the next touch at v1beta1: the
  annotations still say them.
- Tracing that is enabled without a provider, and the KEDA engine with KEDA options but no
  HTTPScaledObject, are nil dereferences.
- v1beta2 outputs are keyed by the name of their component: of several topics on one bus, as a
  Trigger's function has them, only the last remains; v1beta1 inputs without names collapse likewise.
- An `order` of hooks in the ConfigMap reaches v1beta1 frameworks only, v1beta2 hooks in it v1beta2
  ones only.
- The comment at `pkg/core/serving/knative/servingrun.go:210` ranks the Knative scale options above
  the replica bounds and those above the annotations; the code ranks bounds, annotations, options.

## 7. Not modelled

- Flags, scheme registration, leader election and metrics of `main.go`; generated deep copies,
  clients, informers and listers (`zz_generated*`, `pkg/client`): wiring and copies.
- Data that is copied and steers nothing: pod templates, environments, volumes, labels, the
  sections of the event kinds (Kafka, Cron, MQTT, Redis), Dapr metadata, and the encoding of the
  handlers' configuration as JSON in base64.
- The route of an HTTP function through the KEDA interceptor, host and path templates, Kubernetes
  events, reasons and messages.
- The handlers that run in the functions of events, Dapr, Shipwright, Knative, KEDA and the Gateway
  API: they are what the code expects of them, and marked as external in the map.
