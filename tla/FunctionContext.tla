-------------------------- MODULE FunctionContext --------------------------
(***************************************************************************)
(* What a serving engine makes of a Serving (pkg/core/serving): the Dapr   *)
(* components, the workload, its scaler and the Dapr proxy, and the two    *)
(* function contexts that workload and proxy get in their environment,     *)
(* one for the function frameworks of v1beta1, which takes the hooks from  *)
(* annotations, and one for those of v1beta2.  Pure operators; in which    *)
(* order the objects are created and what a failure leaves is the matter   *)
(* of ServingController.  A component is in the section of its type, and   *)
(* it is created under a name of the Serving, section and component; a     *)
(* tracing configuration names a provider.                                 *)
(***************************************************************************)
EXTENDS FunctionWebhook, TLC

CONSTANT
    ExistingComponents   \* the types of the components that others created, by name

\* The configuration of all functions, a ConfigMap: hooks and tracing, each under
\* a key of v1beta1 (plugins, plugins.tracing) and one of v1beta2.
NoConfig == [plugins |-> None, pluginsTracing |-> None, hooks |-> None, tracing |-> None]

Named(type, name) == [section |-> type.group, name |-> name]
AsWritten(name) == [section |-> None, name |-> name]

\* CreateComponents: a state may refer to a component of others.
CreateComponents(s) ==
    {Named(s.components[n], n) : n \in DOMAIN s.components} \cup
    {Named(s.states[n], n) : n \in {m \in DOMAIN s.states : s.states[m] # None}}

getComponentTypeFromServing(s, name) ==
    Given(getDaprComponent(s, name), IF name \in DOMAIN s.states THEN s.states[name] ELSE None)

\* None when no such component is found, which is an error.
getExistingComponentType(name) ==
    IF name \in DOMAIN ExistingComponents THEN ExistingComponents[name] ELSE None

getComponentType(s, name, type) ==
    Given(type, Given(getComponentTypeFromServing(s, name), getExistingComponentType(name)))

getStateType(s, name) == Given(s.states[name], getExistingComponentType(name))

\* A mutant: bindings are named as in the specification.
getRealComponentNameOfPubsub(refs, name, type) ==
    IF type.group # "bindings" /\ Named(type, name) \in refs THEN Named(type, name) ELSE AsWritten(name)

getRealComponentName(refs, name, type) ==
    IF Named(type, name) \in refs THEN Named(type, name) ELSE AsWritten(name)

\* A Go map that is filled in a loop: the last value of a key stays.
Keyed(keys, values) ==
    LET LastOf(k) == CHOOSE i \in DOMAIN keys :
                        /\ keys[i] = k
                        /\ \A j \in DOMAIN keys : keys[j] = k => j <= i
    IN  [k \in Range(keys) |-> values[LastOf(k)]]

-----------------------------------------------------------------------------
(* Hooks and tracing.                                                      *)

WellFormed(text) == text \notin {None, IllFormed}

\* parsePluginsCfg: annotations win over the ConfigMap, of which it knows the keys of
\* v1beta1; the tracing plugin is the last to run before the function and the
\* first after it.
parsePluginsCfg(notes, cm) ==
    LET plugins == Given(notes.plugins, cm.plugins)
        tracing == Given(notes.tracing, cm.pluginsTracing)
        hooks == IF WellFormed(plugins) THEN HooksTo(plugins) ELSE [pre |-> <<>>, post |-> <<>>]
        tracer == IF WellFormed(tracing) /\ tracing.enabled THEN <<tracing.provider.name>> ELSE <<>>
    IN  [pre |-> hooks.pre \o tracer, post |-> tracer \o hooks.post,
         tracing |-> IF WellFormed(tracing) THEN tracing ELSE None]

\* An order in the ConfigMap is not known to v1beta2.
getGlobalHooks(cm) ==
    LET hooks == Given(cm.hooks, cm.plugins)
    IN  IF ~WellFormed(hooks) THEN [pre |-> <<>>, post |-> <<>>]
        ELSE [pre |-> Given(hooks.pre, <<>>), post |-> Given(hooks.post, <<>>)]

\* A mutant: the policy is not looked at.
HooksAppended(s, cm) ==
    LET global == getGlobalHooks(cm)
    IN  IF s.hooks = None THEN global
        ELSE [pre |-> global.pre \o s.hooks.pre, post |-> s.hooks.post \o global.post]

HooksOf(s, cm) ==
    LET global == getGlobalHooks(cm)
    IN  IF s.hooks = None THEN global
        ELSE IF s.hooks.policy = "Override" THEN [pre |-> s.hooks.pre, post |-> s.hooks.post]
        ELSE [pre |-> global.pre \o s.hooks.pre, post |-> s.hooks.post \o global.post]

getGlobalTracingConfig(cm) ==
    LET tracing == Given(cm.tracing, cm.pluginsTracing)
    IN  IF WellFormed(tracing) THEN tracing ELSE None

\* Fields the function leaves open are taken from the ConfigMap.
mergerTracingConfig(tracing, cm) ==
    LET global == getGlobalTracingConfig(cm)
    IN  IF tracing # None /\ ~tracing.enabled THEN None
        ELSE IF global = None THEN tracing
        ELSE IF tracing = None THEN global
        ELSE [enabled |-> tracing.enabled,
              provider |-> [f \in DOMAIN tracing.provider |->
                               Given(tracing.provider[f], global.provider[f])],
              tags |-> [k \in DOMAIN tracing.tags \cup DOMAIN global.tags |->
                           IF k \in DOMAIN tracing.tags THEN tracing.tags[k] ELSE global.tags[k]]]

\* It merges into the specification it is given: the next one to ask for the
\* tracing configuration of the Serving merges once more.
MergedInPlace(s, cm) ==
    IF s.tracing # None /\ s.tracing.enabled
    THEN [s EXCEPT !.tracing = mergerTracingConfig(@, cm)] ELSE s

GetSkywalkingEnv(s, cm) ==
    LET tracing == mergerTracingConfig(s.tracing, cm)
    IN  IF tracing # None /\ tracing.enabled /\ tracing.provider.name = "skywalking"
        THEN tracing.provider.server ELSE None

-----------------------------------------------------------------------------
(* The contexts.                                                           *)

Component(s, refs, r) ==
    LET type == getComponentType(s, r.component, r.type)
    IN  [component |-> getRealComponentName(refs, r.component, type), type |-> type]

States(s, refs) ==
    [n \in DOMAIN s.states |->
        [component |-> getRealComponentName(refs, n, getStateType(s, n)), type |-> getStateType(s, n)]]

Uri(s, r) ==
    IF getComponentType(s, r.component, r.type).group = "bindings" THEN r.component ELSE r.topic

InputName(r) == Given(r.name, r.component)

Port(s) == IF s.triggers.http = None THEN DefaultFuncPort ELSE Given(s.triggers.http.port, DefaultFuncPort)

InputNames(list) == [i \in DOMAIN list |-> InputName(list[i])]
ComponentNames(list) == [i \in DOMAIN list |-> list[i].component]

GenOpenFunctionContextV1beta1(s, notes, refs, cm) ==
    LET Target(r) == [uri |-> Uri(s, r), component |-> Component(s, refs, r).component,
                      type |-> Component(s, refs, r).type]
        Targets(list) == [i \in DOMAIN list |-> Target(list[i])]
        plugins == parsePluginsCfg(notes, cm)
    IN  [runtime |-> IF s.triggers.dapr # <<>> THEN "Async" ELSE "Knative",
         port |-> Port(s),
         inputs |-> Keyed(InputNames(s.triggers.dapr), Targets(s.triggers.dapr)),
         outputs |-> Keyed(InputNames(s.outputs), Targets(s.outputs)),
         states |-> States(s, refs),
         pre |-> plugins.pre, post |-> plugins.post, tracing |-> plugins.tracing]

GenOpenFunctionContextV1beta2(s, refs, cm) ==
    LET Targets(list) == [i \in DOMAIN list |-> Component(s, refs, list[i])]
        Topic(r) == [topic |-> r.topic, component |-> Component(s, refs, r).component,
                     type |-> Component(s, refs, r).type]
        \* Only its name is resolved, its type stays as in the specification.
        Trigger(d) == [d EXCEPT !.component = Component(s, refs, d).component]
        Topics(list) == [i \in DOMAIN list |-> Topic(list[i])]
        dapr == s.triggers.dapr
        inputs == s.triggers.inputs
    IN  [triggers |-> [i \in DOMAIN dapr |-> Trigger(dapr[i])],
         inputs |-> Keyed(ComponentNames(inputs), Topics(inputs)),
         outputs |-> Keyed(ComponentNames(s.outputs), Targets(s.outputs)),
         states |-> States(s, refs),
         tracing |-> mergerTracingConfig(s.tracing, cm),
         pre |-> HooksOf(s, cm).pre, post |-> HooksOf(s, cm).post]

CreateFunctionContextENV(s, notes, refs, cm) ==
    [v1beta1 |-> GenOpenFunctionContextV1beta1(s, notes, refs, cm),
     v1beta2 |-> GenOpenFunctionContextV1beta2(s, refs, cm)]

-----------------------------------------------------------------------------
(* Workload, scaler, proxy.                                                *)

GetDaprServiceEnabled(s) ==
    IF s.annotations.dapr # None THEN s.annotations.dapr # "false"
    ELSE s.triggers.dapr # <<>> \/ s.triggers.inputs # <<>> \/ s.outputs # <<>> \/ DOMAIN s.states # {}

GetDaprServiceMode(s) == Given(s.annotations.mode, "standalone")

NeedCreateDaprProxy(s) == GetDaprServiceEnabled(s) /\ GetDaprServiceMode(s) = "standalone"

NeedCreateDaprSidecar(s) == GetDaprServiceEnabled(s) /\ GetDaprServiceMode(s) = "sidecar"

RuntimeClassName(s, notes) ==
    Given(IF s.template = None THEN None ELSE s.template.runtimeClass,
          IF notes.wasm # None THEN "openfunction-crun" ELSE None)

\* The template of the pods, as far as all engines have it in common.
PodsOf(s, notes, refs, cm) ==
    [port |-> Port(s), runtimeClass |-> RuntimeClassName(s, notes),
     sidecar |-> NeedCreateDaprSidecar(s), daprHost |-> NeedCreateDaprProxy(s),
     env |-> CreateFunctionContextENV(s, notes, refs, cm)]

HasKeda(s) == s.scale # None /\ s.scale.keda # None

Replicas(s) == IF HasKeda(s) /\ s.scale.min # None /\ s.scale.min > 0 THEN s.scale.min ELSE 1

\* The Knative Service scales by itself, within the bounds in its annotations.
KnativeWorkload(s, notes, refs, cm) ==
    [kind |-> "Service", oap |-> GetSkywalkingEnv(s, cm),
     bounds |-> IF s.scale = None THEN None ELSE <<s.scale.min, s.scale.max>>,
     template |-> PodsOf(MergedInPlace(s, cm), notes, refs, cm)]

KedaHttpWorkload(s, notes, refs, cm) ==
    [kind |-> "Deployment", oap |-> None, replicas |-> Replicas(s),
     template |-> PodsOf(s, notes, refs, cm)]

AsyncWorkload(s, notes, refs, cm) ==
    [kind |-> IF s.workload \in {"StatefulSet", "Job"} THEN s.workload ELSE "Deployment",
     oap |-> GetSkywalkingEnv(s, cm), replicas |-> Replicas(s),
     template |-> PodsOf(MergedInPlace(s, cm), notes, refs, cm)]

KedaHttpScaler(s) ==
    IF ~HasKeda(s) THEN None
    ELSE [kind |-> "HTTPScaledObject", min |-> s.scale.min, max |-> s.scale.max,
          pending |-> Given(s.scale.keda.http.pending, 100),
          cooldown |-> Given(s.scale.keda.http.cooldown, 300)]

\* Without triggers there is no scaler; the options for the other kind of
\* workload are left aside.
AsyncScaler(s) ==
    IF ~HasKeda(s) \/ s.scale.keda.triggers = <<>> THEN None
    ELSE IF s.workload = "Job"
    THEN [kind |-> "ScaledJob", min |-> None, max |-> s.scale.max, options |-> s.scale.keda.job]
    ELSE [kind |-> "ScaledObject", min |-> s.scale.min, max |-> s.scale.max,
          options |-> s.scale.keda.object]

EngineOf(s) ==
    IF s.triggers.http = None THEN "async"
    ELSE IF s.triggers.http.engine = "keda" THEN "keda" ELSE "knative"

\* The kedahttp engine dereferences the options of its scaler.
RunPanics(s) == EngineOf(s) = "keda" /\ HasKeda(s) /\ s.scale.keda.http = None

\* A component that neither the Serving nor anybody else defines.
RunFails(s) ==
    \/ \E r \in Range(s.triggers.dapr) \cup Range(s.triggers.inputs) \cup Range(s.outputs) :
          getComponentType(s, r.component, r.type) = None
    \/ \E n \in DOMAIN s.states : getStateType(s, n) = None

\* Run of the three engines: the proxy comes last, its contexts are generated
\* anew, from the specification that the workload's left.  The result says what it was
\* made of, too.
Run(s, notes, cm) ==
    LET refs == CreateComponents(s)
        workload == CASE EngineOf(s) = "knative" -> KnativeWorkload(s, notes, refs, cm)
                      [] EngineOf(s) = "keda" -> KedaHttpWorkload(s, notes, refs, cm)
                      [] EngineOf(s) = "async" -> AsyncWorkload(s, notes, refs, cm)
        scaler == CASE EngineOf(s) = "knative" -> None
                    [] EngineOf(s) = "keda" -> KedaHttpScaler(s)
                    [] EngineOf(s) = "async" -> AsyncScaler(s)
        proxy == IF NeedCreateDaprProxy(s)
                 THEN CreateFunctionContextENV(MergedInPlace(s, cm), notes, refs, cm) ELSE None
    IN  [spec |-> s, config |-> cm, components |-> refs, workload |-> workload, scaler |-> scaler,
         proxy |-> proxy]
=============================================================================
