--------------------------- MODULE ObjectVersions ---------------------------
(***************************************************************************)
(* The two versions of the core API and the conversions between them:      *)
(* v1beta1, the spoke, and v1beta2, the hub and the version that is        *)
(* stored.  Pure operators: ...To converts a part of a v1beta1 object,     *)
(* ...From a part of a v1beta2 one.  The value of a pointer or a map that  *)
(* is not set is None; an empty list is the list that is not set, as it is *)
(* once the object was serialised.  "kept" stands for the fields that both *)
(* directions copy (images, environment, labels and so on).                *)
(***************************************************************************)
EXTENDS Integers, FiniteSets, Sequences, SequencesExt

CONSTANTS
    None,       \* a pointer, map or string that is not set
    IllFormed   \* an annotation whose text is not the YAML that is expected

ASSUME RuntimesAssumption == None \notin {"knative", "async"}

Given(x, y) == IF x # None THEN x ELSE y

\* The type of the component a trigger or an output names; the components
\* are the bindings and, behind them, the pubsubs of the serving section.
getDaprComponent(s, name) ==
    IF name \in DOMAIN s.components THEN s.components[name] ELSE None

-----------------------------------------------------------------------------
(* The serving section.                                                    *)

NoTriggers == [http |-> None, dapr |-> <<>>, inputs |-> <<>>]

\* Inputs or outputs of the section, with the types of their components.
Typed(s, refs) ==
    [i \in DOMAIN refs |->
        [type |-> getDaprComponent(s, refs[i].component),
         component |-> refs[i].component, topic |-> refs[i].topic, name |-> refs[i].name]]

TriggersTo(s, port, route) ==
    [NoTriggers EXCEPT
        !.http = IF s.runtime = "knative"
                 THEN [port |-> port, route |-> route, engine |-> None] ELSE None,
        !.dapr = IF s.runtime = "async" THEN Typed(s, s.inputs) ELSE <<>>]

\* v1beta1 has one runtime: the http trigger wins over the inputs.
RuntimeFrom(t) ==
    IF t = None THEN None
    ELSE IF t.http # None THEN "knative"
    ELSE IF t.dapr # <<>> THEN "async" ELSE None

InputsOf(list) ==
    [i \in DOMAIN list |->
        [component |-> list[i].component, topic |-> list[i].topic, name |-> list[i].name]]

InputsFrom(t) == IF RuntimeFrom(t) = "async" THEN InputsOf(t.dapr) ELSE <<>>

\* An output whose component the section does not define is left out: the n-th of
\* the outputs is that of the n-th index that is kept.
Nth(kept, n) == CHOOSE i \in kept : Cardinality({j \in kept : j <= i}) = n

OutputsTo(s) ==
    LET kept == {i \in DOMAIN s.outputs : getDaprComponent(s, s.outputs[i].component) # None}
    IN  Typed(s, [n \in 1..Cardinality(kept) |-> s.outputs[Nth(kept, n)]])

OutputsFrom(outputs) == InputsOf(outputs)

\* Replica bounds of the scaler win over those of the scale options, a job's
\* polling interval is the scaled object's.
ScaleTo(s) ==
    LET k == s.scale.keda
        object == IF k = None THEN None ELSE k.object
        job == IF k = None THEN None ELSE k.job
        Bound(scaler, bound) == IF scaler = None THEN None ELSE scaler[bound]
    IN  IF s.scale = None THEN None
        ELSE [max |-> Given(Bound(job, "max"), Given(Bound(object, "max"), s.scale.max)),
              min |-> Given(Bound(object, "min"), s.scale.min),
              keda |->
                IF k = None THEN None
                ELSE [http |-> None, triggers |-> s.triggers,
                      object |-> IF object = None THEN None
                                 ELSE [polling |-> object.polling, cooldown |-> object.cooldown,
                                       advanced |-> object.advanced, fallback |-> None],
                      job |-> IF job = None THEN None
                              ELSE [polling |-> object.polling, strategy |-> job.strategy,
                                    limits |-> job.limits, restart |-> job.restart]]]

\* The keda options of a Serving are converted only with a scaled object.
KedaOfServing(s) ==
    IF s.scale # None /\ s.scale.keda # None /\ s.scale.keda.object = None
    THEN [s EXCEPT !.scale.keda = None] ELSE s

\* A mutant: the default of the workload type wins over the one given.
WorkloadAlwaysDefault(object) == "Deployment"

WorkloadOfObject(object) == IF object.workload = "" THEN "Deployment" ELSE object.workload

WorkloadTo(s) ==
    IF s.scale = None \/ s.scale.keda = None THEN ""
    ELSE IF s.scale.keda.job # None THEN "Job"
    ELSE IF s.scale.keda.object # None THEN WorkloadOfObject(s.scale.keda.object) ELSE ""

ScaleFrom(s) ==
    LET k == s.scale.keda
    IN  IF s.scale = None THEN None
        ELSE [min |-> s.scale.min, max |-> s.scale.max,
              keda |->
                IF k = None THEN None
                ELSE [object |-> IF k.object = None THEN None
                                 ELSE [workload |-> s.workload, min |-> s.scale.min,
                                       max |-> s.scale.max, polling |-> k.object.polling,
                                       cooldown |-> k.object.cooldown,
                                       advanced |-> k.object.advanced],
                      job |-> IF k.job = None THEN None
                              ELSE [max |-> s.scale.max, polling |-> k.job.polling,
                                    strategy |-> k.job.strategy, limits |-> k.job.limits,
                                    restart |-> k.job.restart]]]

KedaTriggersFrom(s) ==
    IF s.scale = None \/ s.scale.keda = None THEN <<>> ELSE s.scale.keda.triggers

\* The hooks of the annotation "plugins": an order runs backwards after the
\* function, explicit lists win.
HooksTo(plugins) ==
    IF plugins = None THEN None
    ELSE LET order == Given(plugins.order, <<>>)
         IN  [policy |-> "Override", pre |-> Given(plugins.pre, order),
              post |-> Given(plugins.post, Reverse(order))]

\* A mutant: the two lists are swapped.
PluginsFromSwapped(hooks) == [order |-> None, pre |-> hooks.post, post |-> hooks.pre]

PluginsFrom(hooks) ==
    LET Listed(l) == IF l = <<>> THEN None ELSE l
    IN  [order |-> None, pre |-> Listed(hooks.pre), post |-> Listed(hooks.post)]

convertServingTo(s, port, route, notes) ==
    [triggers |-> TriggersTo(s, port, route), outputs |-> OutputsTo(s),
     scale |-> ScaleTo(s), workload |-> WorkloadTo(s),
     hooks |-> HooksTo(notes.plugins), tracing |-> notes.tracing,
     components |-> s.components, states |-> s.states, annotations |-> s.annotations,
     wasm |-> s.wasm, template |-> s.template, kept |-> s.kept]

convertServingFrom(s) ==
    [runtime |-> RuntimeFrom(s.triggers), inputs |-> InputsFrom(s.triggers),
     outputs |-> OutputsFrom(s.outputs), scale |-> ScaleFrom(s),
     triggers |-> KedaTriggersFrom(s),
     components |-> s.components, states |-> s.states, annotations |-> s.annotations,
     wasm |-> s.wasm, template |-> s.template, kept |-> s.kept]

\* Hooks and tracing are annotations in v1beta1; the annotations of an object
\* that has none of them keep what they said before.
NotesFrom(notes, s) ==
    [notes EXCEPT !.plugins = IF s.hooks = None THEN @ ELSE PluginsFrom(s.hooks),
                  !.tracing = Given(s.tracing, @)]

UnreadableNotes(notes) == IllFormed \in {notes.plugins, notes.tracing}

\* A scaled job dereferences the scaled object that is not there.
JobWithoutObject(s) ==
    /\ s.scale # None /\ s.scale.keda # None
    /\ s.scale.keda.job # None /\ s.scale.keda.object = None

-----------------------------------------------------------------------------
(* The build section.                                                      *)

\* The image of a bundle container becomes the name of the credentials.
convertBundle(source) ==
    IF source = None \/ source.bundle = None THEN source
    ELSE [source EXCEPT !.bundle = source.credentials]

NamelessBundle(source) == source # None /\ source.bundle # None /\ source.credentials = None

\* The lists a map of parameters may become: Go ranges over it in any order.
ParamLists(params) ==
    {[i \in DOMAIN names |-> [name |-> names[i], value |-> params[names[i]]]] :
        names \in SetToSeqs(DOMAIN params)}

\* The map of a list of parameters: a value that comes from a config map or
\* a secret is left out, the last of two values wins.
Valued(list) == {i \in DOMAIN list : list[i].value # None}
IsLast(list, i) == \A j \in Valued(list) : list[j].name = list[i].name => j <= i
ParamMap(list) ==
    LET LastOf(n) == CHOOSE i \in Valued(list) : list[i].name = n /\ IsLast(list, i)
    IN  [n \in {list[i].name : i \in Valued(list)} |-> list[LastOf(n)].value]

NoParams == ParamMap(<<>>)

ParamsFrom(shipwright) == IF shipwright = None THEN NoParams ELSE ParamMap(shipwright.params)

\* BuildImpl.Timeout is copied in neither direction.
convertBuildTo(b) ==
    {[source |-> convertBundle(b.source), tool |-> b.tool, limits |-> b.limits,
      timeout |-> None, kept |-> b.kept,
      shipwright |-> IF b.shipwright = None THEN None
                     ELSE [strategy |-> b.shipwright.strategy,
                           timeout |-> b.shipwright.timeout, params |-> params]] :
        params \in ParamLists(b.params)}

\* A mutant: the engine is converted only when it has a strategy.
convertBuildFromStrategy(b) ==
    [source |-> convertBundle(b.source), tool |-> b.tool, limits |-> b.limits,
     timeout |-> None, kept |-> b.kept, params |-> ParamsFrom(b.shipwright),
     shipwright |-> IF b.shipwright = None \/ b.shipwright.strategy = None THEN None
                    ELSE [strategy |-> b.shipwright.strategy, timeout |-> b.shipwright.timeout]]

convertBuildFrom(b) ==
    [source |-> convertBundle(b.source), tool |-> b.tool, limits |-> b.limits,
     timeout |-> None, kept |-> b.kept, params |-> ParamsFrom(b.shipwright),
     shipwright |-> IF b.shipwright = None THEN None
                    ELSE [strategy |-> b.shipwright.strategy, timeout |-> b.shipwright.timeout]]

\* The dereferences of convertBuildTo that fail.
BuildPanics(b) == NamelessBundle(b.source) \/ (b.shipwright = None /\ b.params # NoParams)

-----------------------------------------------------------------------------
(* Function.                                                               *)

\* A mutant: the last success is not copied.
convertConditionWithoutLast(c) ==
    IF c = None THEN None ELSE [c EXCEPT !.service = "", !.message = "", !.last = ""]

convertCondition(c) ==
    IF c = None THEN None ELSE [c EXCEPT !.service = "", !.message = ""]

StatusTo(t) ==
    [t EXCEPT !.build = convertCondition(@), !.serving = convertCondition(@)]

\* Revision, addresses and route are copied with the sources or not at all.
StatusFrom(t) ==
    LET c == StatusTo(t)
    IN  IF t.sources # None THEN c
        ELSE [c EXCEPT !.revision = None, !.addresses = <<>>, !.route = None]

\* The v1beta2 functions a v1beta1 function may be converted to.
ConvertTo(o) ==
    {[notes |-> o.notes, version |-> o.version, image |-> o.image,
      credentials |-> o.credentials, runtime |-> o.runtime, build |-> b,
      serving |-> IF o.serving = None THEN None
                  ELSE convertServingTo(o.serving, o.port, o.route, o.notes),
      status |-> StatusTo(o.status)] :
        b \in IF o.build = None THEN {None} ELSE convertBuildTo(o.build)}

ConvertFails(o) ==
    \/ o.build # None /\ BuildPanics(o.build)
    \/ o.serving # None /\ (JobWithoutObject(o.serving) \/ UnreadableNotes(o.notes))

ConvertFrom(h) ==
    LET s == h.serving
        http == IF s = None \/ s.triggers = None THEN None ELSE s.triggers.http
    IN  [notes |-> IF s = None THEN h.notes ELSE NotesFrom(h.notes, s),
         version |-> h.version, image |-> h.image, credentials |-> h.credentials,
         runtime |-> h.runtime,
         port |-> IF http = None THEN None ELSE http.port,
         route |-> IF http = None THEN None ELSE http.route,
         build |-> IF h.build = None THEN None ELSE convertBuildFrom(h.build),
         serving |-> IF s = None THEN None ELSE convertServingFrom(s),
         status |-> StatusFrom(h.status)]

ConvertFromFails(h) == h.build # None /\ NamelessBundle(h.build.source)

-----------------------------------------------------------------------------
(* Serving and Builder.                                                    *)

\* A Serving has no route in v1beta1, and its workload is never a job.
ServingConvertTo(o) ==
    LET s == KedaOfServing(o.spec)
        workload == IF s.scale = None \/ s.scale.keda = None THEN ""
                    ELSE WorkloadOfObject(s.scale.keda.object)
    IN  [notes |-> o.notes,
         spec |-> [convertServingTo(s, o.port, None, o.notes) EXCEPT !.workload = workload],
         status |-> [o.status EXCEPT !.service = "", !.message = ""]]

ServingConvertFrom(h) ==
    LET t == h.spec.triggers
    IN  [notes |-> NotesFrom(h.notes, h.spec), spec |-> convertServingFrom(h.spec),
         port |-> IF t = None \/ t.http = None THEN None ELSE t.http.port,
         status |-> [h.status EXCEPT !.service = "", !.message = ""]]

\* A Builder keeps its bundle, its timeout and the digest it reported; its
\* parameters are converted with the strategy or not at all.
BuilderConvertTo(o) ==
    {[state |-> o.state,
      spec |-> [source |-> o.spec.source, tool |-> o.spec.tool, limits |-> {},
                timeout |-> o.spec.timeout, kept |-> o.spec.kept,
                shipwright |-> IF o.spec.shipwright = None THEN None
                               ELSE [strategy |-> o.spec.shipwright.strategy,
                                     timeout |-> o.spec.shipwright.timeout, params |-> params]],
      status |-> [o.status EXCEPT !.message = ""]] : params \in ParamLists(o.spec.params)}

BuilderConvertFrom(h) ==
    [state |-> h.state,
     spec |-> [source |-> h.spec.source, tool |-> h.spec.tool, timeout |-> h.spec.timeout,
               kept |-> h.spec.kept, params |-> ParamsFrom(h.spec.shipwright),
               shipwright |-> IF h.spec.shipwright = None THEN None
                              ELSE [strategy |-> h.spec.shipwright.strategy,
                                    timeout |-> h.spec.shipwright.timeout]],
     status |-> [h.status EXCEPT !.message = ""]]
=============================================================================
