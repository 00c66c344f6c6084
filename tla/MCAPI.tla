------------------------------- MODULE MCAPI -------------------------------
(***************************************************************************)
(* Functions of both versions: one per feature whose conversion, default   *)
(* or validation differs, the refused ones included.                       *)
(***************************************************************************)
EXTENDS FunctionAPI

MCPercentages == {"50%"}
NoNotes == [plugins |-> None, tracing |-> None, wasm |-> None]
Source == [url |-> "git", bundle |-> None, credentials |-> None]
Type(group) == [group |-> group, of |-> "any"]
Components == "target" :> Type("bindings") @@ "bus" :> Type("pubsub")
MCExisting == "shared" :> Type("state") @@ "queue" :> Type("pubsub")
Tracing(enabled, provider, server, tags) ==
    [enabled |-> enabled, provider |-> [name |-> provider, server |-> server], tags |-> tags]
Global(plugins, tracing) == [NoConfig EXCEPT !.plugins = plugins, !.pluginsTracing = tracing]
MCConfigs ==
    {NoConfig, Global([order |-> <<"f", "g">>, pre |-> None, post |-> None], None),
     Global([order |-> None, pre |-> <<"g">>, post |-> <<"h">>],
            Tracing(TRUE, "skywalking", "oap", "a" :> 1 @@ "b" :> 1)),
     [Global(None, Tracing(TRUE, "otel", "collector", <<>>))
        EXCEPT !.tracing = Tracing(TRUE, "skywalking", "oap", <<>>)],
     [Global(IllFormed, IllFormed) EXCEPT !.hooks = [order |-> None, pre |-> <<"g">>, post |-> None]]}
Plain == [dapr |-> None, mode |-> None]
Input == [component |-> "target", topic |-> "t", name |-> "in"]
Unbound == [component |-> "other", topic |-> "t", name |-> "out"]
Message(topic) == [component |-> "bus", topic |-> topic, name |-> None]
HPA(window) == [up |-> None, down |-> [window |-> window, select |-> "Max",
                                       policies |-> <<[type |-> "Pods", period |-> 1]>>]]

\* v1beta1
Build1 == [source |-> Source, tool |-> "builder", limits |-> {1}, timeout |-> None, kept |-> None,
           shipwright |-> [strategy |-> "kaniko", timeout |-> 1], params |-> NoParams]
Serving1 == [runtime |-> "knative", inputs |-> <<>>, outputs |-> <<>>, scale |-> None,
             triggers |-> <<>>, components |-> Components, states |-> <<>>, annotations |-> Plain,
             wasm |-> None, template |-> None, kept |-> None]
Object1 == [workload |-> "", min |-> None, max |-> 5, polling |-> 1, cooldown |-> 1,
            advanced |-> HPA(1)]
Job1 == [max |-> 3, polling |-> 2, limits |-> {1}, restart |-> "Never",
         strategy |-> [name |-> "custom", deduction |-> 1, percentage |-> "50%"]]
Scale1(object, job) == [min |-> 1, max |-> 4, keda |-> [object |-> object, job |-> job]]
Function1 == [notes |-> NoNotes, version |-> None, image |-> "image", credentials |-> None,
              runtime |-> "OCIContainer", port |-> None, route |-> None,
              build |-> None, serving |-> Serving1, status |-> NoStatus]
Async1 == [Serving1 EXCEPT !.runtime = "async", !.inputs = <<Input>>, !.outputs = <<Input, Unbound>>,
                           !.triggers = <<"lag">>]

MCFunctions1 ==
    {[Function1 EXCEPT !.route = [gateway |-> None, hosts |-> <<"host">>], !.port = 80],
     [Function1 EXCEPT !.build = [Build1 EXCEPT !.params = "a" :> 1 @@ "b" :> 2, !.timeout = 9],
                       !.notes.plugins = [order |-> <<"p", "q">>, pre |-> None, post |-> <<"r">>],
                       !.notes.tracing = Tracing(TRUE, "skywalking", None, "b" :> 2)],
     [Function1 EXCEPT !.serving = None,
                       !.build = [Build1 EXCEPT !.source.bundle = "bundle", !.source.credentials = "secret",
                                                !.shipwright.strategy = None, !.params = "a" :> 1]],
     [Function1 EXCEPT !.build = [Build1 EXCEPT !.params = "a" :> 1, !.shipwright = None]],
     [Function1 EXCEPT !.serving = [Async1 EXCEPT !.scale = Scale1(Object1, None)]],
     [Function1 EXCEPT !.serving = [Async1 EXCEPT !.inputs = <<>>, !.scale = Scale1(None, None)]],
     [Function1 EXCEPT !.serving = [Async1 EXCEPT !.scale = Scale1(None, Job1)]],
     [Function1 EXCEPT !.serving = [Async1 EXCEPT !.scale = Scale1(Object1, Job1)]],
     [Function1 EXCEPT !.runtime = "wasmedge", !.build = [Build1 EXCEPT !.shipwright = None],
                       !.serving.template = [runtimeClass |-> None]],
     [Function1 EXCEPT !.notes.plugins = [order |-> <<"p", "q">>, pre |-> <<"r">>, post |-> None],
                       !.notes.tracing = Tracing(FALSE, "otel", None, <<>>),
                       !.serving = [Async1 EXCEPT !.inputs = <<Message("t"), Message("u")>>,
                                                  !.outputs = <<[Message("v") EXCEPT !.name = "v"]>>,
                                                  !.states = "kv" :> Type("state")]],
     [Function1 EXCEPT !.notes.plugins = IllFormed]}

\* v1beta2
Engine(p) == [strategy |-> "kaniko", timeout |-> None, params |-> p]
Param(n, v) == [name |-> n, value |-> v]
Build2 == [source |-> Source, tool |-> "builder", limits |-> {1}, timeout |-> None, kept |-> None,
           shipwright |-> Engine(<<Param("a", 1)>>)]
Serving2 == [triggers |-> None, outputs |-> <<>>, scale |-> None, workload |-> "", hooks |-> None,
             tracing |-> None, components |-> Components, states |-> <<>>, annotations |-> Plain,
             wasm |-> None, template |-> None, kept |-> None]
Http(port, engine) == [port |-> port, route |-> [gateway |-> None, hosts |-> <<"host">>], engine |-> engine]
Dapr2 == [NoTriggers EXCEPT !.dapr = <<[type |-> Type("bindings")] @@ Input>>]
Object2 == [polling |-> 1, cooldown |-> None, advanced |-> HPA(0), fallback |-> None]
Job2 == [polling |-> 1, limits |-> {}, restart |-> None,
         strategy |-> [name |-> "", deduction |-> None, percentage |-> None]]
Scale2(http, object, job) ==
    [min |-> None, max |-> 4,
     keda |-> [http |-> http, object |-> object, job |-> job, triggers |-> <<"lag">>]]
Untyped(ref) == [type |-> None] @@ ref
Named2(component, name) == [component |-> component, topic |-> name, name |-> name]
Hooks(policy) == [policy |-> policy, pre |-> <<"p">>, post |-> <<>>]
Function2 == [notes |-> NoNotes, version |-> "v1", image |-> "image", credentials |-> None,
              runtime |-> "OCIContainer", build |-> None, serving |-> Serving2, status |-> NoStatus]
Served(s) == [Function2 EXCEPT !.serving = s]
Scaled(c) == Served([Serving2 EXCEPT !.triggers = Dapr2, !.scale = c])

MCFunctions2 ==
    {[Function2 EXCEPT !.build = [Build2 EXCEPT !.shipwright.strategy = None]],
     [Function2 EXCEPT !.build = [Build2 EXCEPT !.shipwright = Engine(<<Param("a", 1), Param("a", 2)>>)],
                       !.serving = [Serving2 EXCEPT !.outputs = <<[type |-> Type("bindings")] @@ Input,
                                                                  [type |-> Type("bindings")] @@ Unbound>>]],
     [Function2 EXCEPT !.build = [Build2 EXCEPT !.timeout = 9, !.source.bundle = "bundle",
                                                !.shipwright = Engine(<<Param("a", None)>>)]],
     Served([Serving2 EXCEPT !.triggers = [Dapr2 EXCEPT !.http = Http(0, None), !.inputs = <<[type |-> None] @@ Input>>]]),
     Served([Serving2 EXCEPT !.triggers = [NoTriggers EXCEPT !.http = Http(0, "keda")],
                             !.scale = Scale2([pending |-> 1, cooldown |-> 1], None, None)]),
     Served([Serving2 EXCEPT !.triggers = Dapr2, !.workload = "StatefulSet", !.tracing = Tracing(TRUE, "skywalking", None, "b" :> 2),
                             !.hooks = Hooks("Override"), !.scale = Scale2(None, Object2, None)]),
     Scaled(Scale2(None, [Object2 EXCEPT !.fallback = [threshold |-> 1, replicas |-> 0]], None)),
     Scaled(Scale2(None, None, Job2)),
     Served([Serving2 EXCEPT !.triggers = [NoTriggers EXCEPT !.dapr = <<Untyped(Message("t")), Untyped(Input)>>],
                             !.outputs = <<Untyped(Named2("queue", "o")), Untyped(Named2("queue", "p"))>>,
                             !.states = "kv" :> Type("state") @@ "shared" :> None,
                             !.annotations = [dapr |-> "true", mode |-> "sidecar"]]),
     [Served([Serving2 EXCEPT !.outputs = <<Untyped(Input)>>, !.states = "shared" :> None,
                              !.tracing = Tracing(FALSE, "otel", None, <<>>)])
        EXCEPT !.notes.wasm = "compat-smart"],
     Served([Serving2 EXCEPT !.outputs = <<Untyped(Unbound)>>, !.annotations.dapr = "false"]),
     [Scaled(Scale2(None, None, Job2)) EXCEPT !.serving.workload = "Job"],
     Served([Serving2 EXCEPT !.triggers = [NoTriggers EXCEPT !.http = Http(0, "keda")],
                             !.scale = Scale2(None, Object2, None)]),
     [Function2 EXCEPT !.notes.plugins = IllFormed]}

\* Functions the webhook refuses, each for a reason of its own.
MCRefused2 ==
    {[Function2 EXCEPT !.image = ""],
     [Function2 EXCEPT !.serving = None],
     [Function2 EXCEPT !.build = Build2, !.credentials = ""],
     [Function2 EXCEPT !.build = [Build2 EXCEPT !.tool = None]],
     [Function2 EXCEPT !.build = [Build2 EXCEPT !.source = None]],
     [Function2 EXCEPT !.build = [Build2 EXCEPT !.source.url = None]],
     [Function2 EXCEPT !.build = [Build2 EXCEPT !.limits = {0, -1}]],
     [Function2 EXCEPT !.build = [Build2 EXCEPT !.shipwright.strategy = "unknown kind"]],
     Served([Serving2 EXCEPT !.triggers = [NoTriggers EXCEPT !.http = Http(1, "nginx")]]),
     Scaled([Scale2(None, None, None) EXCEPT !.min = 5]),
     Scaled(Scale2(None, Object2, Job2)),
     Scaled(Scale2([pending |-> -1, cooldown |-> None], None, None)),
     Scaled(Scale2(None, [Object2 EXCEPT !.advanced = HPA(3601)], None)),
     Scaled(Scale2(None, [Object2 EXCEPT !.fallback = [threshold |-> 0, replicas |-> 0]], None)),
     Scaled(Scale2(None, None, [Job2 EXCEPT !.strategy.name = "custom"])),
     Scaled(Scale2(None, None, [Job2 EXCEPT !.strategy.percentage = "half"]))}

MCSent2 == MCFunctions2 \cup MCRefused2
MCHookEdits == {None, Hooks("Append")}

Condition(state, service) ==
    [state |-> state, ref |-> "ref", last |-> "last", hash |-> "hash",
     service |-> service, message |-> "why"]
Built(sources) == [NoStatus EXCEPT !.build = Condition("Succeeded", ""), !.revision = "digest",
                                   !.sources = sources]
MCStatuses ==
    {Built("commit"), Built(None),
     [Built("commit") EXCEPT !.serving = Condition("Running", "svc"), !.addresses = <<"address">>,
                             !.route = "route"]}
=============================================================================
