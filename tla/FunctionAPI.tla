---------------------------- MODULE FunctionAPI ----------------------------
(***************************************************************************)
(* The API of a function: one stored function, written and read by clients *)
(* of both versions through the admission webhook and the conversions, and *)
(* the Serving and the Builder its controller creates from it, which can   *)
(* be read and written back at v1beta1 too.                                *)
(*                                                                         *)
(* The API server is outside of the repository: a write at v1beta1 is      *)
(* converted to v1beta2 for the webhooks (their rules name v1beta2), back  *)
(* to v1beta1 when they changed it, and to v1beta2 again to be stored; the *)
(* status of an update is that of the stored object, taken through the     *)
(* version of the request.  What the controllers decide is the matter of   *)
(* FunctionController: here they create parts and report statuses.         *)
(***************************************************************************)
EXTENDS FunctionContext

CONSTANTS
    Functions1,   \* the v1beta1 functions clients send
    Functions2,   \* the v1beta2 functions clients send
    HookEdits,    \* the hooks v1beta2 clients put in place of the stored ones
    Statuses,     \* the statuses the function controller reports
    Configs       \* what the ConfigMap with the configuration of all functions may say

\* What defaults and conversions take for granted of an object: which fields its parts
\* have.
IsList(l) == Len(l) \in Nat /\ l = [i \in 1..Len(l) |-> l[i]]
\* A tracing configuration names a provider.
IsTracing(t) ==
    t \notin {None, IllFormed} =>
        /\ t = [enabled |-> t.enabled, provider |-> t.provider, tags |-> t.tags]
        /\ t.provider = [name |-> t.provider.name, server |-> t.provider.server]
        /\ t.provider.name # None
IsNotes(n) == n = [plugins |-> n.plugins, tracing |-> n.tracing, wasm |-> n.wasm] /\ IsTracing(n.tracing)
IsRoute(r) == r # None => r = [gateway |-> r.gateway, hosts |-> r.hosts]
IsTemplate(t) == t # None => t = [runtimeClass |-> t.runtimeClass]

\* Triggers and outputs refer to components.
IsRefs(l) ==
    /\ IsList(l)
    /\ \A i \in DOMAIN l : l[i] = [type |-> l[i].type, component |-> l[i].component,
                                  topic |-> l[i].topic, name |-> l[i].name]
IsHttp(t) == t # None => t = [port |-> t.port, route |-> t.route, engine |-> t.engine] /\ IsRoute(t.route)
IsTriggers(t) ==
    t # None => /\ t = [http |-> t.http, dapr |-> t.dapr, inputs |-> t.inputs]
                /\ IsHttp(t.http) /\ IsRefs(t.dapr)
IsHooks(k) == k # None => k = [policy |-> k.policy, pre |-> k.pre, post |-> k.post] /\ None \notin {k.pre, k.post}
IsScale(c) ==
    c # None =>
        /\ c = [min |-> c.min, max |-> c.max, keda |-> c.keda]
        /\ c.keda # None =>
              LET k == c.keda
              IN  /\ k = [http |-> k.http, object |-> k.object, job |-> k.job, triggers |-> k.triggers]
                  /\ k.object # None =>
                        k.object = [polling |-> k.object.polling, cooldown |-> k.object.cooldown,
                                    advanced |-> k.object.advanced, fallback |-> k.object.fallback]
IsServing2(s) ==
    s # None =>
        /\ s = [triggers |-> s.triggers, outputs |-> s.outputs, scale |-> s.scale, workload |-> s.workload,
                hooks |-> s.hooks, tracing |-> s.tracing, components |-> s.components, states |-> s.states,
                annotations |-> s.annotations, wasm |-> s.wasm, template |-> s.template, kept |-> s.kept]
        /\ IsTriggers(s.triggers) /\ IsRefs(s.outputs) /\ IsTemplate(s.template)
        /\ IsScale(s.scale) /\ IsHooks(s.hooks) /\ IsTracing(s.tracing) /\ s.tracing # IllFormed
\* A map of parameters has finitely many, each with a value.
IsParamList(l) == IsList(l) /\ \A i \in DOMAIN l : l[i] = [name |-> l[i].name, value |-> l[i].value]
IsParamMap(m) ==
    IsFiniteSet(DOMAIN m) /\ m = [n \in DOMAIN m |-> m[n]] /\ \A n \in DOMAIN m : m[n] # None

IsSource(x) == x # None => x = [url |-> x.url, bundle |-> x.bundle, credentials |-> x.credentials]
IsEngine(e) ==
    e # None => /\ e = [strategy |-> e.strategy, timeout |-> e.timeout, params |-> e.params]
                /\ IsParamList(e.params)
IsBuild2(b) ==
    b # None => /\ b = [source |-> b.source, tool |-> b.tool, limits |-> b.limits, timeout |-> b.timeout,
                        kept |-> b.kept, shipwright |-> b.shipwright]
                /\ IsSource(b.source) /\ IsEngine(b.shipwright)
IsFunction2(h) ==
    /\ h = [notes |-> h.notes, version |-> h.version, image |-> h.image, credentials |-> h.credentials,
            runtime |-> h.runtime, build |-> h.build, serving |-> h.serving, status |-> h.status]
    /\ IsNotes(h.notes) /\ IsBuild2(h.build) /\ IsServing2(h.serving)

IsFunction1(o) ==
    /\ IsNotes(o.notes) /\ IsRoute(o.route)
    /\ o.serving # None => /\ IsList(o.serving.inputs) /\ IsList(o.serving.outputs)
                           /\ IsTemplate(o.serving.template)
    /\ o.build # None => IsSource(o.build.source) /\ IsParamMap(o.build.params)

IsCondition(c) ==
    c # None => c = [state |-> c.state, ref |-> c.ref, last |-> c.last, hash |-> c.hash,
                     service |-> c.service, message |-> c.message]
IsStatus(t) ==
    /\ t = [build |-> t.build, serving |-> t.serving, sources |-> t.sources,
            revision |-> t.revision, addresses |-> t.addresses, route |-> t.route]
    /\ IsCondition(t.build) /\ IsCondition(t.serving)
IsPartStatus(t) ==
    t = [phase |-> t.phase, state |-> t.state, service |-> t.service, message |-> t.message,
         ref |-> t.ref, output |-> t.output, sources |-> t.sources]

ASSUME FunctionsAssumption ==
    /\ \A o \in Functions1 : IsFunction1(o)
    /\ \A h \in Functions2 : IsFunction2(h)
    /\ \A k \in HookEdits : IsHooks(k)
    /\ \A t \in Statuses : IsStatus(t)

VARIABLES
    fn,    \* the stored function, v1beta2
    via,   \* the version of the last write of fn that is not a status
    part,  \* the Serving or the Builder created from fn last, v1beta2: the
           \* two have nothing to do with one another here
    pods   \* what the engine made of the Serving, and the specification and the
           \* configuration it made it of
apiVars == <<fn, via, part, pods>>

NoStatus == [build |-> None, serving |-> None, sources |-> None,
             revision |-> None, addresses |-> <<>>, route |-> None]

PartStatus == [phase |-> "", state |-> "", service |-> "", message |-> "",
               ref |-> None, output |-> None, sources |-> None]

APIInit == fn = None /\ via = "v1beta2" /\ part = None /\ pods = None

\* A bound of the model: while the part is followed the function stays as it
\* is.  No action on a part reads the function, and none on the function reads
\* the part, so their interleavings show nothing.
Unfollowed == part = None

IsServing == part # None /\ part.kind = "Serving"
IsBuilder == part # None /\ part.kind = "Builder"

-----------------------------------------------------------------------------
(* Clients.                                                                *)

StatusAt2 == IF fn = None THEN NoStatus ELSE fn.status
StatusAt1 == StatusTo(StatusFrom(StatusAt2))

PutHub(h) ==
    LET d == Default([h EXCEPT !.status = StatusAt2])
    IN  /\ Unfollowed
        /\ Validate(d)
        /\ fn' = d /\ via' = "v1beta2"
        /\ UNCHANGED <<part, pods>>

\* What the mutating webhook makes of a v1beta1 function.
Admitted(o) ==
    {IF Default(h) = h THEN o ELSE ConvertFrom(Default(h)) : h \in ConvertTo(o)}

PutSpoke(o) ==
    /\ Unfollowed
    /\ fn # None => ~ConvertFromFails(fn)
    /\ ~ConvertFails(o)
    /\ \E p \in Admitted(o) : \E h \in ConvertTo(p) :
          /\ ~ConvertFails(p) /\ Validate(h)
          /\ fn' = [h EXCEPT !.status = StatusAt1]
    /\ via' = "v1beta1"
    /\ UNCHANGED <<part, pods>>

\* A client that knows v1beta1 reads the function and writes it back, with a
\* change of something the model does not hold (a label).
TouchSpoke ==
    /\ fn # None /\ ~ConvertFromFails(fn)
    /\ PutSpoke(ConvertFrom(fn))

EditHooks(hooks) ==
    /\ fn # None /\ fn.serving # None
    /\ fn.serving.hooks # hooks
    /\ PutHub([fn EXCEPT !.serving.hooks = hooks])

DeleteFunction ==
    /\ fn # None
    /\ fn' = None /\ part' = None /\ pods' = None /\ UNCHANGED via

-----------------------------------------------------------------------------
(* Controllers: parts are created from the function, statuses reported.    *)

Report(t) ==
    /\ Unfollowed /\ fn # None
    /\ fn' = [fn EXCEPT !.status = t]
    /\ UNCHANGED <<via, part, pods>>

CreateServing ==
    /\ fn # None /\ fn.serving # None
    /\ part' = [kind |-> "Serving", notes |-> fn.notes, spec |-> fn.serving, status |-> PartStatus]
    /\ pods' = None
    /\ UNCHANGED <<fn, via>>

\* The serving controller has an engine run it, and reports later that it runs.
RunServing ==
    /\ IsServing /\ part.status.state # "Running"
    /\ ~RunPanics(part.spec) /\ ~RunFails(part.spec)
    /\ \E cm \in Configs : pods' = Run(part.spec, part.notes, cm)
    /\ part' = [part EXCEPT !.status = [PartStatus EXCEPT
                    !.phase = "Serving", !.state = "Running", !.service = "svc", !.ref = "workload"]]
    /\ UNCHANGED <<fn, via>>

CreateBuilder ==
    /\ fn # None /\ fn.build # None
    /\ part' = [kind |-> "Builder", state |-> "", spec |-> fn.build, status |-> PartStatus]
    /\ pods' = None
    /\ UNCHANGED <<fn, via>>

FinishBuilder ==
    /\ IsBuilder
    /\ part' = [part EXCEPT !.status = [PartStatus EXCEPT
                    !.phase = "Build", !.state = "Succeeded", !.message = "done",
                    !.ref = "buildrun", !.output = "digest", !.sources = "commit"]]
    /\ UNCHANGED <<fn, via, pods>>

CancelBuilder ==
    /\ IsBuilder
    /\ part' = [part EXCEPT !.state = "Cancelled"]
    /\ UNCHANGED <<fn, via, pods>>

\* A v1beta1 client reads a part and writes it back.
TouchServing ==
    /\ IsServing
    /\ LET o == ServingConvertFrom(part)
           s == ServingConvertTo(o)
       IN  /\ ~UnreadableNotes(o.notes)
           /\ part' = [kind |-> "Serving", notes |-> s.notes, spec |-> s.spec, status |-> s.status]
    /\ UNCHANGED <<fn, via, pods>>

TouchBuilder ==
    /\ IsBuilder
    /\ \E b \in BuilderConvertTo(BuilderConvertFrom(part)) :
          part' = [kind |-> "Builder", state |-> b.state, spec |-> b.spec, status |-> b.status]
    /\ UNCHANGED <<fn, via, pods>>

APINext ==
    \/ \E o \in Functions1 : PutSpoke(o)
    \/ \E h \in Functions2 : PutHub(h)
    \/ TouchSpoke
    \/ \E hooks \in HookEdits : EditHooks(hooks)
    \/ DeleteFunction
    \/ \E t \in Statuses : Report(t)
    \/ CreateServing \/ RunServing \/ TouchServing
    \/ CreateBuilder \/ FinishBuilder \/ CancelBuilder \/ TouchBuilder

APISpec == APIInit /\ [][APINext]_apiVars

-----------------------------------------------------------------------------
(* What v1beta1 cannot say.                                                *)

\* The build section as the builder's hash sees it, up to the order of the
\* parameters.
BuildMeaning(b) ==
    IF b = None THEN None
    ELSE [source |-> b.source, tool |-> b.tool, kept |-> b.kept,
          strategy |-> IF b.shipwright = None THEN None
                       ELSE [name |-> b.shipwright.strategy, timeout |-> b.shipwright.timeout],
          params |-> ParamsFrom(b.shipwright)]

SameMeaning(g, h) ==
    /\ BuildMeaning(g.build) = BuildMeaning(h.build)
    /\ g.serving = h.serving
    /\ <<g.version, g.image, g.credentials, g.runtime>>
         = <<h.version, h.image, h.credentials, h.runtime>>

ExpressibleBuild(b) ==
    b # None =>
        /\ b.source.bundle # None => b.source.bundle = b.source.credentials
        /\ b.shipwright # None => \A i \in DOMAIN b.shipwright.params :
                                     b.shipwright.params[i].value # None

ExpressibleScale(s) ==
    LET k == IF s.scale = None THEN None ELSE s.scale.keda
    IN  IF k = None THEN s.workload = ""
        ELSE /\ k.http = None /\ k.job = None
             /\ (s.workload = "") <=> (k.object = None)
             /\ k.object # None => k.object.fallback = None

ExpressibleServing(s, notes) ==
    s # None =>
        /\ s.triggers.inputs = <<>>
        /\ s.triggers.http # None => s.triggers.http.engine = None /\ s.triggers.dapr = <<>>
        /\ \A i \in DOMAIN s.triggers.dapr :
              s.triggers.dapr[i].type = getDaprComponent(s, s.triggers.dapr[i].component)
        /\ \A i \in DOMAIN s.outputs :
              /\ s.outputs[i].type = getDaprComponent(s, s.outputs[i].component)
              /\ s.outputs[i].type # None
        /\ ExpressibleScale(s)
        /\ IF s.hooks = None THEN notes.plugins = None ELSE s.hooks.policy = "Override"
        /\ s.tracing = None => notes.tracing = None

Expressible(h) == ExpressibleBuild(h.build) /\ ExpressibleServing(h.serving, h.notes)

\* What the function controller's two hashes cover (createBuilderSpec and
\* createServingSpec), limits and timeout masked: the image to serve is pinned to the
\* revision.
Hashed(b) == IF b = None THEN None ELSE [b EXCEPT !.limits = {}, !.timeout = None]
Rollouts(h) == <<Hashed(h.build), h.image, h.credentials, h.version, h.serving, h.status.revision>>

OneParam(b) ==
    b # None /\ b.shipwright # None => Len(b.shipwright.params) <= 1

-----------------------------------------------------------------------------
(* Properties.                                                             *)

\* Whatever version a function was written in, the controllers read one that the
\* webhook admits and that has its defaults: triggers, a port (0 only beside dapr
\* triggers) and a gateway for every http function, so createOrUpdateHTTPRoute never
\* meets the absence of one, and a build strategy for WebAssembly.  The conversions
\* lose none, and what is marked as WebAssembly anywhere runs under a runtime class in
\* the end.
Reachable(t) ==
    /\ t # None
    /\ t.http = None => t.dapr # <<>>
    /\ t.http # None =>
          /\ t.http.port # None /\ (t.http.port = 0 => t.dapr # <<>>)
          /\ t.http.route # None /\ t.http.route.gateway # None

Defaulted ==
    /\ fn # None =>
          /\ Validate(fn) /\ Default(fn) = fn
          /\ fn.serving # None => Reachable(fn.serving.triggers)
          /\ IsWasm(fn) /\ fn.build # None =>
                fn.build.shipwright # None /\ fn.build.shipwright.strategy # None
    /\ pods # None /\ IsWasm(fn) => pods.workload.template.runtimeClass # None

\* What v1beta1 cannot express is lost when it is written, never later: a
\* function last written at v1beta1 means the same after any number of reads
\* and writes at v1beta1.
SettledInSpoke ==
    fn # None /\ via = "v1beta1" =>
        \A g \in ConvertTo(ConvertFrom(fn)) : SameMeaning(g, fn)

\* A v1beta1 client that changes nothing the controller hashes rolls nothing
\* out, of a function that v1beta1 can express, has one build parameter at
\* most (they are reordered) and sources beside its revision (without them
\* the revision is dropped from the status, and the image is not pinned).
TouchRollsNothingOut ==
    [][TouchSpoke /\ Expressible(fn) /\ OneParam(fn.build)
         /\ (fn.status.revision # None => fn.status.sources # None)
       => Rollouts(fn') = Rollouts(fn)]_apiVars

\* A client that can read a function at v1beta1 can write it back, unless the
\* function scales jobs or keeps an annotation that is not YAML.
WritableBack ==
    fn # None /\ ~ConvertFromFails(fn) =>
        LET o == ConvertFrom(fn)
        IN  IF fn.serving # None /\ (UnreadableNotes(o.notes) \/ JobWithoutObject(fn.serving))
            THEN ConvertFails(o)
            ELSE /\ ~ConvertFails(o)
                 /\ \A g \in ConvertTo(o) : Validate(g)

\* Whatever a function asks for, by whichever version it was written, the frameworks
\* of both versions are led to the same components: those that were created for the
\* Serving under names of their own, or those of others.  The proxy, whose contexts are
\* generated after the workload's changed the specification, is told the same.  Of the
\* type of a trigger a v1beta2 framework is told what the specification says, which may
\* be nothing although "controller will get it automatically" (DaprTrigger); what it is
\* told agrees with v1beta1.  Outputs and inputs whose keys collide are left out; a type
\* that is none of the Serving's is taken as it is, and nobody looks whether there is
\* such a component.
Existing(made, c) ==
    c.component \in made.components \/ (c.component.section = None /\ c.component.name \in DOMAIN ExistingComponents)
Alone(keys, i) == \A j \in DOMAIN keys : keys[j] = keys[i] => j = i
OfServing(s, r) == r.type \in {None, getComponentTypeFromServing(s, r.component)}
SameTarget(old, new) == <<old.component, old.type>> = <<new.component, new.type>>
SameTrigger(old, new) == old.component = new.component /\ new.type \in {None, old.type}

ComponentsAgree(made) ==
    LET s == made.spec
        old == made.workload.template.env.v1beta1
        new == made.workload.template.env.v1beta2
    IN  /\ made.proxy \in {None, made.workload.template.env}
        /\ \A i \in DOMAIN s.triggers.dapr : Alone(InputNames(s.triggers.dapr), i) =>
              LET r == s.triggers.dapr[i]
              IN  /\ SameTrigger(old.inputs[InputName(r)], new.triggers[i])
                  /\ OfServing(s, r) => Existing(made, old.inputs[InputName(r)])
        /\ \A i \in DOMAIN s.outputs : Alone(ComponentNames(s.outputs), i) /\ Alone(InputNames(s.outputs), i) =>
              LET r == s.outputs[i]
              IN  /\ SameTarget(old.outputs[InputName(r)], new.outputs[r.component])
                  /\ OfServing(s, r) => Existing(made, old.outputs[InputName(r)])
        /\ \A n \in DOMAIN s.states : SameTarget(old.states[n], new.states[n]) /\ Existing(made, old.states[n])

SameComponents == pods # None => ComponentsAgree(pods)

\* The hooks of a function written at v1beta1 are the same and run in the same order
\* with a framework of either version, but for the tracing plugin, which is a hook in
\* v1beta1: they went through the annotations of the Serving the one way, through the
\* conversion and its specification the other.  A ConfigMap with an order, or hooks
\* for v1beta2 only, tells them apart.
Unordered(cm) == cm.hooks = None /\ (WellFormed(cm.plugins) => cm.plugins.order = None)

HooksAgree(made) ==
    LET old == made.workload.template.env.v1beta1
        new == made.workload.template.env.v1beta2
        tracer == IF old.tracing # None /\ old.tracing.enabled
                  THEN <<old.tracing.provider.name>> ELSE <<>>
    IN  /\ old.pre = new.pre \o tracer
        /\ old.post = tracer \o new.post
        /\ made.spec.tracing # None /\ made.spec.tracing.enabled =>
              new.tracing.provider.name = old.tracing.provider.name

SameHooks == pods # None /\ via = "v1beta1" /\ Unordered(pods.config) => HooksAgree(pods)

\* What the controllers steer by survives every write at v1beta1: state, name,
\* hash and last success of the conditions, phase, state and resources of the
\* parts, the cancellation, the digest and the sources of a build.
Record(c) == IF c = None THEN None ELSE <<c.state, c.ref, c.last, c.hash>>
PartRecord(x) ==
    <<x.status.phase, x.status.state, x.status.ref, x.status.output, x.status.sources>>

RecordsSurvive ==
    [][/\ via' = "v1beta1" /\ fn # None /\ fn' # None /\ ~(\E t \in Statuses : Report(t)) =>
             /\ Record(fn'.status.build) = Record(fn.status.build)
             /\ Record(fn'.status.serving) = Record(fn.status.serving)
       /\ TouchServing => PartRecord(part') = PartRecord(part)
       /\ TouchBuilder => /\ PartRecord(part') = PartRecord(part)
                          /\ part'.state = part.state
                          /\ ExpressibleBuild(part.spec) =>
                                BuildMeaning(part'.spec) = BuildMeaning(part.spec)]_apiVars
=============================================================================
