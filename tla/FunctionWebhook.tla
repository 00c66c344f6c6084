-------------------------- MODULE FunctionWebhook --------------------------
(***************************************************************************)
(* The admission webhook of functions: the defaults it fills in and the    *)
(* functions it refuses.  Pure operators on v1beta2 functions; a number    *)
(* that is not set is None.                                                *)
(***************************************************************************)
EXTENDS ObjectVersions

CONSTANTS
    DefaultGateway,   \* the reference to gateway openfunction/openfunction
    Percentages,      \* the percentages that are well-formed
    WasmVariant       \* the value of the annotation of WebAssembly images

\* A default that is filled in is set.
ASSUME DefaultsAssumption ==
    /\ None \notin {DefaultGateway, WasmVariant, "latest", "wasmedge", "openfunction-crun"}
    /\ None \notin Nat

DefaultFuncPort == 8080

\* A mutant: the port is filled in only for a trigger that has a route.
DefaultHttpOfRoute(t) ==
    LET http == t.http
    IN  IF http.route = None
        THEN [http EXCEPT !.route = [gateway |-> DefaultGateway, hosts |-> <<>>]]
        ELSE [http EXCEPT !.port = Given(@, DefaultFuncPort),
                          !.route.gateway = Given(@, DefaultGateway)]

DefaultRoute(r) ==
    IF r = None THEN [gateway |-> DefaultGateway, hosts |-> <<>>]
    ELSE [r EXCEPT !.gateway = Given(@, DefaultGateway)]

\* Port and gateway of an http trigger; an explicit port 0 is replaced unless
\* the function has dapr triggers too.
DefaultHttp(t) ==
    LET http == t.http
        NoPort == {None} \cup IF t.dapr = <<>> THEN {0} ELSE {}
    IN  [http EXCEPT
            !.port = IF @ \in NoPort THEN DefaultFuncPort ELSE @,
            !.route = DefaultRoute(@)]

\* A function without dapr triggers is called by http.
DefaultTriggers(triggers) ==
    LET t == Given(triggers, NoTriggers)
        u == IF t.dapr = <<>> /\ t.http = None
             THEN [t EXCEPT !.http = [port |-> None, route |-> None, engine |-> None]] ELSE t
    IN  IF u.http = None THEN u ELSE [u EXCEPT !.http = DefaultHttp(u)]

IsWasm(h) == h.notes.wasm # None \/ h.runtime = "wasmedge"

WasmBuild(b) ==
    IF b = None THEN None
    ELSE IF b.shipwright = None
         THEN [b EXCEPT !.shipwright = [strategy |-> "wasmedge", timeout |-> None, params |-> <<>>]]
         ELSE [b EXCEPT !.shipwright.strategy = Given(@, "wasmedge")]

WasmTemplate(t) ==
    IF t = None THEN None ELSE [t EXCEPT !.runtimeClass = Given(@, "openfunction-crun")]

WasmServing(s) ==
    IF s = None THEN None
    ELSE [s EXCEPT !.wasm = Given(@, WasmVariant), !.template = WasmTemplate(@)]

HandleWorkloadRuntime(h) ==
    IF ~IsWasm(h) THEN h
    ELSE [h EXCEPT !.notes.wasm = Given(@, WasmVariant),
                   !.build = WasmBuild(@), !.serving = WasmServing(@)]

DefaultServing(s) ==
    IF s = None THEN None ELSE [s EXCEPT !.triggers = DefaultTriggers(@)]

Default(h) ==
    HandleWorkloadRuntime(
        [h EXCEPT !.version = IF @ \in {None, ""} THEN "latest" ELSE @,
                  !.serving = DefaultServing(@)])

-----------------------------------------------------------------------------
NonNegative(n) == n # None => n >= 0

ValidateBuild(b) ==
    /\ b.tool # None                    \* a builder image or a Dockerfile
    /\ b.source # None
    /\ b.source.url # None \/ b.source.bundle # None
    /\ NonNegative(b.timeout)
    /\ \A n \in b.limits : n >= 0       \* history limits and maximal age
    /\ b.shipwright # None =>
          /\ b.shipwright.strategy # "unknown kind"
          /\ NonNegative(b.shipwright.timeout)

\* One direction of the scaling behaviour.
ValidRules(r) ==
    r # None => /\ r.window # None => r.window \in 0..3600
                /\ r.select \in {None, "Max", "Min", "Disabled"}
                /\ \A i \in DOMAIN r.policies :
                      /\ r.policies[i].type \in {"Pods", "Percent"}
                      /\ r.policies[i].period >= 0

ValidateKedaScaledObjectAdvanced(a) == ValidRules(a.up) /\ ValidRules(a.down)

ValidateKedaScaledObjectFallback(f) == f.threshold >= 1 /\ f.replicas >= 0

ValidateKedaScaledJobScalingStrategy(g) ==
    /\ g.name \in {"", "default", "custom", "accurate"}
    /\ g.name = "custom" => g.deduction # None /\ g.percentage # None
    /\ NonNegative(g.deduction)
    /\ g.percentage # None => g.percentage \in Percentages

ValidObject(o) ==
    o # None => /\ NonNegative(o.polling) /\ NonNegative(o.cooldown)
                /\ o.advanced # None => ValidateKedaScaledObjectAdvanced(o.advanced)
                /\ o.fallback # None => ValidateKedaScaledObjectFallback(o.fallback)

ValidJob(j) ==
    j # None => /\ j.restart \in {None, "Always", "OnFailure", "Never"}
                /\ NonNegative(j.polling)
                /\ \A n \in j.limits : n >= 0
                /\ ValidateKedaScaledJobScalingStrategy(j.strategy)

\* Replica bounds default to 0 and 10, at most one scaler is enabled.
ValidScale(c) ==
    /\ 0 <= Given(c.min, 0)
    /\ Given(c.min, 0) <= Given(c.max, 10)
    /\ c.keda # None =>
          /\ \A x, y \in {"http", "object", "job"} :
                c.keda[x] # None /\ c.keda[y] # None => x = y
          /\ c.keda.http # None => NonNegative(c.keda.http.pending) /\ NonNegative(c.keda.http.cooldown)
          /\ ValidObject(c.keda.object)
          /\ ValidJob(c.keda.job)

ValidateServing(s) ==
    /\ s.scale # None => ValidScale(s.scale)
    /\ s.triggers.http # None => s.triggers.http.engine \in {None, "knative", "keda"}

Validate(h) ==
    /\ h.image # ""
    /\ h.build # None => h.credentials # "" /\ ValidateBuild(h.build)
    /\ h.serving # None => ValidateServing(h.serving)
    /\ h.build # None \/ h.serving # None
=============================================================================
