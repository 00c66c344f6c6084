--------------------------- MODULE GatewayController ---------------------------
(***************************************************************************)
(* The Gateway reconciler (controllers/networking/gateway_controller.go):  *)
(* OpenFunction Gateways that put their listeners on Kubernetes Gateways,  *)
(* which they own (gatewayDef) or share with others (gatewayRef).          *)
(*                                                                         *)
(* What a Gateway last put there is remembered in an annotation of its own *)
(* (config).  As in FunctionController every API write is a step, and a    *)
(* copy of an object is current or it is not; an update made from a copy   *)
(* that is not is refused.  Listeners are a function from names, for they  *)
(* are looked up by name only.                                             *)
(***************************************************************************)
EXTENDS Naturals, FiniteSets

CONSTANTS
  Gateways,      \* OpenFunction Gateways, each in a namespace of its own
  K8sGateways,   \* names of Kubernetes Gateways
  Provided,      \* those their administrator has created
  Settled,       \* Gateways that have been applied side by side when it begins
  Names,         \* names of listeners
  Internal,      \* the listener every Gateway has (ofn-http-internal)
  ForeignName,   \* a listener of the administrator
  Configs,       \* what a listener may say
  NoListener,    \* no listener of a name
  None,          \* no Gateway, of either kind
  First, Wanted, \* for each Gateway, the specs it is created with and those its
                 \* user switches between
  Disturbances,  \* which things go wrong: a subset of DisturbanceKinds
  MaxEdits,      \* bound: edits and deletions of Gateways
  MaxDisturb     \* bound: how many things go wrong

Listeners == [Names -> Configs \union {NoListener}]
Nothing == [n \in Names |-> NoListener]
Named(l) == {n \in Names : l[n] # NoListener}

\* A spec has one of gatewayRef and gatewayDef; the webhook adds the internal
\* listener and asks for one more.
GatewaySpec == [kind : {"ref", "def"}, target : K8sGateways, listeners : Listeners]
NoSpec == [kind |-> "none", target |-> None, listeners |-> Nothing]
Defaulted(s) == Internal \in Named(s.listeners)
Validated(s) == Named(s.listeners) # {Internal}

\* write: an API write fails, or takes effect and loses its reply;  crash: the
\* operator restarts;  admin: the administrator edits a Kubernetes Gateway;
\* remove: somebody deletes one;  report: its implementation updates its status.
DisturbanceKinds == {"write", "crash", "admin", "remove", "report"}
ASSUME GatewayAssumption ==
  /\ K8sGateways # {} /\ Provided \subseteq K8sGateways /\ Settled \subseteq Gateways
  /\ None \notin K8sGateways \union Gateways
  /\ {Internal, ForeignName} \subseteq Names /\ NoListener \notin Configs /\ Configs # {}
  /\ First \in [Gateways -> SUBSET GatewaySpec] /\ Wanted \in [Gateways -> SUBSET GatewaySpec]
  /\ \A g \in Gateways : First[g] \subseteq Wanted[g]
  /\ \A g \in Gateways : \A s \in Wanted[g] :
       Defaulted(s) /\ Validated(s) /\ ForeignName \notin Named(s.listeners)
  /\ Disturbances \subseteq DisturbanceKinds
  /\ MaxEdits \in Nat /\ MaxDisturb \in Nat

VARIABLES
  gw,                  \* the Gateways in the API server
  k8s,                 \* the Kubernetes Gateways in the API server
  service,             \* the Service of each Gateway
  cache, cacheFresh,   \* informer cache of the Gateways
  k8sCache, k8sNews,   \* informer cache of the Kubernetes Gateways, and what it is about
                       \* to learn
  pc, queue, self,     \* the worker, its work queue, the request it works on
  local, localFresh,   \* the reconcile's copy of the Gateway
  failed,              \* does the reconcile end in an error after the status?
  edits, disturb,
  overtaken            \* the Gateways changed before their last spec was recorded

api == <<gw, k8s, service>>
gwCaches == <<cache, cacheFresh>>
k8sCaches == <<k8sCache, k8sNews>>
worker == <<pc, queue, self, local, localFresh, failed>>
user == <<edits, overtaken>>
vars == <<api, gwCaches, k8sCaches, worker, user, disturb>>

-----------------------------------------------------------------------------
(* Types and initial state                                                 *)

Reasons == {"Unknown", "NotFound", "CreationFailure", "NotReconciled", "Synced"}
Status == [reason : Reasons, listeners : SUBSET Names]
Gateway == [live : BOOLEAN, deleting : BOOLEAN, finalizer : BOOLEAN, gen : 0 .. MaxEdits,
            spec : GatewaySpec \union {NoSpec}, config : GatewaySpec \union {NoSpec},
            status : Status]
NoGateway == [live |-> FALSE, deleting |-> FALSE, finalizer |-> FALSE, gen |-> 0,
              spec |-> NoSpec, config |-> NoSpec,
              status |-> [reason |-> "Unknown", listeners |-> {}]]
K8sGateway == [live : BOOLEAN, listeners : Listeners, injected : Listeners,
               programmed : SUBSET Names]
NoK8sGateway == [live |-> FALSE, listeners |-> Nothing, injected |-> Nothing, programmed |-> {}]
Service == [target : K8sGateways \union {None}, ports : SUBSET Names]
NoService == [target |-> None, ports |-> {}]
News == {"none", "ignored", "noticed"}
PCs == {"Idle", "AddFinalizer", "CleanOld", "Apply", "Status", "Annotate", "Service",
        "CleanDeleted", "RemoveFinalizer"}

TypeOK ==
  /\ gw \in [Gateways -> Gateway] /\ cache \in [Gateways -> Gateway]
  /\ k8s \in [K8sGateways -> K8sGateway] /\ k8sCache \in [K8sGateways -> K8sGateway]
  /\ service \in [Gateways -> Service]
  /\ cacheFresh \in [Gateways -> BOOLEAN] /\ k8sNews \in [K8sGateways -> News]
  /\ pc \in PCs /\ queue \subseteq Gateways /\ self \in Gateways \union {None}
  /\ local \in Gateway /\ localFresh \in BOOLEAN /\ failed \in BOOLEAN
  /\ edits \in 0 .. MaxEdits /\ disturb \in 0 .. MaxDisturb
  /\ overtaken \subseteq Gateways

\* A Gateway that has just been created: the webhook fills its annotation with the
\* bare spec, which reads back as an empty Gateway.
Created(s) == [NoGateway EXCEPT !.live = TRUE, !.spec = s]
AlreadyApplied(s) ==
  [Created(s) EXCEPT !.finalizer = TRUE, !.config = s, !.status = [@ EXCEPT !.reason = "Synced"]]
ServiceOf(g) == [target |-> g.spec.target, ports |-> Named(g.spec.listeners) \ {Internal}]

Init ==
  /\ \E spec \in [Gateways -> UNION {First[g] : g \in Gateways}] :
       LET users(k) == {g \in Settled : spec[g].target = k}
           owner(k, n) == CHOOSE g \in users(k) : n \in Named(spec[g].listeners)
       IN /\ \A g \in Gateways : spec[g] \in First[g]
          /\ \A g \in Settled : spec[g].kind = "ref" => spec[g].target \in Provided
          /\ \A k \in K8sGateways : \A g \in users(k) : \A n \in Named(spec[g].listeners) :
               spec[g].listeners[n] = spec[owner(k, n)].listeners[n]
          /\ gw = [g \in Gateways |-> IF g \in Settled THEN AlreadyApplied(spec[g])
                                      ELSE Created(spec[g])]
          /\ k8s = [k \in K8sGateways |->
               [live |-> k \in Provided \/ users(k) # {},
                listeners |-> [n \in Names |->
                  IF n = ForeignName
                  THEN IF k \in Provided THEN CHOOSE c \in Configs : TRUE ELSE NoListener
                  ELSE IF \E g \in users(k) : n \in Named(spec[g].listeners)
                       THEN spec[owner(k, n)].listeners[n] ELSE NoListener],
                injected |-> IF users(k) = {} THEN Nothing
                             ELSE spec[CHOOSE g \in users(k) : TRUE].listeners,
                programmed |-> {}]]
          /\ service = [g \in Gateways |-> IF g \in Settled THEN ServiceOf(gw[g]) ELSE NoService]
  /\ cache = gw /\ cacheFresh = [g \in Gateways |-> TRUE]
  /\ k8sCache = k8s /\ k8sNews = [k \in K8sGateways |-> "none"]
  /\ pc = "Idle" /\ queue = Gateways \ Settled /\ self = None
  /\ local = NoGateway /\ localFresh = FALSE /\ failed = FALSE
  /\ edits = 0 /\ disturb = 0 /\ overtaken = {}

-----------------------------------------------------------------------------
(* Writing                                                                 *)

Disturb(kind) ==
  kind \in Disturbances /\ disturb < MaxDisturb /\ disturb' = disturb + 1

Continue(next, new) ==
  pc' = next /\ local' = new /\ failed' = FALSE /\ UNCHANGED <<queue, self, localFresh>>
Goto(next) == Continue(next, local)
Leave == pc' = "Idle" /\ self' = None /\ local' = NoGateway /\ localFresh' = FALSE
         /\ failed' = FALSE
Return == Leave /\ UNCHANGED queue
FailQuietly == Leave /\ UNCHANGED queue  \* mutated form: the error is swallowed
Fail == Leave /\ queue' = queue \union {self}

\* An object changes under every copy of it.
ChangeGateway(g, new) ==
  /\ gw' = [gw EXCEPT ![g] = new]
  /\ cacheFresh' = [cacheFresh EXCEPT ![g] = @ /\ new = gw[g]]

\* filterK8sGatewayUpdateEvent: what an informer learns of a Kubernetes Gateway comes
\* as one event for each change; those of the spec and the metadata count.
Noticed(old, new) ==
  <<old.live, old.listeners, old.injected>> # <<new.live, new.listeners, new.injected>>
ChangeK8s(k, new) ==
  /\ k8s' = [k8s EXCEPT ![k] = new]
  /\ k8sNews' = [k8sNews EXCEPT ![k] = IF Noticed(k8s[k], new) THEN "noticed"
                                       ELSE IF @ = "none" /\ new # k8s[k] THEN "ignored" ELSE @]

\* r.Update(gateway): what the reconcile does when it succeeded is Then.
Update(new, Then) ==
  \/ localFresh /\ ChangeGateway(self, new) /\ Then /\ UNCHANGED disturb
  \/ ~localFresh /\ Fail /\ UNCHANGED <<gw, cacheFresh, disturb>>
  \/ /\ Disturb("write") /\ Fail
     /\ \/ UNCHANGED <<gw, cacheFresh>>
        \/ localFresh /\ ChangeGateway(self, new)

Current(k) == k8sNews[k] = "none"

\* r.Update(k8sGateway) of a copy the cache gave.
OverwriteK8s(k, new, Then, Else) ==  \* mutated form: the version is not sent along
  \/ ChangeK8s(k, new) /\ Then /\ UNCHANGED disturb
  \/ Disturb("write") /\ Else /\ UNCHANGED <<k8s, k8sNews>>
UpdateK8s(k, new, Then, Else) ==
  \/ Current(k) /\ ChangeK8s(k, new) /\ Then /\ UNCHANGED disturb
  \/ ~Current(k) /\ Else /\ UNCHANGED <<k8s, k8sNews, disturb>>
  \/ /\ Disturb("write") /\ Else
     /\ \/ UNCHANGED <<k8s, k8sNews>>
        \/ Current(k) /\ ChangeK8s(k, new)

-----------------------------------------------------------------------------
(* Reconcile                                                               *)

FirstStep(g) ==
  IF g.deleting THEN IF g.finalizer THEN "CleanDeleted" ELSE "Idle"
  ELSE IF g.finalizer THEN "CleanOld" ELSE "AddFinalizer"

StartReconcile(g) ==
  /\ pc = "Idle" /\ g \in queue /\ queue' = queue \ {g}
  /\ IF cache[g].live /\ FirstStep(cache[g]) # "Idle"
     THEN /\ pc' = FirstStep(cache[g]) /\ self' = g
          /\ local' = cache[g] /\ localFresh' = cacheFresh[g] /\ UNCHANGED failed
     ELSE UNCHANGED <<pc, self, local, localFresh, failed>>
  /\ UNCHANGED <<api, gwCaches, k8sCaches, user, disturb>>

AddFinalizer ==
  /\ pc = "AddFinalizer"
  /\ LET new == [local EXCEPT !.finalizer = TRUE] IN Update(new, Continue("CleanOld", new))
  /\ UNCHANGED <<k8s, service, cache, k8sCaches, user>>

\* cleanK8sGatewayResources: a Gateway that referred to a Kubernetes Gateway takes
\* its listeners off, one that defined it deletes it.
AsTheyAre(l, gone) == l  \* mutated form: the listeners are left there
Without(l, gone) == [n \in Names |-> IF n \in Named(gone) THEN NoListener ELSE l[n]]
Clean(spec, next) ==
  LET k == spec.target IN
  \/ /\ spec.kind = "none" \/ (spec.kind = "ref" /\ ~k8sCache[k].live)
     /\ Goto(next) /\ UNCHANGED <<k8s, k8sNews, disturb>>
  \/ /\ spec.kind = "ref" /\ k8sCache[k].live
     /\ UpdateK8s(k, [k8sCache[k] EXCEPT !.listeners = Without(@, spec.listeners),
                                         !.injected = Nothing], Goto(next), Fail)
  \/ /\ spec.kind = "def"
     /\ \/ ChangeK8s(k, NoK8sGateway) /\ Goto(next) /\ UNCHANGED disturb
        \/ /\ Disturb("write") /\ Fail
           /\ UNCHANGED <<k8s, k8sNews>> \/ ChangeK8s(k, NoK8sGateway)

\* cleanExternalResources: when the reference has changed.
Moved(g) == g.config.kind # g.spec.kind \/ g.config.target # g.spec.target
CleanOld ==
  /\ pc = "CleanOld"
  /\ IF Moved(local) THEN Clean(local.config, "Apply")
     ELSE Goto("Apply") /\ UNCHANGED <<k8s, k8sNews, disturb>>
  /\ UNCHANGED <<gw, service, gwCaches, k8sCache, user>>

\* What needs no repair: the listeners are there, as they were recorded.
NeedReconcile(g, k) ==
  \/ \E n \in Named(g.spec.listeners) : k.listeners[n] # g.spec.listeners[n]
  \/ g.config.listeners # g.spec.listeners

\* reconcileK8sGateway: the listeners of others stay, those of an old spec go.
Merged(l, old, new) ==
  [n \in Names |-> IF n \in Named(new) THEN new[n]
                   ELSE IF n \in Named(old) THEN NoListener ELSE l[n]]

\* The deferred updateGatewayStatus comes next if the status has changed.
SetStatus(new, error) ==
  \/ /\ new # local.status
     /\ pc' = "Status" /\ local' = [local EXCEPT !.status = new] /\ failed' = error
     /\ UNCHANGED <<queue, self, localFresh>>
  \/ /\ new = local.status
     /\ IF error THEN Fail ELSE Goto("Annotate")
Reject(reason) == SetStatus([local.status EXCEPT !.reason = reason], TRUE)
SyncStatus(k) ==
  SetStatus([reason |-> "Synced", listeners |-> k.programmed \intersect Named(local.spec.listeners)],
            FALSE)

\* createOrUpdateGateway
CreateOrUpdateGateway ==
  /\ pc = "Apply"
  /\ LET spec == local.spec
         k == spec.target
         seen == k8sCache[k]
         merged == [seen EXCEPT !.listeners = Merged(@, local.config.listeners, spec.listeners),
                                !.injected = spec.listeners]
         created == [NoK8sGateway EXCEPT !.live = TRUE, !.listeners = spec.listeners,
                                         !.injected = spec.listeners]
     IN \/ /\ seen.live /\ NeedReconcile(local, seen)
           /\ UpdateK8s(k, merged, SyncStatus(seen), Reject("NotReconciled"))
        \/ /\ seen.live /\ ~NeedReconcile(local, seen)
           /\ SyncStatus(seen) /\ UNCHANGED <<k8s, k8sNews, disturb>>
        \/ /\ ~seen.live /\ spec.kind = "ref"
           /\ Reject("NotFound") /\ UNCHANGED <<k8s, k8sNews, disturb>>
        \/ /\ ~seen.live /\ spec.kind = "def"
           /\ \/ /\ ~k8s[k].live /\ ChangeK8s(k, created)
                 /\ SyncStatus(created) /\ UNCHANGED disturb
              \/ /\ k8s[k].live
                 /\ Reject("CreationFailure") /\ UNCHANGED <<k8s, k8sNews, disturb>>
              \/ /\ Disturb("write") /\ Reject("CreationFailure")
                 /\ UNCHANGED <<k8s, k8sNews>> \/ (~k8s[k].live /\ ChangeK8s(k, created))
  /\ UNCHANGED <<gw, service, gwCaches, k8sCache, user>>

\* A status that cannot be written is logged, and that is all.
AfterStatus(fresh) ==
  IF failed THEN Fail
  ELSE pc' = "Annotate" /\ localFresh' = fresh /\ UNCHANGED <<queue, self, local, failed>>
UpdateGatewayStatus ==
  /\ pc = "Status"
  /\ LET new == [gw[self] EXCEPT !.status = local.status] IN
     \/ localFresh /\ ChangeGateway(self, new) /\ AfterStatus(TRUE) /\ UNCHANGED disturb
     \/ ~localFresh /\ AfterStatus(FALSE) /\ UNCHANGED <<gw, cacheFresh, disturb>>
     \/ /\ Disturb("write")
        /\ \/ AfterStatus(localFresh) /\ UNCHANGED <<gw, cacheFresh>>
           \/ localFresh /\ ChangeGateway(self, new) /\ AfterStatus(FALSE)
  /\ UNCHANGED <<k8s, service, cache, k8sCaches, user>>

\* updateGatewayAnnotations records the spec that has been applied.  The status is a
\* subresource: the API server keeps its own, also when the last one was not written.
UpdateGatewayAnnotations ==
  /\ pc = "Annotate"
  /\ LET new == [local EXCEPT !.config = local.spec, !.status = gw[self].status] IN
     IF local.config = local.spec THEN Goto("Service") /\ UNCHANGED <<gw, cacheFresh, disturb>>
     ELSE Update(new, Continue("Service", new))
  /\ UNCHANGED <<k8s, service, cache, k8sCaches, user>>

\* createOrUpdateService; an Envoy Service that is missing is a failed write.
\* The Service is owned, so a change of it brings the request back.
CreateOrUpdateService ==
  /\ pc = "Service" /\ Leave
  /\ \/ /\ service' = [service EXCEPT ![self] = ServiceOf(local)]
        /\ \/ UNCHANGED disturb
              /\ queue' = IF service' = service THEN queue ELSE queue \union {self}
           \/ Disturb("write") /\ queue' = queue \union {self}
     \/ Disturb("write") /\ queue' = queue \union {self} /\ UNCHANGED service
  /\ UNCHANGED <<gw, k8s, gwCaches, k8sCaches, user>>

\* A Gateway that is being deleted is cleaned up by what its spec says now.
CleanDeleted ==
  /\ pc = "CleanDeleted"
  /\ Clean(local.spec, "RemoveFinalizer")
  /\ UNCHANGED <<gw, service, gwCaches, k8sCache, user>>

\* Without the finalizer the API server removes the Gateway, and the garbage
\* collector its Service.
RemoveFinalizer ==
  /\ pc = "RemoveFinalizer"
  /\ Update(NoGateway, Return)
  /\ service' = [service EXCEPT ![self] = IF gw'[self].live THEN @ ELSE NoService]
  /\ UNCHANGED <<k8s, cache, k8sCaches, user>>

WorkerStep ==
  \/ AddFinalizer \/ CleanOld \/ CreateOrUpdateGateway \/ UpdateGatewayStatus
  \/ UpdateGatewayAnnotations \/ CreateOrUpdateService \/ CleanDeleted \/ RemoveFinalizer

-----------------------------------------------------------------------------
(* Informers, the operator process, other clients                          *)

\* Changes of status and metadata do not bring the request back.
SyncGateway(g) ==
  /\ ~cacheFresh[g]
  /\ cache' = [cache EXCEPT ![g] = gw[g]] /\ cacheFresh' = [cacheFresh EXCEPT ![g] = TRUE]
  /\ queue' = IF <<cache[g].live, cache[g].gen>> # <<gw[g].live, gw[g].gen>>
              THEN queue \union {g} ELSE queue
  /\ UNCHANGED <<api, k8sCaches, pc, self, local, localFresh, failed, user, disturb>>

\* findObjectsForK8sGateway: what is noticed is for the Gateways that refer to this
\* Kubernetes Gateway now.
AttachedByRef(k) ==  \* mutated form: the index leaves gatewayDef out
  {g \in Gateways : cache[g].live /\ cache[g].spec.target = k /\ cache[g].spec.kind = "ref"}
Attached(k) == {g \in Gateways : cache[g].live /\ cache[g].spec.target = k}
SyncK8sGateway(k) ==
  /\ ~Current(k)
  /\ k8sCache' = [k8sCache EXCEPT ![k] = k8s[k]] /\ k8sNews' = [k8sNews EXCEPT ![k] = "none"]
  /\ queue' = IF k8sNews[k] = "noticed" THEN queue \union Attached(k) ELSE queue
  /\ UNCHANGED <<api, gwCaches, pc, self, local, localFresh, failed, user, disturb>>

Crash ==
  /\ Disturb("crash") /\ Leave /\ queue' = {g \in Gateways : gw[g].live}
  /\ cache' = gw /\ cacheFresh' = [g \in Gateways |-> TRUE]
  /\ k8sCache' = k8s /\ k8sNews' = [k \in K8sGateways |-> "none"]
  /\ UNCHANGED <<api, user>>

\* The implementation of the Gateway API (Contour, Istio) reports its listeners.
Program(k) ==
  /\ k8s[k].live /\ k8s[k].programmed # Named(k8s[k].listeners) /\ Disturb("report")
  /\ ChangeK8s(k, [k8s[k] EXCEPT !.programmed = Named(k8s[k].listeners)])
  /\ UNCHANGED <<gw, service, gwCaches, k8sCache, worker, user>>

\* The administrator adds, changes or removes a listener of their own.
AdminEdits(k) ==
  /\ k8s[k].live /\ Disturb("admin")
  /\ \E c \in (Configs \union {NoListener}) \ {k8s[k].listeners[ForeignName]} :
       ChangeK8s(k, [k8s[k] EXCEPT !.listeners = [@ EXCEPT ![ForeignName] = c]])
  /\ UNCHANGED <<gw, service, gwCaches, k8sCache, worker, user>>
K8sGatewayDeleted(k) ==
  /\ k8s[k].live /\ Disturb("remove") /\ ChangeK8s(k, NoK8sGateway)
  /\ UNCHANGED <<gw, service, gwCaches, k8sCache, worker, user>>

\* A user edits or deletes a Gateway, also one whose last spec is not recorded yet.
Touch(g, new, recorded) ==
  /\ gw[g].live /\ ~gw[g].deleting /\ edits < MaxEdits /\ edits' = edits + 1
  /\ overtaken' = IF gw[g].config \in recorded THEN overtaken ELSE overtaken \union {g}
  /\ ChangeGateway(g, new)
  /\ localFresh' = (localFresh /\ g # self)
  /\ UNCHANGED <<k8s, cache, k8sCaches, pc, queue, self, local, failed, disturb>>
EditSpec(g) ==
  /\ \E s \in Wanted[g] \ {gw[g].spec} :
       Touch(g, [gw[g] EXCEPT !.spec = s, !.gen = @ + 1], {gw[g].spec})
  /\ UNCHANGED service
DeleteGateway(g) ==
  \/ /\ gw[g].finalizer
     /\ Touch(g, [gw[g] EXCEPT !.deleting = TRUE, !.gen = @ + 1], {gw[g].spec, NoSpec})
     /\ UNCHANGED service
  \/ /\ ~gw[g].finalizer /\ Touch(g, NoGateway, {gw[g].spec, NoSpec})
     /\ service' = [service EXCEPT ![g] = NoService]

Next ==
  \/ WorkerStep \/ Crash
  \/ \E g \in Gateways : StartReconcile(g) \/ SyncGateway(g) \/ EditSpec(g) \/ DeleteGateway(g)
  \/ \E k \in K8sGateways : SyncK8sGateway(k) \/ Program(k) \/ AdminEdits(k) \/ K8sGatewayDeleted(k)

Spec == Init /\ [][Next]_vars

\* The worker and the informers go on, and the work queue starves no request.
\* Nobody has to edit, delete, crash or report.
Fairness ==
  /\ WF_vars(WorkerStep)
  /\ \A g \in Gateways : SF_vars(StartReconcile(g)) /\ WF_vars(SyncGateway(g))
  /\ \A k \in K8sGateways : WF_vars(SyncK8sGateway(k))

FairSpec == Spec /\ Fairness
=============================================================================
