------------------------ MODULE GatewayController_proofs ------------------------
(***************************************************************************)
(* Proofs about the Gateway reconciler, for any Gateways, Kubernetes       *)
(* Gateways, specs, edits and disturbances: the listener of the            *)
(* administrator is left alone, no listener is left behind, and a          *)
(* reconciler with nothing to do has every Gateway applied.                *)
(***************************************************************************)
EXTENDS GatewayProperties, TLAPS

-----------------------------------------------------------------------------
(* The inductive invariants.                                               *)

\* What anybody asks for is what a user asked for.
Sound(g, c, most) ==
  /\ c.live => c.spec \in Wanted[g]
  /\ c.config \in Wanted[g] \union {NoSpec}
  /\ ~c.live => c = NoGateway
  /\ c.deleting => c.finalizer
  /\ c.gen <= most
SpecsInv ==
  /\ \A g \in Gateways :
       /\ Sound(g, gw[g], edits) /\ Sound(g, cache[g], edits)
       /\ cacheFresh[g] => cache[g] = gw[g]
  /\ pc # "Idle" =>
       /\ self \in Gateways /\ local.live /\ Sound(self, local, edits)
       /\ localFresh => gw[self].live
TypeInv == TypeOK /\ SpecsInv

\* Copies of a Gateway are alike when no more than their status differs.
Alike(c, d) ==
  /\ c.live = d.live /\ c.deleting = d.deleting /\ c.finalizer = d.finalizer
  /\ c.gen = d.gen /\ c.spec = d.spec /\ c.config = d.config

\* A copy of a Gateway that is still there is an older version of it.
Older(c, d) ==
  /\ c.live /\ c.gen <= d.gen
  /\ c.finalizer => d.finalizer
  /\ c.gen = d.gen =>
       /\ c.spec = d.spec /\ c.deleting = d.deleting
       /\ c.config = c.spec => d.config = d.spec
CopiesInv ==
  /\ \A g \in Gateways : gw[g].live => Older(cache[g], gw[g])
  /\ pc # "Idle" /\ gw[self].live =>
       /\ Older(local, gw[self]) /\ local.gen <= cache[self].gen
       /\ self \notin queue => local.gen = cache[self].gen
  /\ pc # "Idle" /\ localFresh => Alike(local, gw[self])
K8sInv ==
  \A k \in K8sGateways :
    /\ Current(k) => k8sCache[k] = k8s[k]
    /\ k8sNews[k] # "noticed" => ~Noticed(k8sCache[k], k8s[k])
    /\ ~k8s[k].live => k8s[k] = NoK8sGateway

\* What the step that the worker is at tells of its copy.
StageInv ==
  /\ pc \notin {"Idle", "AddFinalizer"} => local.finalizer
  /\ pc # "Idle" => (local.deleting <=> pc \in {"CleanDeleted", "RemoveFinalizer"})
  /\ pc = "Service" => local.config = local.spec

\* A Gateway with the finalizer goes only when the worker has seen its deletion.
GoneInv ==
  /\ \A g \in Gateways : cache[g].live /\ cache[g].finalizer /\ ~cache[g].deleting => gw[g].live
  /\ pc \notin {"Idle", "AddFinalizer"} /\ ~local.deleting => gw[self].live

\* As long as nobody changes a Gateway before its last spec was recorded, its copies
\* are at the spec or at the recorded one.
LineInv ==
  \A g \in Gateways \ overtaken : gw[g].live =>
    /\ cache[g].spec \in {gw[g].spec, gw[g].config}
    /\ pc # "Idle" /\ self = g => local.spec \in {gw[g].spec, gw[g].config}
    /\ gw[g].deleting => gw[g].config \in {NoSpec, gw[g].spec}

-----------------------------------------------------------------------------
(* Types                                                                   *)

LEMMA WantedIs ==
  ASSUME NEW g \in Gateways, NEW s \in Wanted[g]
  PROVE  /\ s \in GatewaySpec /\ s.kind \in {"ref", "def"} /\ s.target \in K8sGateways
         /\ s.listeners \in Listeners /\ ForeignName \notin Named(s.listeners)
<1>1. Wanted[g] \subseteq GatewaySpec /\ ForeignName \notin Named(s.listeners)
  BY GatewayAssumption
<1> QED
  BY <1>1 DEF GatewaySpec

LEMMA NoneIs ==
  /\ NoSpec.kind = "none" /\ NoSpec.target = None /\ NoSpec.listeners = Nothing
  /\ Named(Nothing) = {} /\ Nothing \in Listeners
  /\ NoSpec \notin GatewaySpec
  BY DEF NoSpec, Nothing, Named, Listeners, GatewaySpec

LEMMA NoGatewayIs ==
  /\ NoGateway.live = FALSE /\ NoGateway.deleting = FALSE /\ NoGateway.finalizer = FALSE
  /\ NoGateway.gen = 0 /\ NoGateway.spec = NoSpec /\ NoGateway.config = NoSpec
  /\ NoGateway.status = [reason |-> "Unknown", listeners |-> {}]
  BY DEF NoGateway

LEMMA NoK8sIs ==
  /\ NoK8sGateway.live = FALSE /\ NoK8sGateway.listeners = Nothing /\ NoK8sGateway.injected = Nothing
  /\ NoK8sGateway \in K8sGateway
<1>1. Nothing \in Listeners
  BY NoneIs
<1> QED
  BY <1>1 DEF NoK8sGateway, K8sGateway

\* A Gateway by its fields.
LEMMA GatewayIs ==
  ASSUME NEW c
  PROVE  c \in Gateway <=>
           /\ c = [live |-> c.live, deleting |-> c.deleting, finalizer |-> c.finalizer, gen |-> c.gen,
                   spec |-> c.spec, config |-> c.config, status |-> c.status]
           /\ c.live \in BOOLEAN /\ c.deleting \in BOOLEAN /\ c.finalizer \in BOOLEAN
           /\ c.gen \in 0 .. MaxEdits
           /\ c.spec \in GatewaySpec \union {NoSpec} /\ c.config \in GatewaySpec \union {NoSpec}
           /\ c.status \in Status
<1> DEFINE Gens == 0 .. MaxEdits
           Specs == GatewaySpec \union {NoSpec}
<1>1. Gateway = [live : BOOLEAN, deleting : BOOLEAN, finalizer : BOOLEAN, gen : Gens,
                 spec : Specs, config : Specs, status : Status]
  BY DEF Gateway
<1> HIDE DEF Gens, Specs
<1>2. c \in Gateway <=>
           /\ c = [live |-> c.live, deleting |-> c.deleting, finalizer |-> c.finalizer, gen |-> c.gen,
                   spec |-> c.spec, config |-> c.config, status |-> c.status]
           /\ c.live \in BOOLEAN /\ c.deleting \in BOOLEAN /\ c.finalizer \in BOOLEAN
           /\ c.gen \in Gens
           /\ c.spec \in Specs /\ c.config \in Specs
           /\ c.status \in Status
  BY <1>1
<1> QED
  BY <1>2 DEF Gens, Specs

LEMMA NoGatewayType == NoGateway \in Gateway
<1>1. 0 \in 0 .. MaxEdits
  BY GatewayAssumption
<1>2. [reason |-> "Unknown", listeners |-> {}] \in Status
  BY DEF Status, Reasons
<1> QED
  BY <1>1, <1>2, NoGatewayIs, GatewayIs DEF NoGateway

\* What the worker and the users make of a Gateway.
LEMMA GatewayWith ==
  ASSUME NEW c \in Gateway
  PROVE  /\ LET d == [c EXCEPT !.finalizer = TRUE] IN
            /\ d \in Gateway /\ d.finalizer = TRUE /\ d.live = c.live /\ d.deleting = c.deleting
            /\ d.gen = c.gen /\ d.spec = c.spec /\ d.config = c.config
         /\ \A status \in Status :
            LET d == [c EXCEPT !.config = c.spec, !.status = status] IN
            /\ d \in Gateway /\ d.finalizer = c.finalizer /\ d.live = c.live /\ d.deleting = c.deleting
            /\ d.gen = c.gen /\ d.spec = c.spec /\ d.config = c.spec
         /\ \A status \in Status :
            LET d == [c EXCEPT !.status = status] IN d \in Gateway /\ Alike(d, c)
         /\ \A gen \in 0 .. MaxEdits :
            LET d == [c EXCEPT !.deleting = TRUE, !.gen = gen] IN
            /\ d \in Gateway /\ d.finalizer = c.finalizer /\ d.live = c.live /\ d.deleting = TRUE
            /\ d.gen = gen /\ d.spec = c.spec /\ d.config = c.config
<1> DEFINE Gens == 0 .. MaxEdits
           Specs == GatewaySpec \union {NoSpec}
<1>1. Gateway = [live : BOOLEAN, deleting : BOOLEAN, finalizer : BOOLEAN, gen : Gens,
                 spec : Specs, config : Specs, status : Status]
  BY DEF Gateway
<1> SUFFICES
         /\ LET d == [c EXCEPT !.finalizer = TRUE] IN
            /\ d \in Gateway /\ d.finalizer = TRUE /\ d.live = c.live /\ d.deleting = c.deleting
            /\ d.gen = c.gen /\ d.spec = c.spec /\ d.config = c.config
         /\ \A status \in Status :
            LET d == [c EXCEPT !.config = c.spec, !.status = status] IN
            /\ d \in Gateway /\ d.finalizer = c.finalizer /\ d.live = c.live /\ d.deleting = c.deleting
            /\ d.gen = c.gen /\ d.spec = c.spec /\ d.config = c.spec
         /\ \A status \in Status :
            LET d == [c EXCEPT !.status = status] IN d \in Gateway /\ Alike(d, c)
         /\ \A gen \in Gens :
            LET d == [c EXCEPT !.deleting = TRUE, !.gen = gen] IN
            /\ d \in Gateway /\ d.finalizer = c.finalizer /\ d.live = c.live /\ d.deleting = TRUE
            /\ d.gen = gen /\ d.spec = c.spec /\ d.config = c.config
  OBVIOUS
<1> HIDE DEF Gens, Specs
<1> QED
  BY <1>1 DEF Alike

LEMMA GatewayMoved ==
  ASSUME NEW c \in Gateway, NEW spec \in GatewaySpec
  PROVE  LET d == [c EXCEPT !.spec = spec] IN
         /\ d \in Gateway /\ d.finalizer = c.finalizer /\ d.live = c.live /\ d.deleting = c.deleting
         /\ d.gen = c.gen /\ d.spec = spec /\ d.config = c.config
<1> DEFINE Gens == 0 .. MaxEdits
           Specs == GatewaySpec \union {NoSpec}
<1>1. Gateway = [live : BOOLEAN, deleting : BOOLEAN, finalizer : BOOLEAN, gen : Gens,
                 spec : Specs, config : Specs, status : Status]
  BY DEF Gateway
<1>2. spec \in Specs
  OBVIOUS
<1> HIDE DEF Gens, Specs
<1> QED
  BY <1>1, <1>2
LEMMA GatewayEdited ==
  ASSUME NEW c \in Gateway, NEW gen \in 0 .. MaxEdits
  PROVE  LET d == [c EXCEPT !.gen = gen] IN
         /\ d \in Gateway /\ d.finalizer = c.finalizer /\ d.live = c.live /\ d.deleting = c.deleting
         /\ d.gen = gen /\ d.spec = c.spec /\ d.config = c.config
<1> DEFINE Gens == 0 .. MaxEdits
           Specs == GatewaySpec \union {NoSpec}
<1>1. Gateway = [live : BOOLEAN, deleting : BOOLEAN, finalizer : BOOLEAN, gen : Gens,
                 spec : Specs, config : Specs, status : Status]
  BY DEF Gateway
<1>2. gen \in Gens
  OBVIOUS
<1> HIDE DEF Gens, Specs
<1> QED
  BY <1>1, <1>2
-----------------------------------------------------------------------------
(* What the worker does                                                    *)

LEMMA ChangeWrites ==
  ASSUME TypeOK, NEW g \in Gateways, NEW new, ChangeGateway(g, new)
  PROVE  /\ gw'[g] = new
         /\ \A h \in Gateways : h # g => gw'[h] = gw[h] /\ cacheFresh'[h] = cacheFresh[h]
         /\ \A h \in Gateways : cacheFresh'[h] => cacheFresh[h] /\ gw'[h] = gw[h]
  BY DEF ChangeGateway, TypeOK

\* Others keep their Gateways, and whoever believes a copy to be current has a
\* current one.
Keeps ==
  /\ \A g \in Gateways : g # self => gw'[g] = gw[g] /\ cacheFresh'[g] = cacheFresh[g]
  /\ \A g \in Gateways : cacheFresh'[g] => cacheFresh[g] /\ gw'[g] = gw[g]

LEMMA UpdateWrites ==
  ASSUME TypeOK, self \in Gateways, NEW new, NEW Then, Update(new, Then)
  PROVE  /\ Keeps
         /\ \/ localFresh /\ gw'[self] = new /\ Then /\ UNCHANGED disturb
            \/ Fail /\ (gw' = gw \/ (localFresh /\ gw'[self] = new))
<1>1. ASSUME ChangeGateway(self, new)
      PROVE  Keeps /\ gw'[self] = new
  BY <1>1, ChangeWrites DEF Keeps
<1>2. UNCHANGED <<gw, cacheFresh>> => Keeps
  BY DEF Keeps
<1> QED
  BY <1>1, <1>2 DEF Update

\* The reconcile ends, or it goes on with the same Gateway.
Ends == pc' = "Idle" /\ self' = None /\ local' = NoGateway /\ localFresh' = FALSE
Fails == Ends /\ self \in queue'
Stays == self' = self /\ queue' = queue /\ pc # "Idle" /\ pc' # "Idle"
With(c, finalizer, config) ==
  /\ c.live = local.live /\ c.deleting = local.deleting /\ c.gen = local.gen /\ c.spec = local.spec
  /\ c.finalizer = finalizer /\ c.config = config
Step(from, to) == pc = from /\ pc' = to /\ Stays
GetsFinalizer ==
  /\ pc = "AddFinalizer" /\ localFresh /\ With(gw'[self], TRUE, local.config)
  /\ Fails \/ (Step("AddFinalizer", "CleanOld") /\ local' = gw'[self])
GoesOn ==
  /\ UNCHANGED <<gw, localFresh>>
  /\ \/ Step("CleanOld", "Apply") /\ UNCHANGED local
     \/ \E to \in {"Status", "Annotate"} : Step("Apply", to) /\ Alike(local', local)
     \/ Step("Annotate", "Service") /\ local.config = local.spec /\ UNCHANGED local
     \/ Step("CleanDeleted", "RemoveFinalizer") /\ UNCHANGED local
Reports ==
  /\ pc = "Status" /\ Alike(gw'[self], gw[self]) /\ (localFresh \/ UNCHANGED gw)
  /\ Fails \/ (Step("Status", "Annotate") /\ ~failed /\ UNCHANGED local /\ (localFresh' => localFresh))
Records ==
  /\ pc = "Annotate" /\ localFresh /\ With(gw'[self], local.finalizer, local.spec)
  /\ Fails \/ (Step("Annotate", "Service") /\ local' = gw'[self])
PutsService ==
  /\ pc = "Service" /\ Ends /\ UNCHANGED gw
  /\ self \in queue' \/ service'[self] = ServiceOf(local)
Removes == pc = "RemoveFinalizer" /\ localFresh /\ gw'[self] = NoGateway /\ Ends

LEMMA WorkerGoesOn ==
  ASSUME TypeInv, WorkerStep
  PROVE  /\ pc # "Idle" /\ self \in Gateways /\ Keeps
         /\ UNCHANGED <<cache, k8sCache, edits, overtaken>>
         /\ queue \subseteq queue' /\ queue' \subseteq queue \union {self}
         /\ \A g \in Gateways : service'[g] = service[g] \/ (g = self /\ (pc = "Service" \/ ~gw'[g].live))
         /\ \/ Fails /\ UNCHANGED gw
            \/ GetsFinalizer \/ GoesOn \/ Reports \/ Records \/ PutsService \/ Removes
<1> TypeOK
  BY DEF TypeInv
<1> local \in Gateway
  BY DEF TypeOK
<1> USE DEF gwCaches, k8sCaches, user, Fail, Return, Leave, Goto, Continue
<1>1. pc # "Idle" /\ self \in Gateways
  BY DEF WorkerStep, AddFinalizer, CleanOld, CreateOrUpdateGateway, UpdateGatewayStatus,
     UpdateGatewayAnnotations, CreateOrUpdateService, CleanDeleted, RemoveFinalizer, TypeInv, SpecsInv, Sound
<1>2. CASE AddFinalizer
  <2> DEFINE new == [local EXCEPT !.finalizer = TRUE]
             Then == Continue("CleanOld", new)
  <2>1. Update(new, Then) /\ pc = "AddFinalizer" /\ UNCHANGED <<k8s, service, cache, k8sCaches, user>>
    BY <1>2 DEF AddFinalizer
  <2>2. new.finalizer = TRUE /\ new.live = local.live /\ new.deleting = local.deleting
        /\ new.gen = local.gen /\ new.spec = local.spec /\ new.config = local.config
    BY GatewayWith
  <2>3. Then => Stays /\ pc' = "CleanOld" /\ local' = new
    BY <1>1 DEF Stays
  <2>4. Fail => Fails /\ queue' = queue \union {self}
    BY DEF Fails, Ends
  <2> HIDE DEF new, Then, Fail
  <2> QED
    BY <1>1, <2>1, <2>2, <2>3, <2>4, UpdateWrites DEF GetsFinalizer, With, Stays, Step
<1>3. CASE CleanOld \/ CleanDeleted
  <2>1. /\ UNCHANGED <<gw, service, gwCaches, k8sCache, user>>
        /\ \/ Fail
           \/ CleanOld /\ Goto("Apply")
           \/ CleanDeleted /\ Goto("RemoveFinalizer")
    BY <1>3 DEF CleanOld, CleanDeleted, Clean, UpdateK8s
  <2>2. Keeps
    BY <2>1 DEF Keeps
  <2> QED
    BY <1>1, <2>1, <2>2 DEF GoesOn, Stays, Step, Fails, Ends, CleanOld, CleanDeleted
<1>4. CASE CreateOrUpdateGateway
  <2>1. ASSUME NEW status, NEW error, SetStatus(status, error)
        PROVE  \/ Fails /\ queue' = queue \union {self}
               \/ (Stays /\ pc' \in {"Status", "Annotate"} /\ Alike(local', local) /\ UNCHANGED localFresh)
    <3>1. Alike([local EXCEPT !.status = status], local)
      BY DEF Alike, TypeOK, Gateway
    <3> QED
      BY <1>1, <2>1, <3>1 DEF SetStatus, Fails, Ends, Stays, Alike
  <2>2. \E status, error : SetStatus(status, error)
    BY <1>4 DEF CreateOrUpdateGateway, UpdateK8s, Reject, SyncStatus
  <2>3. UNCHANGED <<gw, service, gwCaches, k8sCache, user>> /\ pc = "Apply"
    BY <1>4 DEF CreateOrUpdateGateway
  <2>4. Keeps
    BY <2>3 DEF Keeps
  <2> QED
    BY <1>1, <2>1, <2>2, <2>3, <2>4 DEF GoesOn, Stays, Step
<1>5. CASE UpdateGatewayStatus
  <2> DEFINE new == [gw[self] EXCEPT !.status = local.status]
  <2>1. Alike(new, gw[self])
    BY <1>1, GatewayWith, GatewayIs DEF TypeOK
  <2> HIDE DEF new
  <2>2. /\ UNCHANGED <<gw, cacheFresh>> \/ (localFresh /\ ChangeGateway(self, new))
        /\ \E fresh \in {TRUE, FALSE, localFresh} : AfterStatus(fresh) /\ (fresh => localFresh)
        /\ UNCHANGED <<k8s, service, cache, k8sCaches, user>> /\ pc = "Status"
    BY <1>5 DEF UpdateGatewayStatus, new
  <2>3. Keeps /\ Alike(gw'[self], gw[self])
    BY <1>1, <2>1, <2>2, ChangeWrites DEF Keeps, Alike
  <2> QED
    BY <1>1, <2>2, <2>3 DEF AfterStatus, Reports, Fails, Ends, Stays, Step
<1>6. CASE UpdateGatewayAnnotations
  <2> DEFINE new == [local EXCEPT !.config = local.spec, !.status = gw[self].status]
             Then == Continue("Service", new)
  <2>0. gw[self].status \in Status
    BY <1>1, GatewayIs DEF TypeOK
  <2>1. /\ \/ local.config = local.spec /\ Goto("Service") /\ UNCHANGED <<gw, cacheFresh, disturb>>
           \/ Update(new, Then)
        /\ pc = "Annotate" /\ UNCHANGED <<k8s, service, cache, k8sCaches, user>>
    BY <1>6 DEF UpdateGatewayAnnotations
  <2>2. new.finalizer = local.finalizer /\ new.live = local.live /\ new.deleting = local.deleting
        /\ new.gen = local.gen /\ new.spec = local.spec /\ new.config = local.spec
    BY <2>0, GatewayWith
  <2>3. Then => Stays /\ pc' = "Service" /\ local' = new
    BY <1>1 DEF Stays
  <2>4. Fail => Fails /\ queue' = queue \union {self}
    BY DEF Fails, Ends
  <2>5. Goto("Service") => Stays /\ pc' = "Service" /\ local' = local /\ UNCHANGED localFresh
    BY <1>1 DEF Stays
  <2> HIDE DEF new, Then, Fail, Goto
  <2>6. CASE local.config = local.spec /\ Goto("Service") /\ UNCHANGED <<gw, cacheFresh, disturb>>
    BY <1>1, <2>1, <2>2, <2>5, <2>6 DEF GoesOn, Step, Stays, Keeps
  <2>7. CASE Update(new, Then)
    BY <1>1, <2>1, <2>2, <2>3, <2>4, <2>7, UpdateWrites DEF Records, With, Stays, Step
  <2> QED
    BY <2>1, <2>6, <2>7
<1>7. CASE CreateOrUpdateService
  <2>1. \A g \in Gateways : service'[g] = service[g] \/ g = self
    BY <1>1, <1>7 DEF CreateOrUpdateService, TypeOK
  <2>2. service'[self] = ServiceOf(local) \/ self \in queue'
    BY <1>1, <1>7 DEF CreateOrUpdateService, TypeOK
  <2>3. /\ UNCHANGED <<gw, k8s, gwCaches, k8sCaches, user>> /\ Ends /\ pc = "Service"
        /\ queue' \in {queue, queue \union {self}}
    BY <1>7 DEF CreateOrUpdateService, Ends
  <2> QED
    BY <1>1, <2>1, <2>2, <2>3 DEF PutsService, Keeps
<1>8. CASE RemoveFinalizer
  <2> DEFINE Then == Return
  <2>1. /\ Update(NoGateway, Then) /\ pc = "RemoveFinalizer" /\ UNCHANGED <<k8s, cache, k8sCaches, user>>
        /\ service' = [service EXCEPT ![self] = IF gw'[self].live THEN @ ELSE NoService]
    BY <1>8 DEF RemoveFinalizer
  <2>2. \A g \in Gateways : service'[g] = service[g] \/ (g = self /\ ~gw'[g].live)
    BY <2>1 DEF TypeOK
  <2>3. (Then => Ends /\ queue' = queue) /\ (Fail => Fails /\ Ends /\ queue' = queue \union {self})
    BY DEF Fails, Ends
  <2> HIDE DEF Then, Fail
  <2> QED
    BY <1>1, <2>1, <2>2, <2>3, UpdateWrites DEF Removes
<1> QED
  BY <1>2, <1>3, <1>4, <1>5, <1>6, <1>7, <1>8 DEF WorkerStep
-----------------------------------------------------------------------------
(* What happens to the Kubernetes Gateways                                 *)

LEMMA WithoutIs ==
  ASSUME NEW l \in Listeners, NEW gone \in Listeners
  PROVE  /\ Without(l, gone) \in Listeners
         /\ \A n \in Names : Without(l, gone)[n] = IF n \in Named(gone) THEN NoListener ELSE l[n]
  BY DEF Without, Listeners

LEMMA MergedIs ==
  ASSUME NEW l \in Listeners, NEW old \in Listeners, NEW new \in Listeners
  PROVE  /\ Merged(l, old, new) \in Listeners
         /\ \A n \in Names :
              Merged(l, old, new)[n] = IF n \in Named(new) THEN new[n]
                                       ELSE IF n \in Named(old) THEN NoListener ELSE l[n]
  BY DEF Merged, Listeners

LEMMA K8sCreated ==
  ASSUME NEW l \in Listeners
  PROVE  LET d == [NoK8sGateway EXCEPT !.live = TRUE, !.listeners = l, !.injected = l]
         IN d \in K8sGateway /\ d.live = TRUE /\ d.listeners = l
  BY NoK8sIs DEF NoK8sGateway, K8sGateway

\* The informer will bring what has changed.
NewsFollow(k) ==
  /\ k8sNews'[k] # "noticed" => k8sNews[k] # "noticed" /\ ~Noticed(k8s[k], k8s'[k])
  /\ k8sNews'[k] = "none" => k8sNews[k] = "none" /\ k8s'[k] = k8s[k]
OnlyK8s(k, new) ==
  /\ k8s'[k] = new /\ \A j \in K8sGateways : j # k => k8s'[j] = k8s[j]
  /\ \A j \in K8sGateways : NewsFollow(j)
  /\ k8s' \in [K8sGateways -> K8sGateway] /\ k8sNews' \in [K8sGateways -> News]

LEMMA ChangeK8sWrites ==
  ASSUME TypeOK, NEW k \in K8sGateways, NEW new \in K8sGateway, ChangeK8s(k, new)
  PROVE  OnlyK8s(k, new)
<1>1. k8s'[k] = new /\ \A j \in K8sGateways : j # k => k8s'[j] = k8s[j] /\ k8sNews'[j] = k8sNews[j]
  BY DEF ChangeK8s, TypeOK
<1>2. k8s' \in [K8sGateways -> K8sGateway]
  BY DEF ChangeK8s, TypeOK
<1>3. k8sNews'[k] = IF Noticed(k8s[k], new) THEN "noticed"
                    ELSE IF k8sNews[k] = "none" /\ new # k8s[k] THEN "ignored" ELSE k8sNews[k]
  BY DEF ChangeK8s, TypeOK
<1>4. k8sNews' \in [K8sGateways -> News]
  BY DEF ChangeK8s, TypeOK, News
<1>5. NewsFollow(k)
  BY <1>1, <1>3 DEF NewsFollow
<1>6. ASSUME NEW j \in K8sGateways, j # k
      PROVE  NewsFollow(j)
  BY <1>1, <1>6 DEF NewsFollow, Noticed
<1> QED
  BY <1>1, <1>2, <1>4, <1>5, <1>6 DEF OnlyK8s

LEMMA NoNews ==
  ASSUME TypeOK, UNCHANGED <<k8s, k8sNews>>, NEW k \in K8sGateways
  PROVE  OnlyK8s(k, k8s[k])
  BY DEF OnlyK8s, NewsFollow, Noticed, TypeOK

\* Clean takes off what a spec asks for: it succeeds when nothing of it is there.
Cleans(spec) ==
  LET k == spec.target IN
  \/ spec.kind = "none" /\ UNCHANGED <<k8s, k8sNews>>
  \/ spec.kind = "ref" /\ ~k8sCache[k].live /\ UNCHANGED <<k8s, k8sNews>>
  \/ /\ spec.kind = "ref" /\ Current(k) /\ k8sCache[k].live /\ OnlyK8s(k, k8s'[k])
     /\ k8s'[k].live /\ k8s'[k].listeners = Without(k8sCache[k].listeners, spec.listeners)
  \/ spec.kind = "def" /\ OnlyK8s(k, NoK8sGateway)
LEMMA CleanWrites ==
  ASSUME TypeOK, NEW spec \in GatewaySpec \union {NoSpec}, NEW next, Clean(spec, next)
  PROVE  \/ Cleans(spec) /\ (Goto(next) \/ Fail)
         \/ UNCHANGED <<k8s, k8sNews>> /\ Fail
<1> DEFINE k == spec.target
<1>1. spec.kind # "none" => k \in K8sGateways /\ spec.listeners \in Listeners
  BY NoneIs DEF GatewaySpec
<1>2. CASE spec.kind = "none"
  BY <1>2 DEF Clean, Cleans
<1>3. CASE spec.kind = "ref"
  <2> DEFINE rest == Without(k8sCache[k].listeners, spec.listeners)
             new == [k8sCache[k] EXCEPT !.listeners = rest, !.injected = Nothing]
  <2>1. k8sCache[k] \in K8sGateway /\ k8sCache[k].listeners \in Listeners
    BY <1>1, <1>3 DEF TypeOK, K8sGateway
  <2>2. new \in K8sGateway /\ new.live = k8sCache[k].live
        /\ new.listeners = Without(k8sCache[k].listeners, spec.listeners)
    <3>1. rest \in Listeners /\ Nothing \in Listeners
      BY <1>1, <1>3, <2>1, WithoutIs, NoneIs
    <3> HIDE DEF rest
    <3>2. new \in K8sGateway /\ new.live = k8sCache[k].live /\ new.listeners = rest
      BY <2>1, <3>1 DEF K8sGateway
    <3> QED
      BY <3>2 DEF rest
  <2>3. CASE ~k8sCache[k].live
    BY <1>3, <2>3 DEF Clean, Cleans
  <2>4. CASE k8sCache[k].live
    <3> DEFINE Then == Goto(next)
    <3>1. UpdateK8s(k, new, Then, Fail)
      BY <1>3, <2>4 DEF Clean
    <3> HIDE DEF new, Then, Fail
    <3>2. \/ Current(k) /\ ChangeK8s(k, new) /\ (Then \/ Fail)
          \/ UNCHANGED <<k8s, k8sNews>> /\ Fail
      BY <3>1 DEF UpdateK8s
    <3>3. ChangeK8s(k, new) => OnlyK8s(k, new)
      BY <1>1, <1>3, <2>2, ChangeK8sWrites
    <3> QED
      BY <1>3, <2>2, <2>4, <3>2, <3>3 DEF Cleans, Then, OnlyK8s
  <2> QED
    BY <2>1, <2>3, <2>4 DEF K8sGateway
<1>4. CASE spec.kind = "def"
  <2>1. ChangeK8s(k, NoK8sGateway) => OnlyK8s(k, NoK8sGateway)
    BY <1>1, <1>4, NoK8sIs, ChangeK8sWrites
  <2>2. \/ ChangeK8s(k, NoK8sGateway) /\ (Goto(next) \/ Fail)
        \/ UNCHANGED <<k8s, k8sNews>> /\ Fail
    BY <1>4 DEF Clean
  <2> QED
    BY <1>4, <2>1, <2>2 DEF Cleans
<1> QED
  BY <1>2, <1>3, <1>4 DEF Clean
\* Applying a spec succeeds when its listeners are there, or are on their way back.
Succeeds == Step("Apply", "Annotate") \/ (Step("Apply", "Status") /\ ~failed')
Errs == Fails \/ (Step("Apply", "Status") /\ failed')
Merges(k) ==
  /\ Current(k) /\ k8sCache[k].live /\ OnlyK8s(k, k8s'[k]) /\ k8s'[k].live
  /\ k8s'[k].listeners = Merged(k8sCache[k].listeners, local.config.listeners, local.spec.listeners)
IsThere(k) == k8sCache[k].live /\ ~NeedReconcile(local, k8sCache[k]) /\ UNCHANGED <<k8s, k8sNews>>
CreatesK8s(k) ==
  /\ ~k8sCache[k].live /\ local.spec.kind = "def" /\ ~k8s[k].live
  /\ OnlyK8s(k, k8s'[k]) /\ k8s'[k].live /\ k8s'[k].listeners = local.spec.listeners
LEMMA ApplyWrites ==
  ASSUME TypeInv, CreateOrUpdateGateway
  PROVE  LET k == local.spec.target IN
         \/ Merges(k) /\ (Succeeds \/ Errs)
         \/ IsThere(k) /\ (Succeeds \/ Errs)
         \/ CreatesK8s(k) /\ (Succeeds \/ Errs)
         \/ UNCHANGED <<k8s, k8sNews>> /\ Errs
<1> DEFINE spec == local.spec
           k == spec.target
           seen == k8sCache[k]
           rest == Merged(seen.listeners, local.config.listeners, spec.listeners)
           merged == [seen EXCEPT !.listeners = rest, !.injected = spec.listeners]
           created == [NoK8sGateway EXCEPT !.live = TRUE, !.listeners = spec.listeners,
                                           !.injected = spec.listeners]
<1> TypeOK
  BY DEF TypeInv
<1>1. /\ k \in K8sGateways /\ seen \in K8sGateway /\ seen.listeners \in Listeners
      /\ spec.listeners \in Listeners /\ local.config.listeners \in Listeners
      /\ local.status \in Status /\ spec.kind \in {"ref", "def"} /\ pc = "Apply"
  <2>1. pc = "Apply" /\ local.status \in Status /\ self \in Gateways
    BY DEF CreateOrUpdateGateway, TypeInv, SpecsInv, Sound, TypeOK, Gateway
  <2>2. spec \in Wanted[self] /\ local.config \in Wanted[self] \union {NoSpec}
    BY <2>1 DEF TypeInv, SpecsInv, Sound
  <2>3. k \in K8sGateways /\ spec.kind \in {"ref", "def"} /\ spec.listeners \in Listeners
    BY <2>1, <2>2, WantedIs
  <2>4. local.config.listeners \in Listeners
    BY <2>1, <2>2, WantedIs, NoneIs
  <2>5. seen \in K8sGateway /\ seen.listeners \in Listeners
    BY <2>3 DEF TypeOK, K8sGateway
  <2> QED
    BY <2>1, <2>3, <2>4, <2>5
<1>2. merged \in K8sGateway /\ merged.live = seen.live /\ merged.listeners = rest
  <2>1. rest \in Listeners
    BY <1>1, MergedIs
  <2> HIDE DEF rest
  <2> QED
    BY <1>1, <2>1 DEF K8sGateway
<1>3. created \in K8sGateway /\ created.live = TRUE /\ created.listeners = spec.listeners
  BY <1>1, K8sCreated
<1>4. ASSUME NEW status, NEW error \in BOOLEAN, SetStatus(status, error)
      PROVE  (error => Errs) /\ (Succeeds \/ Errs)
  BY <1>1, <1>4 DEF SetStatus, Succeeds, Errs, Step, Stays, Fail, Fails, Ends, Leave, Goto, Continue
<1>5. ASSUME NEW other
      PROVE  /\ SyncStatus(other) => Succeeds \/ Errs
             /\ Reject(other) => Errs
  BY <1>4 DEF SyncStatus, Reject
<1>6. ChangeK8s(k, merged) => OnlyK8s(k, merged)
  BY <1>1, <1>2, ChangeK8sWrites
<1>7. ChangeK8s(k, created) => OnlyK8s(k, created)
  BY <1>1, <1>3, ChangeK8sWrites
<1>8. CASE seen.live /\ NeedReconcile(local, seen)
  <2>1. UpdateK8s(k, merged, SyncStatus(seen), Reject("NotReconciled"))
    BY <1>8 DEF CreateOrUpdateGateway
  <2> HIDE DEF k, seen, merged, rest
  <2>2. \/ Current(k) /\ ChangeK8s(k, merged) /\ (Succeeds \/ Errs)
        \/ UNCHANGED <<k8s, k8sNews>> /\ Errs
    BY <1>5, <2>1 DEF UpdateK8s
  <2>3. \/ Merges(k) /\ (Succeeds \/ Errs)
        \/ UNCHANGED <<k8s, k8sNews>> /\ Errs
    BY <1>2, <1>6, <1>8, <2>2 DEF Merges, OnlyK8s, seen, rest
  <2> QED
    BY <2>3 DEF k
<1>9. CASE seen.live /\ ~NeedReconcile(local, seen)
  <2>1. SyncStatus(seen) /\ UNCHANGED <<k8s, k8sNews>>
    BY <1>9 DEF CreateOrUpdateGateway
  <2> HIDE DEF k
  <2>2. IsThere(k)
    BY <1>9, <2>1 DEF IsThere
  <2>3. Succeeds \/ Errs
    BY <1>5, <2>1
  <2> QED
    BY <2>2, <2>3 DEF k
<1>10. CASE ~seen.live
  <2>1. \/ Reject("NotFound") /\ UNCHANGED <<k8s, k8sNews>>
        \/ Reject("CreationFailure") /\ UNCHANGED <<k8s, k8sNews>>
        \/ /\ spec.kind = "def" /\ ~k8s[k].live /\ ChangeK8s(k, created)
           /\ SyncStatus(created) \/ Reject("CreationFailure")
    BY <1>10 DEF CreateOrUpdateGateway
  <2> HIDE DEF k, seen, created, spec
  <2>2. \/ UNCHANGED <<k8s, k8sNews>> /\ Errs
        \/ CreatesK8s(k) /\ (Succeeds \/ Errs)
    BY <1>3, <1>5, <1>7, <1>10, <2>1 DEF CreatesK8s, OnlyK8s, seen, spec
  <2> QED
    BY <2>2 DEF k, spec
<1> QED
  BY <1>8, <1>9, <1>10

\* Whatever changes a Kubernetes Gateway.
TakenOff(k, spec) ==
  /\ Current(k) /\ k = spec.target /\ k8sCache[k].live /\ k8s'[k].live
  /\ k8s'[k].listeners = Without(k8sCache[k].listeners, spec.listeners)
ListenersSame(k) ==
  \/ k8s'[k] = k8s[k]
  \/ k8s[k].live /\ k8s'[k].live /\ k8s'[k].listeners = k8s[k].listeners
LEMMA K8sWritten ==
  ASSUME TypeInv, Next, NEW k \in K8sGateways
  PROVE  /\ \/ NewsFollow(k) /\ k8sCache'[k] = k8sCache[k]
            \/ /\ Crash \/ SyncK8sGateway(k)
               /\ k8sCache'[k] = k8s[k] /\ k8s'[k] = k8s[k] /\ k8sNews'[k] = "none"
         /\ \/ ListenersSame(k)
            \/ k8s'[k] = NoK8sGateway
            \/ /\ AdminEdits(k) /\ k8s[k].live /\ k8s'[k].live
               /\ \A n \in Names \ {ForeignName} : k8s'[k].listeners[n] = k8s[k].listeners[n]
            \/ CleanOld /\ TakenOff(k, local.config)
            \/ CleanDeleted /\ TakenOff(k, local.spec)
            \/ CreateOrUpdateGateway /\ k = local.spec.target /\ (Merges(k) \/ CreatesK8s(k))
         /\ k8s' \in [K8sGateways -> K8sGateway] /\ k8sNews' \in [K8sGateways -> News]
         /\ k8sCache' \in [K8sGateways -> K8sGateway]
<1> TypeOK
  BY DEF TypeInv
<1> USE DEF k8sCaches
<1>1. ASSUME UNCHANGED <<k8s, k8sNews>>
      PROVE  NewsFollow(k) /\ ListenersSame(k) /\ k8s' \in [K8sGateways -> K8sGateway]
             /\ k8sNews' \in [K8sGateways -> News]
  BY <1>1 DEF NewsFollow, Noticed, ListenersSame, TypeOK
<1>2. ASSUME NEW j \in K8sGateways, NEW new \in K8sGateway, OnlyK8s(j, new)
      PROVE  /\ NewsFollow(k) /\ k8s' \in [K8sGateways -> K8sGateway] /\ k8sNews' \in [K8sGateways -> News]
             /\ k = j \/ ListenersSame(k)
  BY <1>2 DEF OnlyK8s, ListenersSame
<1>3. CASE CleanOld \/ CleanDeleted
  <2>1. PICK spec \in GatewaySpec \union {NoSpec} :
          /\ (\E next : Clean(spec, next)) \/ UNCHANGED <<k8s, k8sNews>>
          /\ (CleanOld /\ spec = local.config) \/ (CleanDeleted /\ spec = local.spec)
    <3>1. local.spec \in GatewaySpec \union {NoSpec} /\ local.config \in GatewaySpec \union {NoSpec}
      BY DEF TypeOK, Gateway
    <3> QED
      BY <1>3, <3>1 DEF CleanOld, CleanDeleted
  <2>2. k8sCache' = k8sCache
    BY <1>3 DEF CleanOld, CleanDeleted
  <2>3. CASE UNCHANGED <<k8s, k8sNews>>
    BY <1>1, <2>2, <2>3 DEF TypeOK
  <2>4. CASE Cleans(spec) /\ ~UNCHANGED <<k8s, k8sNews>>
    <3>1. spec.kind # "none"
      BY <2>4 DEF Cleans
    <3>2. spec.target \in K8sGateways
      BY <3>1, NoneIs DEF GatewaySpec
    <3>3. k8s'[spec.target] \in K8sGateway /\ OnlyK8s(spec.target, k8s'[spec.target])
      BY <2>4, <3>2 DEF Cleans, OnlyK8s
    <3>4. k = spec.target => k8s'[k] = NoK8sGateway \/ TakenOff(k, spec)
      BY <2>4, <3>2 DEF Cleans, OnlyK8s, TakenOff
    <3> QED
      BY <1>2, <2>1, <2>2, <3>2, <3>3, <3>4 DEF TypeOK
  <2> QED
    BY <2>1, <2>3, <2>4, CleanWrites
<1>4. CASE CreateOrUpdateGateway
  <2> DEFINE j == local.spec.target
  <2>1. j \in K8sGateways
    <3>1. self \in Gateways /\ local.spec \in Wanted[self]
      BY <1>4 DEF CreateOrUpdateGateway, TypeInv, SpecsInv, Sound
    <3> QED
      BY <3>1, WantedIs
  <2>2. k8sCache' = k8sCache
    BY <1>4 DEF CreateOrUpdateGateway
  <2>3. UNCHANGED <<k8s, k8sNews>> \/ Merges(j) \/ CreatesK8s(j)
    BY <1>4, ApplyWrites DEF IsThere
  <2>4. CASE UNCHANGED <<k8s, k8sNews>>
    BY <1>1, <2>2, <2>4 DEF TypeOK
  <2>5. CASE Merges(j) \/ CreatesK8s(j)
    <3>1. OnlyK8s(j, k8s'[j]) /\ k8s'[j] \in K8sGateway
      BY <2>1, <2>5 DEF Merges, CreatesK8s, OnlyK8s
    <3> QED
      BY <1>2, <1>4, <2>1, <2>2, <2>5, <3>1 DEF TypeOK
  <2> QED
    BY <2>3, <2>4, <2>5
<1>5. ASSUME NEW j \in K8sGateways, Program(j) \/ K8sGatewayDeleted(j) \/ AdminEdits(j)
      PROVE  /\ k8sCache' = k8sCache
             /\ \E new \in K8sGateway :
                  /\ OnlyK8s(j, new)
                  /\ \/ k8s[j].live /\ new.live /\ new.listeners = k8s[j].listeners
                     \/ new = NoK8sGateway
                     \/ /\ AdminEdits(j) /\ k8s[j].live /\ new.live
                        /\ \A n \in Names \ {ForeignName} : new.listeners[n] = k8s[j].listeners[n]
  <2>1. k8s[j] \in K8sGateway /\ k8s[j].listeners \in Listeners
    BY DEF TypeOK, K8sGateway
  <2>2. CASE Program(j)
    <3> DEFINE p == Named(k8s[j].listeners)
               new == [k8s[j] EXCEPT !.programmed = p]
    <3>1. p \in SUBSET Names
      BY DEF Named
    <3>2. ChangeK8s(j, new) /\ k8sCache' = k8sCache /\ k8s[j].live
      BY <2>2 DEF Program
    <3> HIDE DEF p
    <3>3. new \in K8sGateway /\ new.live = k8s[j].live /\ new.listeners = k8s[j].listeners
      BY <2>1, <3>1 DEF K8sGateway
    <3> HIDE DEF new
    <3> QED
      BY <3>2, <3>3, ChangeK8sWrites
  <2>3. CASE K8sGatewayDeleted(j)
    BY <2>3, NoK8sIs, ChangeK8sWrites DEF K8sGatewayDeleted
  <2>4. CASE AdminEdits(j)
    <3>1. PICK c \in Configs \union {NoListener} :
            ChangeK8s(j, [k8s[j] EXCEPT !.listeners = [@ EXCEPT ![ForeignName] = c]])
      BY <2>4 DEF AdminEdits
    <3> DEFINE l == [k8s[j].listeners EXCEPT ![ForeignName] = c]
               new == [k8s[j] EXCEPT !.listeners = l]
    <3>2. ChangeK8s(j, new) /\ k8sCache' = k8sCache /\ k8s[j].live
      BY <2>4, <3>1 DEF AdminEdits
    <3>3. l \in Listeners /\ \A n \in Names \ {ForeignName} : l[n] = k8s[j].listeners[n]
      BY <2>1 DEF Listeners
    <3> HIDE DEF l
    <3>4. new \in K8sGateway /\ new.live = k8s[j].live /\ new.listeners = l
      BY <2>1, <3>3 DEF K8sGateway
    <3> HIDE DEF new
    <3> QED
      BY <2>4, <3>2, <3>3, <3>4, ChangeK8sWrites
  <2> QED
    BY <1>5, <2>2, <2>3, <2>4
<1>6. CASE \E j \in K8sGateways : Program(j) \/ K8sGatewayDeleted(j) \/ AdminEdits(j)
  <2>1. PICK j \in K8sGateways : Program(j) \/ K8sGatewayDeleted(j) \/ AdminEdits(j)
    BY <1>6
  <2>2. PICK new \in K8sGateway :
                  /\ OnlyK8s(j, new)
                  /\ \/ k8s[j].live /\ new.live /\ new.listeners = k8s[j].listeners
                     \/ new = NoK8sGateway
                     \/ /\ AdminEdits(j) /\ k8s[j].live /\ new.live
                        /\ \A n \in Names \ {ForeignName} : new.listeners[n] = k8s[j].listeners[n]
    BY <1>5, <2>1
  <2>3. k8sCache' = k8sCache
    BY <1>5, <2>1
  <2>4. CASE k = j
    <3>1. k8s'[k] = new
      BY <2>2, <2>4 DEF OnlyK8s
    <3> QED
      BY <1>2, <2>2, <2>3, <2>4, <3>1 DEF ListenersSame, TypeOK
  <2>5. CASE k # j
    BY <1>2, <2>2, <2>3, <2>5 DEF TypeOK
  <2> QED
    BY <2>4, <2>5
<1>7. CASE \E j \in K8sGateways : SyncK8sGateway(j)
  <2>1. PICK j \in K8sGateways : SyncK8sGateway(j)
    BY <1>7
  <2>2. /\ k8s' = k8s /\ k8sCache' = [k8sCache EXCEPT ![j] = k8s[j]]
        /\ k8sNews' = [k8sNews EXCEPT ![j] = "none"]
    BY <2>1 DEF SyncK8sGateway, api
  <2>3. CASE j = k
    BY <2>1, <2>2, <2>3 DEF ListenersSame, TypeOK, News
  <2>4. CASE j # k
    BY <2>2, <2>4 DEF NewsFollow, Noticed, ListenersSame, TypeOK, News
  <2> QED
    BY <2>3, <2>4
<1>8. CASE Crash
  BY <1>8 DEF Crash, api, ListenersSame, TypeOK, News
<1>9. CASE \/ AddFinalizer \/ UpdateGatewayStatus \/ UpdateGatewayAnnotations \/ CreateOrUpdateService
           \/ RemoveFinalizer
           \/ \E g \in Gateways : StartReconcile(g) \/ SyncGateway(g) \/ EditSpec(g) \/ DeleteGateway(g)
  <2>1. UNCHANGED <<k8s, k8sCaches>>
    BY <1>9 DEF AddFinalizer, UpdateGatewayStatus, UpdateGatewayAnnotations, CreateOrUpdateService,
       RemoveFinalizer, StartReconcile, SyncGateway, EditSpec, DeleteGateway, Touch, api
  <2> QED
    BY <1>1, <2>1 DEF TypeOK
<1> QED
  BY <1>3, <1>4, <1>6, <1>7, <1>8, <1>9 DEF Next, WorkerStep
-----------------------------------------------------------------------------
(* What users and informers do                                             *)

Edited(g) ==
  /\ \E s \in Wanted[g] : gw'[g].spec = s
  /\ gw'[g].live /\ ~gw'[g].deleting /\ gw'[g].finalizer = gw[g].finalizer
  /\ gw'[g].config = gw[g].config /\ gw'[g].gen = gw[g].gen + 1
  /\ g \in overtaken' \/ gw[g].config = gw[g].spec
Marked(g) ==
  /\ gw[g].finalizer
  /\ gw'[g].live /\ gw'[g].deleting /\ gw'[g].finalizer /\ gw'[g].spec = gw[g].spec
  /\ gw'[g].config = gw[g].config /\ gw'[g].gen = gw[g].gen + 1
  /\ g \in overtaken' \/ gw[g].config \in {gw[g].spec, NoSpec}
Vanished(g) == ~gw[g].finalizer /\ gw'[g] = NoGateway
LEMMA UserWrites ==
  ASSUME TypeInv, NEW g \in Gateways, EditSpec(g) \/ DeleteGateway(g)
  PROVE  /\ UNCHANGED <<k8s, k8sCaches, cache, pc, queue, self, local, failed>>
         /\ localFresh' = (localFresh /\ g # self)
         /\ edits' = edits + 1 /\ edits' \in 0 .. MaxEdits
         /\ overtaken \subseteq overtaken' /\ overtaken' \subseteq overtaken \union {g}
         /\ \A h \in Gateways : h # g => gw'[h] = gw[h] /\ cacheFresh'[h] = cacheFresh[h]
         /\ \A h \in Gateways : cacheFresh'[h] => cacheFresh[h] /\ gw'[h] = gw[h]
         /\ \A h \in Gateways : service'[h] = service[h] \/ ~gw'[h].live
         /\ gw[g].live /\ ~gw[g].deleting
         /\ gw'[g] \in Gateway /\ (Edited(g) \/ Marked(g) \/ Vanished(g))
<1> TypeOK
  BY DEF TypeInv
<1> USE DEF k8sCaches
<1>1. gw[g] \in Gateway /\ gw[g].gen <= edits /\ edits \in 0 .. MaxEdits /\ gw[g].gen \in 0 .. MaxEdits
  BY GatewayIs DEF TypeInv, SpecsInv, Sound, TypeOK
<1>2. ASSUME NEW new, NEW recorded, Touch(g, new, recorded)
      PROVE  /\ UNCHANGED <<k8s, k8sCaches, cache, pc, queue, self, local, failed>>
             /\ localFresh' = (localFresh /\ g # self)
             /\ edits' = edits + 1 /\ edits < MaxEdits
             /\ overtaken \subseteq overtaken' /\ overtaken' \subseteq overtaken \union {g}
             /\ g \in overtaken' \/ gw[g].config \in recorded
             /\ gw[g].live /\ ~gw[g].deleting
             /\ ChangeGateway(g, new)
  BY <1>2 DEF Touch
<1>3. ASSUME NEW new, NEW recorded, Touch(g, new, recorded)
      PROVE  /\ UNCHANGED <<k8s, k8sCaches, cache, pc, queue, self, local, failed>>
             /\ localFresh' = (localFresh /\ g # self)
             /\ edits' = edits + 1 /\ edits' \in 0 .. MaxEdits
             /\ gw[g].gen + 1 \in 0 .. MaxEdits
             /\ overtaken \subseteq overtaken' /\ overtaken' \subseteq overtaken \union {g}
             /\ \A h \in Gateways : h # g => gw'[h] = gw[h] /\ cacheFresh'[h] = cacheFresh[h]
             /\ \A h \in Gateways : cacheFresh'[h] => cacheFresh[h] /\ gw'[h] = gw[h]
             /\ g \in overtaken' \/ gw[g].config \in recorded
             /\ gw[g].live /\ ~gw[g].deleting /\ gw'[g] = new
  <2>1. edits' = edits + 1 /\ edits < MaxEdits
    BY <1>2, <1>3
  <2>2. edits' \in 0 .. MaxEdits /\ gw[g].gen + 1 \in 0 .. MaxEdits
    BY <1>1, <2>1, GatewayAssumption
  <2>3. ChangeGateway(g, new)
    BY <1>2, <1>3
  <2> QED
    BY <1>2, <1>3, <2>2, <2>3, ChangeWrites
<1>4. CASE EditSpec(g)
  <2>1. PICK s \in Wanted[g] : Touch(g, [gw[g] EXCEPT !.spec = s, !.gen = @ + 1], {gw[g].spec})
    BY <1>4 DEF EditSpec
  <2> DEFINE gen == gw[g].gen + 1
             new == [gw[g] EXCEPT !.spec = s, !.gen = gen]
  <2>2. Touch(g, new, {gw[g].spec}) /\ service' = service
    BY <1>4, <2>1 DEF EditSpec
  <2>3. s \in GatewaySpec /\ gen \in 0 .. MaxEdits
    BY <1>3, <2>2, WantedIs
  <2> HIDE DEF gen
  <2>4. /\ new \in Gateway /\ new.finalizer = gw[g].finalizer /\ new.live = gw[g].live
        /\ new.deleting = gw[g].deleting /\ new.gen = gen /\ new.spec = s /\ new.config = gw[g].config
    <3> DEFINE moved == [gw[g] EXCEPT !.spec = s]
    <3>1. /\ moved \in Gateway /\ moved.finalizer = gw[g].finalizer /\ moved.live = gw[g].live
          /\ moved.deleting = gw[g].deleting /\ moved.gen = gw[g].gen /\ moved.spec = s
          /\ moved.config = gw[g].config
      BY <1>1, <2>3, GatewayMoved
    <3>2. new = [moved EXCEPT !.gen = gen]
      OBVIOUS
    <3> HIDE DEF moved, new
    <3> QED
      BY <2>3, <3>1, <3>2, GatewayEdited
  <2> HIDE DEF new
  <2> QED
    BY <1>3, <2>2, <2>4 DEF Edited, gen
<1>5. CASE DeleteGateway(g) /\ gw[g].finalizer
  <2> DEFINE gen == gw[g].gen + 1
             new == [gw[g] EXCEPT !.deleting = TRUE, !.gen = gen]
  <2>1. Touch(g, new, {gw[g].spec, NoSpec}) /\ service' = service
    BY <1>5 DEF DeleteGateway
  <2>2. gen \in 0 .. MaxEdits
    BY <1>3, <2>1
  <2> HIDE DEF gen
  <2>3. /\ new \in Gateway /\ new.finalizer = gw[g].finalizer /\ new.live = gw[g].live
        /\ new.deleting = TRUE /\ new.gen = gen /\ new.spec = gw[g].spec /\ new.config = gw[g].config
    BY <1>1, <2>2, GatewayWith
  <2> HIDE DEF new
  <2> QED
    BY <1>3, <1>5, <2>1, <2>3 DEF Marked, gen
<1>6. CASE DeleteGateway(g) /\ ~gw[g].finalizer
  <2>1. Touch(g, NoGateway, {gw[g].spec, NoSpec}) /\ service' = [service EXCEPT ![g] = NoService]
    BY <1>6 DEF DeleteGateway
  <2>2. gw'[g] = NoGateway
    BY <1>3, <2>1
  <2>3. \A h \in Gateways : service'[h] = service[h] \/ ~gw'[h].live
    BY <2>1, <2>2, NoGatewayIs DEF TypeOK
  <2> QED
    BY <1>3, <1>6, <2>1, <2>2, <2>3, NoGatewayType DEF Vanished
<1> QED
  BY <1>4, <1>5, <1>6

\* The worker begins with a Gateway that is in its cache.
Begins(g) ==
  /\ pc = "Idle" /\ g \in queue /\ queue' = queue \ {g}
  /\ \/ /\ cache[g].live /\ FirstStep(cache[g]) # "Idle" /\ pc' = FirstStep(cache[g])
        /\ self' = g /\ local' = cache[g] /\ localFresh' = cacheFresh[g]
     \/ /\ ~cache[g].live \/ FirstStep(cache[g]) = "Idle"
        /\ UNCHANGED <<pc, self, local, localFresh>>
LEMMA StartWrites ==
  ASSUME NEW g, StartReconcile(g)
  PROVE  Begins(g) /\ UNCHANGED <<gw, k8s, service, cache, cacheFresh, k8sCaches, edits, overtaken>>
  BY DEF StartReconcile, Begins, api, gwCaches, user

LEMMA SyncWrites ==
  ASSUME TypeOK, NEW g \in Gateways, SyncGateway(g)
  PROVE  /\ UNCHANGED <<gw, k8s, service, k8sCaches, pc, self, local, localFresh, failed, edits, overtaken>>
         /\ cache'[g] = gw[g]
         /\ \A h \in Gateways : h # g => cache'[h] = cache[h] /\ cacheFresh'[h] = cacheFresh[h]
         /\ queue' \in {queue, queue \union {g}}
         /\ g \in queue' \/ (cache[g].live = gw[g].live /\ cache[g].gen = gw[g].gen)
  BY DEF SyncGateway, api, user, TypeOK

\* Nobody else touches the Gateways.
LEMMA OthersWrite ==
  ASSUME Next, ~WorkerStep, ~Crash,
         ~\E g \in Gateways : StartReconcile(g) \/ SyncGateway(g) \/ EditSpec(g) \/ DeleteGateway(g)
  PROVE  /\ UNCHANGED <<gw, service, cache, cacheFresh, pc, self, local, localFresh, failed, edits, overtaken>>
         /\ \/ queue' = queue
            \/ \E k \in K8sGateways : SyncK8sGateway(k) /\ queue' = queue \union Attached(k)
         /\ queue' \subseteq queue \union Gateways
<1>1. \E k \in K8sGateways : SyncK8sGateway(k) \/ Program(k) \/ AdminEdits(k) \/ K8sGatewayDeleted(k)
  BY DEF Next
<1>2. \A k : Attached(k) \subseteq Gateways
  BY DEF Attached
<1> QED
  BY <1>1, <1>2 DEF SyncK8sGateway, Program, AdminEdits, K8sGatewayDeleted, api, gwCaches, worker, user
-----------------------------------------------------------------------------
(* The types                                                               *)

\* How the behaviour begins.
FirstSpecs(spec) ==
  /\ spec \in [Gateways -> GatewaySpec]
  /\ \A g \in Gateways : spec[g] \in Wanted[g]
  /\ \A g \in Gateways : gw[g] = IF g \in Settled THEN AlreadyApplied(spec[g]) ELSE Created(spec[g])
  /\ gw \in [Gateways -> Gateway]
  /\ service = [g \in Gateways |-> IF g \in Settled THEN ServiceOf(gw[g]) ELSE NoService]
FirstK8s(spec) ==
  \A k \in K8sGateways :
    /\ k8s[k] \in K8sGateway
    /\ ~k8s[k].live => k8s[k] = NoK8sGateway
    /\ \A n \in Named(k8s[k].listeners) \ {ForeignName} : \E g \in Settled : Asks(spec[g], k, n)
    /\ \A g \in Settled : spec[g].target = k =>
         /\ k8s[k].live
         /\ \A n \in Named(spec[g].listeners) : k8s[k].listeners[n] = spec[g].listeners[n]

LEMMA NewGateway ==
  ASSUME NEW s \in GatewaySpec
  PROVE  /\ Created(s) \in Gateway /\ Created(s).live = TRUE /\ Created(s).deleting = FALSE
         /\ Created(s).finalizer = FALSE /\ Created(s).gen = 0
         /\ Created(s).spec = s /\ Created(s).config = NoSpec
         /\ AlreadyApplied(s) \in Gateway /\ AlreadyApplied(s).live = TRUE
         /\ AlreadyApplied(s).deleting = FALSE /\ AlreadyApplied(s).finalizer = TRUE
         /\ AlreadyApplied(s).gen = 0 /\ AlreadyApplied(s).spec = s /\ AlreadyApplied(s).config = s
<1> DEFINE Gens == 0 .. MaxEdits
           Specs == GatewaySpec \union {NoSpec}
           st == [NoGateway.status EXCEPT !.reason = "Synced"]
<1>1. Gateway = [live : BOOLEAN, deleting : BOOLEAN, finalizer : BOOLEAN, gen : Gens,
                 spec : Specs, config : Specs, status : Status]
  BY DEF Gateway
<1>2. s \in Specs
  OBVIOUS
<1>3. st \in Status
  BY NoGatewayIs DEF Status, Reasons
<1>4. NoGateway \in Gateway
  BY NoGatewayType
<1> HIDE DEF Gens, Specs
<1>5. /\ Created(s) \in Gateway /\ Created(s).live = TRUE /\ Created(s).deleting = FALSE
      /\ Created(s).finalizer = FALSE /\ Created(s).gen = 0
      /\ Created(s).spec = s /\ Created(s).config = NoSpec
      /\ Created(s).status = NoGateway.status
  BY <1>1, <1>2, <1>4, NoGatewayIs DEF Created
<1> DEFINE c == Created(s)
           d == [c EXCEPT !.finalizer = TRUE, !.config = s, !.status = st]
<1>6. AlreadyApplied(s) = d
  BY <1>5 DEF AlreadyApplied
<1> HIDE DEF c, st
<1>7. /\ d \in Gateway /\ d.live = TRUE /\ d.deleting = FALSE /\ d.finalizer = TRUE /\ d.gen = 0
      /\ d.spec = s /\ d.config = s
  BY <1>1, <1>2, <1>3, <1>5 DEF c
<1> QED
  BY <1>5, <1>6, <1>7

LEMMA InitIs ==
  ASSUME Init
  PROVE  \E spec : FirstSpecs(spec) /\ FirstK8s(spec)
<1> DEFINE users(spec, k) == {g \in Settled : spec[g].target = k}
           owner(spec, k, n) == CHOOSE g \in users(spec, k) : n \in Named(spec[g].listeners)
           there(spec, k, n) ==
             IF n = ForeignName
             THEN IF k \in Provided THEN CHOOSE c \in Configs : TRUE ELSE NoListener
             ELSE IF \E g \in users(spec, k) : n \in Named(spec[g].listeners)
                  THEN spec[owner(spec, k, n)].listeners[n] ELSE NoListener
           put(spec, k) == IF users(spec, k) = {} THEN Nothing
                           ELSE spec[CHOOSE g \in users(spec, k) : TRUE].listeners
           first(spec, k) ==
               [live |-> k \in Provided \/ users(spec, k) # {},
                listeners |-> [n \in Names |-> there(spec, k, n)],
                injected |-> put(spec, k), programmed |-> {}]
<1>1. PICK spec \in [Gateways -> UNION {First[g] : g \in Gateways}] :
        /\ \A g \in Gateways : spec[g] \in First[g]
        /\ \A k \in K8sGateways : \A g \in users(spec, k) : \A n \in Named(spec[g].listeners) :
             spec[g].listeners[n] = spec[owner(spec, k, n)].listeners[n]
        /\ gw = [g \in Gateways |-> IF g \in Settled THEN AlreadyApplied(spec[g]) ELSE Created(spec[g])]
        /\ k8s = [k \in K8sGateways |-> first(spec, k)]
        /\ service = [g \in Gateways |-> IF g \in Settled THEN ServiceOf(gw[g]) ELSE NoService]
  BY DEF Init
<1>2. \A g \in Gateways : /\ spec[g] \in Wanted[g] /\ spec[g] \in GatewaySpec
                          /\ spec[g].listeners \in Listeners /\ ForeignName \notin Named(spec[g].listeners)
  BY <1>1, GatewayAssumption, WantedIs
<1>3. Settled \subseteq Gateways
  BY GatewayAssumption
<1>4. FirstSpecs(spec)
  BY <1>1, <1>2, NewGateway DEF FirstSpecs
<1>5. ASSUME NEW k \in K8sGateways, NEW n \in Names
      PROVE  /\ there(spec, k, n) \in Configs \union {NoListener}
             /\ there(spec, k, n) # NoListener /\ n # ForeignName =>
                  \E g \in users(spec, k) : n \in Named(spec[g].listeners)
             /\ \A g \in users(spec, k) : n \in Named(spec[g].listeners) =>
                  there(spec, k, n) = spec[g].listeners[n]
  <2>1. CASE n = ForeignName
    <3>1. (CHOOSE c \in Configs : TRUE) \in Configs
      BY GatewayAssumption
    <3>2. \A g \in users(spec, k) : n \notin Named(spec[g].listeners)
      BY <1>2, <1>3, <2>1
    <3> QED
      BY <2>1, <3>1, <3>2
  <2>2. CASE n # ForeignName /\ \E g \in users(spec, k) : n \in Named(spec[g].listeners)
    <3>1. owner(spec, k, n) \in users(spec, k)
      BY <2>2
    <3>2. spec[owner(spec, k, n)].listeners \in Listeners
      BY <1>2, <1>3, <3>1
    <3>3. there(spec, k, n) = spec[owner(spec, k, n)].listeners[n]
      BY <2>2
    <3> HIDE DEF owner, there
    <3> QED
      BY <1>1, <2>2, <3>2, <3>3 DEF Listeners
  <2>3. CASE n # ForeignName /\ ~\E g \in users(spec, k) : n \in Named(spec[g].listeners)
    BY <2>3
  <2> QED
    BY <2>1, <2>2, <2>3
<1>6. ASSUME NEW k \in K8sGateways
      PROVE  put(spec, k) \in Listeners
  <2>1. CASE users(spec, k) = {}
    BY <2>1, NoneIs
  <2>2. CASE users(spec, k) # {}
    <3>1. (CHOOSE g \in users(spec, k) : TRUE) \in users(spec, k)
      BY <2>2
    <3> QED
      BY <1>2, <1>3, <2>2, <3>1
  <2> QED
    BY <2>1, <2>2
<1>7. ASSUME NEW k \in K8sGateways
      PROVE  /\ k8s[k] \in K8sGateway
             /\ ~k8s[k].live => k8s[k] = NoK8sGateway
             /\ \A n \in Named(k8s[k].listeners) \ {ForeignName} : \E g \in Settled : Asks(spec[g], k, n)
             /\ \A g \in Settled : spec[g].target = k =>
                  /\ k8s[k].live
                  /\ \A n \in Named(spec[g].listeners) : k8s[k].listeners[n] = spec[g].listeners[n]
  <2> DEFINE live == k \in Provided \/ users(spec, k) # {}
             l == [n \in Names |-> there(spec, k, n)]
             i == put(spec, k)
             new == [live |-> live, listeners |-> l, injected |-> i, programmed |-> {}]
  <2>1. k8s[k] = new
    BY <1>1
  <2>2. l \in Listeners /\ \A n \in Names : l[n] = there(spec, k, n)
    BY <1>5 DEF Listeners
  <2>3. i \in Listeners /\ live \in BOOLEAN /\ (live <=> k \in Provided \/ users(spec, k) # {})
    BY <1>6
  <2>4. ~live => l = Nothing /\ i = Nothing
    <3>1. SUFFICES ASSUME ~live PROVE l = Nothing /\ i = Nothing
      OBVIOUS
    <3>2. k \notin Provided /\ users(spec, k) = {}
      BY <3>1
    <3> HIDE DEF users
    <3>3. \A n \in Names : there(spec, k, n) = NoListener
      BY <3>2
    <3> QED
      BY <3>2, <3>3 DEF Nothing
  <2> HIDE DEF live, l, i, there, put
  <2>5. new \in K8sGateway /\ new.live = live /\ new.listeners = l /\ new.injected = i
    BY <2>2, <2>3 DEF K8sGateway
  <2>6. ~live => new = NoK8sGateway
    <3>1. ~live => live = FALSE
      BY <2>3
    <3> QED
      BY <2>4, <3>1 DEF NoK8sGateway
  <2>7. ASSUME NEW n \in Named(l) \ {ForeignName}
        PROVE  \E g \in Settled : Asks(spec[g], k, n)
    BY <1>5, <2>2 DEF Named, Asks
  <2>8. ASSUME NEW g \in Settled, spec[g].target = k
        PROVE  live /\ \A n \in Named(spec[g].listeners) : l[n] = spec[g].listeners[n]
    <3>1. g \in users(spec, k)
      BY <2>8
    <3> QED
      BY <1>5, <2>2, <2>3, <3>1 DEF Named
  <2> HIDE DEF new
  <2> QED
    BY <2>1, <2>5, <2>6, <2>7, <2>8
<1> HIDE DEF users, owner, there, put, first
<1>8. FirstK8s(spec)
  BY <1>7 DEF FirstK8s
<1> QED
  BY <1>4, <1>8

\* A step that writes to a Gateway keeps the types of the Gateways.
GatewaysTyped == gw' \in [Gateways -> Gateway] /\ cacheFresh' \in [Gateways -> BOOLEAN]
WorkerTyped ==
  /\ pc' \in PCs /\ queue' \subseteq Gateways /\ self' \in Gateways \union {None}
  /\ local' \in Gateway /\ localFresh' \in BOOLEAN /\ failed' \in BOOLEAN
LEMMA ChangeTypes ==
  ASSUME TypeOK, NEW g \in Gateways, NEW new \in Gateway, ChangeGateway(g, new)
  PROVE  GatewaysTyped
  BY DEF ChangeGateway, TypeOK, GatewaysTyped

LEMMA UpdateTypes ==
  ASSUME TypeOK, self \in Gateways, NEW new \in Gateway, NEW Then, Update(new, Then)
  PROVE  GatewaysTyped /\ (Then \/ Fail)
<1>1. UNCHANGED <<gw, cacheFresh>> => GatewaysTyped
  BY DEF TypeOK, GatewaysTyped
<1> QED
  BY <1>1, ChangeTypes DEF Update

\* Where the worker goes next.
LEMMA GoesTyped ==
  ASSUME TypeOK, self \in Gateways
  PROVE  /\ Fail \/ Return => WorkerTyped
         /\ \A to \in PCs : Goto(to) => WorkerTyped
         /\ \A to \in PCs : \A new \in Gateway : Continue(to, new) => WorkerTyped
<1>1. "Idle" \in PCs
  BY DEF PCs
<1> QED
  BY <1>1, NoGatewayType DEF Fail, Return, Leave, Goto, Continue, WorkerTyped, TypeOK

LEMMA DisturbStep ==
  ASSUME TypeOK, Next
  PROVE  disturb' \in 0 .. MaxDisturb
<1>1. UNCHANGED disturb \/ \E kind : Disturb(kind)
  <2>1. CASE WorkerStep
    <3>1. ASSUME NEW new, NEW Then, Update(new, Then)
          PROVE  UNCHANGED disturb \/ \E kind : Disturb(kind)
      BY <3>1 DEF Update
    <3>2. ASSUME NEW k, NEW new, NEW Then, NEW Else, UpdateK8s(k, new, Then, Else)
          PROVE  UNCHANGED disturb \/ \E kind : Disturb(kind)
      BY <3>2 DEF UpdateK8s
    <3>3. ASSUME NEW spec, NEW next, Clean(spec, next)
          PROVE  UNCHANGED disturb \/ \E kind : Disturb(kind)
      BY <3>2, <3>3 DEF Clean
    <3>4. AddFinalizer \/ RemoveFinalizer => \E new, Then : Update(new, Then)
      BY DEF AddFinalizer, RemoveFinalizer
    <3>5. UpdateGatewayAnnotations => UNCHANGED disturb \/ \E new, Then : Update(new, Then)
      BY DEF UpdateGatewayAnnotations
    <3>6. CleanOld \/ CleanDeleted => UNCHANGED disturb \/ \E spec, next : Clean(spec, next)
      BY DEF CleanOld, CleanDeleted
    <3>7. CreateOrUpdateGateway =>
            \/ UNCHANGED disturb \/ \E kind : Disturb(kind)
            \/ \E k, new, Then, Else : UpdateK8s(k, new, Then, Else)
      BY DEF CreateOrUpdateGateway
    <3>8. UpdateGatewayStatus \/ CreateOrUpdateService => UNCHANGED disturb \/ \E kind : Disturb(kind)
      BY DEF UpdateGatewayStatus, CreateOrUpdateService
    <3> QED
      BY <2>1, <3>1, <3>2, <3>3, <3>4, <3>5, <3>6, <3>7, <3>8 DEF WorkerStep
  <2>2. CASE ~WorkerStep
    BY <2>2 DEF Next, Crash, StartReconcile, SyncGateway, EditSpec, DeleteGateway, Touch, SyncK8sGateway,
       Program, AdminEdits, K8sGatewayDeleted
  <2> QED
    BY <2>1, <2>2
<1> QED
  BY <1>1, GatewayAssumption DEF Disturb, TypeOK

LEMMA ServiceIs ==
  ASSUME NEW c \in Gateway
  PROVE  ServiceOf(c) \in Service
<1>1. /\ c.spec.target \in K8sGateways \union {None}
      /\ Named(c.spec.listeners) \subseteq Names
  BY NoneIs, GatewayIs DEF GatewaySpec, Named
<1> QED
  BY <1>1 DEF ServiceOf, Service

LEMMA TypeStep ==
  ASSUME TypeInv, Next
  PROVE  TypeOK'
<1> TypeOK
  BY DEF TypeInv
<1> local \in Gateway
  BY DEF TypeOK
<1> USE DEF user
<1>1. /\ k8s' \in [K8sGateways -> K8sGateway] /\ k8sNews' \in [K8sGateways -> News]
      /\ k8sCache' \in [K8sGateways -> K8sGateway] /\ disturb' \in 0 .. MaxDisturb
  BY K8sWritten, DisturbStep, GatewayAssumption
<1> DEFINE Rest == /\ GatewaysTyped /\ WorkerTyped
                   /\ cache' \in [Gateways -> Gateway] /\ service' \in [Gateways -> Service]
                   /\ edits' \in 0 .. MaxEdits /\ overtaken' \subseteq Gateways
<1>2. SUFFICES Rest
  BY <1>1 DEF TypeOK, GatewaysTyped, WorkerTyped
<1>3. UNCHANGED <<gw, cacheFresh>> => GatewaysTyped
  BY DEF TypeOK, GatewaysTyped
<1>4. NoService \in Service
  BY DEF NoService, Service
<1>5. PCs = {"Idle", "AddFinalizer", "CleanOld", "Apply", "Status", "Annotate", "Service",
             "CleanDeleted", "RemoveFinalizer"}
  BY DEF PCs
<1>6. CASE WorkerStep
  <2>1. self \in Gateways
    BY <1>6, WorkerGoesOn
  <2>2. CASE AddFinalizer
    <3> DEFINE new == [local EXCEPT !.finalizer = TRUE]
               Then == Continue("CleanOld", new)
    <3>1. Update(new, Then) /\ UNCHANGED <<service, cache, user>>
      BY <2>2 DEF AddFinalizer
    <3>2. new \in Gateway
      BY GatewayWith
    <3>3. (Then \/ Fail) => WorkerTyped
      BY <1>5, <2>1, <3>2, GoesTyped
    <3> HIDE DEF new, Then
    <3> QED
      BY <2>1, <3>1, <3>2, <3>3, UpdateTypes DEF TypeOK
  <2>3. CASE CleanOld \/ CleanDeleted
    <3>1. /\ UNCHANGED <<gw, service, gwCaches, user>>
          /\ Fail \/ Goto("Apply") \/ Goto("RemoveFinalizer")
      BY <2>3 DEF CleanOld, CleanDeleted, Clean, UpdateK8s
    <3>2. WorkerTyped
      BY <1>5, <2>1, <3>1, GoesTyped
    <3> QED
      BY <1>3, <3>1, <3>2 DEF gwCaches, TypeOK
  <2>4. CASE CreateOrUpdateGateway
    <3>1. local.spec.target \in K8sGateways /\ local.status \in Status
      <4>1. self \in Gateways /\ local.spec \in Wanted[self] /\ local.status \in Status
        BY <2>4 DEF CreateOrUpdateGateway, TypeInv, SpecsInv, Sound, Gateway
      <4> QED
        BY <4>1, WantedIs
    <3>2. ASSUME NEW status \in Status, NEW error \in BOOLEAN, SetStatus(status, error)
          PROVE  WorkerTyped
      <4>1. [local EXCEPT !.status = status] \in Gateway
        BY GatewayWith
      <4>2. CASE status = local.status
        BY <1>5, <2>1, <3>2, <4>2, GoesTyped DEF SetStatus
      <4>3. CASE status # local.status
        BY <1>5, <3>2, <4>1, <4>3 DEF SetStatus, WorkerTyped, TypeOK
      <4> QED
        BY <4>2, <4>3
    <3>3. ASSUME NEW reason \in Reasons, Reject(reason)
          PROVE  WorkerTyped
      <4>1. [local.status EXCEPT !.reason = reason] \in Status
        BY <3>1 DEF Status
      <4> QED
        BY <3>2, <3>3, <4>1 DEF Reject
    <3>4. ASSUME NEW other, SyncStatus(other)
          PROVE  WorkerTyped
      <4> DEFINE ls == other.programmed \intersect Named(local.spec.listeners)
      <4>1. ls \subseteq Names
        BY DEF Named
      <4> HIDE DEF ls
      <4>2. [reason |-> "Synced", listeners |-> ls] \in Status
        BY <4>1 DEF Status, Reasons
      <4> QED
        BY <3>2, <3>4, <4>2 DEF SyncStatus, ls
    <3>5. /\ UNCHANGED <<gw, service, gwCaches, user>>
          /\ (\E reason \in Reasons : Reject(reason)) \/ \E other : SyncStatus(other)
      BY <2>4 DEF CreateOrUpdateGateway, UpdateK8s, Reasons
    <3> QED
      BY <1>3, <3>3, <3>4, <3>5 DEF gwCaches, TypeOK
  <2>5. CASE UpdateGatewayStatus
    <3> DEFINE new == [gw[self] EXCEPT !.status = local.status]
    <3>1. new \in Gateway
      <4>1. gw[self] \in Gateway /\ local.status \in Status
        BY <2>1, GatewayIs DEF TypeOK
      <4> QED
        BY <4>1, GatewayWith
    <3> HIDE DEF new
    <3>2. /\ UNCHANGED <<gw, cacheFresh>> \/ ChangeGateway(self, new)
          /\ \E fresh \in BOOLEAN : AfterStatus(fresh)
          /\ UNCHANGED <<service, cache, user>>
      BY <2>5 DEF UpdateGatewayStatus, new, TypeOK
    <3>3. WorkerTyped
      BY <1>5, <2>1, <3>2, GoesTyped DEF AfterStatus, WorkerTyped, TypeOK
    <3> QED
      BY <1>3, <2>1, <3>1, <3>2, <3>3, ChangeTypes DEF TypeOK
  <2>6. CASE UpdateGatewayAnnotations
    <3> DEFINE new == [local EXCEPT !.config = local.spec, !.status = gw[self].status]
               Then == Continue("Service", new)
    <3>1. /\ Update(new, Then) \/ (Goto("Service") /\ UNCHANGED <<gw, cacheFresh>>)
          /\ UNCHANGED <<service, cache, user>>
      BY <2>6 DEF UpdateGatewayAnnotations
    <3>2. new \in Gateway
      <4>1. gw[self].status \in Status
        BY <2>1, GatewayIs DEF TypeOK
      <4> QED
        BY <4>1, GatewayWith
    <3>3. (Then \/ Fail \/ Goto("Service")) => WorkerTyped
      BY <1>5, <2>1, <3>2, GoesTyped
    <3> HIDE DEF new, Then
    <3> QED
      BY <1>3, <2>1, <3>1, <3>2, <3>3, UpdateTypes DEF TypeOK
  <2>7. CASE CreateOrUpdateService
    <3>1. /\ Leave /\ queue' \in {queue, queue \union {self}} /\ UNCHANGED <<gw, gwCaches, user>>
          /\ service' = service \/ service' = [service EXCEPT ![self] = ServiceOf(local)]
      BY <2>7 DEF CreateOrUpdateService
    <3>2. service' \in [Gateways -> Service]
      BY <3>1, ServiceIs DEF TypeOK
    <3> QED
      BY <1>3, <1>5, <2>1, <3>1, <3>2, NoGatewayType DEF Leave, WorkerTyped, gwCaches, TypeOK
  <2>8. CASE RemoveFinalizer
    <3> DEFINE Then == Return
    <3>1. /\ Update(NoGateway, Then) /\ UNCHANGED <<cache, user>>
          /\ service' = [service EXCEPT ![self] = IF gw'[self].live THEN @ ELSE NoService]
      BY <2>8 DEF RemoveFinalizer
    <3>2. service' \in [Gateways -> Service]
      BY <1>4, <3>1 DEF TypeOK
    <3>3. (Then \/ Fail) => WorkerTyped
      BY <2>1, GoesTyped
    <3> HIDE DEF Then
    <3> QED
      BY <2>1, <3>1, <3>2, <3>3, NoGatewayType, UpdateTypes DEF TypeOK
  <2> QED
    BY <1>6, <2>2, <2>3, <2>4, <2>5, <2>6, <2>7, <2>8 DEF WorkerStep
<1>7. CASE Crash
  <2>1. /\ UNCHANGED <<gw, service, user>> /\ Leave /\ queue' = {g \in Gateways : gw[g].live}
        /\ cache' = gw /\ cacheFresh' = [g \in Gateways |-> TRUE]
    BY <1>7 DEF Crash, api
  <2> QED
    BY <1>5, <2>1, NoGatewayType DEF Leave, WorkerTyped, GatewaysTyped, TypeOK
<1>8. ASSUME NEW g \in Gateways, EditSpec(g) \/ DeleteGateway(g)
      PROVE  Rest
  <2>1. /\ UNCHANGED <<cache, pc, queue, self, local, failed>>
        /\ localFresh' = (localFresh /\ g # self)
        /\ edits' \in 0 .. MaxEdits /\ overtaken' \subseteq overtaken \union {g}
        /\ gw'[g] \in Gateway
    BY <1>8, UserWrites DEF k8sCaches
  <2>2. PICK new : ChangeGateway(g, new)
    BY <1>8 DEF EditSpec, DeleteGateway, Touch
  <2>3. GatewaysTyped
    BY <2>1, <2>2, ChangeTypes, ChangeWrites
  <2>4. service' \in [Gateways -> Service]
    BY <1>4, <1>8 DEF EditSpec, DeleteGateway, TypeOK
  <2>5. WorkerTyped
    BY <2>1 DEF WorkerTyped, TypeOK
  <2> QED
    BY <2>1, <2>3, <2>4, <2>5 DEF TypeOK
<1>9. ASSUME NEW g \in Gateways, StartReconcile(g)
      PROVE  Rest
  <2>1. Begins(g) /\ UNCHANGED <<gw, service, cache, cacheFresh, edits, overtaken, failed>>
    BY <1>9, StartWrites DEF StartReconcile
  <2>2. FirstStep(cache[g]) \in PCs
    BY <1>5 DEF FirstStep
  <2> QED
    BY <1>3, <2>1, <2>2 DEF Begins, WorkerTyped, TypeOK
<1>10. ASSUME NEW g \in Gateways, SyncGateway(g)
       PROVE  Rest
  BY <1>10 DEF SyncGateway, api, user, TypeOK, GatewaysTyped, WorkerTyped
<1>11. CASE /\ ~WorkerStep /\ ~Crash
            /\ ~\E g \in Gateways : StartReconcile(g) \/ SyncGateway(g) \/ EditSpec(g) \/ DeleteGateway(g)
  <2>1. /\ UNCHANGED <<gw, service, cache, cacheFresh, pc, self, local, localFresh, failed, edits, overtaken>>
        /\ queue' \subseteq queue \union Gateways
    BY <1>11, OthersWrite
  <2> QED
    BY <1>3, <2>1 DEF WorkerTyped, TypeOK
<1> QED
  BY <1>6, <1>7, <1>8, <1>9, <1>10, <1>11

\* Whatever the worker makes of a Gateway is sound.
LEMMA SpecsStep ==
  ASSUME TypeInv, Next
  PROVE  SpecsInv'
<1> TypeOK
  BY DEF TypeInv
<1>1. /\ \A g \in Gateways : Sound(g, gw[g], edits) /\ Sound(g, cache[g], edits)
      /\ \A g \in Gateways : cacheFresh[g] => cache[g] = gw[g]
      /\ pc # "Idle" => /\ self \in Gateways /\ local.live /\ Sound(self, local, edits)
                        /\ localFresh => gw[self].live
      /\ \A g \in Gateways : Sound(g, NoGateway, edits)
  <2>1. 0 <= edits
    BY GatewayAssumption DEF TypeOK
  <2> QED
    BY <2>1, NoGatewayIs DEF TypeInv, SpecsInv, Sound
<1> DEFINE Goal ==
        /\ \A g \in Gateways :
             /\ Sound(g, gw'[g], edits') /\ Sound(g, cache'[g], edits')
             /\ cacheFresh'[g] => cache'[g] = gw'[g]
        /\ pc' # "Idle" =>
             /\ self' \in Gateways /\ local'.live /\ Sound(self', local', edits')
             /\ localFresh' => gw'[self'].live
<1>2. SUFFICES Goal
  BY DEF SpecsInv, Sound
<1>3. CASE WorkerStep
  <2>1. /\ pc # "Idle" /\ self \in Gateways /\ Keeps /\ UNCHANGED <<cache, edits>>
        /\ \/ Fails /\ UNCHANGED gw
           \/ GetsFinalizer \/ GoesOn \/ Reports \/ Records \/ PutsService \/ Removes
    BY <1>3, WorkerGoesOn
  <2>2. Sound(self, gw'[self], edits) /\ (gw'[self].live \/ UNCHANGED gw \/ Ends)
    <3>1. local.finalizer \in BOOLEAN /\ local.deleting \in BOOLEAN /\ local.live \in BOOLEAN
          /\ gw[self].live \in BOOLEAN
      BY <2>1, GatewayIs DEF TypeOK
    <3>2. Sound(self, gw[self], edits)
      BY <1>1, <2>1
    <3>3. CASE UNCHANGED gw
      BY <3>2, <3>3
    <3>4. CASE GetsFinalizer \/ Records
      BY <1>1, <2>1, <3>1, <3>4 DEF GetsFinalizer, Records, With, Sound
    <3>5. CASE Reports /\ ~UNCHANGED gw
      BY <1>1, <2>1, <3>1, <3>2, <3>5 DEF Reports, Alike, Sound
    <3>6. CASE Removes
      BY <1>1, <2>1, <3>6 DEF Removes
    <3> QED
      BY <2>1, <3>3, <3>4, <3>5, <3>6 DEF GoesOn, PutsService
  <2>3. pc' # "Idle" => /\ self' = self /\ local'.live /\ Sound(self, local', edits)
                        /\ localFresh' => gw'[self].live
    <3>1. SUFFICES ASSUME pc' # "Idle"
                   PROVE  /\ self' = self /\ local'.live /\ Sound(self, local', edits)
                          /\ localFresh' => gw'[self].live
      OBVIOUS
    <3>2. GetsFinalizer \/ GoesOn \/ Reports \/ Records
      BY <2>1, <3>1 DEF Fails, Ends, PutsService, Removes
    <3>3. CASE GetsFinalizer \/ Records
      BY <1>1, <2>1, <2>2, <3>1, <3>3 DEF GetsFinalizer, Records, With, Step, Stays, Fails, Ends
    <3>4. CASE GoesOn
      <4>1. self' = self /\ UNCHANGED <<gw, localFresh>> /\ (local' = local \/ Alike(local', local))
        BY <3>4 DEF GoesOn, Step, Stays
      <4> QED
        BY <1>1, <2>1, <4>1 DEF Alike, Sound
    <3>5. CASE Reports
      BY <1>1, <2>1, <3>1, <3>5 DEF Reports, Step, Stays, Alike, Fails, Ends
    <3> QED
      BY <3>2, <3>3, <3>4, <3>5
  <2> QED
    BY <1>1, <2>1, <2>2, <2>3 DEF Keeps
<1>4. CASE Crash
  <2>1. pc' = "Idle" /\ UNCHANGED <<gw, edits>> /\ cache' = gw
    BY <1>4 DEF Crash, Leave, api, user
  <2> QED
    BY <1>1, <2>1
<1>5. ASSUME NEW g \in Gateways, EditSpec(g) \/ DeleteGateway(g)
      PROVE  Goal
  <2>1. /\ UNCHANGED <<cache, pc, self, local>> /\ localFresh' = (localFresh /\ g # self)
        /\ edits' = edits + 1 /\ edits \in 0 .. MaxEdits
        /\ \A h \in Gateways : h # g => gw'[h] = gw[h]
        /\ \A h \in Gateways : cacheFresh'[h] => cacheFresh[h] /\ gw'[h] = gw[h]
        /\ gw[g].live /\ (Edited(g) \/ Marked(g) \/ Vanished(g))
    BY <1>5, UserWrites DEF TypeOK
  <2>2. \A h \in Gateways : gw[h].gen \in 0 .. MaxEdits /\ cache[h].gen \in 0 .. MaxEdits
    BY GatewayIs DEF TypeOK
  <2>3. local.gen \in 0 .. MaxEdits
    BY GatewayIs DEF TypeOK
  <2>4. ASSUME NEW h, NEW c, c.gen \in 0 .. MaxEdits, Sound(h, c, edits)
        PROVE  Sound(h, c, edits')
    BY <2>1, <2>4, GatewayAssumption DEF Sound
  <2>5. Sound(g, gw'[g], edits')
    <3>1. gw[g].gen + 1 <= edits' /\ 0 <= edits'
      <4>1. gw[g].gen <= edits
        BY <1>1 DEF Sound
      <4> QED
        BY <2>1, <2>2, <4>1, GatewayAssumption
    <3>2. Sound(g, gw[g], edits)
      BY <1>1
    <3>3. CASE Edited(g) \/ Marked(g)
      BY <2>1, <3>1, <3>2, <3>3 DEF Edited, Marked, Sound
    <3>4. CASE Vanished(g)
      BY <3>1, <3>4, NoGatewayIs DEF Vanished, Sound
    <3> QED
      BY <2>1, <3>3, <3>4
  <2>6. \A h \in Gateways : Sound(h, gw'[h], edits') /\ Sound(h, cache'[h], edits')
    BY <1>1, <2>1, <2>2, <2>4, <2>5
  <2>7. pc' # "Idle" => /\ self' \in Gateways /\ local'.live /\ Sound(self', local', edits')
                        /\ localFresh' => gw'[self'].live
    BY <1>1, <2>1, <2>3, <2>4
  <2>8. \A h \in Gateways : cacheFresh'[h] => cache'[h] = gw'[h]
    BY <1>1, <2>1
  <2> QED
    BY <2>6, <2>7, <2>8
<1>6. ASSUME NEW g \in Gateways, StartReconcile(g)
      PROVE  Goal
  <2>1. Begins(g) /\ UNCHANGED <<gw, cache, cacheFresh, edits>>
    BY <1>6, StartWrites
  <2> QED
    BY <1>1, <2>1 DEF Begins
<1>7. ASSUME NEW g \in Gateways, SyncGateway(g)
      PROVE  Goal
  <2>1. /\ UNCHANGED <<gw, pc, self, local, localFresh, edits>> /\ cache'[g] = gw[g]
        /\ \A h \in Gateways : h # g => cache'[h] = cache[h] /\ cacheFresh'[h] = cacheFresh[h]
    BY <1>7, SyncWrites
  <2> QED
    BY <1>1, <2>1
<1>8. CASE /\ ~WorkerStep /\ ~Crash
           /\ ~\E g \in Gateways : StartReconcile(g) \/ SyncGateway(g) \/ EditSpec(g) \/ DeleteGateway(g)
  <2>1. UNCHANGED <<gw, cache, cacheFresh, pc, self, local, localFresh, edits>>
    BY <1>8, OthersWrite
  <2> QED
    BY <1>1, <2>1
<1> QED
  BY <1>3, <1>4, <1>5, <1>6, <1>7, <1>8

LEMMA FirstGateways ==
  ASSUME NEW spec, FirstSpecs(spec)
  PROVE  \A g \in Gateways :
           /\ spec[g] \in GatewaySpec /\ spec[g] \in Wanted[g] /\ gw[g] \in Gateway
           /\ gw[g].live = TRUE /\ gw[g].deleting = FALSE /\ gw[g].gen = 0
           /\ gw[g].spec = spec[g] /\ gw[g].config \in {spec[g], NoSpec}
           /\ g \in Settled => gw[g].config = spec[g] /\ gw[g].finalizer = TRUE
<1>1. TAKE g \in Gateways
<1>2. /\ spec[g] \in GatewaySpec /\ spec[g] \in Wanted[g] /\ gw[g] \in Gateway
      /\ gw[g] = IF g \in Settled THEN AlreadyApplied(spec[g]) ELSE Created(spec[g])
  BY DEF FirstSpecs
<1>3. CASE g \in Settled
  <2>1. gw[g] = AlreadyApplied(spec[g])
    BY <1>2, <1>3
  <2> QED
    BY <1>2, <2>1, NewGateway
<1>4. CASE g \notin Settled
  <2>1. gw[g] = Created(spec[g])
    BY <1>2, <1>4
  <2>2. /\ Created(spec[g]).live = TRUE /\ Created(spec[g]).deleting = FALSE
        /\ Created(spec[g]).gen = 0 /\ Created(spec[g]).spec = spec[g]
        /\ Created(spec[g]).config = NoSpec
    BY <1>2, NewGateway
  <2> QED
    BY <1>2, <1>4, <2>1, <2>2
<1> QED
  BY <1>3, <1>4

LEMMA TypeInit ==
  ASSUME Init
  PROVE  TypeInv
<1>1. PICK spec : FirstSpecs(spec) /\ FirstK8s(spec)
  BY InitIs
<1>2. \A g \in Gateways :
        /\ spec[g] \in GatewaySpec /\ spec[g] \in Wanted[g] /\ gw[g] \in Gateway
        /\ gw[g].live = TRUE /\ gw[g].deleting = FALSE /\ gw[g].gen = 0
        /\ gw[g].spec = spec[g] /\ gw[g].config \in {spec[g], NoSpec}
  BY <1>1, FirstGateways
<1>3. 0 \in 0 .. MaxEdits /\ 0 \in 0 .. MaxDisturb /\ "Idle" \in PCs /\ 0 <= 0
  BY GatewayAssumption DEF PCs
<1>4. service \in [Gateways -> Service]
  BY <1>1, <1>2, ServiceIs DEF FirstSpecs, NoService, Service
<1>5. k8s \in [K8sGateways -> K8sGateway]
  <2>1. DOMAIN k8s = K8sGateways /\ k8s = [k \in DOMAIN k8s |-> k8s[k]]
    BY DEF Init
  <2> QED
    BY <1>1, <2>1 DEF FirstK8s
<1>6. /\ cache = gw /\ cacheFresh = [g \in Gateways |-> TRUE]
      /\ k8sCache = k8s /\ k8sNews = [k \in K8sGateways |-> "none"]
      /\ pc = "Idle" /\ queue = Gateways \ Settled /\ self = None
      /\ local = NoGateway /\ localFresh = FALSE /\ failed = FALSE
      /\ edits = 0 /\ disturb = 0 /\ overtaken = {}
  BY DEF Init
<1>7. TypeOK
  BY <1>1, <1>3, <1>4, <1>5, <1>6, NoGatewayType DEF FirstSpecs, TypeOK, News
<1>8. SpecsInv
  BY <1>2, <1>3, <1>6 DEF SpecsInv, Sound
<1> QED
  BY <1>7, <1>8 DEF TypeInv

LEMMA TypeInvHolds == Spec => []TypeInv
<1>1. TypeInv /\ UNCHANGED vars => TypeInv'
  BY DEF TypeInv, TypeOK, SpecsInv, Sound, vars, api, gwCaches, k8sCaches, worker, user
<1>2. TypeInv /\ Next => TypeInv'
  BY TypeStep, SpecsStep DEF TypeInv
<1> QED
  BY <1>1, <1>2, TypeInit, PTL DEF Spec

\* Every object, copy and record has its type, at every edit and every disturbance.
THEOREM TypeOKHolds == Spec => []TypeOK
  BY TypeInvHolds, PTL DEF TypeInv

-----------------------------------------------------------------------------
(* Copies, caches and the line of specs                                    *)

LEMMA Gens ==
  ASSUME TypeOK
  PROVE  /\ \A g \in Gateways : gw[g].gen \in Nat /\ cache[g].gen \in Nat
         /\ local.gen \in Nat
<1>1. 0 .. MaxEdits \subseteq Nat
  BY GatewayAssumption
<1> QED
  BY <1>1, GatewayIs DEF TypeOK

LEMMA Flags ==
  ASSUME TypeOK, NEW g \in Gateways
  PROVE  /\ gw[g].live \in BOOLEAN /\ gw[g].finalizer \in BOOLEAN /\ gw[g].deleting \in BOOLEAN
         /\ cache[g].live \in BOOLEAN /\ cache[g].finalizer \in BOOLEAN /\ cache[g].deleting \in BOOLEAN
         /\ local.live \in BOOLEAN /\ local.finalizer \in BOOLEAN /\ local.deleting \in BOOLEAN
         /\ gw[g].live => gw[g].live = TRUE
  BY GatewayIs DEF TypeOK

\* What the worker does to a Gateway leaves older copies of it older.
LEMMA WorkerKeepsOlder ==
  ASSUME TypeInv, CopiesInv, WorkerStep
  PROVE  /\ gw'[self].live => gw[self].live /\ gw'[self].gen = gw[self].gen
         /\ gw'[self].live => \A c : Older(c, gw[self]) => Older(c, gw'[self])
         /\ localFresh => Alike(local, gw[self])
         /\ gw'[self].live =>
              /\ gw'[self].spec = gw[self].spec /\ gw'[self].deleting = gw[self].deleting
              /\ gw[self].finalizer => gw'[self].finalizer
              /\ gw'[self].config = gw[self].config \/ (Records /\ gw'[self].config = gw'[self].spec)
<1> TypeOK
  BY DEF TypeInv
<1>1. /\ pc # "Idle" /\ self \in Gateways
      /\ \/ Fails /\ UNCHANGED gw
         \/ GetsFinalizer \/ GoesOn \/ Reports \/ Records \/ PutsService \/ Removes
  BY WorkerGoesOn
<1>2. localFresh => Alike(local, gw[self])
  BY <1>1 DEF CopiesInv
<1>3. /\ local.finalizer \in BOOLEAN /\ gw[self].finalizer \in BOOLEAN
  BY <1>1, Flags
<1>4. CASE UNCHANGED gw
  BY <1>2, <1>4 DEF Older
<1>5. CASE GetsFinalizer
  BY <1>2, <1>3, <1>5 DEF GetsFinalizer, With, Alike, Older
<1>6. CASE Records
  BY <1>2, <1>3, <1>6 DEF Records, With, Alike, Older
<1>7. CASE Reports
  BY <1>2, <1>3, <1>7 DEF Reports, Alike, Older
<1>8. CASE Removes
  BY <1>2, <1>8, NoGatewayIs DEF Removes
<1> QED
  BY <1>1, <1>4, <1>5, <1>6, <1>7, <1>8 DEF GoesOn, PutsService

\* The worker's own copy.
LEMMA WorkerKeepsLocal ==
  ASSUME TypeInv, WorkerStep, pc' # "Idle"
  PROVE  /\ self' = self /\ queue' = queue /\ (localFresh' => localFresh)
         /\ \/ GoesOn /\ UNCHANGED gw /\ Alike(local', local)
            \/ Reports /\ local' = local
            \/ local' = gw'[self] /\ local'.gen = local.gen /\ local'.spec = local.spec
               /\ local'.deleting = local.deleting /\ localFresh
               /\ \/ pc' = "CleanOld" /\ GetsFinalizer
                  \/ pc' = "Service" /\ Records
<1> TypeOK
  BY DEF TypeInv
<1>1. /\ pc # "Idle" /\ self \in Gateways
      /\ \/ Fails /\ UNCHANGED gw
         \/ GetsFinalizer \/ GoesOn \/ Reports \/ Records \/ PutsService \/ Removes
  BY WorkerGoesOn
<1>2. CASE GoesOn
  BY <1>2 DEF GoesOn, Step, Stays, Alike
<1>3. CASE Reports
  BY <1>3 DEF Reports, Step, Stays, Fails, Ends
<1>4. CASE GetsFinalizer \/ Records
  BY <1>4, <1>1 DEF GetsFinalizer, Records, With, Step, Stays, Fails, Ends, TypeOK
<1> QED
  BY <1>1, <1>2, <1>3, <1>4 DEF Fails, Ends, PutsService, Removes

LEMMA CopiesStep ==
  ASSUME TypeInv, CopiesInv, Next
  PROVE  CopiesInv'
<1> TypeOK
  BY DEF TypeInv
<1> DEFINE Cached(g) == gw'[g].live => Older(cache'[g], gw'[g])
           Local == /\ gw'[self'].live =>
                         /\ Older(local', gw'[self']) /\ local'.gen <= cache'[self'].gen
                         /\ self' \notin queue' => local'.gen = cache'[self'].gen
                    /\ localFresh' => Alike(local', gw'[self'])
<1>1. SUFFICES (\A g \in Gateways : Cached(g)) /\ (pc' # "Idle" => Local)
  BY DEF CopiesInv, Older, Alike
<1>2. \A g \in Gateways : gw[g].live => Older(cache[g], gw[g])
  BY DEF CopiesInv
<1>3. pc # "Idle" =>
        /\ self \in Gateways
        /\ gw[self].live =>
             /\ Older(local, gw[self]) /\ local.gen <= cache[self].gen
             /\ self \notin queue => local.gen = cache[self].gen
        /\ localFresh => Alike(local, gw[self])
  BY DEF CopiesInv, TypeInv, SpecsInv
<1>4. \A g \in Gateways : gw[g].live => Older(gw[g], gw[g]) /\ Alike(gw[g], gw[g])
  BY Gens DEF Older, Alike
<1>5. CASE WorkerStep
  <2>1. /\ pc # "Idle" /\ self \in Gateways /\ Keeps /\ UNCHANGED cache
    BY <1>5, WorkerGoesOn
  <2>2. \A g \in Gateways : Cached(g)
    BY <1>2, <1>5, <2>1, WorkerKeepsOlder DEF Keeps
  <2>3. ASSUME pc' # "Idle"
        PROVE  Local
    <3>1. self' = self /\ queue' = queue /\ (localFresh' => localFresh)
      BY <1>5, <2>3, WorkerKeepsLocal
    <3>2. CASE GoesOn /\ UNCHANGED gw /\ Alike(local', local)
      BY <1>3, <2>1, <3>1, <3>2 DEF Older, Alike
    <3>3. CASE Reports /\ local' = local
      BY <1>3, <1>5, <2>1, <3>1, <3>3, WorkerKeepsOlder DEF Reports, Alike
    <3>4. CASE local' = gw'[self] /\ local'.gen = local.gen
      <4>1. gw'[self].live => Older(gw'[self], gw'[self])
        <5>1. gw'[self].live => gw'[self].gen \in Nat
          BY <1>5, <2>1, Gens, WorkerKeepsOlder
        <5> QED
          BY <5>1 DEF Older
      <4>2. Alike(gw'[self], gw'[self])
        BY DEF Alike
      <4> QED
        BY <1>3, <1>5, <2>1, <3>1, <3>4, <4>1, <4>2, WorkerKeepsOlder
    <3> QED
      BY <1>5, <2>3, <3>2, <3>3, <3>4, WorkerKeepsLocal
  <2> QED
    BY <2>2, <2>3
<1>6. CASE Crash
  <2>1. pc' = "Idle" /\ UNCHANGED gw /\ cache' = gw
    BY <1>6 DEF Crash, Leave, api
  <2> QED
    BY <1>4, <2>1
<1>7. ASSUME NEW g \in Gateways, EditSpec(g) \/ DeleteGateway(g)
      PROVE  (\A h \in Gateways : Cached(h)) /\ (pc' # "Idle" => Local)
  <2>1. /\ UNCHANGED <<cache, pc, queue, self, local>>
        /\ localFresh' = (localFresh /\ g # self)
        /\ \A h \in Gateways : h # g => gw'[h] = gw[h]
        /\ gw[g].live /\ (Edited(g) \/ Marked(g) \/ Vanished(g))
    BY <1>7, UserWrites
  <2>2. ~gw'[g].live \/ (gw'[g].gen = gw[g].gen + 1 /\ gw'[g].finalizer = gw[g].finalizer)
    BY <2>1, Flags, NoGatewayIs DEF Edited, Marked, Vanished
  <2>3. \A c : gw'[g].live /\ c.gen \in Nat /\ Older(c, gw[g]) => Older(c, gw'[g])
    BY <2>2, Gens DEF Older
  <2>4. \A h \in Gateways : Cached(h)
    BY <1>2, <2>1, <2>3, Gens
  <2>5. pc' # "Idle" => Local
    BY <1>3, <2>1, <2>3, Gens
  <2> QED
    BY <2>4, <2>5
<1>8. ASSUME NEW g \in Gateways, StartReconcile(g)
      PROVE  (\A h \in Gateways : Cached(h)) /\ (pc' # "Idle" => Local)
  <2>1. Begins(g) /\ UNCHANGED <<gw, cache, cacheFresh>>
    BY <1>8, StartWrites
  <2>2. pc' # "Idle" => self' = g /\ local' = cache[g] /\ localFresh' = cacheFresh[g] /\ cache[g].live
    BY <2>1 DEF Begins
  <2>3. cacheFresh[g] => cache[g] = gw[g]
    BY DEF TypeInv, SpecsInv
  <2> QED
    BY <1>2, <1>4, <2>1, <2>2, <2>3, Gens
<1>9. ASSUME NEW g \in Gateways, SyncGateway(g)
      PROVE  (\A h \in Gateways : Cached(h)) /\ (pc' # "Idle" => Local)
  <2>1. /\ UNCHANGED <<gw, pc, self, local, localFresh>> /\ cache'[g] = gw[g]
        /\ \A h \in Gateways : h # g => cache'[h] = cache[h]
        /\ queue \subseteq queue'
        /\ g \in queue' \/ (cache[g].live = gw[g].live /\ cache[g].gen = gw[g].gen)
    BY <1>9, SyncWrites
  <2>2. \A h \in Gateways : Cached(h)
    BY <1>2, <1>4, <2>1
  <2>3. pc' # "Idle" => Local
    BY <1>3, <2>1, Gens DEF Older
  <2> QED
    BY <2>2, <2>3
<1>10. CASE /\ ~WorkerStep /\ ~Crash
            /\ ~\E g \in Gateways : StartReconcile(g) \/ SyncGateway(g) \/ EditSpec(g) \/ DeleteGateway(g)
  <2>1. UNCHANGED <<gw, cache, pc, self, local, localFresh>> /\ queue \subseteq queue'
    BY <1>10, OthersWrite
  <2> QED
    BY <1>2, <1>3, <2>1
<1> QED
  BY <1>5, <1>6, <1>7, <1>8, <1>9, <1>10

LEMMA K8sStep ==
  ASSUME TypeInv, K8sInv, Next
  PROVE  K8sInv'
<1>1. SUFFICES ASSUME NEW k \in K8sGateways
               PROVE  /\ k8sNews'[k] = "none" => k8sCache'[k] = k8s'[k]
                      /\ k8sNews'[k] # "noticed" => ~Noticed(k8sCache'[k], k8s'[k])
                      /\ ~k8s'[k].live => k8s'[k] = NoK8sGateway
  BY DEF K8sInv, Current, Noticed
<1>2. k8s[k] \in K8sGateway /\ k8sCache[k] \in K8sGateway
  BY DEF TypeInv, TypeOK
<1>3. /\ k8sNews[k] = "none" => k8sCache[k] = k8s[k]
      /\ k8sNews[k] # "noticed" => ~Noticed(k8sCache[k], k8s[k])
      /\ ~k8s[k].live => k8s[k] = NoK8sGateway
  BY DEF K8sInv, Current
<1>4. CASE NewsFollow(k) /\ k8sCache'[k] = k8sCache[k]
  BY <1>3, <1>4, K8sWritten DEF NewsFollow, Noticed, ListenersSame, TakenOff, Merges, CreatesK8s
<1>5. CASE k8sCache'[k] = k8s[k] /\ k8s'[k] = k8s[k] /\ k8sNews'[k] = "none"
  BY <1>3, <1>5 DEF Noticed
<1> QED
  BY <1>4, <1>5, K8sWritten

LEMMA StageStep ==
  ASSUME TypeInv, StageInv, Next
  PROVE  StageInv'
<1> TypeOK
  BY DEF TypeInv
<1> DEFINE Stage == /\ pc' \notin {"Idle", "AddFinalizer"} => local'.finalizer
                    /\ pc' # "Idle" => (local'.deleting <=> pc' \in {"CleanDeleted", "RemoveFinalizer"})
                    /\ pc' = "Service" => local'.config = local'.spec
<1>1. SUFFICES ASSUME pc' # "Idle" PROVE Stage
  BY DEF StageInv
<1>2. /\ pc \notin {"Idle", "AddFinalizer"} => local.finalizer
      /\ pc # "Idle" => (local.deleting <=> pc \in {"CleanDeleted", "RemoveFinalizer"})
      /\ pc = "Service" => local.config = local.spec
  BY DEF StageInv
<1>3. CASE WorkerStep
  <2>1. self \in Gateways
    BY <1>3, WorkerGoesOn
  <2>2. CASE GoesOn /\ Alike(local', local)
    BY <1>2, <2>2 DEF GoesOn, Step, Alike
  <2>3. CASE Reports /\ local' = local
    BY <1>1, <1>2, <2>3 DEF Reports, Step, Fails, Ends
  <2>4. CASE GetsFinalizer /\ pc' = "CleanOld" /\ local' = gw'[self]
    BY <1>2, <2>1, <2>4 DEF GetsFinalizer, With
  <2>5. CASE Records /\ pc' = "Service" /\ local' = gw'[self]
    BY <1>2, <2>1, <2>5 DEF Records, With
  <2> QED
    BY <1>1, <1>3, <2>2, <2>3, <2>4, <2>5, WorkerKeepsLocal
<1>4. CASE Crash
  BY <1>1, <1>4 DEF Crash, Leave
<1>5. ASSUME NEW g \in Gateways, EditSpec(g) \/ DeleteGateway(g)
      PROVE  Stage
  <2>1. UNCHANGED <<pc, local>>
    BY <1>5, UserWrites
  <2> QED
    BY <1>2, <2>1
<1>6. ASSUME NEW g \in Gateways, StartReconcile(g)
      PROVE  Stage
  BY <1>1, <1>6, StartWrites, Flags DEF Begins, FirstStep
<1>7. ASSUME NEW g \in Gateways, SyncGateway(g)
      PROVE  Stage
  BY <1>2, <1>7, SyncWrites
<1>8. CASE /\ ~WorkerStep /\ ~Crash
           /\ ~\E g \in Gateways : StartReconcile(g) \/ SyncGateway(g) \/ EditSpec(g) \/ DeleteGateway(g)
  <2>1. UNCHANGED <<pc, local>>
    BY <1>8, OthersWrite
  <2> QED
    BY <1>2, <2>1
<1> QED
  BY <1>3, <1>4, <1>5, <1>6, <1>7, <1>8

LEMMA LineStep ==
  ASSUME TypeInv, CopiesInv, StageInv, LineInv, Next
  PROVE  LineInv'
<1> TypeOK
  BY DEF TypeInv
<1> DEFINE Line(g) == /\ cache'[g].spec \in {gw'[g].spec, gw'[g].config}
                      /\ pc' # "Idle" /\ self' = g => local'.spec \in {gw'[g].spec, gw'[g].config}
                      /\ gw'[g].deleting => gw'[g].config \in {NoSpec, gw'[g].spec}
<1>1. SUFFICES ASSUME NEW g \in Gateways, g \notin overtaken', gw'[g].live
               PROVE  Line(g)
  BY DEF LineInv
<1>2. g \notin overtaken /\ gw[g].live =>
        /\ cache[g].spec \in {gw[g].spec, gw[g].config}
        /\ pc # "Idle" /\ self = g => local.spec \in {gw[g].spec, gw[g].config}
        /\ gw[g].deleting => gw[g].config \in {NoSpec, gw[g].spec}
  BY DEF LineInv
<1>3. CASE WorkerStep
  <2>1. /\ pc # "Idle" /\ self \in Gateways /\ Keeps /\ UNCHANGED <<cache, overtaken>>
    BY <1>3, WorkerGoesOn
  <2>2. pc' # "Idle" => self' = self /\ local'.spec = local.spec
    BY <1>3, WorkerKeepsLocal DEF Alike
  <2>3. CASE g # self
    BY <1>1, <1>2, <2>1, <2>2, <2>3 DEF Keeps
  <2>4. CASE g = self
    <3>1. /\ gw[g].live /\ gw'[g].spec = gw[g].spec /\ gw'[g].deleting = gw[g].deleting
          /\ gw'[g].config = gw[g].config \/ (Records /\ gw'[g].config = gw'[g].spec)
      BY <1>1, <1>3, <2>4, WorkerKeepsOlder
    <3>2. CASE gw'[g].config = gw[g].config
      BY <1>1, <1>2, <2>1, <2>2, <2>4, <3>1, <3>2
    <3>3. CASE Records /\ gw'[g].config = gw'[g].spec
      <4>1. localFresh /\ Alike(local, gw[g])
        BY <1>3, <2>4, <3>3, WorkerKeepsOlder DEF Records
      <4>2. Older(cache[g], gw[g]) /\ local.gen <= cache[g].gen /\ Older(local, gw[g])
        BY <2>1, <2>4, <3>1 DEF CopiesInv
      <4>3. cache[g].gen = gw[g].gen
        BY <4>1, <4>2, Gens DEF Alike, Older
      <4>4. cache[g].spec = gw[g].spec /\ local.spec = gw[g].spec
        BY <4>1, <4>2, <4>3 DEF Older, Alike
      <4> QED
        BY <1>2, <2>1, <2>2, <3>1, <3>3, <4>4
    <3> QED
      BY <3>1, <3>2, <3>3
  <2> QED
    BY <2>3, <2>4
<1>4. CASE Crash
  <2>1. pc' = "Idle" /\ UNCHANGED <<gw, overtaken>> /\ cache' = gw
    BY <1>4 DEF Crash, Leave, api, user
  <2> QED
    BY <1>1, <1>2, <2>1
<1>5. ASSUME NEW h \in Gateways, EditSpec(h) \/ DeleteGateway(h)
      PROVE  Line(g)
  <2>1. /\ UNCHANGED <<cache, pc, self, local>> /\ overtaken \subseteq overtaken'
        /\ \A x \in Gateways : x # h => gw'[x] = gw[x]
        /\ gw[h].live /\ (Edited(h) \/ Marked(h) \/ Vanished(h))
    BY <1>5, UserWrites
  <2>2. g # h \/ Edited(h) \/ Marked(h)
    BY <1>1, <2>1, NoGatewayIs DEF Vanished
  <2>3. CASE g # h
    BY <1>1, <1>2, <2>1, <2>3
  <2>4. CASE g = h /\ Edited(h)
    BY <1>1, <1>2, <2>1, <2>4 DEF Edited
  <2>5. CASE g = h /\ Marked(h)
    BY <1>1, <1>2, <2>1, <2>5 DEF Marked
  <2> QED
    BY <2>2, <2>3, <2>4, <2>5
<1>6. ASSUME NEW h \in Gateways, StartReconcile(h)
      PROVE  Line(g)
  <2>1. Begins(h) /\ UNCHANGED <<gw, cache, overtaken>>
    BY <1>6, StartWrites
  <2> QED
    BY <1>1, <1>2, <2>1 DEF Begins
<1>7. ASSUME NEW h \in Gateways, SyncGateway(h)
      PROVE  Line(g)
  <2>1. /\ UNCHANGED <<gw, pc, self, local, overtaken>> /\ cache'[h] = gw[h]
        /\ \A x \in Gateways : x # h => cache'[x] = cache[x]
    BY <1>7, SyncWrites
  <2> QED
    BY <1>1, <1>2, <2>1
<1>8. CASE /\ ~WorkerStep /\ ~Crash
           /\ ~\E h \in Gateways : StartReconcile(h) \/ SyncGateway(h) \/ EditSpec(h) \/ DeleteGateway(h)
  <2>1. UNCHANGED <<gw, cache, pc, self, local, overtaken>>
    BY <1>8, OthersWrite
  <2> QED
    BY <1>1, <1>2, <2>1
<1> QED
  BY <1>3, <1>4, <1>5, <1>6, <1>7, <1>8

LEMMA GoneStep ==
  ASSUME TypeInv, CopiesInv, StageInv, GoneInv, Next
  PROVE  GoneInv'
<1> TypeOK
  BY DEF TypeInv
<1> DEFINE Cached(g) == cache'[g].live /\ cache'[g].finalizer /\ ~cache'[g].deleting => gw'[g].live
           Local == pc' \notin {"Idle", "AddFinalizer"} /\ ~local'.deleting => gw'[self'].live
<1>1. SUFFICES (\A g \in Gateways : Cached(g)) /\ Local
  BY DEF GoneInv
<1>2. /\ \A g \in Gateways : cache[g].live /\ cache[g].finalizer /\ ~cache[g].deleting => gw[g].live
      /\ pc \notin {"Idle", "AddFinalizer"} /\ ~local.deleting => gw[self].live
  BY DEF GoneInv
<1>3. CASE WorkerStep
  <2>1. /\ pc # "Idle" /\ self \in Gateways /\ Keeps /\ UNCHANGED cache
        /\ \/ Fails /\ UNCHANGED gw
           \/ GetsFinalizer \/ GoesOn \/ Reports \/ Records \/ PutsService \/ Removes
    BY <1>3, WorkerGoesOn
  <2>2. gw'[self].live = gw[self].live \/ Removes
    <3>1. GetsFinalizer \/ Records => gw'[self].live = local.live /\ Alike(local, gw[self])
      BY <1>3, <2>1, WorkerKeepsOlder DEF GetsFinalizer, Records, With
    <3> QED
      BY <2>1, <3>1 DEF Alike, Reports, GoesOn, PutsService
  <2>3. CASE gw'[self].live = gw[self].live
    <3>1. \A g \in Gateways : gw'[g].live = gw[g].live
      BY <2>1, <2>3 DEF Keeps
    <3>2. Local
      <4>1. SUFFICES ASSUME pc' \notin {"Idle", "AddFinalizer"}, ~local'.deleting
                     PROVE  gw[self].live /\ self' = self
        BY <2>1, <2>3
      <4>2. /\ self' = self
            /\ (GoesOn /\ Alike(local', local)) \/ (Reports /\ local' = local)
               \/ (localFresh /\ local'.deleting = local.deleting)
        BY <1>3, <4>1, WorkerKeepsLocal
      <4>3. localFresh => gw[self].live
        BY <2>1 DEF TypeInv, SpecsInv
      <4> QED
        BY <1>2, <4>1, <4>2, <4>3 DEF GoesOn, Step, Reports, Alike
    <3> QED
      BY <1>2, <2>1, <3>1, <3>2
  <2>4. CASE Removes
    <3>1. pc' = "Idle" /\ localFresh /\ local.deleting
      BY <2>4 DEF Removes, Ends, StageInv
    <3>2. Alike(local, gw[self]) /\ gw[self].live
      BY <1>3, <2>1, <3>1, WorkerKeepsOlder DEF TypeInv, SpecsInv
    <3>3. Older(cache[self], gw[self]) /\ local.gen <= cache[self].gen
      BY <2>1, <3>2 DEF CopiesInv
    <3>4. cache[self].gen = gw[self].gen
      BY <2>1, <3>2, <3>3, Gens DEF Alike, Older
    <3>5. cache[self].deleting
      BY <3>1, <3>2, <3>3, <3>4 DEF Alike, Older
    <3> QED
      BY <1>2, <2>1, <3>1, <3>5 DEF Keeps
  <2> QED
    BY <2>2, <2>3, <2>4
<1>4. CASE Crash
  <2>1. pc' = "Idle" /\ UNCHANGED gw /\ cache' = gw
    BY <1>4 DEF Crash, Leave, api
  <2> QED
    BY <2>1
<1>5. ASSUME NEW g \in Gateways, EditSpec(g) \/ DeleteGateway(g)
      PROVE  (\A h \in Gateways : Cached(h)) /\ Local
  <2>1. /\ UNCHANGED <<cache, pc, self, local>>
        /\ \A h \in Gateways : h # g => gw'[h] = gw[h]
        /\ gw[g].live /\ (Edited(g) \/ Marked(g) \/ Vanished(g))
    BY <1>5, UserWrites
  <2>2. gw'[g].live \/ ~gw[g].finalizer
    BY <2>1 DEF Edited, Marked, Vanished
  <2>3. Older(cache[g], gw[g])
    BY <2>1 DEF CopiesInv
  <2>4. pc \notin {"Idle", "AddFinalizer"} /\ self = g => Older(local, gw[g]) /\ local.finalizer
    BY <2>1 DEF CopiesInv, StageInv
  <2>5. ~gw[g].finalizer => ~cache[g].finalizer /\ (self = g => pc \in {"Idle", "AddFinalizer"})
    BY <2>3, <2>4 DEF Older
  <2>6. pc # "Idle" => self \in Gateways
    BY DEF TypeInv, SpecsInv
  <2> QED
    BY <1>2, <2>1, <2>2, <2>5, <2>6
<1>6. ASSUME NEW g \in Gateways, StartReconcile(g)
      PROVE  (\A h \in Gateways : Cached(h)) /\ Local
  <2>1. Begins(g) /\ UNCHANGED <<gw, cache>>
    BY <1>6, StartWrites
  <2> QED
    BY <1>2, <2>1 DEF Begins, FirstStep
<1>7. ASSUME NEW g \in Gateways, SyncGateway(g)
      PROVE  (\A h \in Gateways : Cached(h)) /\ Local
  <2>1. /\ UNCHANGED <<gw, pc, self, local>> /\ cache'[g] = gw[g]
        /\ \A h \in Gateways : h # g => cache'[h] = cache[h]
    BY <1>7, SyncWrites
  <2> QED
    BY <1>2, <2>1
<1>8. CASE /\ ~WorkerStep /\ ~Crash
           /\ ~\E g \in Gateways : StartReconcile(g) \/ SyncGateway(g) \/ EditSpec(g) \/ DeleteGateway(g)
  <2>1. UNCHANGED <<gw, cache, pc, self, local>>
    BY <1>8, OthersWrite
  <2> QED
    BY <1>2, <2>1
<1> QED
  BY <1>3, <1>4, <1>5, <1>6, <1>7, <1>8

CoreInv == TypeInv /\ CopiesInv /\ K8sInv /\ StageInv /\ GoneInv /\ LineInv

LEMMA CoreInit ==
  ASSUME Init
  PROVE  CoreInv
<1> TypeInv
  BY TypeInit
<1>1. PICK spec : FirstSpecs(spec) /\ FirstK8s(spec)
  BY InitIs
<1>2. /\ cache = gw /\ k8sCache = k8s /\ pc = "Idle"
      /\ \A g \in Gateways : gw[g].deleting = FALSE
  BY <1>1, FirstGateways DEF Init
<1>3. CopiesInv
  BY <1>2, Gens DEF CopiesInv, Older, TypeInv
<1>4. K8sInv
  BY <1>1, <1>2 DEF K8sInv, Noticed, FirstK8s
<1>5. StageInv
  BY <1>2 DEF StageInv
<1>6. LineInv
  BY <1>2 DEF LineInv
<1>7. GoneInv
  BY <1>2 DEF GoneInv
<1> QED
  BY <1>3, <1>4, <1>5, <1>6, <1>7 DEF CoreInv

\* Copies are older versions, caches that are told of nothing are current, the stage of
\* the worker tells what its copy is like, and specs are recorded one after the other.
LEMMA CoreInvHolds == Spec => []CoreInv
<1>1. CoreInv /\ UNCHANGED vars => CoreInv'
  BY DEF CoreInv, TypeInv, TypeOK, SpecsInv, Sound, CopiesInv, Older, Alike, K8sInv, Current, Noticed,
     StageInv, GoneInv, LineInv, vars, api, gwCaches, k8sCaches, worker, user
<1>2. CoreInv /\ Next => CoreInv'
  BY TypeStep, SpecsStep, CopiesStep, K8sStep, StageStep, GoneStep, LineStep DEF CoreInv, TypeInv
<1> QED
  BY <1>1, <1>2, CoreInit, PTL DEF Spec

-----------------------------------------------------------------------------
(* The listener of the administrator                                       *)

\* What the worker writes to a Kubernetes Gateway, it makes of what is there.
LEMMA WorkerSees ==
  ASSUME TypeInv, K8sInv, NEW k \in K8sGateways, Current(k)
  PROVE  k8sCache[k] = k8s[k] /\ k8s[k].listeners \in Listeners
  BY DEF K8sInv, TypeInv, TypeOK, K8sGateway

\* The specs that the worker reads.
LEMMA LocalSpecs ==
  ASSUME TypeInv, pc # "Idle"
  PROVE  /\ self \in Gateways /\ local.spec \in Wanted[self]
         /\ \A s \in {local.spec, local.config} :
              s.listeners \in Listeners /\ ForeignName \notin Named(s.listeners)
<1>1. self \in Gateways /\ local.spec \in Wanted[self] /\ local.config \in Wanted[self] \union {NoSpec}
  BY DEF TypeInv, SpecsInv, Sound
<1> QED
  BY <1>1, WantedIs, NoneIs

\* The listener of the administrator changes only when they change it, or when the
\* Kubernetes Gateway goes: whoever merges the listeners of others or takes them off
\* does it to a current copy, whatever they ask for.
THEOREM ForeignKeptHolds == Spec => ForeignKept
<1> DEFINE Kept == \A k \in K8sGateways :
                     k8s[k].live /\ k8s'[k].live /\ ~AdminEdits(k) =>
                       k8s'[k].listeners[ForeignName] = k8s[k].listeners[ForeignName]
<1>1. ASSUME CoreInv, [Next]_vars
      PROVE  Kept
  <2>1. CASE UNCHANGED vars
    BY <2>1 DEF vars, api
  <2>2. CASE Next
    <3>1. SUFFICES ASSUME NEW k \in K8sGateways, k8s[k].live, k8s'[k].live, ~AdminEdits(k)
                   PROVE  k8s'[k].listeners[ForeignName] = k8s[k].listeners[ForeignName]
      OBVIOUS
    <3> TypeInv /\ K8sInv
      BY <1>1 DEF CoreInv
    <3>2. ForeignName \in Names
      BY GatewayAssumption
    <3>3. CASE ListenersSame(k) \/ k8s'[k] = NoK8sGateway \/ AdminEdits(k)
      BY <3>1, <3>3, NoK8sIs DEF ListenersSame
    <3>4. ASSUME NEW s \in {local.spec, local.config}, TakenOff(k, s), pc # "Idle"
          PROVE  k8s'[k].listeners[ForeignName] = k8s[k].listeners[ForeignName]
      <4>1. /\ k8s[k].listeners \in Listeners
            /\ k8s'[k].listeners = Without(k8s[k].listeners, s.listeners)
        BY <3>4, WorkerSees DEF TakenOff
      <4>2. s.listeners \in Listeners /\ ForeignName \notin Named(s.listeners)
        BY <3>4, LocalSpecs
      <4> QED
        BY <3>2, <4>1, <4>2, WithoutIs
    <3>5. CASE CleanOld /\ TakenOff(k, local.config)
      BY <3>4, <3>5 DEF CleanOld
    <3>6. CASE CleanDeleted /\ TakenOff(k, local.spec)
      BY <3>4, <3>6 DEF CleanDeleted
    <3>7. CASE CreateOrUpdateGateway /\ (Merges(k) \/ CreatesK8s(k))
      <4>1. pc # "Idle" /\ Merges(k)
        BY <3>1, <3>7 DEF CreateOrUpdateGateway, CreatesK8s
      <4>2. /\ k8s[k].listeners \in Listeners
            /\ k8s'[k].listeners = Merged(k8s[k].listeners, local.config.listeners, local.spec.listeners)
        BY <4>1, WorkerSees DEF Merges
      <4>3. /\ local.spec.listeners \in Listeners /\ ForeignName \notin Named(local.spec.listeners)
            /\ local.config.listeners \in Listeners /\ ForeignName \notin Named(local.config.listeners)
        BY <4>1, LocalSpecs
      <4>4. Merged(k8s[k].listeners, local.config.listeners, local.spec.listeners)[ForeignName]
              = k8s[k].listeners[ForeignName]
        BY <3>2, <4>3 DEF Merged
      <4> QED
        BY <4>2, <4>4
    <3> QED
      BY <2>2, <3>3, <3>5, <3>6, <3>7, K8sWritten
  <2> QED
    BY <1>1, <2>1, <2>2
<1>2. Spec => [][Kept]_vars
  BY <1>1, CoreInvHolds, PTL DEF Spec
<1> QED
  BY <1>2 DEF ForeignKept

-----------------------------------------------------------------------------
(* No listener is left behind                                              *)

\* The specs by which a Gateway may have listeners on Kubernetes Gateways, and the
\* listeners that are there.
Standing(g) == IF g \in overtaken THEN Wanted[g]
               ELSE IF gw[g].finalizer THEN {gw[g].spec, gw[g].config} ELSE {}
Taken(k) == Named(k8s[k].listeners) \ {ForeignName}
Claims(g, k, n) == \E s \in Standing(g) : Asks(s, k, n)
ClaimedInv == \A k \in K8sGateways : \A n \in Taken(k) : \E g \in Gateways : Claims(g, k, n)

\* A Kubernetes Gateway that the cache does not have yet has been made by a Gateway
\* that defines it, and all that is on it is theirs.
Unseen(k) == k8s[k].live /\ ~k8sCache[k].live
Defines(s, k, taken) == s.kind = "def" /\ s.target = k /\ taken \subseteq Named(s.listeners)
Made(g, k) == \E s \in Standing(g) : Defines(s, k, Taken(k))
CreatorInv == \A k \in K8sGateways : Unseen(k) => \E g \in Gateways : Made(g, k)

\* What the worker cleans up is gone, but for what others claim, until the record of it
\* goes as well.
OthersClaim(k, n) == \E h \in Gateways \ {self} : Claims(h, k, n)
OthersMade(k) == \E h \in Gateways \ {self} : Made(h, k)
Cleaned(old, new) ==
  \A k \in K8sGateways :
    /\ \A n \in Taken(k) : Asks(old, k, n) => OthersClaim(k, n) \/ Asks(new, k, n)
    /\ Unseen(k) => OthersMade(k) \/ Defines(new, k, Taken(k))
CleanedInv ==
  localFresh /\ self \notin overtaken =>
    /\ (pc = "Apply" /\ Moved(local)) \/ (pc = "Status" /\ ~failed) \/ pc = "Annotate" =>
         Cleaned(local.config, local.spec)
    /\ pc = "RemoveFinalizer" => Cleaned(local.spec, NoSpec)
AccountInv == CoreInv /\ ClaimedInv /\ CreatorInv /\ CleanedInv

LEMMA NobodyAsks ==
  ASSUME NEW k \in K8sGateways
  PROVE  \A n : ~Defines(NoSpec, k, n) /\ ~Asks(NoSpec, k, n)
  BY GatewayAssumption, NoneIs DEF Defines, Asks

\* What is on a Kubernetes Gateway, and who has put it there.
LEMMA TakenNow ==
  ASSUME CoreInv, Next, NEW k \in K8sGateways
  PROVE  /\ \A n \in Taken(k)' : n \in Taken(k) \/ (CreateOrUpdateGateway /\ Asks(local.spec, k, n))
         /\ Unseen(k)' => \/ Unseen(k) /\ Taken(k)' = Taken(k)
                          \/ CreateOrUpdateGateway /\ Defines(local.spec, k, Taken(k)')
<1> TypeInv /\ K8sInv
  BY DEF CoreInv
<1>1. Taken(k)' = {n \in Names : k8s'[k].listeners[n] # NoListener} \ {ForeignName}
  BY DEF Taken, Named
<1>2. Taken(k) = {n \in Names : k8s[k].listeners[n] # NoListener} \ {ForeignName}
  BY DEF Taken, Named
<1>3. k8sCache'[k] = k8sCache[k] \/ (k8sCache'[k] = k8s[k] /\ k8s'[k] = k8s[k])
  BY K8sWritten
<1>4. CASE ListenersSame(k)
  BY <1>1, <1>2, <1>3, <1>4 DEF ListenersSame, Unseen
<1>5. CASE k8s'[k] = NoK8sGateway
  <2>1. Taken(k)' = {} /\ ~Unseen(k)'
    BY <1>5, NoK8sIs, NoneIs DEF Taken, Unseen
  <2> QED
    BY <2>1
<1>6. CASE k8s[k].live /\ k8s'[k].live /\ \A n \in Names \ {ForeignName} : k8s'[k].listeners[n] = k8s[k].listeners[n]
  BY <1>1, <1>2, <1>3, <1>6 DEF Unseen
<1>7. ASSUME NEW s \in {local.spec, local.config}, TakenOff(k, s), pc # "Idle"
      PROVE  Taken(k)' \subseteq Taken(k) /\ ~Unseen(k)'
  <2>1. /\ k8s[k].listeners \in Listeners /\ k8s[k].live /\ k8sCache[k].live
        /\ k8s'[k].listeners = Without(k8s[k].listeners, s.listeners)
    BY <1>7, WorkerSees DEF TakenOff
  <2>2. s.listeners \in Listeners
    BY <1>7, LocalSpecs
  <2>3. \A n \in Names : k8s'[k].listeners[n] \in {NoListener, k8s[k].listeners[n]}
    BY <2>1, <2>2, WithoutIs
  <2> QED
    BY <1>1, <1>2, <1>3, <2>1, <2>3 DEF Unseen
<1>8. CASE CleanOld /\ TakenOff(k, local.config)
  BY <1>7, <1>8 DEF CleanOld
<1>9. CASE CleanDeleted /\ TakenOff(k, local.spec)
  BY <1>7, <1>9 DEF CleanDeleted
<1>10. CASE CreateOrUpdateGateway /\ k = local.spec.target /\ Merges(k)
  <2>1. pc # "Idle"
    BY <1>10 DEF CreateOrUpdateGateway
  <2>2. /\ k8s[k].listeners \in Listeners /\ k8sCache[k].live /\ k8s[k].live
        /\ k8s'[k].listeners = Merged(k8s[k].listeners, local.config.listeners, local.spec.listeners)
    BY <1>10, WorkerSees DEF Merges
  <2>3. \A n \in Names : k8s'[k].listeners[n] \in {NoListener, k8s[k].listeners[n]} \/ n \in Named(local.spec.listeners)
    BY <2>2 DEF Merged
  <2> QED
    BY <1>1, <1>2, <1>3, <1>10, <2>2, <2>3 DEF Asks, Unseen
<1>11. CASE CreateOrUpdateGateway /\ k = local.spec.target /\ CreatesK8s(k)
  <2>1. Taken(k)' = Named(local.spec.listeners) \ {ForeignName}
    BY <1>11 DEF CreatesK8s, Taken
  <2> QED
    BY <1>11, <2>1 DEF CreatesK8s, Asks, Defines
<1> QED
  BY <1>4, <1>5, <1>6, <1>8, <1>9, <1>10, <1>11, K8sWritten

\* A spec stands until it is recorded that another has been applied, or the Gateway goes.
Drops(s) ==
  /\ self \notin overtaken /\ localFresh /\ UNCHANGED k8s
  /\ (Records /\ s = local.config) \/ (Removes /\ s = local.spec)
LEMMA StandingKept ==
  ASSUME CoreInv, Next, NEW g \in Gateways, NEW s \in Standing(g), s # NoSpec
  PROVE  s \in Standing(g)' \/ (g = self /\ Drops(s))
<1> TypeInv /\ TypeOK /\ CopiesInv /\ StageInv /\ LineInv
  BY DEF CoreInv, TypeInv
<1>1. gw[g].finalizer \in BOOLEAN /\ gw[g].live \in BOOLEAN /\ (~gw[g].live => ~gw[g].finalizer)
  BY Flags, NoGatewayIs DEF TypeInv, SpecsInv, Sound
<1>2. g \in overtaken \/ (gw[g].live /\ gw[g].finalizer /\ s \in {gw[g].spec, gw[g].config})
  BY <1>1 DEF Standing
<1>3. gw[g].live => {gw[g].spec, gw[g].config} \subseteq Wanted[g] \union {NoSpec}
  BY DEF TypeInv, SpecsInv, Sound
<1>4. g \in overtaken => s \in Wanted[g]
  BY DEF Standing
<1>5. CASE WorkerStep
  <2>1. /\ pc # "Idle" /\ self \in Gateways /\ Keeps /\ UNCHANGED overtaken
        /\ \/ Fails /\ UNCHANGED gw
           \/ GetsFinalizer \/ GoesOn \/ Reports \/ Records \/ PutsService \/ Removes
    BY <1>5, WorkerGoesOn
  <2>2. CASE g \in overtaken
    BY <1>4, <2>1, <2>2 DEF Standing
  <2>3. CASE g # self /\ g \notin overtaken
    BY <1>2, <2>1, <2>3 DEF Standing, Keeps
  <2>4. CASE g = self /\ g \notin overtaken /\ gw'[g].live
    <3>1. /\ gw'[g].spec = gw[g].spec /\ gw'[g].finalizer
          /\ gw'[g].config = gw[g].config \/ (Records /\ gw'[g].config = gw'[g].spec)
      BY <1>2, <1>5, <2>4, WorkerKeepsOlder
    <3>2. CASE s = gw[g].spec \/ gw'[g].config = gw[g].config
      BY <1>2, <2>1, <2>4, <3>1, <3>2 DEF Standing
    <3>3. CASE s = gw[g].config /\ Records
      <4>1. localFresh /\ s = local.config
        BY <1>5, <2>4, <3>3, WorkerKeepsOlder DEF Records, Alike
      <4>2. UNCHANGED k8s
        BY <1>5, <3>3 DEF Records, WorkerStep, AddFinalizer, CleanOld, CreateOrUpdateGateway, UpdateGatewayStatus,
           UpdateGatewayAnnotations, CreateOrUpdateService, CleanDeleted, RemoveFinalizer
      <4> QED
        BY <2>4, <3>3, <4>1, <4>2 DEF Drops
    <3> QED
      BY <1>2, <2>4, <3>1, <3>2, <3>3
  <2>5. CASE g = self /\ g \notin overtaken /\ ~gw'[g].live
    <3>1. local.live /\ (localFresh => Alike(local, gw[g]))
      BY <1>5, <2>1, <2>5, WorkerKeepsOlder DEF TypeInv, SpecsInv
    <3>2. Removes
      BY <1>2, <2>1, <2>5, <3>1 DEF GetsFinalizer, Records, With, Reports, Alike, GoesOn, PutsService
    <3>3. local.deleting /\ localFresh
      BY <3>2 DEF Removes, StageInv
    <3>4. gw[g].deleting /\ gw[g].spec = local.spec
      BY <3>1, <3>3 DEF Alike
    <3>5. s = local.spec
      BY <1>2, <2>5, <3>4 DEF LineInv
    <3>6. UNCHANGED k8s
      BY <1>5, <3>2 DEF Removes, WorkerStep, AddFinalizer, CleanOld, CreateOrUpdateGateway, UpdateGatewayStatus,
         UpdateGatewayAnnotations, CreateOrUpdateService, CleanDeleted, RemoveFinalizer
    <3> QED
      BY <2>5, <3>2, <3>3, <3>5, <3>6 DEF Drops
  <2> QED
    BY <2>2, <2>3, <2>4, <2>5
<1>6. ASSUME NEW h \in Gateways, EditSpec(h) \/ DeleteGateway(h)
      PROVE  s \in Standing(g)'
  <2>1. /\ overtaken \subseteq overtaken' /\ overtaken' \subseteq overtaken \union {h}
        /\ \A x \in Gateways : x # h => gw'[x] = gw[x]
        /\ Edited(h) \/ Marked(h) \/ Vanished(h)
    BY <1>6, UserWrites
  <2>2. CASE g \in overtaken'
    BY <1>2, <1>3, <1>4, <2>1, <2>2 DEF Standing
  <2>3. CASE g \notin overtaken' /\ g # h
    BY <1>2, <2>1, <2>3 DEF Standing
  <2>4. CASE g \notin overtaken' /\ g = h
    BY <1>2, <2>1, <2>4 DEF Standing, Edited, Marked, Vanished
  <2> QED
    BY <2>2, <2>3, <2>4
<1>7. UNCHANGED <<gw, overtaken>> => s \in Standing(g)'
  BY DEF Standing
<1>8. CASE ~WorkerStep /\ ~\E h \in Gateways : EditSpec(h) \/ DeleteGateway(h)
  <2>1. UNCHANGED <<gw, overtaken>>
    <3>1. CASE Crash
      BY <3>1 DEF Crash, api, user
    <3>2. ASSUME NEW h \in Gateways, StartReconcile(h) \/ SyncGateway(h)
          PROVE  UNCHANGED <<gw, overtaken>>
      BY <3>2, StartWrites, SyncWrites
    <3>3. CASE /\ ~WorkerStep /\ ~Crash
               /\ ~\E h \in Gateways : StartReconcile(h) \/ SyncGateway(h) \/ EditSpec(h) \/ DeleteGateway(h)
      BY <3>3, OthersWrite
    <3> QED
      BY <1>8, <3>1, <3>2, <3>3
  <2> QED
    BY <1>7, <2>1
<1> QED
  BY <1>5, <1>6, <1>8

LEMMA ClaimsKept ==
  ASSUME CoreInv, Next, NEW g \in Gateways, NEW k \in K8sGateways, NEW n, Claims(g, k, n)
  PROVE  Claims(g, k, n)' \/ (g = self /\ \E s : Drops(s) /\ Asks(s, k, n))
<1>1. PICK s \in Standing(g) : Asks(s, k, n)
  BY DEF Claims
<1>2. s \in Standing(g)' \/ (g = self /\ Drops(s))
  BY <1>1, StandingKept, NobodyAsks
<1> QED
  BY <1>1, <1>2 DEF Claims, Asks

LEMMA MadeKept ==
  ASSUME CoreInv, Next, NEW g \in Gateways, NEW k \in K8sGateways, Made(g, k), Taken(k)' = Taken(k)
  PROVE  Made(g, k)' \/ (g = self /\ \E s : Drops(s) /\ Defines(s, k, Taken(k)))
<1>1. PICK s \in Standing(g) : Defines(s, k, Taken(k))
  BY DEF Made
<1>2. s \in Standing(g)' \/ (g = self /\ Drops(s))
  BY <1>1, StandingKept, NobodyAsks
<1>3. s \in Standing(g)' => Made(g, k)'
  <2>1. Defines(s, k, Taken(k)')
    BY <1>1
  <2> QED
    BY <2>1 DEF Made, Defines
<1> QED
  BY <1>1, <1>2, <1>3

\* A Gateway that the worker applies stands for what it applies.
LEMMA LocalStands ==
  ASSUME CoreInv, pc \notin {"Idle", "AddFinalizer"}, ~local.deleting
  PROVE  /\ self \in Gateways /\ local.spec \in Standing(self)
         /\ localFresh /\ self \notin overtaken => Standing(self) = {local.spec, local.config}
<1>1. self \in Gateways /\ local.spec \in Wanted[self]
  BY DEF CoreInv, TypeInv, SpecsInv, Sound
<1>2. gw[self].live /\ local.finalizer
  BY DEF CoreInv, GoneInv, StageInv
<1>3. gw[self].finalizer
  BY <1>2 DEF CoreInv, CopiesInv, Older
<1>4. self \notin overtaken => local.spec \in {gw[self].spec, gw[self].config}
  BY <1>1, <1>2 DEF CoreInv, LineInv
<1>5. localFresh => Alike(local, gw[self])
  BY DEF CoreInv, CopiesInv
<1> QED
  BY <1>1, <1>3, <1>4, <1>5 DEF Standing, Alike

LEMMA StandingSame ==
  ASSUME UNCHANGED <<gw, overtaken>>
  PROVE  \A g : Standing(g)' = Standing(g)
  BY DEF Standing

\* What the worker drops is done with.
LEMMA DroppedIsCleaned ==
  ASSUME AccountInv, NEW s, Drops(s)
  PROVE  \E new : Cleaned(s, new) /\ (new = NoSpec \/ \E h \in Gateways : new \in Standing(h)')
<1>1. /\ pc # "Idle" /\ self \in Gateways /\ local.spec \in Wanted[self]
      /\ self \notin overtaken /\ localFresh
  BY DEF AccountInv, CoreInv, TypeInv, SpecsInv, Sound, Drops, Records, Removes
<1>2. CASE Records /\ s = local.config
  <2>1. Cleaned(local.config, local.spec)
    BY <1>1, <1>2 DEF AccountInv, CleanedInv, Records
  <2>2. gw'[self].spec = local.spec /\ gw'[self].finalizer
    BY <1>2 DEF Records, With, AccountInv, CoreInv, StageInv
  <2>3. \E g \in Gateways : local.spec \in Standing(g)'
    <3>1. PICK g \in Gateways : g = self
      BY <1>1
    <3>2. g \in overtaken' => local.spec \in Wanted[g]
      BY <1>1, <3>1
    <3> QED
      BY <2>2, <3>1, <3>2 DEF Standing
  <2> QED
    BY <1>1, <1>2, <2>1, <2>3
<1>3. CASE Removes /\ s = local.spec
  BY <1>1, <1>3 DEF AccountInv, CleanedInv, Removes
<1> QED
  BY <1>2, <1>3 DEF Drops

LEMMA ClaimedStep ==
  ASSUME AccountInv, Next
  PROVE  ClaimedInv'
<1> CoreInv
  BY DEF AccountInv
<1>1. SUFFICES ASSUME NEW k \in K8sGateways, NEW n \in Taken(k)'
               PROVE  \E g \in Gateways : Claims(g, k, n)'
  BY DEF ClaimedInv
<1>2. CASE CreateOrUpdateGateway /\ Asks(local.spec, k, n)
  <2>1. pc = "Apply" /\ ~local.deleting /\ UNCHANGED <<gw, overtaken>>
    BY <1>2 DEF CreateOrUpdateGateway, user, CoreInv, StageInv
  <2>2. PICK g \in Gateways : local.spec \in Standing(g)'
    BY <2>1, LocalStands, StandingSame
  <2> QED
    BY <1>2, <2>2 DEF Claims, Asks
<1>3. CASE n \in Taken(k)
  <2>1. PICK g \in Gateways : Claims(g, k, n)
    BY <1>3 DEF AccountInv, ClaimedInv
  <2>2. CASE \E s : Drops(s) /\ Asks(s, k, n)
    <3>1. PICK s : Drops(s) /\ Asks(s, k, n)
      BY <2>2
    <3>2. PICK new : Cleaned(s, new) /\ (new = NoSpec \/ \E h \in Gateways : new \in Standing(h)')
      BY <3>1, DroppedIsCleaned
    <3>3. OthersClaim(k, n) \/ Asks(new, k, n)
      BY <1>3, <3>1, <3>2 DEF Cleaned
    <3>4. CASE OthersClaim(k, n)
      BY <3>4, ClaimsKept DEF OthersClaim
    <3>5. CASE Asks(new, k, n)
      BY <3>2, <3>5, NobodyAsks DEF Claims, Asks
    <3> QED
      BY <3>3, <3>4, <3>5
  <2> QED
    BY <2>1, <2>2, ClaimsKept
<1> QED
  BY <1>2, <1>3, TakenNow

LEMMA CreatorStep ==
  ASSUME AccountInv, Next
  PROVE  CreatorInv'
<1> CoreInv
  BY DEF AccountInv
<1>1. SUFFICES ASSUME NEW k \in K8sGateways, Unseen(k)'
               PROVE  \E g \in Gateways : Made(g, k)'
  BY DEF CreatorInv
<1>2. CASE CreateOrUpdateGateway /\ Defines(local.spec, k, Taken(k)')
  <2>1. pc = "Apply" /\ ~local.deleting /\ UNCHANGED <<gw, overtaken>>
    BY <1>2 DEF CreateOrUpdateGateway, user, CoreInv, StageInv
  <2>2. PICK g \in Gateways : local.spec \in Standing(g)'
    BY <2>1, LocalStands, StandingSame
  <2> QED
    BY <1>2, <2>2 DEF Made, Defines
<1>3. CASE Unseen(k) /\ Taken(k)' = Taken(k)
  <2>1. PICK g \in Gateways : Made(g, k)
    BY <1>3 DEF AccountInv, CreatorInv
  <2>2. CASE \E s : Drops(s) /\ Defines(s, k, Taken(k))
    <3>1. PICK s : Drops(s) /\ Defines(s, k, Taken(k))
      BY <2>2
    <3>2. PICK new : Cleaned(s, new) /\ (new = NoSpec \/ \E h \in Gateways : new \in Standing(h)')
      BY <3>1, DroppedIsCleaned
    <3>3. OthersMade(k) \/ Defines(new, k, Taken(k)')
      BY <1>3, <3>2 DEF Cleaned
    <3>4. CASE OthersMade(k)
      BY <1>3, <3>4, MadeKept DEF OthersMade
    <3>5. CASE Defines(new, k, Taken(k)')
      BY <3>2, <3>5, NobodyAsks DEF Made, Defines
    <3> QED
      BY <3>3, <3>4, <3>5
  <2> QED
    BY <1>3, <2>1, <2>2, MadeKept
<1> QED
  BY <1>1, <1>2, <1>3, TakenNow

\* What has been cleaned stays so, unless the worker applies something.
LEMMA CleanedStays ==
  ASSUME CoreInv, Next, ~CreateOrUpdateGateway, self' = self, NEW old, NEW new, Cleaned(old, new)
  PROVE  Cleaned(old, new)'
<1>1. SUFFICES ASSUME NEW k \in K8sGateways
               PROVE  /\ \A n \in Taken(k)' : Asks(old, k, n) => OthersClaim(k, n)' \/ Asks(new, k, n)
                      /\ Unseen(k)' => OthersMade(k)' \/ Defines(new, k, Taken(k)')
  BY DEF Cleaned, Asks, Defines
<1>2. \A n : OthersClaim(k, n) => OthersClaim(k, n)'
  BY ClaimsKept DEF OthersClaim
<1>3. Taken(k)' = Taken(k) /\ OthersMade(k) => OthersMade(k)'
  BY MadeKept DEF OthersMade
<1>4. \A n \in Taken(k)' : n \in Taken(k)
  BY TakenNow
<1>5. Unseen(k)' => Unseen(k) /\ Taken(k)' = Taken(k)
  BY TakenNow
<1>6. /\ \A n \in Taken(k) : Asks(old, k, n) => OthersClaim(k, n) \/ Asks(new, k, n)
      /\ Unseen(k) => OthersMade(k) \/ Defines(new, k, Taken(k))
  BY DEF Cleaned
<1> QED
  BY <1>2, <1>3, <1>4, <1>5, <1>6

\* The worker cleans up what a Gateway does not stand for any more.
LEMMA CleansOff ==
  ASSUME AccountInv, Next, CleanOld \/ CleanDeleted, self' = self, self \in Gateways,
         NEW old \in Wanted[self] \union {NoSpec}, Cleans(old),
         NEW new, Standing(self) \subseteq {old, new, NoSpec}
  PROVE  Cleaned(old, new)'
<1> CoreInv /\ TypeInv /\ K8sInv
  BY DEF AccountInv, CoreInv
<1>1. SUFFICES ASSUME NEW k \in K8sGateways
               PROVE  /\ \A n \in Taken(k)' : Asks(old, k, n) => OthersClaim(k, n)' \/ Asks(new, k, n)
                      /\ Unseen(k)' => OthersMade(k)' \/ Defines(new, k, Taken(k)')
  BY DEF Cleaned, Asks, Defines
<1>2. ~CreateOrUpdateGateway
  BY DEF CreateOrUpdateGateway, CleanOld, CleanDeleted
<1>3. /\ old.kind = "none" => old = NoSpec
      /\ old.listeners \in Listeners
  BY WantedIs, NoneIs
<1>4. \A n : OthersClaim(k, n) => OthersClaim(k, n)'
  BY ClaimsKept DEF OthersClaim
<1>5. Taken(k)' = Taken(k) /\ OthersMade(k) => OthersMade(k)'
  BY MadeKept DEF OthersMade
<1>6. k = old.target /\ old.kind = "def" => k8s'[k] = NoK8sGateway
  BY <1>1 DEF Cleans, OnlyK8s
<1>7. k8s'[k] = NoK8sGateway => Taken(k)' = {} /\ ~Unseen(k)'
  BY NoK8sIs, NoneIs DEF Taken, Unseen
<1>8. ASSUME Unseen(k)
      PROVE  \/ OthersMade(k) /\ \A n \in Taken(k) : OthersClaim(k, n)
             \/ Defines(new, k, Taken(k))
             \/ Defines(old, k, Taken(k))
  <2>1. PICK g \in Gateways : Made(g, k)
    BY <1>8 DEF AccountInv, CreatorInv
  <2>2. PICK s \in Standing(g) : Defines(s, k, Taken(k))
    BY <2>1 DEF Made
  <2>3. CASE g # self
    BY <2>1, <2>2, <2>3 DEF OthersMade, OthersClaim, Claims, Asks, Defines
  <2>4. CASE g = self
    BY <2>2, <2>4, NobodyAsks
  <2> QED
    BY <2>3, <2>4
<1>9. ASSUME NEW n \in Taken(k)', Asks(old, k, n)
      PROVE  OthersClaim(k, n)' \/ Asks(new, k, n)
  <2>1. k = old.target /\ n \in Named(old.listeners) /\ n \in Taken(k) /\ n \in Names
    BY <1>2, <1>9, TakenNow DEF Asks, Named
  <2>2. old.kind # "none"
    BY <1>3, <1>9, NobodyAsks
  <2>3. CASE old.kind = "ref" /\ ~k8sCache[k].live
    <3>1. k8s[k].live
      BY <2>1, NoK8sIs, NoneIs DEF K8sInv, Taken
    <3>2. ~Defines(old, k, Taken(k))
      BY <2>3 DEF Defines
    <3>3. OthersClaim(k, n) \/ Defines(new, k, Taken(k))
      BY <1>8, <2>1, <2>3, <3>1, <3>2 DEF Unseen
    <3> QED
      BY <1>4, <2>1, <3>3 DEF Defines, Asks
  <2>4. CASE old.kind = "ref" /\ Current(k) /\ k8s'[k].listeners = Without(k8sCache[k].listeners, old.listeners)
    <3>1. k8s'[k].listeners[n] = NoListener
      BY <1>3, <2>1, <2>4, WorkerSees, WithoutIs
    <3> QED
      BY <1>9, <3>1 DEF Taken, Named
  <2>5. CASE old.kind = "def"
    BY <1>6, <1>7, <1>9, <2>1, <2>5
  <2> QED
    BY <2>1, <2>2, <2>3, <2>4, <2>5 DEF Cleans
<1>10. ASSUME Unseen(k)'
       PROVE  OthersMade(k)' \/ Defines(new, k, Taken(k)')
  <2>1. Unseen(k) /\ Taken(k)' = Taken(k)
    BY <1>2, <1>10, TakenNow
  <2>2. ~Defines(old, k, Taken(k))
    BY <1>6, <1>7, <1>10 DEF Defines
  <2> QED
    BY <1>5, <1>8, <2>1, <2>2
<1> QED
  BY <1>9, <1>10

\* Applying a spec takes off what the last one asked for on the same Kubernetes Gateway.
LEMMA ApplyCleans ==
  ASSUME AccountInv, Next, CreateOrUpdateGateway, self' = self, localFresh, self \notin overtaken,
         LET k == local.spec.target IN Merges(k) \/ IsThere(k) \/ CreatesK8s(k),
         NEW old, NEW new, old = local.config, new = local.spec
  PROVE  Cleaned(old, new)'
<1> DEFINE t == new.target
<1> CoreInv /\ TypeInv /\ K8sInv
  BY DEF AccountInv, CoreInv
<1>1. /\ pc = "Apply" /\ ~local.deleting /\ UNCHANGED <<gw, overtaken>> /\ UNCHANGED k8sCache
  BY DEF CreateOrUpdateGateway, user, CoreInv, StageInv
<1>2. self \in Gateways /\ Standing(self) = {old, new}
  BY <1>1, LocalStands
<1>3. /\ new \in Wanted[self] /\ t \in K8sGateways /\ old.listeners \in Listeners
      /\ new.listeners \in Listeners
  BY <1>1, LocalSpecs, WantedIs
<1>4. Moved(local) => Cleaned(old, new)
  BY <1>1 DEF AccountInv, CleanedInv
<1>5. ~Moved(local) => old.target = t
  BY DEF Moved
<1>6. ASSUME NEW k \in K8sGateways
      PROVE  /\ \A n \in Taken(k)' : Asks(old, k, n) => OthersClaim(k, n)' \/ Asks(new, k, n)
             /\ Unseen(k)' => OthersMade(k)' \/ Defines(new, k, Taken(k)')
  <2>1. \A n : OthersClaim(k, n) => OthersClaim(k, n)'
    BY ClaimsKept DEF OthersClaim
  <2>2. Taken(k)' = Taken(k) /\ OthersMade(k) => OthersMade(k)'
    BY MadeKept DEF OthersMade
  <2>3. CASE k # t
    <3>1. k8s'[k] = k8s[k] /\ k8sCache'[k] = k8sCache[k]
      BY <1>1, <2>3 DEF Merges, IsThere, CreatesK8s, OnlyK8s
    <3>2. Taken(k)' = Taken(k) /\ Unseen(k)' = Unseen(k)
      BY <3>1 DEF Taken, Unseen
    <3>3. CASE Moved(local)
      BY <1>4, <2>1, <2>2, <3>2, <3>3 DEF Cleaned
    <3>4. CASE ~Moved(local)
      <4>1. ASSUME Unseen(k) PROVE OthersMade(k)
        <5>1. PICK g \in Gateways : Made(g, k)
          BY <4>1 DEF AccountInv, CreatorInv
        <5>2. g # self
          BY <1>2, <1>5, <2>3, <3>4, <5>1 DEF Made, Defines
        <5> QED
          BY <5>1, <5>2 DEF OthersMade
      <4>2. \A n : ~Asks(old, k, n)
        BY <1>5, <2>3, <3>4 DEF Asks
      <4> QED
        BY <2>2, <3>2, <4>1, <4>2
    <3> QED
      BY <3>3, <3>4
  <2>4. CASE k = t /\ Merges(t)
    <3>1. /\ k8s[k].listeners \in Listeners /\ k8sCache'[k].live
          /\ k8s'[k].listeners = Merged(k8s[k].listeners, old.listeners, new.listeners)
      BY <1>1, <2>4, WorkerSees DEF Merges
    <3>2. \A n \in Names : n \in Named(old.listeners) /\ n \notin Named(new.listeners) =>
            k8s'[k].listeners[n] = NoListener
      BY <3>1 DEF Merged
    <3>3. \A n \in Taken(k)' : n \in Names /\ k8s'[k].listeners[n] # NoListener
      BY DEF Taken, Named
    <3> QED
      BY <2>4, <3>1, <3>2, <3>3 DEF Asks, Unseen
  <2>5. CASE k = t /\ IsThere(t)
    <3>1. old.listeners = new.listeners /\ k8sCache'[k].live
      BY <1>1, <2>5 DEF IsThere, NeedReconcile
    <3> QED
      BY <2>5, <3>1 DEF Asks, Unseen
  <2>6. CASE k = t /\ CreatesK8s(t)
    <3>1. Taken(k)' = Named(new.listeners) \ {ForeignName} /\ new.kind = "def"
      BY <2>6 DEF CreatesK8s, Taken
    <3> QED
      BY <2>6, <3>1 DEF Asks, Defines
  <2> QED
    BY <2>3, <2>4, <2>5, <2>6
<1> QED
  BY <1>6 DEF Cleaned, Asks, Defines

LEMMA CleanedStep ==
  ASSUME AccountInv, Next
  PROVE  CleanedInv'
<1> CoreInv /\ TypeInv
  BY DEF AccountInv, CoreInv
<1> DEFINE Stage == (pc = "Apply" /\ Moved(local)) \/ (pc = "Status" /\ ~failed) \/ pc = "Annotate"
           Now(old, new) == Cleaned(old, new)'
<1>1. SUFFICES ASSUME localFresh', self' \notin overtaken', NEW old, NEW new,
                      \/ Stage' /\ old = local'.config /\ new = local'.spec
                      \/ pc' = "RemoveFinalizer" /\ old = local'.spec /\ new = NoSpec
               PROVE  Cleaned(old, new)'
  <2>1. ASSUME localFresh', self' \notin overtaken', Stage'
        PROVE  Cleaned(local.config, local.spec)'
    <3>1. \E old, new : old = local'.config /\ new = local'.spec /\ Cleaned(old, new)'
      BY <1>1, <2>1
    <3> QED
      BY <3>1 DEF Cleaned
  <2>2. ASSUME localFresh', self' \notin overtaken', pc' = "RemoveFinalizer"
        PROVE  Cleaned(local.spec, NoSpec)'
    <3>1. \E old, new : old = local'.spec /\ new = NoSpec /\ Cleaned(old, new)'
      BY <1>1, <2>2
    <3> QED
      BY <3>1 DEF Cleaned
  <2> QED
    BY <2>1, <2>2 DEF CleanedInv
<1>2. localFresh /\ self \notin overtaken =>
        /\ Stage => Cleaned(local.config, local.spec)
        /\ pc = "RemoveFinalizer" => Cleaned(local.spec, NoSpec)
  BY DEF AccountInv, CleanedInv
<1>3. pc' \in {"Apply", "Status", "Annotate", "RemoveFinalizer"}
  BY <1>1
<1>4. CASE WorkerStep
  <2>1. /\ pc # "Idle" /\ self \in Gateways /\ UNCHANGED overtaken
    BY <1>4, WorkerGoesOn
  <2>2. /\ self' = self /\ localFresh
        /\ (GoesOn /\ UNCHANGED gw /\ Alike(local', local)) \/ (Reports /\ local' = local)
    BY <1>1, <1>3, <1>4, WorkerKeepsLocal
  <2>3. self \notin overtaken /\ local'.config = local.config /\ local'.spec = local.spec
    BY <1>1, <2>1, <2>2 DEF Alike
  <2>4. Alike(local, gw[self])
    BY <2>1, <2>2 DEF CoreInv, CopiesInv
  <2>5. CASE Reports
    <3>1. pc = "Status" /\ ~failed /\ pc' = "Annotate" /\ local' = local
      BY <1>3, <2>5, <2>2 DEF Reports, Step, Fails, Ends, GoesOn
    <3>2. Cleaned(old, new) /\ ~CreateOrUpdateGateway
      BY <1>1, <1>2, <2>2, <2>3, <3>1 DEF CreateOrUpdateGateway
    <3> QED
      BY <2>2, <3>2, CleanedStays
  <2>6. CASE Step("CleanOld", "Apply") /\ UNCHANGED local
    <3>1. /\ CleanOld /\ Moved(local) /\ old = local.config /\ new = local.spec /\ pc = "CleanOld"
      BY <1>1, <1>4, <2>6 DEF Step, WorkerStep, AddFinalizer, CreateOrUpdateGateway, UpdateGatewayStatus,
         UpdateGatewayAnnotations, CreateOrUpdateService, CleanDeleted, RemoveFinalizer, Moved
    <3>2. Clean(local.config, "Apply")
      BY <3>1 DEF CleanOld
    <3>3. old \in Wanted[self] \union {NoSpec} /\ old \in GatewaySpec \union {NoSpec}
      BY <2>1, <3>1, WantedIs DEF TypeInv, SpecsInv, Sound
    <3>4. Cleans(old)
      BY <1>3, <3>1, <3>2, <3>3, CleanWrites DEF TypeInv, Fail, Leave
    <3>5. Standing(self) \subseteq {old, new, NoSpec}
      BY <2>3, <2>4, <3>1 DEF Standing, Alike
    <3> QED
      BY <2>1, <2>2, <3>1, <3>3, <3>4, <3>5, CleansOff
  <2>7. CASE Step("CleanDeleted", "RemoveFinalizer") /\ UNCHANGED local
    <3>1. /\ CleanDeleted /\ old = local.spec /\ new = NoSpec /\ pc = "CleanDeleted"
      BY <1>1, <1>4, <2>7 DEF Step, WorkerStep, AddFinalizer, CleanOld, CreateOrUpdateGateway, UpdateGatewayStatus,
         UpdateGatewayAnnotations, CreateOrUpdateService, RemoveFinalizer
    <3>2. Clean(local.spec, "RemoveFinalizer")
      BY <3>1 DEF CleanDeleted
    <3>3. old \in Wanted[self] \union {NoSpec} /\ old \in GatewaySpec \union {NoSpec}
      BY <2>1, <3>1, LocalSpecs, WantedIs
    <3>4. Cleans(old)
      BY <1>3, <3>1, <3>2, <3>3, CleanWrites DEF TypeInv, Fail, Leave
    <3>5. Standing(self) \subseteq {old, new, NoSpec}
      <4>1. local.deleting /\ gw[self].live
        BY <2>1, <2>2, <3>1 DEF CoreInv, StageInv, TypeInv, SpecsInv
      <4>2. gw[self].config \in {NoSpec, gw[self].spec}
        BY <2>1, <2>3, <2>4, <4>1 DEF CoreInv, LineInv, Alike
      <4> QED
        BY <2>3, <2>4, <3>1, <4>2 DEF Standing, Alike
    <3> QED
      BY <2>1, <2>2, <3>1, <3>3, <3>4, <3>5, CleansOff
  <2>8. CASE \E to \in {"Status", "Annotate"} : Step("Apply", to) /\ Alike(local', local)
    <3>1. /\ CreateOrUpdateGateway /\ old = local.config /\ new = local.spec
          /\ pc' \in {"Status", "Annotate"} /\ (pc' = "Status" => ~failed')
      BY <1>1, <1>4, <2>3, <2>8 DEF Step, WorkerStep, AddFinalizer, CleanOld, UpdateGatewayStatus,
         UpdateGatewayAnnotations, CreateOrUpdateService, CleanDeleted, RemoveFinalizer
    <3>2. ~Errs
      BY <3>1 DEF Errs, Fails, Ends, Step
    <3>3. LET k == local.spec.target IN Merges(k) \/ IsThere(k) \/ CreatesK8s(k)
      BY <3>1, <3>2, ApplyWrites
    <3> QED
      BY <2>2, <2>3, <3>1, <3>3, ApplyCleans
  <2> QED
    BY <1>3, <2>2, <2>5, <2>6, <2>7, <2>8 DEF GoesOn, Step
<1>5. CASE UNCHANGED <<pc, self, local, failed>> /\ (localFresh' => localFresh) /\ overtaken \subseteq overtaken' /\ ~WorkerStep
  <2>1. Cleaned(old, new)
    BY <1>1, <1>2, <1>5 DEF Moved
  <2>2. CASE ~CreateOrUpdateGateway
    BY <1>5, <2>1, <2>2, CleanedStays
  <2> QED
    BY <1>5, <2>2 DEF WorkerStep
<1>6. CASE Crash
  BY <1>3, <1>6 DEF Crash, Leave
<1>7. ASSUME NEW g \in Gateways, EditSpec(g) \/ DeleteGateway(g), ~WorkerStep
      PROVE  Cleaned(old, new)'
  BY <1>5, <1>7, UserWrites
<1>8. ASSUME NEW g \in Gateways, StartReconcile(g), ~WorkerStep
      PROVE  Cleaned(old, new)'
  <2>1. Begins(g) /\ UNCHANGED <<overtaken, failed>>
    BY <1>8, StartWrites DEF StartReconcile
  <2> QED
    BY <1>3, <1>5, <1>8, <2>1 DEF Begins, FirstStep
<1>9. ASSUME NEW g \in Gateways, SyncGateway(g), ~WorkerStep
      PROVE  Cleaned(old, new)'
  BY <1>5, <1>9, SyncWrites DEF TypeInv
<1>10. CASE /\ ~WorkerStep /\ ~Crash
            /\ ~\E g \in Gateways : StartReconcile(g) \/ SyncGateway(g) \/ EditSpec(g) \/ DeleteGateway(g)
  BY <1>5, <1>10, OthersWrite
<1> QED
  BY <1>4, <1>6, <1>7, <1>8, <1>9, <1>10

LEMMA AccountInit ==
  ASSUME Init
  PROVE  AccountInv
<1>1. PICK spec : FirstSpecs(spec) /\ FirstK8s(spec)
  BY InitIs
<1>2. pc = "Idle" /\ k8sCache = k8s /\ overtaken = {}
  BY DEF Init
<1>3. ClaimedInv
  <2>1. SUFFICES ASSUME NEW k \in K8sGateways, NEW n \in Taken(k)
                 PROVE  \E g \in Gateways : Claims(g, k, n)
    BY DEF ClaimedInv
  <2>2. PICK g \in Settled : Asks(spec[g], k, n)
    BY <1>1 DEF FirstK8s, Taken
  <2>3. g \in Gateways /\ gw[g].spec = spec[g] /\ gw[g].finalizer = TRUE
    BY <1>1, <2>2, FirstGateways, GatewayAssumption
  <2> QED
    BY <1>2, <2>2, <2>3 DEF Claims, Standing
<1> QED
  BY <1>2, <1>3, CoreInit DEF AccountInv, CreatorInv, Unseen, CleanedInv

LEMMA AccountInvHolds == Spec => []AccountInv
<1>1. AccountInv /\ UNCHANGED vars => AccountInv'
  <2> USE DEF vars, api, gwCaches, k8sCaches, worker, user
  <2>1. CoreInv /\ UNCHANGED vars => CoreInv'
    BY DEF CoreInv, TypeInv, TypeOK, SpecsInv, Sound, CopiesInv, Older, Alike, K8sInv, Current, Noticed,
       StageInv, GoneInv, LineInv
  <2>2. ClaimedInv /\ UNCHANGED vars => ClaimedInv'
    BY DEF ClaimedInv, Claims, Standing, Taken
  <2>3. CreatorInv /\ UNCHANGED vars => CreatorInv'
    BY DEF CreatorInv, Unseen, Made, Standing, Taken, Defines
  <2>4. CleanedInv /\ UNCHANGED vars => CleanedInv'
    BY DEF CleanedInv, Cleaned, OthersClaim, OthersMade, Claims, Made, Standing, Taken, Unseen, Defines, Moved
  <2> QED
    BY <2>1, <2>2, <2>3, <2>4 DEF AccountInv
<1>2. AccountInv /\ Next => AccountInv'
  <2>1. CoreInv /\ Next => CoreInv'
    BY TypeStep, SpecsStep, CopiesStep, K8sStep, StageStep, GoneStep, LineStep DEF CoreInv, TypeInv
  <2> QED
    BY <2>1, ClaimedStep, CreatorStep, CleanedStep DEF AccountInv
<1> QED
  BY <1>1, <1>2, AccountInit, PTL DEF Spec

\* No listener is left behind: whatever is on a Kubernetes Gateway is in the spec of a
\* Gateway or in its record of what was applied, unless it was changed before that
\* record was made.
THEOREM AccountedHolds == Spec => []Accounted
<1>1. ASSUME AccountInv
      PROVE  Accounted
  <2>1. SUFFICES ASSUME NEW k \in K8sGateways, NEW n \in Named(k8s[k].listeners) \ {ForeignName}
                 PROVE  \/ \E g \in Gateways : Asks(gw[g].spec, k, n) \/ Asks(gw[g].config, k, n)
                        \/ \E g \in overtaken : \E s \in Wanted[g] : Asks(s, k, n)
    BY DEF Accounted
  <2>2. PICK g \in Gateways : Claims(g, k, n)
    BY <1>1 DEF AccountInv, ClaimedInv, Taken
  <2> QED
    BY <2>2 DEF Claims, Standing
<1> QED
  BY <1>1, AccountInvHolds, PTL

-----------------------------------------------------------------------------
(* Every Gateway is applied in the end                                     *)

\* The listeners are where they should be, or the news that they are not is on its way.
Serves(k, spec) == k.live /\ \A n \in Named(spec.listeners) : k.listeners[n] = spec.listeners[n]
Placed(spec) == k8sNews[spec.target] = "noticed" \/ Serves(k8s[spec.target], spec)
InLine(g) == g \notin queue /\ gw[g].live /\ cache[g].gen = gw[g].gen
PlacedInv ==
  ((pc = "Status" /\ ~failed) \/ pc \in {"Annotate", "Service"}) /\ InLine(self) => Placed(local.spec)

\* A Gateway that nothing is coming for is done.
Done(g) ==
  /\ ~gw[g].deleting /\ gw[g].finalizer /\ gw[g].config = gw[g].spec
  /\ service[g] = ServiceOf(gw[g]) /\ Placed(gw[g].spec)
FollowInv == \A g \in Gateways : InLine(g) => (pc # "Idle" /\ self = g) \/ Done(g)
ReflectInv == CoreInv /\ PlacedInv /\ FollowInv

LEMMA InLineIs ==
  ASSUME CoreInv, NEW g \in Gateways, gw[g].live
  PROVE  /\ cache[g].live /\ gw[g].spec \in Wanted[g] /\ gw[g].spec.target \in K8sGateways
         /\ cache[g].gen = gw[g].gen => cache[g].spec = gw[g].spec
         /\ pc # "Idle" /\ self = g /\ InLine(g) =>
              /\ local.spec = gw[g].spec /\ local.deleting = gw[g].deleting
              /\ local.finalizer => gw[g].finalizer
              /\ local.config = local.spec => gw[g].config = gw[g].spec
<1>1. Older(cache[g], gw[g]) /\ gw[g].spec \in Wanted[g]
  BY DEF CoreInv, CopiesInv, TypeInv, SpecsInv, Sound
<1>2. gw[g].spec.target \in K8sGateways
  BY <1>1, WantedIs
<1>3. pc # "Idle" /\ self = g /\ InLine(g) => Older(local, gw[g]) /\ local.gen = gw[g].gen
  BY DEF CoreInv, CopiesInv, InLine
<1> QED
  BY <1>1, <1>2, <1>3 DEF Older

LEMMA PlacedKept ==
  ASSUME CoreInv, Next, NEW s, s.target \in K8sGateways, Placed(s)
  PROVE  Placed(s)' \/ Crash \/ (SyncK8sGateway(s.target) /\ k8sNews[s.target] = "noticed")
<1> DEFINE k == s.target
<1>1. CASE NewsFollow(k)
  BY <1>1 DEF NewsFollow, Noticed, Placed, Serves
<1>2. CASE SyncK8sGateway(k) /\ k8s'[k] = k8s[k] /\ k8sNews[k] # "noticed"
  BY <1>2 DEF Placed, Serves
<1> QED
  BY <1>1, <1>2, K8sWritten DEF CoreInv

\* A Gateway that is in line after a step was so before, or has begun.
LEMMA InLineBefore ==
  ASSUME CoreInv, Next, NEW g \in Gateways, g \notin queue', gw'[g].live, cache'[g].gen = gw'[g].gen
  PROVE  \/ InLine(g) /\ (~WorkerStep => gw'[g] = gw[g])
         \/ StartReconcile(g)
<1> CoreInv /\ TypeInv /\ TypeOK
  BY DEF CoreInv, TypeInv
<1>1. CASE WorkerStep
  <2>1. /\ self \in Gateways /\ Keeps /\ UNCHANGED cache /\ queue \subseteq queue'
    BY <1>1, WorkerGoesOn
  <2>2. gw[g].live /\ gw'[g].gen = gw[g].gen
    BY <1>1, <2>1, WorkerKeepsOlder DEF Keeps, CoreInv
  <2> QED
    BY <1>1, <2>1, <2>2 DEF InLine
<1>2. CASE Crash
  <2>1. g \in queue'
    BY <1>2 DEF Crash, api
  <2> QED
    BY <2>1
<1>3. ASSUME NEW h \in Gateways, EditSpec(h) \/ DeleteGateway(h)
      PROVE  InLine(g) /\ gw'[g] = gw[g]
  <2>1. /\ UNCHANGED <<cache, queue>>
        /\ \A x \in Gateways : x # h => gw'[x] = gw[x]
        /\ gw[h].live /\ (Edited(h) \/ Marked(h) \/ Vanished(h))
    BY <1>3, UserWrites
  <2>2. cache[h].gen <= gw[h].gen
    BY <2>1 DEF CoreInv, CopiesInv, Older
  <2>3. g # h
    BY <2>1, <2>2, Gens, NoGatewayIs DEF Edited, Marked, Vanished
  <2> QED
    BY <2>1, <2>3 DEF InLine
<1>4. ASSUME NEW h \in Gateways, StartReconcile(h)
      PROVE  (InLine(g) /\ gw'[g] = gw[g]) \/ StartReconcile(g)
  <2>1. Begins(h) /\ UNCHANGED <<gw, cache>>
    BY <1>4, StartWrites
  <2> QED
    BY <1>4, <2>1 DEF Begins, InLine
<1>5. ASSUME NEW h \in Gateways, SyncGateway(h)
      PROVE  InLine(g) /\ gw'[g] = gw[g]
  <2>1. /\ UNCHANGED gw /\ cache'[h] = gw[h] /\ queue \subseteq queue'
        /\ \A x \in Gateways : x # h => cache'[x] = cache[x]
        /\ h \in queue' \/ (cache[h].live = gw[h].live /\ cache[h].gen = gw[h].gen)
    BY <1>5, SyncWrites
  <2> QED
    BY <2>1 DEF InLine
<1>6. CASE /\ ~WorkerStep /\ ~Crash
           /\ ~\E h \in Gateways : StartReconcile(h) \/ SyncGateway(h) \/ EditSpec(h) \/ DeleteGateway(h)
  <2>1. UNCHANGED <<gw, cache>> /\ queue \subseteq queue'
    BY <1>6, OthersWrite
  <2> QED
    BY <2>1 DEF InLine
<1> QED
  BY <1>1, <1>2, <1>3, <1>4, <1>5, <1>6

\* News of a Kubernetes Gateway reaches those in line who refer to it.
LEMMA NewsReach ==
  ASSUME CoreInv, NEW g \in Gateways, InLine(g), SyncK8sGateway(gw[g].spec.target),
         k8sNews[gw[g].spec.target] = "noticed"
  PROVE  g \in queue'
<1>1. cache[g].live /\ cache[g].spec = gw[g].spec
  BY InLineIs DEF InLine
<1> QED
  BY <1>1 DEF SyncK8sGateway, Attached

LEMMA PlacedStep ==
  ASSUME CoreInv, PlacedInv, Next
  PROVE  PlacedInv'
<1> TypeInv /\ TypeOK
  BY DEF CoreInv, TypeInv
<1> DEFINE Stage == (pc = "Status" /\ ~failed) \/ pc \in {"Annotate", "Service"}
<1>1. SUFFICES ASSUME NEW s, s = local'.spec, Stage', self' \notin queue', gw'[self'].live,
                      cache'[self'].gen = gw'[self'].gen
               PROVE  Placed(s)'
  BY DEF PlacedInv, InLine, Placed, Serves
<1>2. ~Crash /\ pc' # "Idle"
  BY <1>1 DEF Crash, Leave
<1>3. ~\E g \in Gateways : StartReconcile(g)
  <2>1. ASSUME NEW g \in Gateways, StartReconcile(g) PROVE FALSE
    BY <1>1, <2>1, StartWrites DEF Begins, FirstStep
  <2> QED
    BY <2>1
<1>4. /\ self' = self /\ self \in Gateways /\ local'.spec = s /\ local.spec = s /\ pc # "Idle"
      /\ ~WorkerStep => pc' = pc /\ failed' = failed
  <2>1. CASE WorkerStep
    BY <1>1, <1>2, <2>1, WorkerKeepsLocal, WorkerGoesOn DEF Alike
  <2>2. CASE ~WorkerStep
    <3>1. UNCHANGED <<pc, self, local, failed>>
      <4>1. ASSUME NEW g \in Gateways, EditSpec(g) \/ DeleteGateway(g)
            PROVE  UNCHANGED <<pc, self, local, failed>>
        BY <4>1, UserWrites
      <4>2. ASSUME NEW g \in Gateways, SyncGateway(g)
            PROVE  UNCHANGED <<pc, self, local, failed>>
        BY <4>2, SyncWrites
      <4>3. CASE ~\E g \in Gateways : StartReconcile(g) \/ SyncGateway(g) \/ EditSpec(g) \/ DeleteGateway(g)
        BY <1>2, <2>2, <4>3, OthersWrite
      <4> QED
        BY <1>3, <4>1, <4>2, <4>3
    <3>2. pc # "Idle" => self \in Gateways
      BY DEF TypeInv, SpecsInv
    <3> QED
      BY <1>1, <1>2, <3>1, <3>2
  <2> QED
    BY <2>1, <2>2
<1>5. InLine(self)
  BY <1>1, <1>3, <1>4, InLineBefore
<1>6. s \in Wanted[self] /\ s.target \in K8sGateways /\ gw[self].spec = s
  BY <1>4, <1>5, InLineIs DEF InLine
<1>7. ASSUME Placed(s)
      PROVE  Placed(s)'
  BY <1>1, <1>2, <1>4, <1>5, <1>6, <1>7, PlacedKept, NewsReach
<1>8. CASE ~WorkerStep
  BY <1>1, <1>4, <1>5, <1>7, <1>8 DEF PlacedInv
<1>9. CASE WorkerStep
  <2>1. GoesOn \/ Reports \/ (localFresh /\ (pc' = "CleanOld" \/ Records))
    BY <1>2, <1>9, WorkerKeepsLocal
  <2>2. CASE Step("Apply", "Status") \/ Step("Apply", "Annotate")
    <3>1. CreateOrUpdateGateway
      BY <1>9, <2>2 DEF Step, WorkerStep, AddFinalizer, CleanOld, UpdateGatewayStatus,
         UpdateGatewayAnnotations, CreateOrUpdateService, CleanDeleted, RemoveFinalizer
    <3>2. ~Errs
      BY <1>1, <2>2 DEF Errs, Fails, Ends, Step
    <3>3. Merges(s.target) \/ IsThere(s.target) \/ CreatesK8s(s.target)
      BY <1>4, <3>1, <3>2, ApplyWrites
    <3>4. CASE Merges(s.target)
      <4>1. /\ k8s'[s.target].live
            /\ k8s'[s.target].listeners =
                 Merged(k8sCache[s.target].listeners, local.config.listeners, s.listeners)
        BY <1>4, <3>4 DEF Merges
      <4>2. \A n \in Named(s.listeners) : k8s'[s.target].listeners[n] = s.listeners[n]
        BY <4>1 DEF Merged, Named
      <4> QED
        BY <4>1, <4>2 DEF Placed, Serves
    <3>5. CASE IsThere(s.target)
      <4>1. /\ Serves(k8sCache[s.target], s) /\ UNCHANGED <<k8s, k8sNews>>
        BY <1>4, <3>5 DEF IsThere, NeedReconcile, Serves
      <4>2. k8sNews[s.target] # "noticed" => ~Noticed(k8sCache[s.target], k8s[s.target])
        BY <1>6 DEF CoreInv, K8sInv
      <4> QED
        BY <4>1, <4>2 DEF Noticed, Placed, Serves
    <3>6. CASE CreatesK8s(s.target)
      BY <1>4, <3>6 DEF CreatesK8s, Placed, Serves
    <3> QED
      BY <3>3, <3>4, <3>5, <3>6
  <2>3. CASE pc \in {"Status", "Annotate"}
    <3>1. pc = "Status" => ~failed
      BY <1>1, <1>2, <2>1, <2>3 DEF GoesOn, Step, Reports, Fails, Ends, Records
    <3> QED
      BY <1>4, <1>5, <1>7, <2>3, <3>1 DEF PlacedInv
  <2> QED
    BY <1>1, <2>1, <2>2, <2>3 DEF GoesOn, Step, Reports, Records
<1> QED
  BY <1>8, <1>9

LEMMA FollowStep ==
  ASSUME ReflectInv, Next
  PROVE  FollowInv'
<1> CoreInv /\ TypeInv /\ TypeOK
  BY DEF ReflectInv, CoreInv, TypeInv
<1>1. SUFFICES ASSUME NEW g \in Gateways, g \notin queue', gw'[g].live, cache'[g].gen = gw'[g].gen,
                      pc' = "Idle" \/ self' # g
               PROVE  Done(g)'
  BY DEF FollowInv, InLine, Done, Placed, Serves, ServiceOf
<1>2. CASE StartReconcile(g)
  <2>1. gw[g].live /\ cache[g].live
    BY <1>1, <1>2, StartWrites, InLineIs
  <2>2. cache[g].deleting => cache[g].finalizer
    BY DEF TypeInv, SpecsInv, Sound
  <2> QED
    BY <1>1, <1>2, <2>1, <2>2, StartWrites DEF Begins, FirstStep
<1>3. CASE ~StartReconcile(g)
  <2>1. InLine(g) /\ (~WorkerStep => gw'[g] = gw[g])
    BY <1>1, <1>3, InLineBefore
  <2>2. gw[g].spec.target \in K8sGateways
    BY <2>1, InLineIs DEF InLine
  <2>3. ~Crash
    BY <1>1 DEF Crash, api
  <2>4. ASSUME Placed(gw[g].spec)
        PROVE  \A s : s = gw[g].spec => Placed(s)'
    BY <1>1, <2>1, <2>2, <2>3, <2>4, PlacedKept, NewsReach
  <2>5. ASSUME Done(g), gw'[g] = gw[g], service'[g] = service[g]
        PROVE  Done(g)'
    BY <2>4, <2>5 DEF Done, ServiceOf
  <2>6. CASE WorkerStep /\ g # self
    <3>1. gw'[g] = gw[g] /\ service'[g] = service[g]
      BY <1>1, <2>6, WorkerGoesOn DEF Keeps
    <3>2. Done(g)
      BY <2>1, <2>6 DEF ReflectInv, FollowInv
    <3> QED
      BY <2>5, <3>1, <3>2
  <2>7. CASE WorkerStep /\ g = self
    <3>1. pc # "Idle" /\ (pc' = "Idle" \/ self' # self)
      BY <1>1, <2>7, WorkerGoesOn
    <3>2. pc' = "Idle"
      BY <2>7, <3>1, WorkerKeepsLocal
    <3>3. PutsService
      BY <1>1, <2>7, <3>2, WorkerGoesOn, NoGatewayIs DEF Fails, GetsFinalizer, GoesOn, Reports, Records, Removes, Step
    <3>4. pc = "Service" /\ UNCHANGED gw /\ service'[g] = ServiceOf(local)
      BY <1>1, <2>7, <3>3 DEF PutsService
    <3>5. ~local.deleting /\ local.finalizer /\ local.config = local.spec
      BY <3>4 DEF CoreInv, StageInv
    <3>6. /\ local.spec = gw[g].spec /\ ~gw[g].deleting /\ gw[g].finalizer
          /\ gw[g].config = gw[g].spec
      BY <2>1, <2>7, <3>1, <3>5, InLineIs DEF InLine
    <3>7. Placed(gw[g].spec)
      BY <2>1, <2>7, <3>4, <3>6 DEF ReflectInv, PlacedInv
    <3> QED
      BY <2>4, <3>4, <3>6, <3>7 DEF Done, ServiceOf
  <2>8. CASE ~WorkerStep
    <3>1. pc = "Idle" \/ self # g
      <4>1. pc # "Idle" => pc' = pc /\ self' = self
        <5>1. ASSUME NEW h \in Gateways, EditSpec(h) \/ DeleteGateway(h) PROVE UNCHANGED <<pc, self>>
          BY <5>1, UserWrites
        <5>2. ASSUME NEW h \in Gateways, SyncGateway(h) PROVE UNCHANGED <<pc, self>>
          BY <5>2, SyncWrites
        <5>3. ASSUME NEW h \in Gateways, StartReconcile(h) PROVE pc = "Idle"
          BY <5>3, StartWrites DEF Begins
        <5>4. CASE ~\E h \in Gateways : StartReconcile(h) \/ SyncGateway(h) \/ EditSpec(h) \/ DeleteGateway(h)
          BY <2>3, <2>8, <5>4, OthersWrite
        <5> QED
          BY <5>1, <5>2, <5>3, <5>4
      <4> QED
        BY <1>1, <4>1
    <3>2. service'[g] = service[g]
      <4>1. ASSUME NEW h \in Gateways, EditSpec(h) \/ DeleteGateway(h) PROVE service'[g] = service[g]
        BY <1>1, <4>1, UserWrites
      <4>2. ASSUME NEW h \in Gateways, SyncGateway(h) \/ StartReconcile(h) PROVE service'[g] = service[g]
        BY <4>2, SyncWrites, StartWrites
      <4>3. CASE ~\E h \in Gateways : StartReconcile(h) \/ SyncGateway(h) \/ EditSpec(h) \/ DeleteGateway(h)
        BY <2>3, <2>8, <4>3, OthersWrite
      <4> QED
        BY <4>1, <4>2, <4>3
    <3>3. Done(g)
      BY <2>1, <3>1 DEF ReflectInv, FollowInv
    <3> QED
      BY <2>1, <2>5, <2>8, <3>2, <3>3
  <2> QED
    BY <2>6, <2>7, <2>8
<1> QED
  BY <1>2, <1>3

LEMMA ReflectInit ==
  ASSUME Init
  PROVE  ReflectInv
<1>1. PICK spec : FirstSpecs(spec) /\ FirstK8s(spec)
  BY InitIs
<1>2. pc = "Idle" /\ queue = Gateways \ Settled
  BY DEF Init
<1>3. ASSUME NEW g \in Settled
      PROVE  Done(g)
  <2>1. /\ g \in Gateways /\ spec[g] \in Wanted[g] /\ gw[g].spec = spec[g] /\ gw[g].config = spec[g]
        /\ gw[g].finalizer = TRUE /\ gw[g].deleting = FALSE /\ spec[g].target \in K8sGateways
    BY <1>1, FirstGateways, WantedIs, GatewayAssumption
  <2>2. service[g] = ServiceOf(gw[g])
    BY <1>1, <2>1 DEF FirstSpecs
  <2>3. Serves(k8s[spec[g].target], spec[g])
    BY <1>1, <2>1 DEF FirstK8s, Serves
  <2> QED
    BY <2>1, <2>2, <2>3 DEF Done, Placed
<1> QED
  BY <1>2, <1>3, CoreInit DEF ReflectInv, PlacedInv, FollowInv, InLine

LEMMA ReflectInvHolds == Spec => []ReflectInv
<1>1. ReflectInv /\ UNCHANGED vars => ReflectInv'
  <2> USE DEF vars, api, gwCaches, k8sCaches, worker, user
  <2>1. CoreInv /\ UNCHANGED vars => CoreInv'
    BY DEF CoreInv, TypeInv, TypeOK, SpecsInv, Sound, CopiesInv, Older, Alike, K8sInv, Current, Noticed,
       StageInv, GoneInv, LineInv
  <2>2. PlacedInv /\ UNCHANGED vars => PlacedInv'
    BY DEF PlacedInv, InLine, Placed, Serves
  <2>3. FollowInv /\ UNCHANGED vars => FollowInv'
    BY DEF FollowInv, InLine, Done, Placed, Serves, ServiceOf
  <2> QED
    BY <2>1, <2>2, <2>3 DEF ReflectInv
<1>2. ReflectInv /\ Next => ReflectInv'
  <2>1. CoreInv /\ Next => CoreInv'
    BY TypeStep, SpecsStep, CopiesStep, K8sStep, StageStep, GoneStep, LineStep DEF CoreInv, TypeInv
  <2> QED
    BY <2>1, PlacedStep, FollowStep DEF ReflectInv
<1> QED
  BY <1>1, <1>2, ReflectInit, PTL DEF Spec

\* When nothing is left to do, every Gateway is applied: no event that mattered was
\* missed, whoever changed what in between.
THEOREM ReflectedHolds == Spec => []Reflected
<1>1. ASSUME ReflectInv
      PROVE  Reflected
  <2>1. SUFFICES ASSUME Quiet, NEW g \in Gateways, gw[g].live
                 PROVE  Applied(g)
    BY DEF Reflected
  <2>2. CoreInv
    BY <1>1 DEF ReflectInv
  <2>3. InLine(g)
    BY <2>1, <2>2 DEF Quiet, InLine, CoreInv, TypeInv, SpecsInv
  <2>4. Done(g)
    BY <1>1, <2>1, <2>3 DEF ReflectInv, FollowInv, Quiet
  <2>5. gw[g].spec.target \in K8sGateways
    BY <2>1, <2>2, InLineIs
  <2>6. Serves(k8s[gw[g].spec.target], gw[g].spec)
    BY <2>1, <2>4, <2>5 DEF Done, Placed, Quiet, Current
  <2> QED
    BY <2>4, <2>6 DEF Applied, Done, Serves
<1> QED
  BY <1>1, ReflectInvHolds, PTL
=============================================================================
