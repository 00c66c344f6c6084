--------------------------- MODULE TriggerController ---------------------------
(***************************************************************************)
(* The Trigger reconciler (controllers/events/trigger_controller.go): one  *)
(* worker that makes a Function of a Trigger, and the watches that queue   *)
(* its work.  What it makes of the subscribers is in Subscribers, the      *)
(* buses are in EventBuses; steps, caches and conflicts are as in          *)
(* EventSourceController.  Triggers and their inputs are of one namespace. *)
(***************************************************************************)
EXTENDS EventBuses, Subscribers

CONSTANTS
  Triggers,
  Inputs,            \* what an input may name: an EventSource and its event
  TriggerSpecs       \* the specs users apply

TriggerSpecOK(spec) ==
  /\ spec.bus \in Buses \union {None} /\ spec.inputs \subseteq Inputs
  /\ spec.subscribers # Nothing =>
       /\ Range(spec.subscribers) \subseteq Subscriber
       \* The dead letter sink of a subscriber without a sink ends the operator: createSinkComponent
       \* is given the missing sink.
       /\ \A sub \in Range(spec.subscribers) : sub.deadLetterSink # Nothing => sub.sink # Nothing
ASSUME TriggerAssumption == \A spec \in TriggerSpecs : TriggerSpecOK(spec)

VARIABLES
  tr,              \* the Triggers in the API server
  trCache,         \* the informer cache
  tfn,             \* the Function of each Trigger: the spec and the bus it was made from
  trQueue,         \* the work queue
  trBusEvents,     \* changes of buses that the watches have not mapped yet
  trPc, trCur,     \* the worker and the Trigger it is at
  trLocal,         \* its copy
  trVersion,       \* what it found of the bus
  overlooked       \* history: triggers a ClusterEventBus change passed by
trWorker == <<trPc, trCur, trLocal, trVersion>>
trVars == <<tr, trCache, tfn, trQueue, trBusEvents, trWorker, overlooked>>

-----------------------------------------------------------------------------
(* Types and initial state                                                 *)

Trigger ==
  [spec : TriggerSpecs, gen : Nat, label : Buses \union {None},
   cond : {"None", "Ready", "Error"}, saves : 0 .. 1]
\* What a Function is made from.
MadeFrom == [spec : TriggerSpecs, version : Versions]
ASSUME MadeFromAssumption == None \notin MadeFrom

TriggerTypeOK ==
  /\ tr \in [Triggers -> Trigger] /\ trCache \in [Triggers -> Trigger]
  /\ \A t \in Triggers : tr[t].gen <= MaxChanges /\ trCache[t].gen <= tr[t].gen
  /\ tfn \in [Triggers -> MadeFrom \union {None}]
  /\ trQueue \subseteq Triggers /\ overlooked \subseteq Triggers
  /\ trBusEvents \subseteq Kinds \X Buses
  /\ trPc \in {"Idle", "Function", "Update", "Ready", "Error"} /\ trCur \in Triggers \union {None}
  /\ trLocal \in Trigger \union {None} /\ trVersion \in BusSpecs

\* A user has just applied the Triggers.
TriggerInit ==
  /\ \E spec \in [Triggers -> TriggerSpecs] :
       tr = [t \in Triggers |-> [spec |-> spec[t], gen |-> 0, label |-> None,
                            cond |-> "None", saves |-> 0]]
  /\ trCache = tr /\ tfn = [t \in Triggers |-> None]
  /\ trQueue = Triggers /\ trBusEvents = {} /\ overlooked = {}
  /\ trPc = "Idle" /\ trCur = None /\ trLocal = None /\ trVersion = None

-----------------------------------------------------------------------------
(* The reconciler                                                          *)

\* What handleSubscriber makes of the subscribers of each spec.
Made == [spec \in TriggerSpecs |-> HandleSubscriber(spec.subscribers)]

\* addEventBusForFunction and what handleSubscriber adds: the function that is made
\* of a spec and the version of a bus.
TriggerFunction(f) ==
  [version |-> f.version, inputs |-> f.spec.inputs, outputs |-> Made[f.spec].outputs,
   bindings |-> Made[f.spec].bindings, config |-> Made[f.spec].config]

\* Without a bus, or a sink that can be found, or subscribers, it fails at once.
Refused(spec, version) ==
  spec.bus = None \/ version = None \/ Made[spec].failed

\* Reconcile up to the first write: the Trigger, its bus and its subscribers.
StartTrigger(t) ==
  LET spec == trCache[t].spec
      version == IF spec.bus = None THEN None ELSE RetrieveBus(busCache, spec.bus) IN
  /\ trPc = "Idle" /\ t \in trQueue
  /\ trQueue' = trQueue \ {t}
  /\ overlooked' = overlooked \ {t}
  /\ trCur' = t /\ trLocal' = trCache[t] /\ trVersion' = version
  /\ trPc' = IF Refused(spec, version) THEN "Error" ELSE "Function"
  /\ UNCHANGED <<tr, trCache, tfn, trBusEvents>>

\* createOrUpdateTriggerFunction.  A bus without NATS streaming is not an error, but
\* it leaves the function without a name, and that is refused.
WriteTriggerFunction ==
  /\ trPc = "Function"
  /\ IF trVersion = NoNats THEN trPc' = "Error" /\ UNCHANGED tfn
     ELSE trPc' = "Update" /\ tfn' = [tfn EXCEPT ![trCur] = [spec |-> trLocal.spec, version |-> trVersion]]
  /\ UNCHANGED <<tr, trCache, trQueue, trBusEvents, trCur, trLocal, trVersion, overlooked>>

\* mutateTrigger.
LabelTrigger(t) == [t EXCEPT !.label = t.spec.bus]

\* ctrl.CreateOrUpdate of the Trigger, read again.
UpdateTrigger ==
  LET seen == trCache[trCur]
      new == LabelTrigger(seen) IN
  /\ trPc = "Update"
  /\ \/ new = seen /\ trPc' = "Ready" /\ trLocal' = seen /\ UNCHANGED tr
     \/ new # seen /\ tr[trCur] = seen
        /\ tr' = [tr EXCEPT ![trCur] = new] /\ trLocal' = new /\ trPc' = "Ready"
     \/ new # seen /\ tr[trCur] # seen
        /\ trPc' = "Error" /\ trLocal' = seen /\ UNCHANGED tr
  /\ UNCHANGED <<trCache, tfn, trQueue, trBusEvents, trCur, trVersion, overlooked>>

\* SaveStatus: an error is logged and forgotten.
SavedTrigger(cond) ==
  IF tr[trCur] = trLocal THEN [tr EXCEPT ![trCur].cond = cond, ![trCur].saves = 1 - @] ELSE tr

RetryTrigger ==  \* mutated form: a refused save is tried again with the same copy
  /\ trPc = "Ready" /\ tr[trCur] = trLocal /\ tr' = SavedTrigger("Ready") /\ trPc' = "Idle"
  /\ UNCHANGED <<trCache, tfn, trQueue, trBusEvents, trCur, trLocal, trVersion, overlooked>>
ReadyTrigger ==
  /\ trPc = "Ready" /\ tr' = SavedTrigger("Ready") /\ trPc' = "Idle"
  /\ UNCHANGED <<trCache, tfn, trQueue, trBusEvents, trCur, trLocal, trVersion, overlooked>>

GiveUpTrigger ==  \* mutated form: the error is swallowed
  /\ trPc = "Error" /\ tr' = SavedTrigger("Error") /\ trPc' = "Idle"
  /\ UNCHANGED <<trCache, tfn, trQueue, trBusEvents, trCur, trLocal, trVersion, overlooked>>
FailTrigger ==
  /\ trPc = "Error" /\ tr' = SavedTrigger("Error") /\ trPc' = "Idle"
  /\ trQueue' = trQueue \union {trCur}
  /\ UNCHANGED <<trCache, tfn, trBusEvents, trCur, trLocal, trVersion, overlooked>>

-----------------------------------------------------------------------------
(* The watches                                                             *)

SyncTrigger(t) ==
  /\ trCache[t] # tr[t]
  /\ trCache' = [trCache EXCEPT ![t] = tr[t]]
  /\ trQueue' = IF tr[t].gen = trCache[t].gen THEN trQueue ELSE trQueue \union {t}
  /\ UNCHANGED <<tr, tfn, trBusEvents, trWorker, overlooked>>

SeeTriggerBus(o) ==
  /\ CatchUpBus(o)
  /\ trBusEvents' = trBusEvents \union {o}
  /\ UNCHANGED <<tr, trCache, tfn, trQueue, trWorker, overlooked>>

MapTriggerBus(b) ==
  /\ <<"EventBus", b>> \in trBusEvents
  /\ trBusEvents' = trBusEvents \ {<<"EventBus", b>>}
  /\ trQueue' = trQueue \union {t \in Triggers : trCache[t].spec.bus = b}
  /\ UNCHANGED <<tr, trCache, tfn, trWorker, overlooked>>

\* The Triggers with the label of a ClusterEventBus, unless an EventBus hides it.
BusOfTrigger(t) == trCache[t].spec.bus
MapTriggerClusterBus(b) ==
  LET labelled == {t \in Triggers : trCache[t].label = b}
      hidden == {t \in Triggers : BusOfTrigger(t) # None /\ busCache[<<"EventBus", BusOfTrigger(t)>>] # None} IN
  /\ <<"ClusterEventBus", b>> \in trBusEvents
  /\ trBusEvents' = trBusEvents \ {<<"ClusterEventBus", b>>}
  /\ trQueue' = trQueue \union (labelled \ hidden)
  /\ overlooked' = overlooked \union {t \in Triggers \ labelled :
                                       (trPc # "Idle" /\ trCur = t) \/ tr[t].label # trCache[t].label}
  /\ UNCHANGED <<tr, trCache, tfn, trWorker>>

-----------------------------------------------------------------------------
(* Users and faults                                                        *)

EditTrigger(t) ==
  /\ Change
  /\ \E spec \in TriggerSpecs \ {tr[t].spec} : tr' = [tr EXCEPT ![t].spec = spec, ![t].gen = @ + 1]
  /\ UNCHANGED <<trCache, tfn, trQueue, trBusEvents, trWorker, overlooked>>

\* The write of the function or of the Trigger fails, or its reply is lost.
TriggerWriteFails ==
  LET seen == trCache[trCur] IN
  /\ Change /\ trPc' = "Error"
  /\ \/ /\ trPc = "Function" /\ trVersion # NoNats
        /\ \/ UNCHANGED tfn
           \/ tfn' = [tfn EXCEPT ![trCur] = [spec |-> trLocal.spec, version |-> trVersion]]
        /\ UNCHANGED <<tr, trLocal>>
     \/ /\ trPc = "Update" /\ LabelTrigger(seen) # seen
        /\ \/ UNCHANGED tr
           \/ tr[trCur] = seen /\ tr' = [tr EXCEPT ![trCur] = LabelTrigger(seen)]
        /\ trLocal' = seen /\ UNCHANGED tfn
  /\ UNCHANGED <<trCache, trQueue, trBusEvents, trCur, trVersion, overlooked>>

\* The operator restarts: caches are listed anew and everything is queued.
RestartTrigger ==
  /\ trCache' = tr /\ trQueue' = Triggers
  /\ trBusEvents' = {} /\ overlooked' = {} /\ trPc' = "Idle"
  /\ UNCHANGED <<tr, tfn, trCur, trLocal, trVersion>>

-----------------------------------------------------------------------------
TriggerStep ==
  \/ \E t \in Triggers : StartTrigger(t)
  \/ WriteTriggerFunction \/ UpdateTrigger \/ ReadyTrigger \/ FailTrigger
TriggerWatch ==
  \/ \E t \in Triggers : SyncTrigger(t)
  \/ \E b \in Buses : MapTriggerBus(b) \/ MapTriggerClusterBus(b)
TriggerTrouble == (\E t \in Triggers : EditTrigger(t)) \/ TriggerWriteFails
=============================================================================
