------------------------- MODULE EventSourceController -------------------------
(***************************************************************************)
(* The EventSource reconciler (controllers/events/                         *)
(* eventsource_controller.go): one worker that turns every event of an     *)
(* EventSource into a Function, and the watches that queue its work.       *)
(*                                                                         *)
(* Every API write is a step of its own; reads come from the informer      *)
(* caches.  A write that carries an old copy of the EventSource conflicts: *)
(* the copy is old when it differs from the object in the API server.      *)
(* Conditions are abstracted to the last one.  A sink is its uri: one with *)
(* a ref alone ends the operator at line 166 and is left out, as are names *)
(* that collide after the hyphens are joined.                              *)
(***************************************************************************)
EXTENDS EventBuses

CONSTANTS
  Sources,          \* EventSources of one namespace
  Events,           \* names of events, each with its kind (kafka, cron, mqtt, redis)
  Uris,             \* uris of sinks
  EmptyUri,         \* the empty string for a uri, which r.newSinkUri is at first
  SourceSpecs,      \* the specs users apply
  MaxGen            \* bound: how often a spec is written, by users and by the reconciler

SourceSpec == [bus : Buses \union {None}, sink : Uris \union {EmptyUri, None}, events : SUBSET Events]
ASSUME SourceAssumption ==
  SourceSpecs \subseteq SourceSpec /\ MaxGen \in Nat

VARIABLES
  es,              \* the EventSources in the API server
  esCache,         \* the informer cache
  fn,              \* the Function of each event: what its serving section was made from
  esQueue,         \* the work queue
  esBusEvents,     \* changes of buses that the watches have not mapped to EventSources yet
  esPc, esCur,     \* the worker and the EventSource it is at
  esLocal,         \* its copy
  esVersion,       \* what it found of the bus
  esTodo,          \* events whose function is still to be written
  newSinkUri,      \* r.newSinkUri, which outlives the reconcile
  missed           \* history: sources a ClusterEventBus change passed by, see MapClusterBus
esWorker == <<esPc, esCur, esLocal, esVersion, esTodo, newSinkUri>>
esVars == <<es, esCache, fn, esQueue, esBusEvents, esWorker, missed>>

-----------------------------------------------------------------------------
(* Types and initial state                                                 *)

\* cond is the type of the last condition; saves counts modulo 2 how often the status
\* was written, which changes the object every time: conditions are appended.
EventSource ==
  [live : BOOLEAN, spec : SourceSpec, gen : Nat, label : Buses \union {None},
   cond : {"None", "Ready", "Error"}, saves : 0 .. 1]
Serving == [version : Versions \union {None}, sink : Uris \union {EmptyUri, None}]
ASSUME ServingAssumption == None \notin Serving

SourceTypeOK ==
  /\ es \in [Sources -> EventSource] /\ esCache \in [Sources -> EventSource]
  /\ \A s \in Sources : es[s].gen <= MaxGen + 1 /\ esCache[s].gen <= es[s].gen
  /\ fn \in [Sources \X Events -> Serving \union {None}]
  /\ esQueue \subseteq Sources /\ missed \subseteq Sources
  /\ esBusEvents \subseteq Kinds \X Buses
  /\ esPc \in {"Idle", "Functions", "Update", "Ready", "Error"} /\ esCur \in Sources \union {None}
  /\ esLocal \in EventSource \union {None} /\ esVersion \in BusSpecs /\ esTodo \subseteq Events
  /\ newSinkUri \in Uris \union {EmptyUri}

\* A user has just applied the EventSources.
SourceInit ==
  /\ \E spec \in [Sources -> SourceSpecs] :
       es = [s \in Sources |-> [live |-> TRUE, spec |-> spec[s], gen |-> 0, label |-> None,
                           cond |-> "None", saves |-> 0]]
  /\ esCache = es /\ fn = [o \in Sources \X Events |-> None]
  /\ esQueue = Sources /\ esBusEvents = {} /\ missed = {}
  /\ esPc = "Idle" /\ esCur = None /\ esLocal = None
  /\ esVersion = None /\ esTodo = {} /\ newSinkUri = EmptyUri

-----------------------------------------------------------------------------
(* The reconciler                                                          *)

\* Reconcile, for an EventSource that is gone.
SourceGone(s) ==
  /\ esPc = "Idle" /\ s \in esQueue /\ ~esCache[s].live
  /\ esQueue' = esQueue \ {s}
  /\ missed' = missed \ {s}
  /\ UNCHANGED <<es, esCache, fn, esBusEvents, esWorker>>

\* Either an output is missing, or the bus, or what the bus is made of.
Misconfigured(spec, version) ==
  \/ spec.bus = None /\ spec.sink = None
  \/ spec.bus # None /\ version \in {None, NoNats}

\* Reconcile up to the first write: the EventSource and its bus are read.  Between a
\* cache that lags and UpdateSource a sink can change back and forth for as long as the
\* lag lasts; after MaxGen writes the cache is up to date when a reconcile starts.
StartSource(s) ==
  LET spec == esCache[s].spec
      version == IF spec.bus = None THEN None ELSE RetrieveBus(busCache, spec.bus) IN
  /\ esPc = "Idle" /\ s \in esQueue /\ esCache[s].live
  /\ es[s].gen < MaxGen \/ esCache[s] = es[s]
  /\ esQueue' = esQueue \ {s}
  /\ missed' = missed \ {s}
  /\ esCur' = s /\ esLocal' = esCache[s] /\ esVersion' = version
  /\ IF Misconfigured(spec, version)
     THEN esPc' = "Error" /\ UNCHANGED <<esTodo, newSinkUri>>
     ELSE /\ esPc' = IF spec.events = {} THEN "Update" ELSE "Functions"
          /\ esTodo' = spec.events
          /\ newSinkUri' = IF spec.sink = None THEN newSinkUri ELSE spec.sink
  /\ UNCHANGED <<es, esCache, fn, esBusEvents>>

\* What the reconciler makes of the EventSource and the bus that it read.
ServingOf(spec, version) == [version |-> version, sink |-> spec.sink]

\* createOrUpdateEventSourceFunction.  Which event comes next is left to Go's maps.
WriteFunction(e) ==
  /\ esPc = "Functions" /\ e \in esTodo
  /\ fn' = [fn EXCEPT ![<<esCur, e>>] = ServingOf(esLocal.spec, esVersion)]
  /\ esTodo' = esTodo \ {e}
  /\ esPc' = IF esTodo' = {} THEN "Update" ELSE "Functions"
  /\ UNCHANGED <<es, esCache, esQueue, esBusEvents, esCur, esLocal, esVersion, newSinkUri, missed>>

MutatedSinkOnly(obj) ==  \* mutated form: the label is forgotten
  [obj EXCEPT !.spec.sink = IF obj.spec.sink # None THEN newSinkUri ELSE None]
MutatedAnySink(obj) ==  \* mutated form: a sink is set where there is none
  [obj EXCEPT !.label = IF obj.spec.bus # None THEN obj.spec.bus ELSE obj.label, !.spec.sink = newSinkUri]
\* mutateEventSource: the bus becomes a label, and the uri of the sink is set to the
\* one the reconciler remembers.
Mutated(obj) ==
  [obj EXCEPT !.label = IF obj.spec.bus # None THEN obj.spec.bus ELSE obj.label,
              !.spec.sink = IF obj.spec.sink # None THEN newSinkUri ELSE None]
Bumped(old, new) == IF new.spec = old.spec THEN new ELSE [new EXCEPT !.gen = @ + 1]

\* ctrl.CreateOrUpdate of the EventSource: it is read again, mutated and written when
\* that changed it.  One that is gone cannot be created from a copy that has a version.
UpdateSource ==
  LET seen == esCache[esCur]
      new == Bumped(seen, Mutated(seen)) IN
  /\ esPc = "Update"
  /\ \/ ~seen.live /\ esPc' = "Error" /\ UNCHANGED <<es, esLocal>>
     \/ seen.live /\ new = seen /\ esPc' = "Ready" /\ esLocal' = seen /\ UNCHANGED es
     \/ seen.live /\ new # seen /\ es[esCur] = seen
        /\ es' = [es EXCEPT ![esCur] = new] /\ esLocal' = new /\ esPc' = "Ready"
     \/ seen.live /\ new # seen /\ es[esCur] # seen
        /\ esPc' = "Error" /\ esLocal' = seen /\ UNCHANGED es
  /\ UNCHANGED <<esCache, fn, esQueue, esBusEvents, esCur, esVersion, esTodo, newSinkUri, missed>>

\* SaveStatus: an error is logged and forgotten.
Saved(cond) ==
  IF es[esCur] = esLocal THEN [es EXCEPT ![esCur].cond = cond, ![esCur].saves = 1 - @] ELSE es

ReadySource ==
  /\ esPc = "Ready" /\ es' = Saved("Ready") /\ esPc' = "Idle"
  /\ UNCHANGED <<esCache, fn, esQueue, esBusEvents, esCur, esLocal, esVersion, esTodo, newSinkUri, missed>>

GiveUpSource ==  \* mutated form: the error is swallowed
  /\ esPc = "Error" /\ es' = Saved("Error") /\ esPc' = "Idle"
  /\ esTodo' = {}
  /\ UNCHANGED <<esCache, fn, esQueue, esBusEvents, esCur, esLocal, esVersion, newSinkUri, missed>>
\* The deferred SaveStatus of a reconcile that failed, which is tried again.
FailSource ==
  /\ esPc = "Error" /\ es' = Saved("Error") /\ esPc' = "Idle"
  /\ esQueue' = esQueue \union {esCur} /\ esTodo' = {}
  /\ UNCHANGED <<esCache, fn, esBusEvents, esCur, esLocal, esVersion, newSinkUri, missed>>

-----------------------------------------------------------------------------
(* The watches                                                             *)

\* The informer delivers an EventSource; GenerationChangedPredicate drops changes of
\* labels and status.
SyncSource(s) ==
  /\ esCache[s] # es[s]
  /\ esCache' = [esCache EXCEPT ![s] = es[s]]
  /\ esQueue' = IF es[s].gen = esCache[s].gen /\ es[s].live = esCache[s].live
                THEN esQueue ELSE esQueue \union {s}
  /\ UNCHANGED <<es, fn, esBusEvents, esWorker, missed>>

\* A change of a bus reaches the cache, and the handler of the watch later.
SeeBus(o) ==
  /\ CatchUpBus(o)
  /\ esBusEvents' = esBusEvents \union {o}
  /\ UNCHANGED <<es, esCache, fn, esQueue, esWorker, missed>>

\* The handler for an EventBus: the EventSources that name it.
MapBus(b) ==
  /\ <<"EventBus", b>> \in esBusEvents
  /\ esBusEvents' = esBusEvents \ {<<"EventBus", b>>}
  /\ esQueue' = esQueue \union {s \in Sources : esCache[s].live /\ esCache[s].spec.bus = b}
  /\ UNCHANGED <<es, esCache, fn, esWorker, missed>>

\* The handler for a ClusterEventBus: the EventSources with its label, unless an
\* EventBus of their namespace hides it.  The label is the last thing a reconcile
\* writes; a source that used the bus but did not show the label is remembered.
Labelled(b) == {s \in Sources : esCache[s].live /\ esCache[s].label = b}
Hidden(s) == esCache[s].spec.bus # None /\ busCache[<<"EventBus", esCache[s].spec.bus>>] # None
MapClusterBus(b) ==
  /\ <<"ClusterEventBus", b>> \in esBusEvents
  /\ esBusEvents' = esBusEvents \ {<<"ClusterEventBus", b>>}
  /\ esQueue' = esQueue \union {s \in Labelled(b) : ~Hidden(s)}
  /\ missed' = missed \union {s \in Sources \ Labelled(b) :
                               (esPc # "Idle" /\ esCur = s) \/ es[s].label # esCache[s].label}
  /\ UNCHANGED <<es, esCache, fn, esWorker>>

-----------------------------------------------------------------------------
(* Users, faults, the garbage collector                                    *)

EditSource(s) ==
  /\ Change /\ es[s].live /\ es[s].gen < MaxGen
  /\ \E spec \in SourceSpecs \ {es[s].spec} : es' = [es EXCEPT ![s].spec = spec, ![s].gen = @ + 1]
  /\ UNCHANGED <<esCache, fn, esQueue, esBusEvents, esWorker, missed>>

DeleteSource(s) ==
  /\ Change /\ es[s].live
  /\ es' = [es EXCEPT ![s].live = FALSE]
  /\ UNCHANGED <<esCache, fn, esQueue, esBusEvents, esWorker, missed>>

\* The garbage collector deletes a function whose owner is gone.
CollectFunction(s, e) ==
  /\ ~es[s].live /\ fn[<<s, e>>] # None
  /\ fn' = [fn EXCEPT ![<<s, e>>] = None]
  /\ UNCHANGED <<es, esCache, esQueue, esBusEvents, esWorker, missed>>

\* The write of a function or of the EventSource fails, or its reply is lost.
SourceWriteFails ==
  LET seen == esCache[esCur] IN
  /\ Change /\ esPc' = "Error"
  /\ \/ /\ esPc = "Functions"
        /\ \/ UNCHANGED fn
           \/ \E e \in esTodo : fn' = [fn EXCEPT ![<<esCur, e>>] = ServingOf(esLocal.spec, esVersion)]
        /\ UNCHANGED <<es, esLocal>>
     \/ /\ esPc = "Update" /\ seen.live /\ Mutated(seen) # seen
        /\ \/ UNCHANGED es
           \/ es[esCur] = seen /\ es' = [es EXCEPT ![esCur] = Bumped(seen, Mutated(seen))]
        /\ esLocal' = seen /\ UNCHANGED fn
  /\ UNCHANGED <<esCache, esQueue, esBusEvents, esCur, esVersion, esTodo, newSinkUri, missed>>

\* The operator restarts: caches are listed anew and everything is queued.
RestartSource ==
  /\ esCache' = es /\ esQueue' = {s \in Sources : es[s].live}
  /\ esBusEvents' = {} /\ missed' = {}
  /\ esPc' = "Idle" /\ esTodo' = {} /\ newSinkUri' = EmptyUri
  /\ UNCHANGED <<es, fn, esCur, esLocal, esVersion>>

-----------------------------------------------------------------------------
SourceStep ==
  \/ \E s \in Sources : SourceGone(s) \/ StartSource(s)
  \/ \E e \in Events : WriteFunction(e)
  \/ UpdateSource \/ ReadySource \/ FailSource
SourceWatch ==
  \/ \E s \in Sources : SyncSource(s)
  \/ \E b \in Buses : MapBus(b) \/ MapClusterBus(b)
CollectFunctions == \E s \in Sources, e \in Events : CollectFunction(s, e)
SourceTrouble ==
  \/ \E s \in Sources : EditSource(s) \/ DeleteSource(s)
  \/ SourceWriteFails
=============================================================================
