------------------------------- MODULE Eventing -------------------------------
(***************************************************************************)
(* The EventSource and the Trigger reconciler at work on the same buses,   *)
(* and what they promise together: events that a source publishes reach    *)
(* the subscribers of the triggers that name them.  The two share the      *)
(* process, hence the restarts, and the caches of the buses; each has its  *)
(* worker and its queue.                                                   *)
(***************************************************************************)
EXTENDS EventSourceController, TriggerController

\* Triggers name events of the namespace's EventSources, whether or not these exist.
ASSUME InputsAssumption == Inputs \subseteq Sources \X Events

vars == <<busVars, changes, esVars, trVars>>

EventsInit == BusInit /\ SourceInit /\ TriggerInit

SeeBusChange == \E o \in Kinds \X Buses : SeeBus(o) /\ SeeTriggerBus(o)

\* The operator is killed and restarted by Kubernetes.
CrashEvents ==
  /\ Change
  /\ RestartSource /\ RestartTrigger
  /\ busCache' = bus /\ UNCHANGED bus

EventsNext ==
  \/ (SourceStep \/ SourceWatch \/ CollectFunctions) /\ UNCHANGED <<busVars, changes, trVars>>
  \/ (TriggerStep \/ TriggerWatch) /\ UNCHANGED <<busVars, changes, esVars>>
  \/ SourceTrouble /\ UNCHANGED <<busVars, trVars>>
  \/ TriggerTrouble /\ UNCHANGED <<busVars, esVars>>
  \/ ChangeBus /\ UNCHANGED <<esVars, trVars>>
  \/ SeeBusChange
  \/ CrashEvents
EventsSpec == EventsInit /\ [][EventsNext]_vars

\* Workers, watches and caches go on; nothing waits for the garbage collector.
EventsFairness ==
  /\ WF_vars(SourceStep /\ UNCHANGED <<busVars, changes, trVars>>)
  /\ WF_vars(TriggerStep /\ UNCHANGED <<busVars, changes, esVars>>)
  /\ WF_vars(SeeBusChange)
  /\ WF_vars(SourceWatch /\ UNCHANGED <<busVars, changes, trVars>>)
  /\ WF_vars(TriggerWatch /\ UNCHANGED <<busVars, changes, esVars>>)
FairEventsSpec == EventsSpec /\ EventsFairness

-----------------------------------------------------------------------------
(* Properties                                                              *)

EventsTypeOK == BusTypeOK /\ SourceTypeOK /\ TriggerTypeOK

SourceRest == esQueue = {} /\ esPc = "Idle" /\ esCache = es /\ esBusEvents = {} /\ busCache = bus
TriggerRest == trQueue = {} /\ trPc = "Idle" /\ trCache = tr /\ trBusEvents = {} /\ busCache = bus

HasBus(spec) == spec.bus # None /\ RetrieveBus(bus, spec.bus) \in Versions
SourceConfigured(spec) == HasBus(spec) \/ (spec.bus = None /\ spec.sink # None)
Followed(version, spec) == version = IF spec.bus = None THEN None ELSE RetrieveBus(bus, spec.bus)

\* When the EventSource reconciler has nothing left to do, every EventSource is one it
\* can serve, and each of its events has a function that sends to the sink and over the
\* bus as they are now, whatever failed on the way: the bus only if no change of a
\* ClusterEventBus passed the source by before its label was there to be found.
FunctionsFollow ==
  SourceRest =>
    \A s \in Sources : es[s].live =>
      /\ s \notin missed => SourceConfigured(es[s].spec)
      /\ \A e \in es[s].spec.events :
           /\ fn[<<s, e>>] # None /\ fn[<<s, e>>].sink = es[s].spec.sink
           /\ s \notin missed => Followed(fn[<<s, e>>].version, es[s].spec)

\* Subscribers as the Trigger reconciler supports them: each its own condition and
\* topics, sinks of one namespace at one address, no dead letter sinks.
Plain(subs) ==
  \A i, j \in DOMAIN subs :
    /\ subs[i].deadLetterSink = Nothing
    /\ i # j =>
         /\ subs[i].condition # subs[j].condition
         /\ subs[i].topic # Nothing => subs[i].topic # subs[j].topic
         /\ subs[i].deadLetterTopic # Nothing => subs[i].deadLetterTopic # subs[j].deadLetterTopic
         /\ subs[i].sink # Nothing /\ subs[j].sink # Nothing /\ subs[i].sink.ns = subs[j].sink.ns =>
              subs[i].sink.url = subs[j].sink.url

\* What the handler of a trigger reaches for the condition of a subscriber is exactly
\* what the subscriber asks for.
Sent(f, sub) ==
  LET names == f.config[sub.condition] IN
  /\ SinkUrls(f, names.sink) = IF sub.sink = Nothing THEN {} ELSE {sub.sink.url}
  /\ BusTopics(f, names.topic) = {sub.topic} \ {Nothing}
  /\ BusTopics(f, names.deadLetterTopic) = {sub.deadLetterTopic} \ {Nothing}

\* What handleSubscriber makes of a list of subscribers reaches each of them.
Handled(subs) ==
  LET made == HandleSubscriber(subs) IN
  ~made.failed /\ Plain(subs) => \A sub \in Range(subs) : Sent(made, sub)

\* A trigger's function is made of its spec and, unless a change passed it by, of its bus.
TriggerServed(t) ==
  /\ tfn[t] # None /\ tfn[t].spec = tr[t].spec /\ tr[t].spec.subscribers # Nothing
  /\ t \notin overlooked => HasBus(tr[t].spec) /\ Followed(tfn[t].version, tr[t].spec)

\* When the Trigger reconciler has nothing left to do, every trigger has a function
\* that follows its bus, and that sends an event for which a condition holds to the
\* sink and the topics of the subscriber with the condition.
SubscribersReached ==
  TriggerRest =>
    \A t \in Triggers :
      LET subs == tr[t].spec.subscribers IN
      /\ TriggerServed(t)
      /\ Plain(subs) => \A sub \in Range(subs) : Sent(TriggerFunction(tfn[t]), sub)

\* A trigger listens on the bus on which the sources it names publish: after the last
\* change of the bus both sides come to the same version of it, by watches of their own.
Connected ==
  SourceRest /\ TriggerRest =>
    \A t \in Triggers : \A i \in tr[t].spec.inputs :
      LET source == es[i[1]] IN
      source.live /\ i[2] \in source.spec.events /\ source.spec.bus = tr[t].spec.bus =>
        \/ i[1] \in missed \/ t \in overlooked
        \/ i \in TriggerFunction(tfn[t]).inputs /\ tfn[t].version = fn[i].version

\* The reconciler writes the spec of an EventSource only when a user changed the sink
\* after it was read, and then the sink alone: with no edit under way it leaves the
\* spec alone.  A source that was read with a sink gets that one back, whichever other
\* sources were reconciled before; what a source gets that was read without one is the
\* matter of SinkIsItsOwn.
SpecsAreTheUsers ==
  [][\A s \in Sources :
       es'[s].spec # es[s].spec /\ changes' = changes =>
         /\ esCur = s /\ esLocal.spec.sink # es[s].spec.sink
         /\ es'[s].spec = [es[s].spec EXCEPT !.sink = es'[s].spec.sink]
         /\ esLocal.spec.sink # None => es'[s].spec.sink = esLocal.spec.sink]_vars

\* The sink is the receiver of the events of its own EventSource: an address that the
\* reconciler writes there is the one it read there.  The code writes the last one it
\* read of any source, when this one had none as it was read but has one by now.  The
\* empty uri, which it writes when it has read none at all, is left out here.
SinkIsItsOwn ==
  [][\A s \in Sources :
       /\ es'[s].spec # es[s].spec /\ changes' = changes
       /\ es'[s].spec.sink # EmptyUri
       => es'[s].spec.sink = esLocal.spec.sink]_vars

\* Once users leave everything in a state that can be served, the work comes to an end,
\* although each reconcile writes the object it was queued for.
EventsSettle ==
  <>[](/\ \A s \in Sources : es[s].live => SourceConfigured(es[s].spec)
       /\ \A t \in Triggers : ~Refused(tr[t].spec, RetrieveBus(bus, tr[t].spec.bus)) /\ HasBus(tr[t].spec))
  => <>[](SourceRest /\ TriggerRest)
=============================================================================
