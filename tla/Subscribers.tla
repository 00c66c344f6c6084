------------------------------ MODULE Subscribers ------------------------------
(***************************************************************************)
(* What the Trigger reconciler makes of spec.subscribers                   *)
(* (handleSubscriber in controllers/events/trigger_controller.go, with the *)
(* sink components of controllers/events/event.go): the outputs and        *)
(* components of the trigger's Function and the configuration its handler  *)
(* is started with.  Names are what they are joined from.                  *)
(***************************************************************************)
EXTENDS Naturals, Sequences, SequencesExt, TLC

CONSTANTS
  Conditions,   \* the expressions events are judged by
  Urls,         \* addresses of sinks
  Namespaces,   \* namespaces of sinks
  Home,         \* the namespace of the trigger, and of sinks with a uri
  Topics,       \* topics of the event bus that subscribers name
  Nothing       \* a field that is not set; a sink whose address is not found

\* A sink and what its uri or its ref leads to: the address, and the namespace its
\* component is named after.
Sink == [url : Urls \union {Nothing}, ns : Namespaces]
Subscriber ==
  [condition : Conditions, sink : Sink \union {Nothing}, deadLetterSink : Sink \union {Nothing},
   topic : Topics \union {Nothing}, deadLetterTopic : Topics \union {Nothing}]

\* The bus component, or the component of the sinks of a namespace.
SinkComponent(sink) == [of |-> sink.ns]
BusComponent == [of |-> Nothing]
SinkOutput(i) == [sink |-> i]
BusOutput(t) == [topic |-> t]
Output(name, component, topic) == [name |-> name, component |-> component, topic |-> topic]

\* What the loop carries: outputs and bindings of the function, the configuration, the
\* topics seen as topics and as dead letter topics, the number of the next sink.
Empty ==
  [outputs |-> <<>>, bindings |-> <<>>, config |-> <<>>, topics |-> {}, deadLetterTopics |-> {},
   index |-> 1, failed |-> FALSE]

\* createSinkComponent and addSinkForFunction.  Sinks are told apart by their pointers,
\* so that every one is new.
AddSink(acc, name, sink) ==
  [acc EXCEPT !.bindings = (SinkComponent(sink) :> sink.url) @@ acc.bindings,
              !.outputs = Append(@, Output(name, SinkComponent(sink), Nothing)),
              !.index = @ + 1]
AddTopic(acc, t) ==
  IF t \in acc.topics \union acc.deadLetterTopics THEN acc
  ELSE [acc EXCEPT !.outputs = Append(@, Output(BusOutput(t), BusComponent, t))]

\* Whoever names a topic second gets no output name for it.
TopicName(seen, t) == IF t = Nothing \/ t \in seen THEN Nothing ELSE BusOutput(t)

\* One subscriber.  The component for the dead letter sink is made from the sink, which
\* by then has a uri, and its output carries the name of the sink's output.
Subscribe(acc, sub) ==
  LET sinkName == IF sub.sink = Nothing THEN Nothing ELSE SinkOutput(acc.index)
      one == IF sub.sink = Nothing THEN acc ELSE AddSink(acc, sinkName, sub.sink)
      deadName == IF sub.deadLetterSink = Nothing THEN Nothing ELSE SinkOutput(one.index)
      two == IF sub.deadLetterSink = Nothing THEN one ELSE AddSink(one, sinkName, [sub.sink EXCEPT !.ns = Home])
      three == IF sub.topic = Nothing THEN two
               ELSE [AddTopic(two, sub.topic) EXCEPT !.topics = @ \union {sub.topic}]
      four == IF sub.deadLetterTopic = Nothing THEN three
              ELSE [AddTopic(three, sub.deadLetterTopic) EXCEPT !.deadLetterTopics = @ \union {sub.deadLetterTopic}]
      names == [sink |-> sinkName, deadLetterSink |-> deadName,
                topic |-> TopicName(acc.topics, sub.topic),
                deadLetterTopic |-> TopicName(acc.deadLetterTopics, sub.deadLetterTopic)] IN
  IF acc.failed \/ (sub.sink # Nothing /\ sub.sink.url = Nothing) THEN [acc EXCEPT !.failed = TRUE]
  ELSE [four EXCEPT !.config = (sub.condition :> names) @@ four.config]

\* handleSubscriber; with no subscribers at all it fails.
HandleSubscriber(subs) ==
  IF subs = Nothing THEN [Empty EXCEPT !.failed = TRUE] ELSE FoldLeft(Subscribe, Empty, subs)

-----------------------------------------------------------------------------
(* Where an answer goes.  The handler looks up its configuration by the    *)
(* condition, the function context the output by its name.                 *)

Targets(f, name) ==
  {o \in Range(f.outputs) : name # Nothing /\ o.name = name}
SinkUrls(f, name) == {f.bindings[o.component] : o \in {p \in Targets(f, name) : p.topic = Nothing}}
BusTopics(f, name) == {o.topic : o \in {p \in Targets(f, name) : p.topic # Nothing}}
=============================================================================
