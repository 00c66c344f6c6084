------------------------------ MODULE MCEvents ------------------------------
(* Instances of the event reconcilers for TLC. *)
EXTENDS Eventing

CONSTANTS s1, s2, t1, b1, v1, v2, e1, e2, u1, u2, c1, c2, n1, n2, x1, x2

From(b, sink, events) == [bus |-> b, sink |-> sink, events |-> events]

\* A source that publishes on the bus, one that calls a sink as well, one without bus.
MCSourceSpecs == {From(b1, None, {e1}), From(b1, u1, {e1, e2}), From(None, u2, {e1})}
\* Of two sources, one that calls a sink and one that may come to call another.
MCTwoSourceSpecs == {From(b1, None, {e1}), From(b1, u1, {e1}), From(None, u2, {e1})}

At(url, ns) == [url |-> url, ns |-> ns]
Sub(c, sink, topic, dead) ==
  [condition |-> c, sink |-> sink, deadLetterSink |-> Nothing, topic |-> topic, deadLetterTopic |-> dead]
To(subs) == [bus |-> b1, inputs |-> {<<s1, e1>>}, subscribers |-> subs]
\* Two subscribers with sinks and topics, one whose sink is not found.
MCTriggerSpecs ==
  {To(<<Sub(c1, At(u1, n1), x1, x2), Sub(c2, At(u2, n2), x2, Nothing)>>),
   To(<<Sub(c1, At(Nothing, n1), x1, Nothing)>>)}

\* What the theorem SubscribersReachedHolds takes for granted, for every list of up to
\* two subscribers over the instance's conditions, sinks and topics.
ASSUME HandledAssumption ==
  \A subs \in BoundedSeq({sub \in Subscriber : sub.deadLetterSink = Nothing}, 2) : Handled(subs)

MCInputs == Sources \X Events
\* A ClusterEventBus; the EventBus that hides it comes and goes.
MCFirstBuses == {[o \in Kinds \X Buses |-> IF o[1] = "EventBus" THEN None ELSE v1]}
=============================================================================
