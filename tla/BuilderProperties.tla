--------------------------- MODULE BuilderProperties ---------------------------
(* What the Builder reconciler promises, over the state of BuilderController. *)
EXTENDS BuilderController

\* A Builder starts at most once, ends at most once and keeps its end, although
\* the worker, a restarted worker and the timer goroutine all write its status
\* from cached copies.  This is what the Function reconciler takes for granted.
Lifecycle == INSTANCE BuilderLifecycle
  WITH state <- builder.state, started <- builder.started,
       cancel <- builder.cancel, live <- builder.live
ImplementsLifecycle == Lifecycle!Spec

\* A build is never run twice side by side: what a failed Start left behind is
\* gone before the next BuildRun is created (Clean), and no reconcile starts a
\* builder whose start was recorded behind its back.
ActiveRuns == {k \in Starts : runs[k].live /\ runs[k].state = ""}
OneActiveRun == Cardinality(ActiveRuns) <= 1

\* The BuildRun the status refers to is the last one made, with the Build it
\* was made from: a start that was recorded is never repeated.
RecordedRunIsLast ==
  builder.run # 0 => builder.run = runNum /\ builder.build = buildNum

\* A builder that says how its build ended says what the recorded BuildRun says;
\* only the Timeout may be the builder's own.
EndIsTheRuns ==
  IsCompleted(builder) /\ builder.state # "Timeout" =>
    builder.run # 0 /\ runs[builder.run].state = builder.state

\* A builder with a timeout ends, although its BuildRun may hang, updates may be
\* refused and the operator may restart.  (Unless the timeout strikes between the
\* two looks at the clock of the first reconcile after a restart: then nothing
\* waits for it and nothing brings the request back.)
Over == ~builder.live \/ IsCompleted(builder)
TimerMissed == pc = "StartTimer" /\ timeout /\ elapsed /\ ~timerKey /\ local.started
TimeoutEnds == timeout => <>(Over \/ TimerMissed)

\* A cancelled builder ends, also when it was cancelled before it was started or
\* while it was starting: the cancellation reaches the BuildRun in the end.
\* (Unless somebody deletes the Build or the BuildRun.)
Lost ==
  builder.run # 0 /\ (~runs[builder.run].live \/ builds[builder.build] = "deleted")
CancelEnds == builder.cancel ~> (Over \/ Lost)
=============================================================================
