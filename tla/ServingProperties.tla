--------------------------- MODULE ServingProperties ---------------------------
(* What the Serving reconciler promises, over the state of ServingController. *)
EXTENDS ServingController

\* A Serving starts at most once, and a timeout that struck before it ran is final,
\* although the worker, a restarted worker and the timer goroutine all write its
\* status from cached copies.  The Function reconciler takes this for granted when
\* it deletes the servings a new one replaces.
Lifecycle == INSTANCE ServingLifecycle
  WITH state <- serving.state, started <- serving.started, live <- serving.live
ImplementsLifecycle == Lifecycle!Spec

\* The objects the status refers to are never cleaned up: Clean belongs to a start,
\* and a reconcile that has not seen the start that was recorded must not get there.
\* (Only a serving that is about to time out may lose them: an outdated reconcile that
\* finds the timeout over at its third look at the clock cleans up before it writes.)
RecordedStay ==
  \/ TimedOut /\ serving.state \in {"Starting", "Timeout"}
  \/ \A o \in serving.ref : objects[o] # "gone"

\* What a failed Run left is cleaned up before the next one creates the same again,
\* and a serving that was started has nothing but what its status refers to.  (But the
\* components of HTTP servings and the Service of kedahttp are never found by Clean, and
\* nothing is by a Clean whose caches are behind.)
Lost == CASE engine = "knative"  -> {"component"}
          [] engine = "kedahttp" -> {"component", "service"}
          [] OTHER               -> {}
LiveObjects == {o \in Objects : Live(objects[o]) /\ o[1] \notin Lost}
NothingTwice == "lag" \notin disturb => \A o, p \in LiveObjects : o[1] = p[1] => o = p
OnlyRecorded ==
  "lag" \notin disturb /\ serving.live /\ serving.started => LiveObjects \subseteq serving.ref

\* When nothing is left to do every serving was started or timed out, and until its
\* timeout is over its state is what its workload and proxy say.
Quiet == pc = "Idle" /\ ~queued /\ cacheFresh /\ objectCache = objects /\ timer # "updating"
StatusFollows ==
  Quiet /\ serving.live =>
    /\ serving.started \/ serving.state = "Timeout"
    /\ ~TimedOut => Result(serving.ref, objects) \in {"", serving.state}

\* A serving with a timeout does not stay in Starting, although its workload may
\* hang, updates of the worker may be refused and the operator may restart.  (Unless
\* the timeout strikes between the two looks at the clock of the first reconcile
\* after a restart, or the one update of the goroutine fails: nothing comes back then.)
TimerMissed == pc \in {"StartTimer", "Decide"} /\ TimedOut /\ ~timerKey /\ local.started
TimeoutEnds == timeout => <>(~serving.live \/ ~IsStarting(serving) \/ TimerMissed \/ "timer" \in disturb)
=============================================================================
