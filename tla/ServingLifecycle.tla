--------------------------- MODULE ServingLifecycle ---------------------------
(* What a Serving promises to whoever created it: it is started at most    *)
(* once, after that it says whether it runs, and a timeout before it ever  *)
(* ran is final.  The Function reconciler relies on exactly this           *)
(* (FunctionController, ServingProgress and ServingFlap);                  *)
(* ServingController is shown to implement it.                             *)

VARIABLES
  state,    \* "" before the start, then "Starting", then what it does
  started,  \* has the serving phase begun?
  live      \* is the object still in the API server?

vars == <<state, started, live>>

Init == state = "" /\ started = FALSE /\ live = TRUE

Start ==
  /\ live /\ state = ""
  /\ state' = "Starting" /\ started' = TRUE
  /\ UNCHANGED live

\* A serving that was started runs or fails, and may change its mind.
Report ==
  /\ live /\ state \in {"Starting", "Running", "Failed"}
  /\ state' \in {"Running", "Failed"}
  /\ UNCHANGED <<started, live>>

\* The timeout may strike before the start, never after the serving has run.
Expire ==
  /\ live /\ state \in {"", "Starting"}
  /\ state' = "Timeout"
  /\ started' \in {started, TRUE}
  /\ UNCHANGED live

Delete == live /\ live' = FALSE /\ UNCHANGED <<state, started>>

Next == Start \/ Report \/ Expire \/ Delete

Spec == Init /\ [][Next]_vars
=============================================================================
