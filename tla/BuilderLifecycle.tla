--------------------------- MODULE BuilderLifecycle ---------------------------
(* What a Builder promises to whoever created it: it is started at most    *)
(* once, ends at most once, and the way it ended is never revised.  The    *)
(* Function reconciler relies on exactly this (FunctionController,         *)
(* BuilderProgress); BuilderController is shown to implement it.           *)

VARIABLES
  state,    \* "" before the start, then "Building", then how it ended
  started,  \* has the build phase begun?
  cancel,   \* has the cancellation been asked for (spec.state)?
  live      \* is the object still in the API server?

vars == <<state, started, cancel, live>>

Ends == {"Succeeded", "Failed", "Canceled", "Timeout"}
Completed == state # "" /\ state # "Building"

Init == state = "" /\ started = FALSE /\ cancel = FALSE /\ live = TRUE

Start ==
  /\ live /\ state = ""
  /\ state' = "Building" /\ started' = TRUE
  /\ UNCHANGED <<cancel, live>>

\* Only a build that runs has a result, and only a cancelled one is Canceled.
End ==
  /\ live /\ state = "Building"
  /\ state' \in Ends /\ (state' = "Canceled" => cancel)
  /\ UNCHANGED <<started, cancel, live>>

\* The timeout may strike before the start.
Expire ==
  /\ live /\ ~Completed
  /\ state' = "Timeout"
  /\ UNCHANGED <<started, cancel, live>>

Cancel == live /\ ~cancel /\ cancel' = TRUE /\ UNCHANGED <<state, started, live>>
Delete == live /\ live' = FALSE /\ UNCHANGED <<state, started, cancel>>

Next == Start \/ End \/ Expire \/ Cancel \/ Delete

Spec == Init /\ [][Next]_vars
=============================================================================
