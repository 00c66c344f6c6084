----------------------- MODULE BuilderController_proofs -----------------------
(***************************************************************************)
(* Proofs about the Builder reconciler, for any number of Builds,          *)
(* BuildRuns and disturbances: it implements BuilderLifecycle, the status  *)
(* refers to the last BuildRun and says how that one ended, and no two     *)
(* BuildRuns are active side by side.                                      *)
(***************************************************************************)
EXTENDS BuilderProperties, FiniteSetTheorems, TLAPS

-----------------------------------------------------------------------------
(* The inductive invariants.                                               *)

\* A copy that still has the current version is the object, and a cancellation that
\* a copy shows was asked for.
CopiesInv ==
  /\ cacheFresh => cache = builder
  /\ localFresh => local = builder
  /\ pc # "Idle" => local.live
  /\ timer = "updating" /\ timerFresh => builder.live /\ ~IsCompleted(builder)

\* A BuildRun is cancelled only for a Builder that is.
CancelInv ==
  /\ cache.cancel => builder.cancel
  /\ pc = "Cancel" => builder.cancel
  /\ \A k \in Starts : runs[k].cancel \/ runCache[k].cancel => builder.cancel
  /\ \A k \in Starts : runs[k].state = "Canceled" \/ runCache[k].state = "Canceled" => builder.cancel

\* What is recorded of the start goes together.
PhaseInv ==
  /\ builder.state = "Building" => builder.started
  /\ builder.state = "" => ~builder.started /\ builder.build = 0 /\ builder.run = 0

\* From the reset of the status to the record of the start nothing is recorded: the
\* reconcile that starts the Builder is the only one that can.
Starting == pc \in {"CleanBuilds", "CleanRuns", "CreateBuild", "WaitForBuild", "CreateRun", "Record"}
WorkerInv ==
  /\ pc \in {"StartTimer", "Result", "Reset"} => ~IsCompleted(local)
  /\ pc = "Result" => local.started /\ local.state # ""
  /\ pc = "Reset" => ~(local.started /\ local.state # "")
  /\ Starting => local.state = "" /\ builder.run = 0

\* BuildRuns appear one after the other, and how one ended is final.
RunsInv ==
  /\ \A k \in Starts : k > runNum => runs[k] = NoRun /\ runCache[k] = NoRun
  /\ \A k \in Starts : runCache[k].state # "" => runs[k].state = runCache[k].state

IInv ==
  /\ TypeOK /\ CopiesInv /\ CancelInv /\ PhaseInv /\ WorkerInv /\ RunsInv
  /\ RecordedRunIsLast /\ EndIsTheRuns

\* At most the last BuildRun is left: a start creates one when the others are gone.
\* Clean finds them in a cache that knew of every BuildRun when the reconcile began.
BeforeClean == pc \in {"Cancel", "Check", "StartTimer", "Result", "Reset", "CleanBuilds", "CleanRuns"}
Cleaned == pc \in {"CreateBuild", "WaitForBuild", "CreateRun"}
CleanInv ==
  /\ \A k \in Starts : runs[k].live => k = runNum
  /\ BeforeClean => \A k \in Starts : runs[k].live => runCache[k].live
  /\ Cleaned => \A k \in Starts : ~runs[k].live

-----------------------------------------------------------------------------
(* Types                                                                   *)

\* A Builder stays one when its status or its spec is written.
LEMMA StateType ==
  ASSUME NEW b \in Builder, NEW s \in BuilderStates
  PROVE  [b EXCEPT !.state = s] \in Builder
  BY DEF Builder

LEMMA SpecType ==
  ASSUME NEW b \in Builder
  PROVE  /\ [b EXCEPT !.live = FALSE] \in Builder
         /\ [b EXCEPT !.cancel = TRUE] \in Builder
  BY DEF Builder

Unstarted(b) == [b EXCEPT !.started = FALSE, !.state = "", !.build = 0, !.run = 0]
LEMMA StartType ==
  ASSUME TypeOK, NEW b \in Builder
  PROVE  Unstarted(b) \in Builder /\ Started(b) \in Builder
<1>1. 0 \in 0 .. MaxStarts
  BY BuilderAssumption
<1> QED
  BY <1>1 DEF Unstarted, Started, Builder, BuilderStates, TypeOK

\* What a reconcile leaves behind, and what it has not made yet.
LEMMA NoCopyType == NewBuilder \in Builder /\ NoCopy \in Builder /\ NoRun \in BuildRun
<1>1. 0 \in 0 .. MaxStarts
  BY BuilderAssumption
<1>2. NewBuilder \in Builder
  BY <1>1 DEF NewBuilder, Builder, BuilderStates
<1>3. NoRun \in BuildRun
  BY DEF NoRun, BuildRun
<1> QED
  BY <1>2, <1>3, SpecType DEF NoCopy

LEMMA RunType ==
  ASSUME NEW r \in BuildRun
  PROVE  /\ \A b \in BOOLEAN : [r EXCEPT !.live = b] \in BuildRun
         /\ \A b \in BOOLEAN : [r EXCEPT !.cancel = b] \in BuildRun
         /\ \A s \in {"Succeeded", "Failed", "Canceled", "Timeout"} :
              [r EXCEPT !.state = s] \in BuildRun
  BY DEF BuildRun

\* Cancel writes the recorded BuildRun, and only its cancellation.
LEMMA CancelRunWrites ==
  ASSUME TypeOK, CancelRun
  PROVE  \/ runs' = runs
         \/ /\ local.run \in Starts /\ runs[local.run].live
            /\ runs' = [runs EXCEPT ![local.run].cancel = TRUE]
<1>1. local.run # 0 => local.run \in Starts
  BY DEF TypeOK, Builder, Starts
<1> DEFINE Cancels == runs[local.run].live /\ runCache[local.run] = runs[local.run]
<1>2. ASSUME local.run \in Starts, ~Cancels
      PROVE  [runs EXCEPT ![local.run].cancel = @ \/ Cancels] = runs
  <2>1. (runs[local.run].cancel \/ Cancels) = runs[local.run].cancel
    BY <1>2 DEF TypeOK, BuildRun
  <2> HIDE DEF Cancels
  <2>2. [runs[local.run] EXCEPT !.cancel = runs[local.run].cancel] = runs[local.run]
    BY <1>2 DEF TypeOK, BuildRun
  <2> QED
    BY <1>2, <2>1, <2>2 DEF TypeOK
<1>3. ASSUME Cancels
      PROVE  [runs EXCEPT ![local.run].cancel = @ \/ Cancels] = [runs EXCEPT ![local.run].cancel = TRUE]
  <2>1. (runs[local.run].cancel \/ Cancels) = TRUE
    BY <1>3
  <2> HIDE DEF Cancels
  <2> QED
    BY <2>1
<1> QED
  BY <1>1, <1>2, <1>3 DEF CancelRun

LEMMA ResultType ==
  ASSUME TypeOK, NEW b \in Builder
  PROVE  Result(b) \in {"", "Succeeded", "Failed", "Canceled", "Timeout"}
<1>1. b.run # 0 => b.run \in Starts
  BY DEF Builder, Starts
<1> QED
  BY <1>1 DEF Result, TypeOK, BuildRun

LEMMA DisturbType ==
  ASSUME TypeOK, NEW kind, Disturb(kind)
  PROVE  disturb' \in 0 .. MaxDisturb
  BY BuilderAssumption DEF Disturb, TypeOK

\* What a status update does to the Builder and to its copies, whatever follows it.
LEMMA WriteType ==
  ASSUME TypeOK, NEW new \in Builder, NEW Then \in BOOLEAN, WriteStatus(new, Then)
  PROVE  /\ builder' \in Builder /\ cacheFresh' \in BOOLEAN /\ timerFresh' \in BOOLEAN
         /\ disturb' \in 0 .. MaxDisturb
         /\ Then \/ (Fail /\ UNCHANGED <<timerKey, timer>>)
<1>1. Disturb("write") => disturb' \in 0 .. MaxDisturb
  BY DisturbType
<1> QED
  BY <1>1 DEF WriteStatus, timers, Change, TypeOK

LEMMA TypeStep == TypeOK /\ [Next]_vars => TypeOK'
<1> SUFFICES ASSUME TypeOK, [Next]_vars PROVE TypeOK'
  OBVIOUS
<1> USE NoCopyType DEF api, caches, worker, timers, Goto, Leave, Return, Fail
<1>1. CASE StartReconcile
  BY <1>1, DisturbType DEF StartReconcile, StopTimer, TypeOK, PCs
<1>2. CASE CancelRun
  <2>1. runs' \in [Starts -> BuildRun]
    <3>1. CASE runs' = runs
      BY <3>1 DEF TypeOK
    <3>2. ASSUME local.run \in Starts, runs' = [runs EXCEPT ![local.run].cancel = TRUE]
          PROVE  runs' \in [Starts -> BuildRun]
      BY <3>2, RunType DEF TypeOK
    <3> QED
      BY <1>2, <3>1, <3>2, CancelRunWrites
  <2>2. disturb' \in 0 .. MaxDisturb
    BY <1>2, DisturbType DEF CancelRun, TypeOK
  <2> QED
    BY <1>2, <2>1, <2>2 DEF CancelRun, TypeOK, PCs
<1>3. CASE Check
  <2> DEFINE new == [local EXCEPT !.state = "Timeout"]
  <2>1. new \in Builder
    BY StateType DEF TypeOK, BuilderStates
  <2> HIDE DEF new
  <2>2. CASE WriteStatus(new, Return /\ UNCHANGED <<timerKey, timer>>)
    BY <1>3, <2>1, <2>2, WriteType DEF Check, TypeOK, PCs
  <2>3. CASE ~WriteStatus(new, Return /\ UNCHANGED <<timerKey, timer>>)
    BY <1>3, <2>3 DEF Check, TypeOK, PCs, new
  <2> QED
    BY <2>2, <2>3
<1>4. CASE StartTimer
  BY <1>4 DEF StartTimer, TypeOK, PCs
<1>5. CASE GetBuilderResult
  <2> DEFINE new == [local EXCEPT !.state = Result(local)]
  <2>1. new \in Builder
    BY StateType, ResultType DEF TypeOK, BuilderStates
  <2> HIDE DEF new
  <2>2. CASE WriteStatus(new, Return /\ StopTimer)
    BY <1>5, <2>1, <2>2, WriteType DEF GetBuilderResult, TypeOK, PCs, StopTimer
  <2>3. CASE ~WriteStatus(new, Return /\ StopTimer)
    BY <1>5, <2>3 DEF GetBuilderResult, TypeOK, PCs, new
  <2> QED
    BY <2>2, <2>3
<1>6. CASE ResetStatus
  <2> DEFINE new == Unstarted(local)
  <2>1. new \in Builder
    BY StartType DEF TypeOK
  <2>2. WriteStatus(new, Continue(new, "CleanBuilds"))
    BY <1>6 DEF ResetStatus, Unstarted
  <2> HIDE DEF new
  <2> QED
    BY <1>6, <2>1, <2>2, WriteType DEF ResetStatus, TypeOK, PCs, Continue
<1>7. CASE CleanBuilds
  <2>1. builds' \in [Starts -> Build]
    BY <1>7 DEF CleanBuilds, TypeOK, Build
  <2>2. disturb' \in 0 .. MaxDisturb
    BY <1>7, DisturbType DEF CleanBuilds, TypeOK
  <2>3. pc' \in PCs /\ queued' \in BOOLEAN /\ local' \in Builder /\ localFresh' \in BOOLEAN
    BY <1>7 DEF CleanBuilds, TypeOK, PCs
  <2> QED
    BY <1>7, <2>1, <2>2, <2>3 DEF CleanBuilds, TypeOK
<1>8. CASE CleanRuns
  <2>1. runs' \in [Starts -> BuildRun]
    BY <1>8, RunType DEF CleanRuns, TypeOK
  <2>2. disturb' \in 0 .. MaxDisturb
    BY <1>8, DisturbType DEF CleanRuns, TypeOK
  <2>3. pc' \in PCs /\ queued' \in BOOLEAN /\ local' \in Builder /\ localFresh' \in BOOLEAN
    BY <1>8 DEF CleanRuns, TypeOK, PCs
  <2> QED
    BY <1>8, <2>1, <2>2, <2>3 DEF CleanRuns, TypeOK
<1>9. CASE CreateBuild
  <2>1. builds' \in [Starts -> Build]
    BY <1>9 DEF CreateBuild, TypeOK, Build
  <2>2. disturb' \in 0 .. MaxDisturb
    BY <1>9, DisturbType DEF CreateBuild, TypeOK
  <2>3. buildNum' \in 0 .. MaxStarts
    BY <1>9, BuilderAssumption DEF CreateBuild, TypeOK
  <2> QED
    BY <1>9, <2>1, <2>2, <2>3 DEF CreateBuild, TypeOK, PCs
<1>10. CASE WaitForBuild
  BY <1>10, DisturbType DEF WaitForBuild, TypeOK, PCs
<1>11. CASE CreateRun
  <2>1. runs' \in [Starts -> BuildRun]
    BY <1>11, RunType DEF CreateRun, TypeOK
  <2>2. disturb' \in 0 .. MaxDisturb
    BY <1>11, DisturbType DEF CreateRun, TypeOK
  <2>3. runNum' \in 0 .. MaxStarts
    BY <1>11, BuilderAssumption DEF CreateRun, TypeOK
  <2> QED
    BY <1>11, <2>1, <2>2, <2>3 DEF CreateRun, TypeOK, PCs
<1>12. CASE RecordStart
  BY <1>12, StartType, WriteType DEF RecordStart, TypeOK, PCs
<1>13. CASE TimerFires
  BY <1>13 DEF TimerFires, TypeOK
<1>14. CASE TimerWrites
  <2>1. [builder EXCEPT !.state = "Timeout"] \in Builder
    BY StateType DEF TypeOK, BuilderStates
  <2> QED
    BY <1>14, <2>1, DisturbType DEF TimerWrites, Retry, TypeOK
<1>15. CASE Elapse \/ SyncBuilder \/ SyncBuilds \/ SyncRuns
  BY <1>15 DEF Elapse, SyncBuilder, SyncBuilds, SyncRuns, TypeOK
<1>16. CASE Crash
  BY <1>16, DisturbType DEF Crash, TypeOK, PCs
<1>17. ASSUME NEW k \in Starts, RegisterBuild(k) \/ RunEnds(k) \/ RunIsCancelled(k)
       PROVE  TypeOK'
  <2>1. CASE RegisterBuild(k)
    BY <2>1 DEF RegisterBuild, TypeOK, Build
  <2>2. CASE RunEnds(k)
    <3>1. PICK result \in RunResults : EndRun(k, result)
      BY <2>2 DEF RunEnds
    <3>2. [runs[k] EXCEPT !.state = result] \in BuildRun
      BY BuilderAssumption, RunType DEF TypeOK
    <3> QED
      BY <3>1, <3>2 DEF EndRun, TypeOK
  <2>3. CASE RunIsCancelled(k)
    BY <2>3, RunType DEF RunIsCancelled, EndRun, TypeOK
  <2> QED
    BY <1>17, <2>1, <2>2, <2>3
<1>18. CASE CancelBuilder \/ DeleteBuilder
  BY <1>18, SpecType, DisturbType DEF CancelBuilder, DeleteBuilder, Touch, Change, TypeOK
<1>19. CASE CollectGarbage
  <2>1. builds' \in [Starts -> Build] /\ runs' \in [Starts -> BuildRun]
    BY <1>19, RunType DEF CollectGarbage, TypeOK, Build
  <2> QED
    BY <1>19, <2>1 DEF CollectGarbage, TypeOK
<1>20. ASSUME NEW k \in Starts, DeleteBuild(k) \/ DeleteRun(k)
       PROVE  TypeOK'
  <2>1. CASE DeleteBuild(k)
    BY <2>1, DisturbType DEF DeleteBuild, Build, TypeOK
  <2>2. CASE DeleteRun(k)
    BY <2>2, RunType, DisturbType DEF DeleteRun, TypeOK
  <2> QED
    BY <1>20, <2>1, <2>2
<1>21. CASE UNCHANGED vars
  BY <1>21 DEF vars, TypeOK
<1> QED
  BY <1>1, <1>2, <1>3, <1>4, <1>5, <1>6, <1>7, <1>8, <1>9, <1>10, <1>11, <1>12, <1>13, <1>14, <1>15,
     <1>16, <1>17, <1>18, <1>19, <1>20, <1>21 DEF Next, WorkerStep

LEMMA TypeInit == Init => TypeOK
<1> SUFFICES ASSUME Init PROVE TypeOK
  OBVIOUS
<1>1. 0 \in 0 .. MaxStarts /\ 0 \in 0 .. MaxDisturb
  BY BuilderAssumption
<1>2. runs \in [Starts -> BuildRun] /\ builds \in [Starts -> Build]
  BY NoCopyType DEF Init, Build
<1> QED
  BY <1>1, <1>2, NoCopyType DEF Init, TypeOK, PCs

\* The Builder, its Builds and BuildRuns, the caches and the worker keep their
\* types, whatever Reconcile, the timer goroutine and Shipwright do.
THEOREM TypeOKHolds == Spec => []TypeOK
  BY TypeInit, TypeStep, PTL DEF Spec

-----------------------------------------------------------------------------
(* What the writes of the worker, the timer goroutine and the users change *)

\* The ways the Builder changes, whoever writes it and whatever he goes on with.
Expired == builder.live /\ ~IsCompleted(builder) /\ builder' = [builder EXCEPT !.state = "Timeout"]
Ended ==
  /\ pc = "Result" /\ pc' = "Idle" /\ local = builder /\ Result(builder) # ""
  /\ builder' = [builder EXCEPT !.state = Result(builder)]
WasReset == pc = "Reset" /\ local = builder /\ builder' = Unstarted(builder)
Recorded == pc = "Record" /\ pc' = "Idle" /\ local = builder /\ builder' = Started(builder)
Cancelled == builder.live /\ ~builder.cancel /\ builder' = [builder EXCEPT !.cancel = TRUE]
Deleted == builder.live /\ builder' = [builder EXCEPT !.live = FALSE]

\* Only a current copy is written.
LEMMA BuilderWritten ==
  ASSUME TypeOK, CopiesInv, WorkerInv, Next
  PROVE  \/ builder' = builder
         \/ (Expired \/ Ended \/ WasReset \/ Recorded) /\ builder.live
         \/ Cancelled \/ Deleted
<1> USE DEF api, caches, worker, timers, Goto, Leave, Return, Fail
<1>1. CASE Check
  <2> DEFINE new == [local EXCEPT !.state = "Timeout"]
             Then == Return /\ UNCHANGED <<timerKey, timer>>
  <2>1. CASE WriteStatus(new, Then)
    <3>1. builder' = builder \/ (localFresh /\ builder' = new)
      BY <2>1 DEF WriteStatus, Change
    <3> QED
      BY <1>1, <3>1 DEF Check, CopiesInv, Expired, WorkerInv, WriteStatus, Change
  <2>2. CASE ~WriteStatus(new, Then)
    BY <1>1, <2>2 DEF Check
  <2> QED
    BY <2>1, <2>2
<1>2. CASE GetBuilderResult
  <2>1. builder' = builder \/ (localFresh /\ builder' = [local EXCEPT !.state = Result(local)] /\ pc' = "Idle")
    BY <1>2 DEF GetBuilderResult, WriteStatus, Change
  <2> QED
    BY <1>2, <2>1 DEF GetBuilderResult, CopiesInv, Ended
<1>3. CASE ResetStatus
  <2>1. builder' = builder \/ (localFresh /\ builder' = Unstarted(local))
    BY <1>3 DEF ResetStatus, WriteStatus, Change, Unstarted
  <2> QED
    BY <1>3, <2>1 DEF ResetStatus, CopiesInv, WasReset
<1>4. CASE RecordStart
  <2>1. builder' = builder \/ (localFresh /\ builder' = Started(local) /\ pc' = "Idle")
    BY <1>4 DEF RecordStart, WriteStatus, Change
  <2> QED
    BY <1>4, <2>1 DEF RecordStart, CopiesInv, Recorded
<1>5. CASE TimerWrites
  BY <1>5 DEF TimerWrites, CopiesInv, Expired
<1>6. CASE CancelBuilder
  BY <1>6 DEF CancelBuilder, Touch, Change, Cancelled
<1>7. CASE DeleteBuilder
  BY <1>7 DEF DeleteBuilder, Touch, Change, Deleted
<1>8. CASE StartReconcile \/ CancelRun \/ StartTimer \/ CleanBuilds \/ CleanRuns \/ CreateBuild
           \/ WaitForBuild \/ CreateRun \/ TimerFires
  BY <1>8 DEF StartReconcile, CancelRun, StartTimer, CleanBuilds, CleanRuns, CreateBuild, WaitForBuild,
              CreateRun, TimerFires
<1>9. CASE Elapse \/ SyncBuilder \/ SyncBuilds \/ SyncRuns \/ Crash \/ CollectGarbage
           \/ \E k \in Starts : \/ RegisterBuild(k) \/ RunEnds(k) \/ RunIsCancelled(k)
                                \/ DeleteBuild(k) \/ DeleteRun(k)
  BY <1>9 DEF Elapse, SyncBuilder, SyncBuilds, SyncRuns, Crash, CollectGarbage, RegisterBuild, RunEnds,
              RunIsCancelled, EndRun, DeleteBuild, DeleteRun
<1> QED
  BY <1>1, <1>2, <1>3, <1>4, <1>5, <1>6, <1>7, <1>8, <1>9 DEF Next, WorkerStep

\* Only Start makes a BuildRun, and nothing is known of it before.
LEMMA RunNumGrows ==
  ASSUME TypeOK, Next
  PROVE  \/ runNum' = runNum
         \/ /\ pc = "CreateRun" /\ pc' \in {"Record", "Idle"}
            /\ runNum' = runNum + 1 /\ UNCHANGED <<builder, runCache, buildNum>>
            /\ runs' = [runs EXCEPT ![runNum + 1] = [NoRun EXCEPT !.live = TRUE]]
            /\ runNum + 1 \in Starts
<1>1. CASE CreateRun
  BY <1>1, BuilderAssumption DEF CreateRun, caches, Goto, Fail, Leave, TypeOK, Starts
<1>2. CASE ~CreateRun
  BY <1>2 DEF api, Next, WorkerStep, StartReconcile, CancelRun, Check, StartTimer, GetBuilderResult,
              ResetStatus, CleanBuilds, CleanRuns, CreateBuild, WaitForBuild, RecordStart, TimerFires,
              TimerWrites, Elapse, SyncBuilder, SyncBuilds, SyncRuns, Crash, RegisterBuild, RunEnds,
              RunIsCancelled, EndRun, CancelBuilder, DeleteBuilder, Touch, CollectGarbage, DeleteBuild,
              DeleteRun
<1> QED
  BY <1>1, <1>2

LEMMA BuildNumGrows ==
  ASSUME TypeOK, Next
  PROVE  buildNum' = buildNum \/ (pc = "CreateBuild" /\ UNCHANGED <<builder, runNum>>)
<1>1. CASE CreateBuild
  BY <1>1 DEF CreateBuild
<1>2. CASE ~CreateBuild
  BY <1>2 DEF api, Next, WorkerStep, StartReconcile, CancelRun, Check, StartTimer, GetBuilderResult,
              ResetStatus, CleanBuilds, CleanRuns, CreateRun, WaitForBuild, RecordStart, TimerFires,
              TimerWrites, Elapse, SyncBuilder, SyncBuilds, SyncRuns, Crash, RegisterBuild, RunEnds,
              RunIsCancelled, EndRun, CancelBuilder, DeleteBuilder, Touch, CollectGarbage, DeleteBuild,
              DeleteRun
<1> QED
  BY <1>1, <1>2

LEMMA DeadStays ==
  ASSUME NEW r \in BuildRun, ~r.live
  PROVE  [r EXCEPT !.live = FALSE] = r
  BY DEF BuildRun

\* What happens to a BuildRun that was made before.
LEMMA RunWritten ==
  ASSUME TypeOK, Next, runNum' = runNum, NEW k \in Starts
  PROVE  /\ runs'[k].live => runs[k].live
         /\ runs'[k].cancel => runs[k].cancel \/ pc = "Cancel"
         /\ runs'[k].state = runs[k].state
              \/ (runs[k].state = "" /\ (runs'[k].state = "Canceled" => runs[k].cancel))
         /\ ~runs[k].live => runs'[k] = runs[k]
<1> runs[k] \in BuildRun
  BY DEF TypeOK
<1>1. CASE runs'[k] = runs[k]
  BY <1>1
<1>2. CASE CancelRun
  <2>1. ASSUME runs[local.run].live, runs' = [runs EXCEPT ![local.run].cancel = TRUE]
        PROVE  /\ runs'[k].live = runs[k].live /\ runs'[k].state = runs[k].state
               /\ ~runs[k].live => runs'[k] = runs[k]
    BY <2>1 DEF TypeOK, BuildRun
  <2> QED
    BY <1>2, <2>1, CancelRunWrites DEF CancelRun
<1>3. ASSUME NEW b \in BOOLEAN, runs'[k] = [runs[k] EXCEPT !.live = runs[k].live /\ b]
      PROVE  /\ runs'[k].live => runs[k].live
             /\ runs'[k].cancel = runs[k].cancel /\ runs'[k].state = runs[k].state
             /\ ~runs[k].live => runs'[k] = runs[k]
  <2>1. ~runs[k].live => runs'[k] = [runs[k] EXCEPT !.live = FALSE]
    BY <1>3
  <2> QED
    BY <1>3, <2>1, DeadStays DEF BuildRun
<1>4. ASSUME NEW j \in Starts, NEW result \in RunResults, EndRun(j, result)
      PROVE  /\ runs'[k].live = runs[k].live /\ runs'[k].cancel = runs[k].cancel
             /\ runs'[k].state = runs[k].state \/ (runs[k].state = "" /\ runs'[k].state # "Canceled")
             /\ ~runs[k].live => runs'[k] = runs[k]
  BY <1>4, BuilderAssumption DEF EndRun, TypeOK, BuildRun
<1>5. ASSUME NEW j \in Starts, RunIsCancelled(j)
      PROVE  /\ runs'[k].live = runs[k].live /\ runs'[k].cancel = runs[k].cancel
             /\ runs'[k].state = runs[k].state \/ (runs[k].state = "" /\ runs[k].cancel)
             /\ ~runs[k].live => runs'[k] = runs[k]
  BY <1>5 DEF RunIsCancelled, EndRun, TypeOK, BuildRun
<1>6. CleanRuns => \E b \in BOOLEAN : runs'[k] = [runs[k] EXCEPT !.live = runs[k].live /\ b]
  BY DEF CleanRuns
<1>7. CollectGarbage => runs'[k] = [runs[k] EXCEPT !.live = runs[k].live /\ FALSE]
  BY DEF CollectGarbage
<1>8. ASSUME NEW j \in Starts, DeleteRun(j)
      PROVE  runs'[k] = runs[k] \/ runs'[k] = [runs[k] EXCEPT !.live = runs[k].live /\ FALSE]
  <2>1. runs'[k] = IF k = j THEN [runs[k] EXCEPT !.live = FALSE] ELSE runs[k]
    BY <1>8 DEF DeleteRun, TypeOK
  <2> QED
    BY <2>1
<1>9. \/ runs' = runs \/ CancelRun \/ CleanRuns \/ CollectGarbage
      \/ \E j \in Starts : RunEnds(j) \/ RunIsCancelled(j) \/ DeleteRun(j)
  <2>1. CASE CreateRun
    BY <2>1 DEF CreateRun, TypeOK
  <2>2. CASE ~CreateRun
    BY <2>2 DEF api, Next, WorkerStep, StartReconcile, Check, StartTimer, GetBuilderResult, ResetStatus,
                CleanBuilds, CreateBuild, WaitForBuild, RecordStart, TimerFires, TimerWrites, Elapse,
                SyncBuilder, SyncBuilds, SyncRuns, Crash, RegisterBuild, CancelBuilder, DeleteBuilder,
                Touch, DeleteBuild
  <2> QED
    BY <2>1, <2>2
<1> QED
  BY <1>1, <1>2, <1>3, <1>4, <1>5, <1>6, <1>7, <1>8, <1>9 DEF RunEnds

\* A cache shows what it showed, or what there is.
LEMMA CachesWritten ==
  ASSUME Next
  PROVE  /\ cache' = cache \/ (cache' = builder /\ builder' = builder)
         /\ runCache' = runCache \/ (runCache' = runs /\ runs' = runs)
  BY DEF api, caches, Next, WorkerStep, StartReconcile, CancelRun, Check, StartTimer, GetBuilderResult,
         ResetStatus, CleanBuilds, CleanRuns, CreateBuild, CreateRun, WaitForBuild, RecordStart, TimerFires,
         TimerWrites, Elapse, SyncBuilder, SyncBuilds, SyncRuns, Crash, RegisterBuild, RunEnds,
         RunIsCancelled, EndRun, CancelBuilder, DeleteBuilder, Touch, CollectGarbage, DeleteBuild, DeleteRun

-----------------------------------------------------------------------------
(* The inductive invariant                                                 *)

\* A status update that goes through leaves no outdated copy that passes for current.
LEMMA CopiesWritten ==
  ASSUME TypeOK, Next
  PROVE  /\ cacheFresh' => builder' = builder /\ (cache' = builder \/ (cacheFresh /\ cache' = cache))
         /\ timer' = "updating" /\ timerFresh' => /\ builder' = builder
                                                  /\ (timer = "updating" /\ timerFresh) \/ (TimerDue(cache) /\ cacheFresh)
<1> USE DEF api, caches, worker, timers
<1>1. ASSUME NEW new, Change(new)
      PROVE  /\ cacheFresh' => cacheFresh /\ builder' = builder
             /\ timerFresh' => timerFresh /\ builder' = builder
  BY <1>1 DEF Change
<1>2. ASSUME NEW new, NEW Then, WriteStatus(new, Then), Then => timer' = timer \/ timer' = "off"
      PROVE  /\ cacheFresh' => cacheFresh /\ builder' = builder
             /\ timerFresh' => timerFresh /\ builder' = builder
             /\ timer' = timer \/ timer' = "off"
  BY <1>1, <1>2 DEF WriteStatus, timers
<1>3. CASE Check
  <2> DEFINE new == [local EXCEPT !.state = "Timeout"]
             Then == Return /\ UNCHANGED <<timerKey, timer>>
  <2>1. /\ WriteStatus(new, Then) \/ UNCHANGED <<builder, cacheFresh, timers>>
        /\ UNCHANGED cache /\ (Then => timer' = timer)
    BY <1>3 DEF Check
  <2> HIDE DEF new, Then
  <2> QED
    BY <1>2, <2>1
<1>4. CASE GetBuilderResult
  <2> DEFINE new == [local EXCEPT !.state = Result(local)]
             Then == Return /\ StopTimer
  <2>1. /\ WriteStatus(new, Then) \/ UNCHANGED <<builder, cacheFresh, timers>>
        /\ UNCHANGED cache /\ (Then => timer' = timer \/ timer' = "off")
    BY <1>4 DEF GetBuilderResult, StopTimer
  <2> HIDE DEF new, Then
  <2> QED
    BY <1>2, <2>1
<1>5. CASE ResetStatus
  <2> DEFINE new == Unstarted(local)
             Then == Continue(new, "CleanBuilds")
  <2>1. WriteStatus(new, Then) /\ UNCHANGED cache /\ (Then => timer' = timer)
    BY <1>5 DEF ResetStatus, Unstarted, Continue
  <2> HIDE DEF new, Then
  <2> QED
    BY <1>2, <2>1
<1>6. CASE RecordStart
  <2> DEFINE new == Started(local)
             Then == Return /\ UNCHANGED <<timerKey, timer>>
  <2>1. WriteStatus(new, Then) /\ UNCHANGED cache /\ (Then => timer' = timer)
    BY <1>6 DEF RecordStart
  <2> HIDE DEF new, Then
  <2> QED
    BY <1>2, <2>1
<1>7. CASE CancelBuilder \/ DeleteBuilder
  <2>1. ASSUME NEW new, Touch(new)
        PROVE  /\ cacheFresh' => cacheFresh /\ builder' = builder
               /\ timerFresh' => timerFresh /\ builder' = builder
               /\ UNCHANGED <<cache, timer>>
    BY <1>1, <2>1 DEF Touch
  <2>2. PICK new : Touch(new)
    BY <1>7 DEF CancelBuilder, DeleteBuilder
  <2> QED
    BY <2>1, <2>2
<1>8. CASE TimerFires \/ TimerWrites \/ SyncBuilder \/ Crash
  BY <1>8 DEF TimerFires, TimerWrites, Retry, SyncBuilder, Crash
<1>9. CASE StartReconcile
  BY <1>9 DEF StartReconcile, StopTimer
<1>10. CASE StartTimer
  <2>1. UNCHANGED <<builder, cache, cacheFresh>>
    BY <1>10 DEF StartTimer
  <2>2. timer' = "waiting" \/ UNCHANGED timers
    BY <1>10 DEF StartTimer
  <2> QED
    BY <2>1, <2>2
<1>11. CASE \/ CancelRun \/ CleanBuilds \/ CleanRuns \/ CreateBuild \/ CreateRun \/ WaitForBuild
            \/ Elapse \/ SyncBuilds \/ SyncRuns \/ CollectGarbage
            \/ \E k \in Starts : RegisterBuild(k) \/ RunEnds(k) \/ RunIsCancelled(k)
            \/ \E k \in Starts : DeleteBuild(k) \/ DeleteRun(k)
  <2>1. UNCHANGED <<builder, cache, cacheFresh, timers>>
    BY <1>11 DEF CancelRun, CleanBuilds, CleanRuns, CreateBuild, CreateRun, WaitForBuild, Elapse, SyncBuilds,
       SyncRuns, CollectGarbage, RegisterBuild, RunEnds, RunIsCancelled, EndRun, DeleteBuild, DeleteRun
  <2> QED
    BY <2>1
<1> QED
  BY <1>3, <1>4, <1>5, <1>6, <1>7, <1>8, <1>9, <1>10, <1>11 DEF Next, WorkerStep
\* The worker's copy of the Builder comes from the cache, at the start of a reconcile.
LEMMA LocalWritten ==
  ASSUME TypeOK, Next
  PROVE  /\ localFresh' => \/ localFresh /\ UNCHANGED <<local, builder>>
                           \/ cacheFresh /\ local' = cache /\ UNCHANGED builder
                           \/ local' = builder'
         /\ pc' # "Idle" => \/ pc # "Idle" /\ local'.live = local.live
                            \/ pc = "Idle" /\ local' = cache /\ cache.live
                            \/ pc = "Idle" /\ UNCHANGED <<pc, local>>
<1> USE DEF api, worker, timers, Goto, Leave, Return, Fail
<1>1. CASE StartReconcile
  BY <1>1 DEF StartReconcile
<1>2. CASE CancelRun \/ StartTimer \/ CleanBuilds \/ CleanRuns \/ CreateBuild \/ CreateRun \/ WaitForBuild
  <2>1. UNCHANGED builder /\ (UNCHANGED <<local, localFresh>> \/ Leave) /\ pc # "Idle"
    BY <1>2 DEF CancelRun, StartTimer, CleanBuilds, CleanRuns, CreateBuild, CreateRun, WaitForBuild
  <2> QED
    BY <2>1
<1>3. CASE Check \/ GetBuilderResult \/ RecordStart
  <2>1. (UNCHANGED <<local, localFresh, builder>> \/ Leave) /\ pc # "Idle"
    BY <1>3 DEF Check, GetBuilderResult, RecordStart, WriteStatus
  <2> QED
    BY <2>1
<1>4. CASE ResetStatus
  <2> DEFINE new == Unstarted(local)
  <2>1. WriteStatus(new, Continue(new, "CleanBuilds")) /\ pc # "Idle"
    BY <1>4 DEF ResetStatus, Unstarted
  <2>2. new.live = local.live
    BY DEF Unstarted, TypeOK, Builder
  <2> HIDE DEF new
  <2>3. Leave \/ (local' = new /\ builder' = new)
    BY <2>1 DEF WriteStatus, Change, Continue
  <2> QED
    BY <2>1, <2>2, <2>3
<1>5. CASE TimerWrites \/ CancelBuilder \/ DeleteBuilder
  <2>1. CASE TimerWrites
    BY <2>1 DEF TimerWrites
  <2>2. CASE CancelBuilder \/ DeleteBuilder
    <3>1. localFresh' = FALSE /\ UNCHANGED <<pc, local>>
      BY <2>2 DEF CancelBuilder, DeleteBuilder, Touch
    <3> QED
      BY <3>1
  <2> QED
    BY <1>5, <2>1, <2>2
<1>7. CASE \/ TimerFires \/ Elapse \/ SyncBuilder \/ SyncBuilds \/ SyncRuns \/ CollectGarbage
           \/ \E k \in Starts : \/ RegisterBuild(k) \/ RunEnds(k) \/ RunIsCancelled(k)
                                \/ DeleteBuild(k) \/ DeleteRun(k)
  <2>1. UNCHANGED <<pc, local, localFresh, builder>>
    BY <1>7 DEF TimerFires, Elapse, SyncBuilder, SyncBuilds, SyncRuns, CollectGarbage, RegisterBuild, RunEnds,
       RunIsCancelled, EndRun, DeleteBuild, DeleteRun
  <2> QED
    BY <2>1
<1>6. CASE Crash
  BY <1>6 DEF Crash
<1> QED
  BY <1>1, <1>2, <1>3, <1>4, <1>5, <1>6, <1>7 DEF Next, WorkerStep

LEMMA CopiesStep == TypeOK /\ CopiesInv /\ [Next]_vars => CopiesInv'
<1> SUFFICES ASSUME TypeOK, CopiesInv, [Next]_vars PROVE CopiesInv'
  OBVIOUS
<1>1. CASE UNCHANGED vars
  BY <1>1 DEF CopiesInv, IsCompleted, vars, api, caches, worker, timers
<1>2. CASE Next
  <2>1. cacheFresh' => cache' = builder'
    BY <1>2, CopiesWritten DEF CopiesInv
  <2>2. localFresh' => local' = builder'
    BY <1>2, LocalWritten DEF CopiesInv
  <2>3. pc' # "Idle" => local'.live
    BY <1>2, LocalWritten DEF CopiesInv
  <2>4. timer' = "updating" /\ timerFresh' => builder'.live /\ ~IsCompleted(builder')
    BY <1>2, CopiesWritten DEF CopiesInv, TimerDue, IsCompleted
  <2> QED
    BY <2>1, <2>2, <2>3, <2>4 DEF CopiesInv, IsCompleted
<1> QED
  BY <1>1, <1>2

\* Nobody takes a cancellation back.
LEMMA CancelStays ==
  ASSUME TypeOK, CopiesInv, WorkerInv, Next, builder.cancel
  PROVE  builder'.cancel
  BY BuilderWritten DEF Expired, Ended, WasReset, Recorded, Cancelled, Deleted, Unstarted, Started, TypeOK,
     Builder

LEMMA CancelStep == IInv /\ [Next]_vars => CancelInv'
<1> SUFFICES ASSUME IInv, Next PROVE CancelInv'
  BY DEF IInv, CancelInv, vars, api, caches, worker
<1> USE DEF IInv
<1>1. builder.cancel => builder'.cancel
  BY CancelStays
<1>2. cache'.cancel => builder'.cancel
  BY <1>1, CachesWritten DEF CancelInv
<1>3. pc' = "Cancel" => builder'.cancel
  <2>1. pc' = "Cancel" => (pc = "Cancel" \/ cache.cancel)
    BY DEF worker, Goto, Leave, Return, Fail, Next, WorkerStep, StartReconcile, CancelRun, Check, StartTimer,
       GetBuilderResult, ResetStatus, CleanBuilds, CleanRuns, CreateBuild, CreateRun, WaitForBuild,
       RecordStart, WriteStatus, Continue, TimerFires, TimerWrites, Elapse, SyncBuilder, SyncBuilds,
       SyncRuns, Crash, RegisterBuild, RunEnds, RunIsCancelled, EndRun, CancelBuilder, DeleteBuilder,
       Touch, CollectGarbage, DeleteBuild, DeleteRun
  <2> QED
    BY <1>1, <2>1 DEF CancelInv
<1>4. ASSUME NEW k \in Starts
      PROVE  /\ runs'[k].cancel => builder'.cancel
             /\ runs'[k].state = "Canceled" => builder'.cancel
  <2>1. CASE runNum' = runNum
    BY <1>1, <2>1, RunWritten DEF CancelInv
  <2>2. CASE runNum' # runNum
    BY <1>1, <2>2, RunNumGrows DEF CancelInv, TypeOK, NoRun
  <2> QED
    BY <2>1, <2>2
<1>5. ASSUME NEW k \in Starts
      PROVE  /\ runCache'[k].cancel => builder'.cancel
             /\ runCache'[k].state = "Canceled" => builder'.cancel
  BY <1>1, CachesWritten DEF CancelInv
<1> QED
  BY <1>2, <1>3, <1>4, <1>5 DEF CancelInv

LEMMA PhaseStep == IInv /\ [Next]_vars => PhaseInv'
<1> SUFFICES ASSUME IInv, Next PROVE PhaseInv'
  BY DEF IInv, PhaseInv, vars, api
<1> USE DEF IInv
<1>1. builder'.state = builder.state \/ builder'.state = "Timeout" \/ Ended \/ WasReset \/ Recorded
  BY BuilderWritten DEF Expired, Cancelled, Deleted, TypeOK, Builder
<1>2. CASE Ended
  <2>1. Result(builder) \notin {"", "Building"}
    BY <1>2, ResultType DEF Ended, TypeOK
  <2> QED
    BY <1>2, <2>1 DEF Ended, PhaseInv, TypeOK, Builder
<1>3. CASE WasReset
  BY <1>3 DEF WasReset, Unstarted, PhaseInv, TypeOK, Builder
<1>4. CASE Recorded
  BY <1>4 DEF Recorded, Started, PhaseInv, TypeOK, Builder
<1>5. CASE ~Ended /\ ~WasReset /\ ~Recorded
  <2>1. builder'.started = builder.started /\ builder'.build = builder.build /\ builder'.run = builder.run
    BY <1>5, BuilderWritten DEF Expired, Cancelled, Deleted, TypeOK, Builder
  <2> QED
    BY <1>1, <1>5, <2>1 DEF PhaseInv
<1> QED
  BY <1>2, <1>3, <1>4, <1>5

\* How the worker goes on.
LEMMA WorkerGoesOn ==
  ASSUME Next
  PROVE  \/ pc' = "Idle"
         \/ UNCHANGED <<pc, local>>
         \/ pc = "Idle" /\ pc' \in {"Cancel", "Check"}
         \/ pc = "Cancel" /\ pc' = "Check"
         \/ pc = "Check" /\ pc' = "StartTimer" /\ ~IsCompleted(local) /\ UNCHANGED local
         \/ /\ pc = "StartTimer" /\ UNCHANGED local
            /\ pc' = IF local.started /\ local.state # "" THEN "Result" ELSE "Reset"
         \/ pc = "Reset" /\ pc' = "CleanBuilds" /\ local' = Unstarted(local) /\ builder' = local'
         \/ /\ UNCHANGED local
            /\ \/ pc = "CleanBuilds" /\ pc' = "CleanRuns"
               \/ pc = "CleanRuns" /\ pc' = "CreateBuild"
               \/ pc = "CreateBuild" /\ pc' = "WaitForBuild"
               \/ pc = "WaitForBuild" /\ pc' = "CreateRun"
               \/ pc = "CreateRun" /\ pc' = "Record"
<1> USE DEF worker, Goto, Leave, Return, Fail
<1>1. CASE StartReconcile \/ CancelRun \/ StartTimer \/ CleanBuilds \/ CleanRuns \/ CreateBuild
           \/ WaitForBuild \/ CreateRun
  BY <1>1 DEF StartReconcile, CancelRun, StartTimer, CleanBuilds, CleanRuns, CreateBuild, WaitForBuild, CreateRun
<1>2. CASE Check \/ GetBuilderResult \/ RecordStart
  BY <1>2 DEF Check, GetBuilderResult, RecordStart, WriteStatus
<1>3. CASE ResetStatus
  <2> DEFINE new == Unstarted(local)
  <2>1. WriteStatus(new, Continue(new, "CleanBuilds")) /\ pc = "Reset"
    BY <1>3 DEF ResetStatus, Unstarted
  <2> HIDE DEF new
  <2>2. pc' = "Idle" \/ (local' = new /\ builder' = new /\ pc' = "CleanBuilds")
    BY <2>1 DEF WriteStatus, Change, Continue
  <2> QED
    BY <2>1, <2>2 DEF new
<1>4. CASE \/ TimerFires \/ TimerWrites \/ Elapse \/ SyncBuilder \/ SyncBuilds \/ SyncRuns \/ CollectGarbage
           \/ CancelBuilder \/ DeleteBuilder
           \/ \E k \in Starts : \/ RegisterBuild(k) \/ RunEnds(k) \/ RunIsCancelled(k)
                                \/ DeleteBuild(k) \/ DeleteRun(k)
  BY <1>4 DEF TimerFires, TimerWrites, Elapse, SyncBuilder, SyncBuilds, SyncRuns, CollectGarbage, CancelBuilder,
     DeleteBuilder, Touch, RegisterBuild, RunEnds, RunIsCancelled, EndRun, DeleteBuild, DeleteRun
<1>5. CASE Crash
  BY <1>5 DEF Crash
<1> QED
  BY <1>1, <1>2, <1>3, <1>4, <1>5 DEF Next, WorkerStep

LEMMA WorkerKept == IInv /\ [Next]_vars => WorkerInv'
<1> SUFFICES ASSUME IInv, [Next]_vars PROVE WorkerInv'
  OBVIOUS
<1> USE DEF IInv
<1>1. CASE UNCHANGED vars
  BY <1>1 DEF WorkerInv, Starting, IsCompleted, vars, api, worker
<1>2. CASE Next
  <2>1. pc' \in {"StartTimer", "Result", "Reset"} => ~IsCompleted(local')
    BY <1>2, WorkerGoesOn DEF WorkerInv, IsCompleted
  <2>2. /\ pc' = "Result" => local'.started /\ local'.state # ""
        /\ pc' = "Reset" => ~(local'.started /\ local'.state # "")
    BY <1>2, WorkerGoesOn DEF WorkerInv
  <2>3. ASSUME Starting, Starting'
        PROVE  local'.state = "" /\ builder'.run = 0
    <3>1. UNCHANGED local
      BY <1>2, <2>3, WorkerGoesOn DEF Starting
    <3>2. builder'.run = builder.run
      BY <1>2, <2>3, BuilderWritten DEF Starting, Expired, Ended, WasReset, Recorded, Cancelled, Deleted, TypeOK, Builder
    <3> QED
      BY <2>3, <3>1, <3>2 DEF WorkerInv
  <2>4. ASSUME ~Starting, Starting'
        PROVE  local'.state = "" /\ builder'.run = 0
    <3>1. local' = Unstarted(local) /\ builder' = local'
      BY <1>2, <2>4, WorkerGoesOn DEF Starting
    <3> QED
      BY <3>1 DEF Unstarted, TypeOK, Builder
  <2> QED
    BY <2>1, <2>2, <2>3, <2>4 DEF WorkerInv, IsCompleted
<1> QED
  BY <1>1, <1>2

LEMMA NoRunIs == NoRun.live = FALSE /\ NoRun.cancel = FALSE /\ NoRun.state = ""
  BY DEF NoRun

LEMMA RunsStep == IInv /\ [Next]_vars => RunsInv'
<1> SUFFICES ASSUME IInv, [Next]_vars PROVE RunsInv'
  OBVIOUS
<1> USE DEF IInv
<1>1. CASE UNCHANGED vars
  BY <1>1 DEF RunsInv, vars, api, caches
<1>2. CASE Next /\ runNum' = runNum
  <2>1. ASSUME NEW k \in Starts
        PROVE  /\ k > runNum' => runs'[k] = NoRun /\ runCache'[k] = NoRun
               /\ runCache'[k].state # "" => runs'[k].state = runCache'[k].state
    <3>1. k > runNum => runs[k] = NoRun /\ runCache[k] = NoRun
      BY DEF RunsInv
    <3>2. k > runNum => runs'[k] = NoRun
      BY <1>2, <3>1, RunWritten, NoRunIs
    <3>3. runs[k].state # "" => runs'[k].state = runs[k].state
      BY <1>2, RunWritten
    <3>4. runCache'[k] = runCache[k] \/ runCache'[k] = runs'[k]
      BY <1>2, CachesWritten
    <3> QED
      BY <1>2, <3>1, <3>2, <3>3, <3>4 DEF RunsInv
  <2> QED
    BY <2>1 DEF RunsInv
<1>3. CASE Next /\ runNum' # runNum
  <2>1. /\ runNum' = runNum + 1 /\ UNCHANGED runCache
        /\ runs' = [runs EXCEPT ![runNum + 1] = [NoRun EXCEPT !.live = TRUE]]
    BY <1>3, RunNumGrows
  <2>2. runNum \in Nat
    BY DEF TypeOK
  <2>3. ASSUME NEW k \in Starts
        PROVE  /\ k > runNum' => runs'[k] = NoRun /\ runCache'[k] = NoRun
               /\ runCache'[k].state # "" => runs'[k].state = runCache'[k].state
    <3>1. k \in Nat
      BY DEF Starts
    <3>2. k > runNum' => k > runNum /\ k # runNum + 1
      BY <2>1, <2>2, <3>1
    <3>3. k # runNum + 1 => runs'[k] = runs[k]
      BY <2>1 DEF TypeOK
    <3>4. k = runNum + 1 => k > runNum
      BY <2>2, <3>1
    <3>5. k > runNum => runs[k] = NoRun /\ runCache[k] = NoRun
      BY DEF RunsInv
    <3>6. runCache[k].state # "" => runs[k].state = runCache[k].state
      BY DEF RunsInv
    <3>7. CASE k = runNum + 1
      BY <2>1, <3>2, <3>4, <3>5, <3>7, NoRunIs
    <3>8. CASE k # runNum + 1
      BY <2>1, <3>2, <3>3, <3>5, <3>6, <3>8
    <3> QED
      BY <3>7, <3>8
  <2> QED
    BY <2>3 DEF RunsInv
<1> QED
  BY <1>1, <1>2, <1>3

LEMMA RecordStep == IInv /\ [Next]_vars => RecordedRunIsLast'
<1> SUFFICES ASSUME IInv, [Next]_vars PROVE RecordedRunIsLast'
  OBVIOUS
<1> USE DEF IInv
<1>1. CASE UNCHANGED vars
  BY <1>1 DEF RecordedRunIsLast, vars, api
<1>2. CASE Next /\ UNCHANGED <<runNum, buildNum>>
  <2>1. CASE Recorded
    BY <1>2, <2>1 DEF Recorded, Started, RecordedRunIsLast, TypeOK, Builder
  <2>2. CASE WasReset
    BY <1>2, <2>2 DEF WasReset, Unstarted, RecordedRunIsLast, TypeOK, Builder
  <2>3. CASE ~Recorded /\ ~WasReset
    <3>1. builder'.run = builder.run /\ builder'.build = builder.build
      BY <1>2, <2>3, BuilderWritten DEF Expired, Ended, Cancelled, Deleted, TypeOK, Builder
    <3> QED
      BY <1>2, <3>1 DEF RecordedRunIsLast
  <2> QED
    BY <2>1, <2>2, <2>3
<1>3. CASE Next /\ ~UNCHANGED <<runNum, buildNum>>
  <2>1. builder.run = 0 /\ builder' = builder
    BY <1>3, RunNumGrows, BuildNumGrows DEF WorkerInv, Starting
  <2> QED
    BY <2>1 DEF RecordedRunIsLast
<1> QED
  BY <1>1, <1>2, <1>3

LEMMA EndStep == IInv /\ [Next]_vars => EndIsTheRuns'
<1> SUFFICES ASSUME IInv, [Next]_vars PROVE EndIsTheRuns'
  OBVIOUS
<1> USE DEF IInv
<1>1. CASE UNCHANGED vars
  BY <1>1 DEF EndIsTheRuns, IsCompleted, vars, api
<1>2. CASE Next
  <2>1. ASSUME NEW k \in Starts, runs[k].state # ""
        PROVE  runs'[k].state = runs[k].state
    <3>1. CASE runNum' = runNum
      BY <1>2, <2>1, <3>1, RunWritten
    <3>2. CASE runNum' # runNum
      <4>1. runNum \in Nat /\ k \in Nat
        BY DEF TypeOK, Starts
      <4>2. k = runNum + 1 => k > runNum
        BY <4>1
      <4>3. k > runNum => runs[k].state = ""
        BY NoRunIs DEF RunsInv
      <4> QED
        BY <1>2, <2>1, <3>2, <4>2, <4>3, RunNumGrows DEF TypeOK
    <3> QED
      BY <3>1, <3>2
  <2>2. builder.run # 0 => builder.run \in Starts
    BY DEF TypeOK, Builder, Starts
  <2>3. CASE Ended
    <3>1. /\ builder.run # 0 /\ builder'.run = builder.run
          /\ runCache[builder.run].state # "" /\ builder'.state = runCache[builder.run].state
      BY <2>3 DEF Ended, Result, TypeOK, Builder
    <3>2. runs[builder.run].state = runCache[builder.run].state
      BY <2>2, <3>1 DEF RunsInv
    <3> QED
      BY <2>1, <2>2, <3>1, <3>2 DEF EndIsTheRuns
  <2>4. CASE builder'.state = "Timeout" \/ WasReset \/ Recorded
    BY <2>4 DEF WasReset, Recorded, Unstarted, Started, EndIsTheRuns, IsCompleted, TypeOK, Builder
  <2>5. CASE UNCHANGED <<builder.state, builder.run>>
    <3>1. ASSUME IsCompleted(builder), builder.state # "Timeout"
          PROVE  builder.run # 0 /\ runs'[builder.run].state = builder.state
      <4>1. builder.run # 0 /\ runs[builder.run].state = builder.state
        BY <3>1 DEF EndIsTheRuns
      <4> QED
        BY <2>1, <2>2, <3>1, <4>1 DEF IsCompleted
    <3> QED
      BY <2>5, <3>1 DEF EndIsTheRuns, IsCompleted
  <2> QED
    BY <1>2, <2>3, <2>4, <2>5, BuilderWritten DEF Expired, Cancelled, Deleted, TypeOK, Builder
<1> QED
  BY <1>1, <1>2

LEMMA Inductive == IInv /\ [Next]_vars => IInv'
  BY TypeStep, CopiesStep, CancelStep, PhaseStep, WorkerKept, RunsStep, RecordStep, EndStep DEF IInv

LEMMA InitInv == Init => IInv
<1> SUFFICES ASSUME Init PROVE IInv
  OBVIOUS
<1>1. \A k \in Starts : runs[k] = NoRun /\ runCache[k] = NoRun
  BY DEF Init
<1>2. CancelInv /\ RunsInv
  BY <1>1 DEF CancelInv, RunsInv, Init, NewBuilder, NoRun
<1> QED
  BY <1>2, TypeInit DEF Init, IInv, CopiesInv, PhaseInv, WorkerInv, Starting, RecordedRunIsLast, EndIsTheRuns,
     IsCompleted, NewBuilder

LEMMA InvHolds == Spec => []IInv
  BY InitInv, Inductive, PTL DEF Spec

\* A recorded start is never repeated: the status refers to the last BuildRun and
\* the last Build, however many reconciles, restarts and failed starts there were.
THEOREM RecordedRunIsLastHolds == Spec => []RecordedRunIsLast
<1>1. IInv => RecordedRunIsLast
  BY DEF IInv
<1> QED
  BY <1>1, InvHolds, PTL

\* The status does not invent an end: it is the end of the recorded BuildRun, read
\* through a cache that may be behind, or the timeout.
THEOREM EndIsTheRunsHolds == Spec => []EndIsTheRuns
<1>1. IInv => EndIsTheRuns
  BY DEF IInv
<1> QED
  BY <1>1, InvHolds, PTL

-----------------------------------------------------------------------------
(* What the Function reconciler takes for granted                          *)

LEMMA LifecycleInit == Init => Lifecycle!Init
<1>1. /\ NewBuilder.state = "" /\ NewBuilder.started = FALSE
      /\ NewBuilder.cancel = FALSE /\ NewBuilder.live = TRUE
  BY DEF NewBuilder
<1> QED
  BY <1>1 DEF Init, Lifecycle!Init

\* Every write of the status is a step of the lifecycle, or changes nothing of it.
LEMMA LifecycleStep == IInv /\ [Next]_vars => [Lifecycle!Next]_(Lifecycle!vars)
<1> SUFFICES ASSUME IInv, [Next]_vars PROVE [Lifecycle!Next]_(Lifecycle!vars)
  OBVIOUS
<1> USE DEF IInv, Lifecycle!vars, Lifecycle!Next, TypeOK
<1>1. CASE UNCHANGED vars \/ builder' = builder
  BY <1>1 DEF vars, api
<1>2. CASE Expired
  BY <1>2 DEF Expired, IsCompleted, Builder, Lifecycle!Expire, Lifecycle!Completed
<1>3. CASE Ended /\ builder.live
  <2>1. Result(builder) \in Lifecycle!Ends
    BY <1>3, ResultType DEF Ended, Lifecycle!Ends
  <2>2. Result(builder) = "Canceled" => builder.cancel
    <3>1. builder.run # 0 => builder.run \in Starts
      BY DEF Builder, Starts
    <3> QED
      BY <3>1 DEF Result, CancelInv
  <2>3. builder.state = "Building"
    BY <1>3 DEF Ended, WorkerInv, PhaseInv, IsCompleted
  <2> QED
    BY <1>3, <2>1, <2>2, <2>3 DEF Ended, Builder, Lifecycle!End
<1>4. CASE WasReset
  <2>1. builder.state = "" /\ ~builder.started
    BY <1>4 DEF WasReset, WorkerInv, PhaseInv, IsCompleted
  <2> QED
    BY <1>4, <2>1 DEF WasReset, Unstarted, Builder
<1>5. CASE Recorded /\ builder.live
  <2>1. builder.state = ""
    BY <1>5 DEF Recorded, WorkerInv, Starting
  <2> QED
    BY <1>5, <2>1 DEF Recorded, Started, Builder, Lifecycle!Start
<1>6. CASE Cancelled
  BY <1>6 DEF Cancelled, Builder, Lifecycle!Cancel
<1>7. CASE Deleted
  BY <1>7 DEF Deleted, Builder, Lifecycle!Delete
<1> QED
  BY <1>1, <1>2, <1>3, <1>4, <1>5, <1>6, <1>7, BuilderWritten

\* Reconcile, the timer goroutine, a restarted operator and refused or doubled
\* writes together start a Builder at most once and end it at most once.
THEOREM ImplementsLifecycleHolds == Spec => ImplementsLifecycle
  BY InvHolds, LifecycleInit, LifecycleStep, PTL DEF Spec, ImplementsLifecycle, Lifecycle!Spec

-----------------------------------------------------------------------------
(* One BuildRun at a time                                                  *)

\* Clean leaves no BuildRun behind when the cache knew of all of them.
LEMMA CleanRunsAll ==
  ASSUME IInv, CleanInv, Next, pc = "CleanRuns", pc' = "CreateBuild", NEW k \in Starts
  PROVE  ~runs'[k].live
<1>1. CleanRuns
  BY DEF Next, WorkerStep, StartReconcile, CancelRun, Check, StartTimer, GetBuilderResult, ResetStatus,
     CleanBuilds, CreateBuild, WaitForBuild, CreateRun, RecordStart, TimerFires, TimerWrites, Elapse,
     SyncBuilder, SyncBuilds, SyncRuns, Crash, RegisterBuild, RunEnds, RunIsCancelled, EndRun,
     CancelBuilder, DeleteBuilder, Touch, CollectGarbage, DeleteBuild, DeleteRun, Leave, worker
<1>2. runs' = [j \in Starts |-> [runs[j] EXCEPT !.live = runs[j].live /\ j \notin ListedRuns]]
  BY <1>1 DEF CleanRuns, Fail, Leave
<1>3. runs[k].live => k \in ListedRuns
  BY DEF CleanInv, BeforeClean, ListedRuns
<1>4. runs'[k].live = (runs[k].live /\ k \notin ListedRuns)
  BY <1>2 DEF IInv, TypeOK, BuildRun
<1> QED
  BY <1>3, <1>4

LEMMA CleanStep ==
  ASSUME "lag" \notin Disturbances
  PROVE  IInv /\ CleanInv /\ [Next]_vars => CleanInv'
<1> SUFFICES ASSUME IInv, CleanInv, [Next]_vars PROVE CleanInv'
  OBVIOUS
<1>1. CASE UNCHANGED vars
  BY <1>1 DEF CleanInv, BeforeClean, Cleaned, vars, api, caches, worker
<1>2. CASE Next
  <2>1. ASSUME NEW k \in Starts, runs'[k].live
        PROVE  k = runNum'
    <3>1. CASE runNum' = runNum
      BY <1>2, <2>1, <3>1, RunWritten DEF CleanInv, IInv
    <3>2. CASE runNum' # runNum
      <4>1. ~runs[k].live
        BY <1>2, <3>2, RunNumGrows DEF CleanInv, Cleaned, IInv
      <4>2. k # runNum + 1 => runs'[k] = runs[k]
        BY <1>2, <3>2, RunNumGrows DEF IInv, TypeOK
      <4> QED
        BY <1>2, <2>1, <3>2, <4>1, <4>2, RunNumGrows DEF IInv
    <3> QED
      BY <3>1, <3>2
  <2>2. ASSUME BeforeClean', NEW k \in Starts, runs'[k].live
        PROVE  runCache'[k].live
    <3>1. runNum' = runNum
      BY <1>2, <2>2, RunNumGrows DEF BeforeClean, IInv
    <3>2. runs[k].live
      BY <1>2, <2>2, <3>1, RunWritten DEF IInv
    <3>3. CASE BeforeClean
      BY <1>2, <2>2, <3>2, <3>3, CachesWritten DEF CleanInv
    <3>4. CASE ~BeforeClean
      <4>1. pc = "Idle"
        BY <1>2, <2>2, <3>4, WorkerGoesOn DEF BeforeClean
      <4>2. StartReconcile
        BY <1>2, <2>2, <4>1 DEF BeforeClean, Next, WorkerStep, CancelRun, Check, StartTimer, GetBuilderResult,
           ResetStatus, CleanBuilds, CleanRuns, CreateBuild, WaitForBuild, CreateRun, RecordStart, TimerFires,
           TimerWrites, Elapse, SyncBuilder, SyncBuilds, SyncRuns, Crash, RegisterBuild, RunEnds,
           RunIsCancelled, EndRun, CancelBuilder, DeleteBuilder, Touch, CollectGarbage, DeleteBuild,
           DeleteRun, Leave, worker
      <4>3. runCache = runs /\ runCache' = runs
        BY <4>2 DEF StartReconcile, Disturb, caches
      <4> QED
        BY <3>2, <4>3
    <3> QED
      BY <3>3, <3>4
  <2>3. ASSUME Cleaned', NEW k \in Starts
        PROVE  ~runs'[k].live
    <3>1. runNum' = runNum
      BY <1>2, <2>3, RunNumGrows DEF Cleaned, IInv
    <3>2. CASE Cleaned
      BY <1>2, <3>1, <3>2, RunWritten DEF CleanInv, IInv
    <3>3. CASE ~Cleaned
      <4>1. pc = "CleanRuns" /\ pc' = "CreateBuild"
        BY <1>2, <2>3, <3>3, WorkerGoesOn DEF Cleaned
      <4> QED
        BY <1>2, <4>1, CleanRunsAll
    <3> QED
      BY <3>2, <3>3
  <2> QED
    BY <2>1, <2>2, <2>3 DEF CleanInv
<1> QED
  BY <1>1, <1>2

LEMMA CleanInit == Init => CleanInv
<1> SUFFICES ASSUME Init PROVE CleanInv
  OBVIOUS
<1>1. \A k \in Starts : runs[k].live = FALSE
  BY NoRunIs DEF Init
<1> QED
  BY <1>1 DEF CleanInv

\* When reconciles find the Builds and BuildRuns of the last one in their caches, no
\* two BuildRuns are active, whatever failed, was cancelled or was restarted.
THEOREM OneActiveRunHolds ==
  ASSUME "lag" \notin Disturbances
  PROVE  Spec => []OneActiveRun
<1>1. IInv /\ CleanInv /\ [Next]_vars => CleanInv'
  BY CleanStep
<1>2. CleanInv => OneActiveRun
  <2> SUFFICES ASSUME CleanInv PROVE OneActiveRun
    OBVIOUS
  <2>1. ActiveRuns \subseteq {runNum}
    BY DEF CleanInv, ActiveRuns
  <2>2. IsFiniteSet({runNum}) /\ Cardinality({runNum}) = 1
    BY FS_Singleton
  <2>3. Cardinality(ActiveRuns) <= Cardinality({runNum})
    BY <2>1, <2>2, FS_Subset
  <2> QED
    BY <2>2, <2>3 DEF OneActiveRun
<1> QED
  BY <1>1, <1>2, InvHolds, CleanInit, PTL DEF Spec
=============================================================================
