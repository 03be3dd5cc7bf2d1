--------------------------- MODULE LifecycleProofs ---------------------------
(***************************************************************************)
(* Proofs about Lifecycle: the worker count is exact, the pool stays in    *)
(* its bounds, and Core.Close leaves no goroutine behind.                  *)
(***************************************************************************)
EXTENDS Lifecycle, TLAPS

\* The pool: nothing runs before Start, and while serving the count is exact.
PoolInv ==
    /\ TypeOK
    /\ busy <= live
    /\ manager # "started" => live = 0 /\ scaler = "none" /\ routines \cap ManagerRoutines = {}
    /\ manager # "started" /\ stop = "running" => count = Base
    /\ CountIsExact
    /\ PoolInBounds

\* Closing: how far Core.Close has come, and what has ended by then.
CloseInv ==
    /\ manager = "none" => "udp" \notin routines
    /\ closing \in {"no", "flagged"} => stop = "running"
    /\ closing \in {"storage", "done"} => stop = "joined" \/ manager = "none"
    /\ stop = "joined" => live = 0 /\ scaler = "none" /\ routines \subseteq {"purge"}
    /\ closing = "done" => "purge" \notin routines

LEMMA PoolStart == Init => PoolInv
BY LifecycleAssumption DEF Init, PoolInv, TypeOK, CountIsExact, PoolInBounds, Serving,
   Spawning, Fills, Routines, ManagerRoutines

LEMMA PoolStep == PoolInv /\ [Next]_vars => PoolInv'
<1> SUFFICES ASSUME PoolInv, [Next]_vars PROVE PoolInv'
  OBVIOUS
<1> USE LifecycleAssumption DEF PoolInv, TypeOK, CountIsExact, PoolInBounds, Serving,
        Spawning, Fills, Routines, ManagerRoutines
<1>1. ASSUME Start, request' \in [Requests -> {"idle", "ensured"}],
             UNCHANGED <<closing, stop, fill>>
      PROVE  PoolInv'
  <2>1. CASE stop = "running" /\ manager # "started"
    <3>1. TypeOK'
      BY <1>1, <2>1 DEF Start
    <3>2. QED
      BY <1>1, <2>1, <3>1 DEF Start
  <2>2. CASE ~(stop = "running" /\ manager # "started")
    <3>1. UNCHANGED <<manager, routines, poolVars>>
      BY <1>1, <2>2 DEF Start
    <3>2. TypeOK'
      BY <1>1, <3>1 DEF poolVars
    <3>3. QED
      BY <1>1, <3>1, <3>2 DEF poolVars
  <2>3. QED
    BY <2>1, <2>2
<1>2. CASE CoreStart
  BY <1>1, <1>2 DEF CoreStart
<1>3. ASSUME NEW r \in Requests, EnsureForwarderManager(r) \/ RequestDone(r) PROVE PoolInv'
  <2>1. request' \in [Requests -> {"idle", "ensured"}]
    BY <1>3 DEF EnsureForwarderManager, RequestDone
  <2>2. CASE EnsureForwarderManager(r) /\ manager = "none"
    BY <1>1, <2>1, <2>2 DEF EnsureForwarderManager
  <2>3. CASE ~(EnsureForwarderManager(r) /\ manager = "none")
    <3>1. UNCHANGED <<manager, routines, poolVars, closing, stop, fill>>
      BY <1>3, <2>3 DEF EnsureForwarderManager, RequestDone
    <3>2. TypeOK'
      BY <2>1, <3>1 DEF poolVars
    <3>3. QED
      BY <3>1, <3>2 DEF poolVars
  <2>4. QED
    BY <2>2, <2>3
<1>4. CASE TakeJob
  BY <1>4 DEF TakeJob, coreVars
<1>5. CASE FinishJob
  BY <1>5 DEF FinishJob, coreVars
<1>6. CASE ScaleDown
  BY <1>6 DEF ScaleDown, coreVars
<1>7. CASE WorkerExit
  BY <1>7 DEF WorkerExit, coreVars
<1>8. CASE ReadFill
  BY <1>8 DEF ReadFill, coreVars
<1>9. CASE Scale
  BY <1>9 DEF Scale, coreVars
<1>10. CASE Spawn
  BY <1>10 DEF Spawn, coreVars
<1>11. CASE ScalerExit
  BY <1>11 DEF ScalerExit, coreVars
<1>12. ASSUME NEW t \in ManagerRoutines, RoutineExit(t) PROVE PoolInv'
  BY <1>12 DEF RoutineExit, poolVars
<1>13. CASE CloseFlag
  BY <1>13 DEF CloseFlag, poolVars
<1>14. CASE StopTasks
  BY <1>14 DEF StopTasks, poolVars
<1>15. CASE StopJoin
  BY <1>15 DEF StopJoin
<1>16. CASE CloseStorage
  BY <1>16 DEF CloseStorage, poolVars
<1>17. CASE FillChanges
  BY <1>17 DEF FillChanges, coreVars, poolVars
<1>18. CASE UNCHANGED vars
  BY <1>18 DEF vars, coreVars, poolVars
<1>19. QED
  BY <1>2, <1>3, <1>4, <1>5, <1>6, <1>7, <1>8, <1>9, <1>10, <1>11, <1>12, <1>13, <1>14,
     <1>15, <1>16, <1>17, <1>18 DEF Next

\* The pool, its tokens and its routines stay well typed; in particular no count
\* of scaleWorkers and worker becomes negative.
THEOREM PoolTypeCorrect == Spec => []TypeOK
<1>1. PoolInv => TypeOK
  BY DEF PoolInv
<1>2. QED
  BY <1>1, PoolStart, PoolStep, PTL DEF Spec

\* The worker count that all scaling decisions of scaleWorkers and worker rest
\* on is exact, for every pool size.
THEOREM WorkerCountExact == Spec => []CountIsExact
<1>1. PoolInv => CountIsExact
  BY DEF PoolInv
<1>2. QED
  BY <1>1, PoolStart, PoolStep, PTL DEF Spec

\* Late and repeated scale-down tokens never take the pool below its configured
\* size, and scaling up never beyond the maximum.
THEOREM PoolStaysInBounds == Spec => []PoolInBounds
<1>1. PoolInv => PoolInBounds
  BY DEF PoolInv
<1>2. QED
  BY <1>1, PoolStart, PoolStep, PTL DEF Spec

LEMMA CloseStep == PoolInv /\ CloseInv /\ [Next]_vars => CloseInv'
<1> SUFFICES ASSUME PoolInv, CloseInv, [Next]_vars PROVE CloseInv'
  OBVIOUS
<1> USE DEF PoolInv, CloseInv, TypeOK, Routines, ManagerRoutines
<1>1. CASE CoreStart
  BY <1>1 DEF CoreStart, Start, poolVars
<1>2. ASSUME NEW r \in Requests, EnsureForwarderManager(r) \/ RequestDone(r) PROVE CloseInv'
  BY <1>2 DEF EnsureForwarderManager, RequestDone, Start, poolVars
<1>3. CASE TakeJob \/ FinishJob
  BY <1>3 DEF TakeJob, FinishJob, coreVars
<1>4. CASE ScaleDown \/ WorkerExit
  BY <1>4 DEF ScaleDown, WorkerExit, coreVars
<1>5. CASE ReadFill \/ Scale \/ Spawn
  BY <1>5 DEF ReadFill, Scale, Spawn, coreVars
<1>6. CASE ScalerExit \/ (\E t \in ManagerRoutines : RoutineExit(t))
  BY <1>6 DEF ScalerExit, RoutineExit, coreVars, poolVars
<1>7. CASE CloseFlag \/ StopTasks \/ StopJoin \/ CloseStorage
  BY <1>7 DEF CloseFlag, StopTasks, StopJoin, CloseStorage, poolVars
<1>8. CASE FillChanges
  BY <1>8 DEF FillChanges, coreVars, poolVars
<1>9. CASE UNCHANGED vars
  BY <1>9 DEF vars, coreVars, poolVars
<1>10. QED
  BY <1>1, <1>2, <1>3, <1>4, <1>5, <1>6, <1>7, <1>8, <1>9 DEF Next

\* When Core.Close has returned, no goroutine of the manager, its UDP client or
\* the storage is left, whenever requests create the manager.
THEOREM CloseIsQuiet == Spec => []QuietAfterClose
<1>1. Init => CloseInv
  BY DEF Init, CloseInv
<1>2. PoolInv /\ CloseInv => QuietAfterClose
  BY DEF PoolInv, CloseInv, TypeOK, QuietAfterClose, Routines, ManagerRoutines
<1>3. QED
  BY <1>1, <1>2, PoolStart, PoolStep, CloseStep, PTL DEF Spec
=============================================================================
