------------------------------ MODULE Lifecycle ------------------------------
(***************************************************************************)
(* Goroutines and who ends them: Core, which may create its                *)
(* ForwarderManager at start or with the first /add-forwarder request      *)
(* (core.go), the announce workers and scaleWorkers (forwarderManager.go), *)
(* and backgroundTasks, which counts goroutines in and refuses new ones    *)
(* once stopping (background.go).                                          *)
(*                                                                         *)
(* Workers are counted, not named: live ones, and among them the busy      *)
(* ones.  Of the queue only the fill matters here: below 40 percent        *)
(* ("low"), at queueScaleThreshold or above ("high"), or between.          *)
(***************************************************************************)
EXTENDS Naturals

CONSTANTS
    Base,         \* Config.ForwarderWorkers
    MaxWorkers,   \* fm.maxWorkers
    TokenCap,     \* cap(fm.scaleDownChan)
    Requests      \* goroutines that serve /add-forwarder

ASSUME LifecycleAssumption ==
    /\ Base \in Nat \ {0} /\ MaxWorkers \in Nat /\ TokenCap \in Nat \ {0}

VARIABLES
    manager,    \* core.ForwarderManager: "none", "made", "started"
    request,    \* /add-forwarder requests: "idle", "ensured"
    stop,       \* fm.tasks: "running", "stopping" (stopped is set), "joined"
    closing,    \* Core.Close: "no", "flagged" (closed is set), "manager", "storage", "done"
    routines,   \* the other goroutines that run
    live,       \* worker goroutines
    busy,       \* the ones with a job
    count,      \* fm.workerCount
    tokens,     \* len(fm.scaleDownChan)
    fill,       \* the queue
    scaler,     \* scaleWorkers: "none", "idle", "read", "spawn"
    seen        \* the fill it has read

poolVars == <<live, busy, count, tokens, scaler, seen>>
coreVars == <<manager, request, closing, routines>>
vars == <<coreVars, poolVars, stop, fill>>

Fills == {"low", "middle", "high"}

\* What runs besides workers and scaleWorkers: schedulerRoutine and statsRoutine
\* of the manager, the cleanup of its UDP client, and the routines of the storage.
ManagerRoutines == {"scheduler", "stats"}
Routines == ManagerRoutines \cup {"udp", "purge"}

TypeOK ==
    /\ manager \in {"none", "made", "started"}
    /\ request \in [Requests -> {"idle", "ensured"}]
    /\ stop \in {"running", "stopping", "joined"}
    /\ closing \in {"no", "flagged", "manager", "storage", "done"}
    /\ routines \subseteq Routines
    /\ live \in Nat /\ busy \in Nat /\ count \in Nat /\ tokens \in 0 .. TokenCap
    /\ fill \in Fills
    /\ scaler \in {"none", "idle", "read", "spawn"} /\ seen \in Fills

\* NewCore, with or without configured forwarders.
Init ==
    /\ \/ manager = "none" /\ routines = {"purge"}
       \/ manager = "made" /\ routines = {"purge", "udp"}
    /\ closing = "no"
    /\ request = [r \in Requests |-> "idle"]
    /\ stop = "running"
    /\ live = 0 /\ busy = 0 /\ count = Base /\ tokens = 0
    /\ fill = "low"
    /\ scaler = "none" /\ seen = "low"
-----------------------------------------------------------------------------
\* ForwarderManager.Start, with queueMu read-locked: tasks cannot stop halfway.
\* The UDP client's routine runs since NewForwarderManager.
Start ==
    IF stop = "running" /\ manager # "started"
    THEN /\ manager' = "started"
         /\ live' = Base /\ scaler' = "idle"
         /\ routines' = routines \cup ManagerRoutines \cup {"udp"}
         /\ UNCHANGED <<busy, count, tokens, seen>>
    ELSE UNCHANGED <<manager, routines, poolVars>>

\* Core.Start, with forwarderMu held.
CoreStart ==
    /\ manager = "made" /\ closing = "no"
    /\ Start
    /\ UNCHANGED <<request, closing, stop, fill>>

\* A slip in ensureForwarderManager: closed is not looked at.
EnsureForwarderManager_WhenClosed(r) ==
    /\ request[r] = "idle"
    /\ request' = [request EXCEPT ![r] = "ensured"]
    /\ IF manager = "none" THEN Start ELSE UNCHANGED <<manager, routines, poolVars>>
    /\ UNCHANGED <<closing, stop, fill>>

\* ensureForwarderManager, with forwarderMu held: none once closed, else the
\* manager there is, else a new one that is started at once.
EnsureForwarderManager(r) ==
    /\ request[r] = "idle" /\ closing = "no"
    /\ request' = [request EXCEPT ![r] = "ensured"]
    /\ IF manager = "none" THEN Start ELSE UNCHANGED <<manager, routines, poolVars>>
    /\ UNCHANGED <<closing, stop, fill>>

\* The request is over; adding the forwarder itself is in Forwarding.
RequestDone(r) ==
    /\ request[r] = "ensured"
    /\ request' = [request EXCEPT ![r] = "idle"]
    /\ UNCHANGED <<manager, routines, closing, stop, fill, poolVars>>
-----------------------------------------------------------------------------
\* worker receives a job ...
TakeJob ==
    /\ busy < live
    /\ busy' = busy + 1
    /\ UNCHANGED <<coreVars, stop, fill, live, count, tokens, scaler, seen>>

\* ... and is through with one; stopping cancels the requests under way.
FinishJob ==
    /\ busy > 0
    /\ busy' = busy - 1
    /\ UNCHANGED <<coreVars, stop, fill, live, count, tokens, scaler, seen>>

\* A slip in worker: any worker that gets a token leaves.
ScaleDown_BelowBase ==
    /\ busy < live /\ tokens > 0
    /\ tokens' = tokens - 1
    /\ count' = count - 1 /\ live' = live - 1
    /\ UNCHANGED <<coreVars, stop, fill, busy, scaler, seen>>

\* A slip in worker: it leaves without being counted out.
ScaleDown_Uncounted ==
    /\ busy < live /\ tokens > 0
    /\ tokens' = tokens - 1
    /\ live' = IF count > Base THEN live - 1 ELSE live
    /\ UNCHANGED <<coreVars, stop, fill, busy, count, scaler, seen>>

\* An idle worker receives from scaleDownChan and leaves if the pool is above
\* its base; otherwise the token is spent for nothing.
ScaleDown ==
    /\ busy < live /\ tokens > 0
    /\ tokens' = tokens - 1
    /\ IF count > Base
       THEN count' = count - 1 /\ live' = live - 1
       ELSE UNCHANGED <<count, live>>
    /\ UNCHANGED <<coreVars, stop, fill, busy, scaler, seen>>

\* A slip in worker: it leaves only when the queue is idle.
WorkerExit_WhenIdle ==
    /\ busy < live /\ stop # "running" /\ fill = "low"
    /\ live' = live - 1
    /\ UNCHANGED <<coreVars, stop, fill, busy, count, tokens, scaler, seen>>

\* An idle worker sees stopChan.
WorkerExit ==
    /\ busy < live /\ stop # "running"
    /\ live' = live - 1
    /\ UNCHANGED <<coreVars, stop, fill, busy, count, tokens, scaler, seen>>

\* scaleWorkers reads the fill before it takes workerCountMu ...
ReadFill ==
    /\ scaler = "idle"
    /\ scaler' = "read" /\ seen' = fill
    /\ UNCHANGED <<coreVars, stop, fill, live, busy, count, tokens>>

\* ... under which it counts a new worker or asks one to leave.
Scale ==
    /\ scaler = "read"
    /\ \/ /\ seen = "high" /\ count < MaxWorkers
          /\ count' = count + 1
          /\ scaler' = "spawn"
          /\ UNCHANGED tokens
       \/ /\ ~(seen = "high" /\ count < MaxWorkers)
          /\ tokens' = IF seen = "low" /\ count > Base /\ tokens < TokenCap
                       THEN tokens + 1 ELSE tokens
          /\ scaler' = "idle"
          /\ UNCHANGED count
    /\ UNCHANGED <<coreVars, stop, fill, live, busy, seen>>

\* tasks.run(fm.worker): begin refuses once stopped is set.
Spawn ==
    /\ scaler = "spawn"
    /\ live' = IF stop = "running" THEN live + 1 ELSE live
    /\ scaler' = "idle"
    /\ UNCHANGED <<coreVars, stop, fill, busy, count, tokens, seen>>

ScalerExit ==
    /\ scaler = "idle" /\ stop # "running"
    /\ scaler' = "none"
    /\ UNCHANGED <<coreVars, stop, fill, live, busy, count, tokens, seen>>

\* schedulerRoutine or statsRoutine sees stopChan.
RoutineExit(t) ==
    /\ t \in routines /\ stop # "running"
    /\ routines' = routines \ {t}
    /\ UNCHANGED <<manager, request, closing, poolVars, stop, fill>>
-----------------------------------------------------------------------------
\* Core.Close flags the core and fetches the manager, under forwarderMu.
CloseFlag ==
    /\ closing = "no"
    /\ closing' = IF manager = "none" THEN "storage" ELSE "flagged"
    /\ UNCHANGED <<manager, request, routines, stop, fill, poolVars>>

\* ForwarderManager.Stop: tasks.stop under queueMu ...
StopTasks ==
    /\ closing = "flagged"
    /\ closing' = "manager"
    /\ stop' = "stopping"
    /\ UNCHANGED <<manager, request, routines, fill, poolVars>>

\* ... then udpForwarder.Stop and wg.Wait, and the bookkeeping after them.
StopJoin ==
    /\ closing = "manager"
    /\ live = 0 /\ scaler = "none" /\ routines \cap ManagerRoutines = {}
    /\ closing' = "storage"
    /\ stop' = "joined"
    /\ count' = 0
    /\ routines' = routines \ {"udp"}
    /\ UNCHANGED <<manager, request, fill, live, busy, tokens, scaler, seen>>

\* Storage.Close joins its routines.
CloseStorage ==
    /\ closing = "storage"
    /\ closing' = "done"
    /\ routines' = routines \ {"purge"}
    /\ UNCHANGED <<manager, request, stop, fill, poolVars>>

FillChanges ==
    /\ \E f \in Fills : f # fill /\ fill' = f
    /\ UNCHANGED <<coreVars, stop, poolVars>>

Next ==
    \/ CoreStart \/ (\E r \in Requests : EnsureForwarderManager(r) \/ RequestDone(r))
    \/ TakeJob \/ FinishJob \/ ScaleDown \/ WorkerExit
    \/ ReadFill \/ Scale \/ Spawn \/ ScalerExit
    \/ (\E t \in ManagerRoutines : RoutineExit(t))
    \/ CloseFlag \/ StopTasks \/ StopJoin \/ CloseStorage \/ FillChanges

Spec == Init /\ [][Next]_vars

\* Goroutines keep going: tickers fire, requests under way end by cancellation
\* or timeout.  A select that finds stopChan closed on every turn takes it at
\* last, whatever else is ready.
FairSpec ==
    /\ Spec
    /\ WF_vars(FinishJob) /\ WF_vars(Scale) /\ WF_vars(Spawn)
    /\ \A t \in ManagerRoutines : WF_vars(RoutineExit(t))
    /\ SF_vars(WorkerExit) /\ SF_vars(ScalerExit)
    /\ WF_vars(StopTasks) /\ WF_vars(StopJoin) /\ WF_vars(CloseStorage)
-----------------------------------------------------------------------------
\* The manager has been started and is not stopping.
Serving == manager = "started" /\ stop = "running"

\* The workers scaleWorkers is about to start.
Spawning == IF scaler = "spawn" THEN 1 ELSE 0

\* workerCount, which all scaling decisions rest on, is the number of worker
\* goroutines at all times, the one about to be started included.
CountIsExact == Serving => count = live + Spawning

\* Tokens sent while the queue was nearly empty may be received much later and
\* several at a time: the pool still never shrinks below the configured
\* workers, one that is just being started included, and never grows beyond
\* the maximum.
PoolInBounds ==
    Serving => /\ Base <= live + Spawning
               /\ live + Spawning <= MaxWorkers \/ live + Spawning <= Base

\* When Core.Close returns no goroutine of manager, UDP client or storage is
\* left, although a request may create the manager, or scaleWorkers a worker,
\* while it closes.
QuietAfterClose ==
    closing = "done" => live = 0 /\ scaler = "none" /\ routines = {}

\* Core.Close returns.
CloseReturns == (closing = "flagged") ~> (closing = "done")
=============================================================================
