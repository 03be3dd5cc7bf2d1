------------------------------ MODULE JobTable ------------------------------
(***************************************************************************)
(* Where ForwarderManager keeps announce jobs (forwarderManager.go): the   *)
(* bounded channel jobQueue, the retries in scheduledJobs, and the pending *)
(* markers that keep a second job for the same hash, forwarder and peer    *)
(* out while one is on its way.                                            *)
(*                                                                         *)
(* A job carries a pointer to its announceJobState, and its marker is that *)
(* pointer.  The field id stands for the pointer: a new job gets an id no  *)
(* job or marker of its session and forwarder still uses, so equality of   *)
(* jobs is the pointer comparison of finishJob, and the markers are the    *)
(* set of jobs whose state pendingJobs holds.                              *)
(***************************************************************************)
EXTENDS PeerStorage, Sequences

CONSTANTS
    QueueCap,   \* cap(fm.jobQueue)
    JobIds      \* bound: announceJobStates of one session and forwarder in use

ASSUME JobTableAssumption == QueueCap \in Nat \ {0}

VARIABLES
    pending,    \* fm.pendingJobs
    queue,      \* fm.jobQueue
    scheduled,  \* fm.scheduledJobs
    stop        \* ForwarderManager.Stop: "running", "locking" (waits for
                \* queueMu), "stopping" (stopChan closed), "stopped"

tableVars == <<pending, queue, scheduled, stop>>

Jobs == [ses : Sessions, fwd : Forwarders, id : JobIds]

TableTypeOK ==
    /\ pending \subseteq Jobs
    /\ queue \in Seq(Jobs)
    /\ scheduled \subseteq Jobs
    /\ stop \in {"running", "locking", "stopping", "stopped"}

TableInit ==
    /\ pending = {}
    /\ queue = <<>>
    /\ scheduled = {}
    /\ stop = "running"
-----------------------------------------------------------------------------
\* jobKey: two jobs with the same key share one slot of pendingJobs.
jobKey(j) == <<j.ses.hash, j.fwd, j.ses.peer>>

\* AnnounceJob.canceled
canceled(j) == Ended(j.ses)

isStopping == stop \in {"stopping", "stopped"}

\* The slot of j's key is taken.
isJobPending(h, f, p) == \E m \in pending : jobKey(m) = <<h, f, p>>

isQueueFull == Len(queue) >= QueueCap

queueFillPct == (Len(queue) * 100) \div QueueCap

\* pendingJobs[key] = j.state
SetMarker(j) == {m \in pending : jobKey(m) # jobKey(j)} \cup {j}

\* A slip in finishJob: the marker goes whoever owns it.
finishJob_AnyOwner(j) == pending' = {m \in pending : jobKey(m) # jobKey(j)}

\* A slip in finishJob: the marker stays.
finishJob_Forgets(j) == pending' = pending

\* finishJob: the marker goes only if it is still this job's.
finishJob(j) == pending' = pending \ {j}

\* What scheduleJob requires: one retry per hash and forwarder.
Schedulable(j) ==
    /\ ~canceled(j) /\ ~isStopping
    /\ \A k \in scheduled : k.ses.hash # j.ses.hash \/ k.fwd # j.fwd

\* A slip in cancelPendingJobs: the session is not compared, so the jobs of
\* a restarted peer go too.
cancelPendingJobs_AnySession(s) ==
    /\ pending' = {m \in pending : m.ses.hash # s.hash \/ m.ses.peer # s.peer}
    /\ scheduled' = {k \in scheduled : k.ses.hash # s.hash \/ k.ses.peer # s.peer}
    /\ UNCHANGED <<queue, stop>>

\* A slip in cancelPendingJobs: the scheduled retries go, their markers stay.
cancelPendingJobs_KeepsMarkers(s) ==
    /\ scheduled' = {k \in scheduled : k.ses # s}
    /\ UNCHANGED <<pending, queue, stop>>

\* cancelPendingJobs for one cancelled session, under pendingMu and
\* scheduledJobsMu.
cancelPendingJobs(s) ==
    /\ pending' = {m \in pending : m.ses # s}
    /\ scheduled' = {k \in scheduled : k.ses # s}
    /\ UNCHANGED <<queue, stop>>

\* A non-blocking send on jobQueue that finds room.
Enqueue(j) == ~isQueueFull /\ queue' = Append(queue, j)
=============================================================================
