----------------------------- MODULE Forwarding -----------------------------
(***************************************************************************)
(* How retracker forwards announces: request handlers (receiverAnnounce.go *)
(* and the add-forwarder endpoint), announce workers (forwarderAnnounce.go *)
(* and ForwarderManager.worker), the retry scheduler, the purge routine    *)
(* and shutdown, all running concurrently over PeerStorage, JobTable and   *)
(* ForwarderRegistry.                                                      *)
(*                                                                         *)
(* A step of an actor is one critical section of the code, or one channel  *)
(* operation; reads that commute with every step in between are joined to  *)
(* it.  Time is abstracted: a retry may become due, a cooldown or a        *)
(* suspension may end, and a peer may expire at any moment.                *)
(***************************************************************************)
EXTENDS JobTable

CONSTANTS
    Handlers,         \* goroutines serving client requests
    Workers,          \* announce workers (scaling is in Lifecycle)
    MaxForwarders,    \* maxForwardersPerAnnounce
    ThrottleThresh,   \* queueThrottleThresh, percent
    ThrottleTopN,     \* queueThrottleTopN
    RateLimitThresh,  \* queueRateLimitThresh, percent
    Addable,          \* forwarders a client may add at runtime
    NoJob, NoSession, NoForwarder

ASSUME ForwardingAssumption ==
    /\ MaxForwarders \in Nat /\ ThrottleTopN \in Nat
    /\ ThrottleThresh \in Nat /\ RateLimitThresh \in Nat
    /\ Addable \subseteq Forwarders
    /\ NoJob \notin Jobs
    /\ NoSession \notin Sessions
    /\ NoForwarder \notin Forwarders

VARIABLES
    handler,   \* per handler: program counter and the locals it carries
    worker,    \* per worker: program counter, the job in hand, and where
               \* disableForwarder or updatePeerCache returns to
    sched      \* schedulerRoutine: program counter and the two slices it
               \* works off after releasing scheduledJobsMu

actorVars == <<handler, worker, sched>>
vars == <<storageVars, registryVars, tableVars, actorVars>>

HandlerPC == {"idle", "admit", "select", "mark", "send", "refused", "cancel",
              "clear", "unsuspend", "list"}
WorkerPC == {"idle", "flight", "publish", "write", "reset", "suspend", "fail",
             "forget", "delist", "uncache", "check", "cool", "defer", "swap",
             "finish", "exited"}
SchedPC == {"idle", "extract", "drain", "exited"}

\* What a handler carries, with the locals its program counter relies on.
HandlerStates ==
    {x \in [pc : HandlerPC, ses : Sessions \cup {NoSession}, fresh : SUBSET Forwarders,
            due : SUBSET Forwarders, left : Nat, job : Jobs \cup {NoJob},
            fwd : Forwarders \cup {NoForwarder}] :
        /\ x.pc \in {"admit", "select", "mark", "send", "refused", "cancel"}
              => x.ses \in Sessions
        /\ x.pc \in {"send", "refused"} => x.job \in Jobs
        /\ x.pc = "send" => x.left > 0
        /\ x.pc \in {"clear", "unsuspend", "list"} => x.fwd \in Forwarders}

\* A worker has a job in hand unless it is idle or gone.
WorkerStates ==
    {x \in [pc : WorkerPC, job : Jobs \cup {NoJob},
            then : {"check", "reset", "swap", "finish"}] :
        x.pc \notin {"idle", "exited"} => x.job \in Jobs}

\* The type invariant: what a goroutine does next finds the session, the job or
\* the name it needs, and no announce sends more jobs than AnnounceLimit.
TypeOK ==
    /\ StorageTypeOK
    /\ RegistryTypeOK
    /\ TableTypeOK
    /\ handler \in [Handlers -> HandlerStates]
    /\ worker \in [Workers -> WorkerStates]
    /\ sched \in [pc : SchedPC, canceled : SUBSET Jobs, ready : SUBSET Jobs]

IdleHandler == [pc |-> "idle", ses |-> NoSession, fresh |-> {}, due |-> {},
                left |-> 0, job |-> NoJob, fwd |-> NoForwarder]
IdleWorker == [pc |-> "idle", job |-> NoJob, then |-> "finish"]

Init ==
    /\ StorageInit /\ RegistryInit /\ TableInit
    /\ handler = [r \in Handlers |-> IdleHandler]
    /\ worker = [w \in Workers |-> IdleWorker]
    /\ sched = [pc |-> "idle", canceled |-> {}, ready |-> {}]
-----------------------------------------------------------------------------
\* The jobs in the channel.
Queued == {queue[i] : i \in 1 .. Len(queue)}

\* Every job some part of the program still refers to.
Referenced ==
    pending \cup Queued \cup scheduled \cup sched.canceled \cup sched.ready
    \cup {worker[w].job : w \in Workers} \cup {handler[r].job : r \in Handlers}

FreeIds(s, f) == {i \in JobIds : [ses |-> s, fwd |-> f, id |-> i] \notin Referenced}

\* &announceJobState{peerContext: ...}: a pointer nothing else refers to.
NewJob(s, f) == [ses |-> s, fwd |-> f, id |-> CHOOSE i \in FreeIds(s, f) : TRUE]

\* Handlers inside a read-locked section of queueMu.
QueueReaders ==
    {r \in Handlers : handler[r].pc \in {"mark", "send", "refused", "clear",
                                         "unsuspend", "list"}}

\* queueMu.RLock blocks once Stop waits for the write lock.
CanReadLock == stop # "locking"

\* Workers that have made sure they may write to the cache.
Writers == {w \in Workers : worker[w].pc = "write"}

\* Nobody holds requestsMu.  A worker keeps it from its tests to its write; the
\* other critical sections of this mutex are one step each.
requestsMuFree == Writers = {}
-----------------------------------------------------------------------------
(***************************************************************************)
(* Request handlers.                                                       *)
(***************************************************************************)

\* handleRegularAnnounce: Storage.Update, whose context the handler carries.
Announce(r, h, p) ==
    /\ handler[r].pc = "idle" /\ requestsMuFree
    /\ Update(h, p)
    /\ handler' = [handler EXCEPT ![r] =
                     [IdleHandler EXCEPT !.pc = "admit", !.ses = SessionFor(h, p)]]
    /\ UNCHANGED <<registryVars, tableVars, worker, sched>>

\* handleCompletedEvent: the peer is stored, nothing is forwarded.
Completed(h, p) ==
    /\ requestsMuFree /\ Update(h, p)
    /\ UNCHANGED <<registryVars, tableVars, actorVars>>

\* shouldRateLimitInitial; whether the token bucket then refuses is in Admission.
shouldRateLimitInitial == RateLimitThresh > 0 /\ queueFillPct >= RateLimitThresh

\* handleFirstAnnounce rejects under load; a subsequent announce goes on.
Admit(r) ==
    LET first == ~HasInfoHash(handler[r].ses.hash)
    IN  /\ handler[r].pc = "admit"
        /\ \/ /\ first /\ (shouldRateLimitInitial \/ isQueueFull)
              /\ handler' = [handler EXCEPT ![r] = IdleHandler]
           \/ /\ ~(first /\ isQueueFull)
              /\ handler' = [handler EXCEPT ![r] = [@ EXCEPT !.pc = "select"]]
        /\ UNCHANGED <<storageVars, registryVars, tableVars, worker, sched>>

\* The number of jobs one announce may queue.
AnnounceLimit ==
    IF queueFillPct >= ThrottleThresh /\ ThrottleTopN > 0
    THEN ThrottleTopN ELSE MaxForwarders

\* A slip in queueEligibleAnnounces: it goes on after stopChan was closed.
Select_IgnoresStop(r) ==
    LET s == handler[r].ses
        ok == {f \in active \ suspended : /\ ~isJobPending(s.hash, f, s.peer)
                                          /\ <<s.hash, f>> \notin cooling}
        new == {f \in ok : <<s.hash, f>> \notin entries}
    IN  /\ handler[r].pc = "select"
        /\ CanReadLock
        /\ handler' = [handler EXCEPT ![r] = [@ EXCEPT !.pc = "mark", !.fresh = new,
                          !.due = ok \ new, !.left = AnnounceLimit]]
        /\ UNCHANGED <<storageVars, registryVars, tableVars, worker, sched>>

\* queueEligibleAnnounces up to the sort: the candidates, seen at one moment.
Select(r) ==
    LET s == handler[r].ses
        ok == {f \in active \ suspended : /\ ~isJobPending(s.hash, f, s.peer)
                                          /\ <<s.hash, f>> \notin cooling}
        new == {f \in ok : <<s.hash, f>> \notin entries}
    IN  /\ handler[r].pc = "select"
        /\ CanReadLock
        /\ handler' =
             IF isStopping \/ active = {}
             THEN [handler EXCEPT ![r] = IdleHandler]
             ELSE [handler EXCEPT ![r] = [@ EXCEPT !.pc = "mark", !.fresh = new,
                      !.due = ok \ new, !.left = AnnounceLimit]]
        /\ UNCHANGED <<storageVars, registryVars, tableVars, worker, sched>>

\* The candidates still to be tried: forwarders never contacted go first.
Candidates(r) ==
    IF handler[r].fresh # {} THEN handler[r].fresh ELSE handler[r].due

\* The handler's locals once candidate f has been dealt with.
Without(r, f) ==
    [handler[r] EXCEPT !.fresh = handler[r].fresh \ {f}, !.due = handler[r].due \ {f}]

\* enqueue under pendingMu: the key is taken or the peer has left.
Skip(r, f) ==
    LET s == handler[r].ses
    IN  /\ isJobPending(s.hash, f, s.peer) \/ Ended(s)
        /\ handler' = [handler EXCEPT ![r] = Without(r, f)]
        /\ UNCHANGED <<storageVars, registryVars, tableVars, worker, sched>>

\* A slip in enqueue: the marker is set over another job's.
Reserve_NoRecheck(r, f) ==
    LET s == handler[r].ses
    IN  /\ FreeIds(s, f) # {}
        /\ pending' = SetMarker(NewJob(s, f))
        /\ handler' = [handler EXCEPT ![r] =
                         [Without(r, f) EXCEPT !.pc = "send", !.job = NewJob(s, f)]]
        /\ UNCHANGED <<storageVars, registryVars, queue, scheduled, stop, worker, sched>>

\* enqueue under pendingMu: the new job's marker is set.
Reserve(r, f) ==
    LET s == handler[r].ses
    IN  /\ ~isJobPending(s.hash, f, s.peer) /\ ~Ended(s)
        /\ FreeIds(s, f) # {}
        /\ pending' = SetMarker(NewJob(s, f))
        /\ handler' = [handler EXCEPT ![r] =
                         [Without(r, f) EXCEPT !.pc = "send", !.job = NewJob(s, f)]]
        /\ UNCHANGED <<storageVars, registryVars, queue, scheduled, stop, worker, sched>>

\* enqueue is called for the next candidate while the limit allows.
Mark(r) ==
    /\ handler[r].pc = "mark" /\ handler[r].left > 0
    /\ \E f \in Candidates(r) : Skip(r, f) \/ Reserve(r, f)

\* enqueue: the non-blocking send.
Send(r) ==
    /\ handler[r].pc = "send"
    /\ \/ /\ Enqueue(handler[r].job)
          /\ handler' = [handler EXCEPT ![r] = [@ EXCEPT !.pc = "mark", !.job = NoJob,
                                                   !.left = handler[r].left - 1]]
       \/ /\ isQueueFull
          /\ handler' = [handler EXCEPT ![r] = [@ EXCEPT !.pc = "refused"]]
          /\ UNCHANGED queue
    /\ UNCHANGED <<storageVars, registryVars, pending, scheduled, stop, worker, sched>>

\* enqueue on a full queue: the marker is withdrawn and queueing ends.
Refused(r) ==
    /\ handler[r].pc = "refused"
    /\ finishJob(handler[r].job)
    /\ handler' = [handler EXCEPT ![r] = IdleHandler]
    /\ UNCHANGED <<storageVars, registryVars, queue, scheduled, stop, worker, sched>>

\* The limit is reached or the candidates are used up.
Return(r) ==
    /\ handler[r].pc = "mark"
    /\ handler[r].left = 0 \/ Candidates(r) = {}
    /\ handler' = [handler EXCEPT ![r] = IdleHandler]
    /\ UNCHANGED <<storageVars, registryVars, tableVars, worker, sched>>

\* A slip in handleStoppedEvent: cancelPendingJobs is called although the peer
\* had no session.
Stopped_NoSessionCheck(r, h, p) ==
    /\ handler[r].pc = "idle" /\ requestsMuFree
    /\ deleteLocked({<<h, p>>}, IF PeersOf(h) \subseteq {p} THEN {h} ELSE {})
    /\ \E s \in (IF SessionsOf(h, p) = {} THEN {NoSession} ELSE SessionsOf(h, p)) :
          handler' = [handler EXCEPT ![r] =
                        [IdleHandler EXCEPT !.pc = "cancel", !.ses = s]]
    /\ UNCHANGED <<registryVars, tableVars, worker, sched>>

\* handleStoppedEvent under requestsMu.
Stopped(r, h, p) ==
    /\ handler[r].pc = "idle" /\ requestsMuFree
    /\ deleteLocked({<<h, p>>}, IF PeersOf(h) \subseteq {p} THEN {h} ELSE {})
    /\ \/ /\ SessionsOf(h, p) = {}
          /\ UNCHANGED handler
       \/ \E s \in SessionsOf(h, p) :
             handler' = [handler EXCEPT ![r] =
                           [IdleHandler EXCEPT !.pc = "cancel", !.ses = s]]
    /\ UNCHANGED <<registryVars, tableVars, worker, sched>>

\* handleStoppedEvent after requestsMu: cancelPendingJobs for that session.
CancelPending(r) ==
    /\ handler[r].pc = "cancel"
    /\ cancelPendingJobs(handler[r].ses)
    /\ handler' = [handler EXCEPT ![r] = IdleHandler]
    /\ UNCHANGED <<storageVars, registryVars, worker, sched>>

\* AddRuntimeForwarder: refused when stopping or when the name is listed.
Add(r, f) ==
    /\ handler[r].pc = "idle"
    /\ CanReadLock /\ ~isStopping
    /\ f \notin active
    /\ handler' = [handler EXCEPT ![r] = [IdleHandler EXCEPT !.pc = "clear", !.fwd = f]]
    /\ UNCHANGED <<storageVars, registryVars, tableVars, worker, sched>>

AddClear(r) ==
    /\ handler[r].pc = "clear"
    /\ ClearDisabled(handler[r].fwd)
    /\ handler' = [handler EXCEPT ![r] = [@ EXCEPT !.pc = "unsuspend"]]
    /\ UNCHANGED <<storageVars, tableVars, worker, sched>>

AddUnsuspend(r) ==
    /\ handler[r].pc = "unsuspend"
    /\ ClearSuspended(handler[r].fwd)
    /\ handler' = [handler EXCEPT ![r] = [@ EXCEPT !.pc = "list"]]
    /\ UNCHANGED <<storageVars, tableVars, worker, sched>>

AddList(r) ==
    /\ handler[r].pc = "list"
    /\ List(handler[r].fwd)
    /\ handler' = [handler EXCEPT ![r] = IdleHandler]
    /\ UNCHANGED <<storageVars, tableVars, worker, sched>>

\* What a handler does on its own once a request has come in.
HandlerStep(r) ==
    \/ Admit(r) \/ Select(r) \/ Mark(r) \/ Send(r) \/ Refused(r) \/ Return(r)
    \/ CancelPending(r) \/ AddClear(r) \/ AddUnsuspend(r) \/ AddList(r)

\* Client requests.
Request(r) ==
    \/ \E h \in Hashes, p \in Peers : Announce(r, h, p) \/ Stopped(r, h, p)
    \/ \E f \in Addable : Add(r, f)
-----------------------------------------------------------------------------
(***************************************************************************)
(* Announce workers.                                                       *)
(***************************************************************************)

Goto(w, pc) == worker' = [worker EXCEPT ![w] = [@ EXCEPT !.pc = pc]]

\* worker receives a job; a cancelled one is finished, and executeAnnounce
\* drops one whose forwarder is disabled or suspended.
Take(w) ==
    /\ worker[w].pc = "idle"
    /\ queue # <<>>
    /\ queue' = Tail(queue)
    /\ LET j == Head(queue)
           drop == canceled(j) \/ isStopping \/ j.fwd \in disabled \cup suspended
       IN  worker' = [worker EXCEPT ![w] =
                        [pc |-> IF drop THEN "finish" ELSE "flight", job |-> j,
                         then |-> "finish"]]
    /\ UNCHANGED <<storageVars, registryVars, pending, scheduled, stop, handler, sched>>

\* The upstream answers, or the request times out or is cancelled.  The
\* answers handleAnnounceResult and handleRetryError tell apart: peers
\* ("publish"), rate limiting ("suspend"), a retryable failure ("fail"), a
\* permanent one ("forget", then the isDisabled check), "retry in: never"
\* ("forget", then done) and "retry in: n" ("defer").
Answer(w) ==
    /\ worker[w].pc = "flight"
    /\ \/ /\ canceled(worker[w].job) \/ isStopping
          /\ Goto(w, "finish")
       \/ /\ ~canceled(worker[w].job) /\ ~isStopping
          /\ \/ \E pc \in {"publish", "suspend", "fail", "defer"} : Goto(w, pc)
             \/ \E then \in {"check", "finish"} :
                   worker' = [worker EXCEPT ![w] = [@ EXCEPT !.pc = "forget", !.then = then]]
    /\ UNCHANGED <<storageVars, registryVars, tableVars, handler, sched>>

\* The worker may write and goes on to next.
MayWrite(w, next) ==
    worker' = [worker EXCEPT ![w] = [@ EXCEPT !.pc = "write", !.then = next]]

\* A slip in updatePeerCache: the peer's session is not looked at again.
updatePeerCache_NoCancelCheck(w, next) ==
    /\ requestsMuFree
    /\ \/ ~isStopping /\ MayWrite(w, next)
       \/ isStopping /\ Goto(w, "finish")
    /\ UNCHANGED <<storageVars, registryVars, tableVars, handler, sched>>

\* A slip in updatePeerCache: stopChan is not looked at.
updatePeerCache_NoStopCheck(w, next) ==
    /\ requestsMuFree
    /\ \/ ~canceled(worker[w].job) /\ MayWrite(w, next)
       \/ canceled(worker[w].job) /\ Goto(w, "finish")
    /\ UNCHANGED <<storageVars, registryVars, tableVars, handler, sched>>

\* updatePeerCache takes requestsMu, and only for a live session ...
updatePeerCache(w, next) ==
    /\ requestsMuFree
    /\ \/ ~canceled(worker[w].job) /\ ~isStopping /\ MayWrite(w, next)
       \/ (canceled(worker[w].job) \/ isStopping) /\ Goto(w, "finish")
    /\ UNCHANGED <<storageVars, registryVars, tableVars, handler, sched>>

\* ... calls update, still under requestsMu.  Stop closes stopChan under
\* queueMu, so it may come in between.
WriteCache(w) ==
    /\ worker[w].pc = "write"
    /\ Publish(worker[w].job.ses.hash, worker[w].job.fwd)
    /\ Goto(w, worker[w].then)
    /\ UNCHANGED <<registryVars, tableVars, handler, sched>>

\* handleAnnounceResult, success: the peers are cached.
PublishPeers(w) == worker[w].pc = "publish" /\ updatePeerCache(w, "reset")

\* resetFailure when the answer had peers.
ResetFailure(w) ==
    /\ worker[w].pc = "reset"
    /\ ForgetFailures(worker[w].job.fwd) \/ UNCHANGED registryVars
    /\ Goto(w, "finish")
    /\ UNCHANGED <<storageVars, tableVars, handler, sched>>

\* handleAnnounceResult, result.Suspend.
SuspendForwarder(w) ==
    /\ worker[w].pc = "suspend"
    /\ Suspend(worker[w].job.fwd)
    /\ Goto(w, "finish")
    /\ UNCHANGED <<storageVars, tableVars, handler, sched>>

\* registerFailure.
RegisterFailure(w) ==
    /\ worker[w].pc = "fail"
    /\ CountFailure(worker[w].job.fwd)
    /\ worker' = [worker EXCEPT ![w] = [@ EXCEPT
                    !.pc = IF AtThreshold(worker[w].job.fwd) THEN "forget" ELSE "check",
                    !.then = "check"]]
    /\ UNCHANGED <<storageVars, tableVars, handler, sched>>

\* disableForwarder, in its three critical sections.
DisableForget(w) ==
    /\ worker[w].pc = "forget"
    /\ ForgetFailures(worker[w].job.fwd)
    /\ Goto(w, "delist")
    /\ UNCHANGED <<storageVars, tableVars, handler, sched>>

DisableDelist(w) ==
    /\ worker[w].pc = "delist"
    /\ Delist(worker[w].job.fwd)
    /\ Goto(w, "uncache")
    /\ UNCHANGED <<storageVars, tableVars, handler, sched>>

DisableUncache(w) ==
    /\ worker[w].pc = "uncache"
    /\ ForgetForwarder(worker[w].job.fwd)
    /\ Goto(w, worker[w].then)
    /\ UNCHANGED <<registryVars, tableVars, handler, sched>>

\* handleAnnounceResult after a failure: isDisabled is read ...
CheckDisabled(w) ==
    /\ worker[w].pc = "check"
    /\ Goto(w, IF worker[w].job.fwd \in disabled THEN "finish" ELSE "cool")
    /\ UNCHANGED <<storageVars, registryVars, tableVars, handler, sched>>

\* ... and then the failed attempt is recorded with the default interval.
RecordAttempt(w) == worker[w].pc = "cool" /\ updatePeerCache(w, "finish")

\* handleRetryError: the cooldown is extended ...
DeferAnnounce(w) == worker[w].pc = "defer" /\ updatePeerCache(w, "swap")

\* ... and the retry takes over the marker, unless it cannot be scheduled.
ScheduleRetry(w) ==
    LET j == worker[w].job
        retry == NewJob(j.ses, j.fwd)
    IN  /\ worker[w].pc = "swap"
        /\ FreeIds(j.ses, j.fwd) # {}
        /\ \/ /\ Schedulable(retry)
              /\ pending' = SetMarker(retry)
              /\ scheduled' = scheduled \cup {retry}
           \/ ~Schedulable(retry) /\ UNCHANGED <<pending, scheduled>>
        /\ Goto(w, "finish")
        /\ UNCHANGED <<storageVars, registryVars, queue, stop, handler, sched>>

\* worker after executeAnnounce: finishJob.
Finish(w) ==
    /\ worker[w].pc = "finish"
    /\ finishJob(worker[w].job)
    /\ worker' = [worker EXCEPT ![w] = IdleWorker]
    /\ UNCHANGED <<storageVars, registryVars, queue, scheduled, stop, handler, sched>>

\* worker sees stopChan.
Exit(w) ==
    /\ worker[w].pc = "idle" /\ isStopping
    /\ Goto(w, "exited")
    /\ UNCHANGED <<storageVars, registryVars, tableVars, handler, sched>>

WorkerStep(w) ==
    \/ Take(w) \/ Answer(w) \/ PublishPeers(w) \/ ResetFailure(w) \/ SuspendForwarder(w)
    \/ RegisterFailure(w) \/ DisableForget(w) \/ DisableDelist(w) \/ DisableUncache(w)
    \/ CheckDisabled(w) \/ RecordAttempt(w) \/ DeferAnnounce(w) \/ WriteCache(w)
    \/ ScheduleRetry(w) \/ Finish(w) \/ Exit(w)
-----------------------------------------------------------------------------
(***************************************************************************)
(* The retry scheduler.                                                    *)
(***************************************************************************)

\* schedulerRoutine: a tick first prunes the cache.
Tick ==
    /\ sched.pc = "idle"
    /\ Prune
    /\ sched' = [sched EXCEPT !.pc = "extract"]
    /\ UNCHANGED <<registryVars, tableVars, handler, worker>>

\* Under scheduledJobsMu it takes out the cancelled jobs and those now due.
Extract ==
    /\ sched.pc = "extract"
    /\ \E due \in SUBSET {j \in scheduled : ~canceled(j)} :
          LET dead == {j \in scheduled : canceled(j)}
          IN  /\ sched' = [pc |-> "drain", canceled |-> dead, ready |-> due]
              /\ scheduled' = scheduled \ (dead \cup due)
    /\ UNCHANGED <<storageVars, registryVars, pending, queue, stop, handler, worker>>

FinishCanceled ==
    /\ sched.pc = "drain"
    /\ \E j \in sched.canceled :
          /\ finishJob(j)
          /\ sched' = [sched EXCEPT !.canceled = @ \ {j}]
    /\ UNCHANGED <<storageVars, registryVars, queue, scheduled, stop, handler, worker>>

\* scheduleJob, or finishJob when it refuses.
Reschedule(j) ==
    \/ Schedulable(j) /\ scheduled' = scheduled \cup {j} /\ UNCHANGED pending
    \/ ~Schedulable(j) /\ finishJob(j) /\ UNCHANGED scheduled

\* processScheduledReadyJob.
ProcessReady ==
    /\ sched.pc = "drain" /\ sched.canceled = {}
    /\ CanReadLock
    /\ \E j \in sched.ready :
          /\ sched' = [sched EXCEPT !.ready = @ \ {j}]
          /\ \/ /\ isStopping \/ canceled(j)
                /\ finishJob(j) /\ UNCHANGED <<queue, scheduled>>
             \/ /\ ~isStopping /\ ~canceled(j)
                /\ \/ j.fwd \notin suspended /\ Enqueue(j) /\ UNCHANGED <<pending, scheduled>>
                   \/ (j.fwd \in suspended \/ isQueueFull) /\ Reschedule(j) /\ UNCHANGED queue
    /\ UNCHANGED <<storageVars, registryVars, stop, handler, worker>>

Drained ==
    /\ sched.pc = "drain" /\ sched.canceled = {} /\ sched.ready = {}
    /\ sched' = [sched EXCEPT !.pc = "idle"]
    /\ UNCHANGED <<storageVars, registryVars, tableVars, handler, worker>>

\* A slip in schedulerRoutine: it leaves only when no retry is scheduled.
ExitScheduler_WhenDrained ==
    /\ sched.pc = "idle" /\ isStopping /\ scheduled = {}
    /\ sched' = [sched EXCEPT !.pc = "exited"]
    /\ UNCHANGED <<storageVars, registryVars, tableVars, handler, worker>>

\* schedulerRoutine sees stopChan.
ExitScheduler ==
    /\ sched.pc = "idle" /\ isStopping
    /\ sched' = [sched EXCEPT !.pc = "exited"]
    /\ UNCHANGED <<storageVars, registryVars, tableVars, handler, worker>>

SchedStep ==
    Tick \/ Extract \/ FinishCanceled \/ ProcessReady \/ Drained \/ ExitScheduler
-----------------------------------------------------------------------------
(***************************************************************************)
(* Shutdown (Core.Close: ForwarderManager.Stop, then Storage.Close), the   *)
(* purge routine and the passing of time.                                  *)
(***************************************************************************)

StopRequest ==
    /\ stop = "running"
    /\ stop' = "locking"
    /\ UNCHANGED <<storageVars, registryVars, pending, queue, scheduled, actorVars>>

\* Stop gets queueMu: no producer is inside its read-locked section.
StopLock ==
    /\ stop = "locking"
    /\ QueueReaders = {}
    /\ stop' = "stopping"
    /\ UNCHANGED <<storageVars, registryVars, pending, queue, scheduled, actorVars>>

\* Stop after wg.Wait: the tables are cleared and the queue is drained.
StopClear ==
    /\ stop = "stopping"
    /\ \A w \in Workers : worker[w].pc = "exited"
    /\ sched.pc = "exited"
    /\ stop' = "stopped"
    /\ pending' = {} /\ scheduled' = {} /\ queue' = <<>>
    /\ UNCHANGED <<storageVars, registryVars, actorVars>>

StopStep == StopLock \/ StopClear

CloseStorage ==
    /\ stop = "stopped"
    /\ Close
    /\ UNCHANGED <<registryVars, tableVars, actorVars>>

\* purgeRoutine: it cancels sessions but does not touch the job tables.
Purge == requestsMuFree /\ purgeExpired /\ UNCHANGED <<registryVars, tableVars, actorVars>>

TimePasses ==
    \/ CooldownElapses /\ UNCHANGED <<registryVars, tableVars, actorVars>>
    \/ SuspensionExpires /\ UNCHANGED <<storageVars, tableVars, actorVars>>

Next ==
    \/ \E r \in Handlers : Request(r) \/ HandlerStep(r)
    \/ \E h \in Hashes, p \in Peers : Completed(h, p)
    \/ \E w \in Workers : WorkerStep(w)
    \/ SchedStep
    \/ Purge
    \/ TimePasses
    \/ StopRequest \/ StopStep \/ CloseStorage

Spec == Init /\ [][Next]_vars

\* Goroutines that can run do run: the Go scheduler, the 5s ticker, and the
\* per-request timeout that ends every announce in flight.  A select that
\* finds stopChan closed again and again takes that branch at last: it picks
\* among the ready ones at random, and the ticker is ready every 5s only.
\* Nothing obliges clients to ask, peers to expire or anybody to stop it.
Fairness ==
    /\ \A r \in Handlers : WF_vars(HandlerStep(r))
    /\ \A w \in Workers : WF_vars(WorkerStep(w))
    /\ WF_vars(SchedStep) /\ SF_vars(ExitScheduler)
    /\ WF_vars(StopStep)

FairSpec == Spec /\ Fairness
-----------------------------------------------------------------------------
(***************************************************************************)
(* Properties.                                                             *)
(***************************************************************************)

\* A hash has cached upstream state only while some local peer announces it:
\* last-peer deletion and expiry clear it (deleteLocked), and a result that
\* arrives late must not bring it back (updatePeerCache).
CacheNeedsLocalPeer == \A h \in Hashes : HasInfoHash(h) => PeersOf(h) # {}

\* A context in peerSessions belongs to a stored peer, so a worker that finds
\* its session alive under requestsMu finds a local peer of its hash too.
SessionsHavePeers == \A s \in sessions : <<s.hash, s.peer>> \in requests

\* Workers that still act for their job; at "finish" only the marker is left.
Busy(w) == worker[w].pc \notin {"idle", "finish", "exited"}

\* Jobs that may still lead to an announce.
InPlay ==
    Queued \cup scheduled \cup sched.ready
    \cup {worker[w].job : w \in {v \in Workers : Busy(v)}}
    \cup {handler[r].job : r \in {q \in Handlers : handler[q].pc = "send"}}

\* A job whose peer session is alive holds the pending marker of its key for
\* as long as it is in play: no stop, restart, retry hand-over or late
\* finishJob of an older job of the same peer takes it away.
LiveJobOwnsMarker == \A j \in InPlay : canceled(j) \/ j \in pending

\* So the same peer's announce for a hash is never on its way to a forwarder
\* twice: two workers in flight on one key are of different sessions, and
\* all but one of those sessions have ended.
OneLiveAnnouncePerKey ==
    \A v, w \in Workers :
        /\ v # w /\ Busy(v) /\ Busy(w)
        /\ ~canceled(worker[v].job) /\ ~canceled(worker[w].job)
        => jobKey(worker[v].job) # jobKey(worker[w].job)

\* Every pending marker belongs to a job that some goroutine will finish, so
\* a key is never blocked for good by a marker nobody owns.
MarkersHaveOwners ==
    pending \subseteq Queued \cup scheduled \cup sched.ready \cup sched.canceled
                      \cup {worker[w].job : w \in Workers}
                      \cup {handler[r].job : r \in Handlers}

\* Requests that add one forwarder at the same time list it once, although
\* they let go of every lock between looking for the name and appending it; only
\* the configuration can list a name twice.
ListedOnce == \A f \in Forwarders : listings[f] <= 1 \/ listings[f] <= Configured[f]

\* A failure count at the threshold is always being acted upon: some worker is
\* about to disable that forwarder, so no listed one keeps failing unnoticed.
ThresholdActs ==
    \A f \in Forwarders : FailThreshold > 0 /\ failCounts[f] >= FailThreshold
        => \E w \in Workers : worker[w].pc = "forget" /\ worker[w].job.fwd = f

\* Once Stop has returned no job is left anywhere and none is added, although
\* handlers keep running: the read-locked sections of queueMu see stopChan.
StoppedIsQuiet ==
    stop = "stopped" => pending = {} /\ scheduled = {} /\ queue = <<>>

\* A step adds cached upstream state only for a hash with a live peer session
\* and never after Stop has returned.  Once stopChan is closed no worker starts
\* another write: the one that had made its tests is the last.
PublishOnlyWhileServing ==
    [][/\ \A e \in entries' \ entries :
             stop # "stopped" /\ \E s \in sessions : s.hash = e[1] /\ ~Ended(s)
       /\ isStopping => Writers' \subseteq Writers]_vars

\* The marker of a job whose session has ended, by a stop or by expiry, is
\* reclaimed, so a peer that comes back can be forwarded again.
DeadMarkersReclaimed ==
    \A j \in Jobs : (j \in pending /\ canceled(j)) ~> (j \notin pending)

\* ForwarderManager.Stop returns: it gets queueMu although requests keep
\* coming, and workers and scheduler come to an end.
ShutdownCompletes == (stop = "locking") ~> (stop = "stopped")

\* The promise Forwarding implements: markers are claims, busy workers are
\* announces at work, and the sessions end when the storage closes.
Service == INSTANCE AnnounceService WITH
    local <- requests,
    live <- IF closed THEN {} ELSE sessions,
    claimed <- pending,
    working <- {worker[w].job : w \in {v \in Workers : Busy(v)}},
    cached <- {h \in Hashes : HasInfoHash(h)}

\* Every step of handlers, workers, scheduler, purge and shutdown is a step
\* of the announce service, or leaves its state alone.
ImplementsAnnounceService == Service!Spec
-----------------------------------------------------------------------------
(***************************************************************************)
(* What the documentation says of the program, and concurrent use does not *)
(* bear out.                                                               *)
(***************************************************************************)

\* docs/QUEUE_AND_SCHEDULER.md: a ready retry that meets a full queue is
\* rescheduled, "No job loss, just delayed execution".  Another peer's retry
\* for the same hash and forwarder may have been scheduled meanwhile;
\* scheduleJob then refuses and processScheduledReadyJob drops the job.
NoJobLossOnOverload ==
    [][\A j \in sched.ready \ sched'.ready :
          ~canceled(j) /\ ~isStopping /\ isQueueFull => j \in scheduled']_vars
=============================================================================
