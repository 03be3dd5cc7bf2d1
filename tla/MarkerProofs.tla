---------------------------- MODULE MarkerProofs ----------------------------
(***************************************************************************)
(* Who owns a job and its pending marker, for any number of handlers and   *)
(* workers.  LiveJobOwnsMarker is not inductive.  A goroutine that finishes*)
(* its job takes that job's marker away, which is harmless only because no *)
(* other part of the program has the same job (OneOwner); a retry takes    *)
(* over the marker of its key, which is harmless only because a key has one*)
(* marker (OneMarkerPerKey); the markers of a stopped peer are dropped,    *)
(* which is harmless only because its session has ended and cannot come    *)
(* back (SessionsKnown); and Stop clears everything after the producers    *)
(* have left their read-locked sections (ShutdownInv).                     *)
(***************************************************************************)
EXTENDS ForwardingProofs

\* s is one of the contexts created so far.
Known(s) == s.n <= gen[s.hash][s.peer]

\* What the owners of jobs hold.
Owned ==
    Queued \cup scheduled \cup sched.ready \cup sched.canceled
    \cup {worker[w].job : w \in Workers} \cup {handler[r].job : r \in Handlers}

\* A goroutine that has no job in hand has let go of the last one.
IdleHoldsNone ==
    /\ \A w \in Workers : worker[w].pc \in {"idle", "exited"} => worker[w].job = NoJob
    /\ \A r \in Handlers : handler[r].pc \notin {"send", "refused"} => handler[r].job = NoJob
    /\ sched.pc # "drain" => sched.ready = {} /\ sched.canceled = {}

\* Jobs that lie in a table or in the scheduler's slice.
Resting == Queued \cup scheduled \cup sched.ready

\* No job is in the queue twice.
QueuedOnce == \A i, k \in 1 .. Len(queue) : queue[i] = queue[k] => i = k

\* A job is in one place: once in the queue, or scheduled, or due, or in the
\* hands of one goroutine.
OneOwner ==
    /\ QueuedOnce
    /\ Queued \cap scheduled = {}
    /\ Queued \cap sched.ready = {}
    /\ scheduled \cap sched.ready = {}
    /\ \A w \in Workers : worker[w].job \notin Resting
    /\ \A r \in Handlers : handler[r].job \notin Resting
    /\ \A v, w \in Workers : v # w /\ worker[v].job # NoJob => worker[v].job # worker[w].job
    /\ \A q, r \in Handlers : q # r /\ handler[q].job # NoJob => handler[q].job # handler[r].job
    /\ \A w \in Workers, r \in Handlers :
          worker[w].job # NoJob => worker[w].job # handler[r].job

\* Sessions in use are among those created, so one that has ended stays so;
\* what is being cancelled belongs to sessions that have ended.
SessionsKnown ==
    /\ \A s \in sessions : Known(s)
    /\ \A j \in Owned : j # NoJob => Known(j.ses)
    /\ \A r \in Handlers :
          handler[r].pc = "cancel" => Known(handler[r].ses) /\ Ended(handler[r].ses)
    /\ \A j \in sched.canceled : canceled(j)

\* pendingJobs is a map: a key has one marker.
OneMarkerPerKey == \A m, n \in pending : jobKey(m) = jobKey(n) => m = n

\* Once stopChan is closed no producer is at work, and after Stop nobody is.
ShutdownInv ==
    /\ isStopping => QueueReaders = {}
    /\ stop = "stopped" =>
          /\ pending = {} /\ scheduled = {} /\ queue = <<>>
          /\ sched.pc = "exited" /\ \A w \in Workers : worker[w].pc = "exited"

\* The inductive invariant.
MarkerInv ==
    /\ IdleHoldsNone /\ OneOwner /\ SessionsKnown /\ OneMarkerPerKey
    /\ LiveJobOwnsMarker /\ MarkersHaveOwners /\ ShutdownInv
-----------------------------------------------------------------------------
(***************************************************************************)
(* Sessions.                                                               *)
(***************************************************************************)

\* What a step does to the sessions: known ones stay known and ended ones
\* ended.
SessionStep ==
    \A s \in Sessions : Known(s) => Known(s)' /\ (Ended(s) => Ended(s)')

\* Update returns the context it has, or one that was not known before.
LEMMA UpdateSessions ==
    ASSUME StorageTypeOK, NEW h \in Hashes, NEW p \in Peers, Update(h, p),
           \A s \in sessions : Known(s)
    PROVE  SessionStep /\ \A s \in sessions' : Known(s)'
<1>0. PICK x : x = SessionFor(h, p)
  OBVIOUS
<1> USE DEF StorageTypeOK
<1>1. CASE SessionsOf(h, p) # {}
  <2>1. x \in sessions
    BY <1>0, <1>1 DEF SessionFor, SessionsOf
  <2> QED BY <1>0, <1>1, <2>1 DEF Update, SessionStep, Known, Ended
<1>2. CASE SessionsOf(h, p) = {}
  <2>1. x = [hash |-> h, peer |-> p, n |-> gen[h][p] + 1]
    BY <1>0, <1>2 DEF SessionFor
  <2>2. gen' = [gen EXCEPT ![h][p] = gen[h][p] + 1] /\ gen[h][p] \in Nat
    BY <1>2 DEF Update
  <2>3. /\ gen'[h][p] = gen[h][p] + 1
        /\ \A k \in Hashes, q \in Peers : gen[k][q] \in Nat /\ gen'[k][q] \in Nat
                                           /\ gen[k][q] <= gen'[k][q]
    BY <2>2
  <2>4. \A s \in Sessions : Known(s) => Known(s)'
    BY <2>3 DEF Known, Sessions
  <2>5. ~Known(x) /\ Known(x)'
    BY <2>1, <2>2, <2>3 DEF Known
  <2>6. sessions' = sessions \cup {x} /\ closed' = closed
    BY <1>0 DEF Update
  <2>7. \A s \in Sessions : Known(s) => (Ended(s) => Ended(s)')
    BY <2>5, <2>6 DEF Ended
  <2> QED BY <2>4, <2>5, <2>6, <2>7 DEF SessionStep
<1> QED BY <1>1, <1>2

\* Every step keeps known sessions known and ended ones ended.
LEMMA SessionsStay ==
    ASSUME TypeOK, [Next]_vars, \A s \in sessions : Known(s)
    PROVE  SessionStep /\ \A s \in sessions' : Known(s)'
<1>0. StorageTypeOK
  BY DEF TypeOK
<1>a. ASSUME gen' = gen, sessions' \subseteq sessions, closed => closed' PROVE
      SessionStep /\ \A s \in sessions' : Known(s)'
  BY <1>a DEF SessionStep, Known, Ended
<1>b. ASSUME UNCHANGED storageVars PROVE SessionStep /\ \A s \in sessions' : Known(s)'
  BY <1>a, <1>b DEF storageVars
<1>1. ASSUME NEW r \in Handlers, Request(r)
      PROVE  SessionStep /\ \A s \in sessions' : Known(s)'
  <2>1. ASSUME NEW h \in Hashes, NEW p \in Peers, Announce(r, h, p)
        PROVE  SessionStep /\ \A s \in sessions' : Known(s)'
    BY <1>0, <2>1, UpdateSessions DEF Announce
  <2>2. ASSUME NEW h \in Hashes, NEW p \in Peers, Stopped(r, h, p)
        PROVE  SessionStep /\ \A s \in sessions' : Known(s)'
    BY <2>2, <1>a DEF Stopped, deleteLocked
  <2> QED BY <1>1, <1>b, <2>1, <2>2 DEF Request, Add
<1>2. ASSUME NEW r \in Handlers, HandlerStep(r) PROVE UNCHANGED storageVars
  BY <1>2 DEF HandlerStep, Admit, Select, Mark, Skip, Reserve, Send, Refused, Return,
     CancelPending, AddClear, AddUnsuspend, AddList
<1>3. ASSUME NEW w \in Workers, WorkerStep(w)
      PROVE  gen' = gen /\ sessions' = sessions /\ closed' = closed
  BY <1>3 DEF WorkerStep, Take, Answer, PublishPeers, RecordAttempt, DeferAnnounce, updatePeerCache,
     WriteCache, Publish, ResetFailure, SuspendForwarder, RegisterFailure, DisableForget, DisableDelist,
     DisableUncache, ForgetForwarder, CheckDisabled, ScheduleRetry, Finish, Exit, storageVars
<1>4. ASSUME SchedStep \/ TimePasses \/ StopRequest \/ StopStep
      PROVE  gen' = gen /\ sessions' = sessions /\ closed' = closed
  BY <1>4 DEF SchedStep, Tick, Prune, Extract, FinishCanceled, ProcessReady, Drained, ExitScheduler,
     TimePasses, CooldownElapses, StopRequest, StopStep, StopLock, StopClear, storageVars
<1>5. ASSUME Purge \/ CloseStorage
      PROVE  SessionStep /\ \A s \in sessions' : Known(s)'
  BY <1>5, <1>a DEF Purge, purgeExpired, deleteLocked, CloseStorage, Close
<1>6. ASSUME NEW h \in Hashes, NEW p \in Peers, Completed(h, p)
      PROVE  SessionStep /\ \A s \in sessions' : Known(s)'
  BY <1>0, <1>6, UpdateSessions DEF Completed
<1> QED BY <1>1, <1>2, <1>3, <1>4, <1>5, <1>6, <1>a, <1>b DEF Next, vars
-----------------------------------------------------------------------------
(***************************************************************************)
(* What the steps do to the jobs: a few of them move a job, the others     *)
(* leave every job and every marker where it is.                           *)
(***************************************************************************)

\* No job moves, and no goroutine takes up a job.
Unmoved ==
    /\ pending' = pending /\ queue' = queue /\ scheduled' = scheduled
    /\ sched'.ready = sched.ready /\ sched'.canceled = sched.canceled
    /\ \A w \in Workers : worker'[w].job = worker[w].job /\ (Busy(w)' => Busy(w))
    /\ \A r \in Handlers : /\ handler'[r].job = handler[r].job
                           /\ handler'[r].pc = "send" => handler[r].pc = "send"

\* The steps that move one.
HandlerMove(r) ==
    \/ \E f \in Candidates(r) : Mark(r) /\ Reserve(r, f)
    \/ Send(r) \/ Refused(r) \/ CancelPending(r)
WorkerMove(w) == Take(w) \/ ScheduleRetry(w) \/ Finish(w)
SchedMove == Extract \/ FinishCanceled \/ ProcessReady

\* Goroutines without a job in hand stay without one until they get one.
LEMMA IdleStep ==
    ASSUME TypeOK, IdleHoldsNone, [Next]_vars
    PROVE  IdleHoldsNone'
<1> USE DEF IdleHoldsNone
<1>0. /\ handler \in [Handlers -> HandlerStates] /\ worker \in [Workers -> WorkerStates]
      /\ sched \in [pc : SchedPC, canceled : SUBSET Jobs, ready : SUBSET Jobs]
  BY DEF TypeOK
<1>a. ASSUME NEW r \in Handlers, NEW x, handler' = [handler EXCEPT ![r] = x],
             x.pc \notin {"send", "refused"} => x.job = NoJob, UNCHANGED <<worker, sched>>
      PROVE  IdleHoldsNone'
  BY <1>0, <1>a
<1>b. ASSUME NEW w \in Workers, NEW x, worker' = [worker EXCEPT ![w] = x],
             x.pc \in {"idle", "exited"} => x.job = NoJob, UNCHANGED <<handler, sched>>
      PROVE  IdleHoldsNone'
  BY <1>0, <1>b
<1>c. IdleHandler.job = NoJob /\ IdleWorker.job = NoJob
  BY DEF IdleHandler, IdleWorker
<1>1. ASSUME NEW r \in Handlers, Request(r) PROVE IdleHoldsNone'
  <2>1. ASSUME NEW h \in Hashes, NEW p \in Peers, Announce(r, h, p) PROVE IdleHoldsNone'
    BY <1>a, <2>1 DEF Announce, IdleHandler
  <2>2. ASSUME NEW h \in Hashes, NEW p \in Peers, Stopped(r, h, p) PROVE IdleHoldsNone'
    BY <1>a, <2>2 DEF Stopped, IdleHandler
  <2>3. ASSUME NEW f \in Addable, Add(r, f) PROVE IdleHoldsNone'
    BY <1>a, <2>3 DEF Add, IdleHandler
  <2> QED BY <1>1, <2>1, <2>2, <2>3 DEF Request
<1>2. ASSUME NEW r \in Handlers, HandlerStep(r) PROVE IdleHoldsNone'
  <2>0. handler[r] \in HandlerStates
    BY <1>0
  <2>1. CASE Admit(r)
    BY <1>a, <1>c, <2>0, <2>1 DEF Admit, HandlerStates
  <2>2. CASE Select(r)
    BY <1>a, <1>c, <2>0, <2>2 DEF Select, HandlerStates
  <2>3. CASE Mark(r)
    <3>1. PICK f \in Candidates(r) : Skip(r, f) \/ Reserve(r, f)
      BY <2>3 DEF Mark
    <3>2. Without(r, f).pc = "mark" /\ Without(r, f).job = NoJob
      BY <2>0, <2>3 DEF Mark, Without, HandlerStates
    <3>3. CASE Skip(r, f)
      BY <1>a, <3>2, <3>3 DEF Skip
    <3>4. CASE Reserve(r, f)
      <4> DEFINE x == [Without(r, f) EXCEPT !.pc = "send", !.job = NewJob(handler[r].ses, f)]
      <4>1. x.pc = "send"
        BY <2>0 DEF Without, HandlerStates
      <4> QED BY <1>a, <3>4, <4>1 DEF Reserve
    <3> QED BY <3>1, <3>3, <3>4
  <2>4. CASE Send(r)
    BY <1>a, <2>0, <2>4 DEF Send, HandlerStates
  <2>5. CASE Refused(r) \/ Return(r) \/ CancelPending(r) \/ AddList(r)
    BY <1>a, <1>c, <2>5 DEF Refused, Return, CancelPending, AddList
  <2>6. CASE AddClear(r) \/ AddUnsuspend(r)
    BY <1>a, <2>0, <2>6 DEF AddClear, AddUnsuspend, HandlerStates
  <2> QED BY <1>2, <2>1, <2>2, <2>3, <2>4, <2>5, <2>6 DEF HandlerStep
<1>3. ASSUME NEW w \in Workers, WorkerStep(w) PROVE IdleHoldsNone'
  <2>0. worker[w] \in WorkerStates
    BY <1>0
  <2>1. ASSUME NEW pc, Goto(w, pc), worker[w].pc # "idle", pc \notin {"idle", "exited"},
               UNCHANGED <<handler, sched>>
        PROVE  IdleHoldsNone'
    BY <1>b, <2>0, <2>1 DEF Goto, WorkerStates
  <2>2. CASE Take(w)
    BY <1>b, <2>2 DEF Take
  <2>3. CASE Answer(w)
    BY <1>b, <2>0, <2>1, <2>3 DEF Answer, WorkerStates
  <2>4. CASE PublishPeers(w) \/ RecordAttempt(w) \/ DeferAnnounce(w)
    <3>1. ASSUME NEW next, MayWrite(w, next), UNCHANGED <<handler, sched>> PROVE IdleHoldsNone'
      BY <1>b, <2>0, <3>1 DEF MayWrite, WorkerStates
    <3> QED BY <2>1, <2>4, <3>1 DEF PublishPeers, RecordAttempt, DeferAnnounce, updatePeerCache
  <2>5. CASE ResetFailure(w) \/ SuspendForwarder(w) \/ DisableForget(w) \/ DisableDelist(w)
             \/ CheckDisabled(w) \/ ScheduleRetry(w)
    BY <2>1, <2>5 DEF ResetFailure, SuspendForwarder, DisableForget, DisableDelist,
       CheckDisabled, ScheduleRetry
  <2>6. CASE RegisterFailure(w)
    BY <1>b, <2>0, <2>6 DEF RegisterFailure, WorkerStates
  <2>7. CASE DisableUncache(w) \/ WriteCache(w)
    BY <2>0, <2>1, <2>7 DEF DisableUncache, WriteCache, WorkerStates
  <2>8. CASE Finish(w)
    BY <1>b, <1>c, <2>8 DEF Finish
  <2>9. CASE Exit(w)
    <3>1. [worker[w] EXCEPT !.pc = "exited"].job = NoJob
      BY <2>0, <2>9 DEF Exit, WorkerStates
    <3> QED BY <1>b, <2>9, <3>1 DEF Exit, Goto
  <2> QED BY <1>3, <2>2, <2>3, <2>4, <2>5, <2>6, <2>7, <2>8, <2>9 DEF WorkerStep
<1>4. ASSUME SchedStep PROVE IdleHoldsNone'
  BY <1>0, <1>4 DEF SchedStep, Tick, Extract, FinishCanceled, ProcessReady, Drained, ExitScheduler
<1>5. ASSUME UNCHANGED actorVars PROVE IdleHoldsNone'
  BY <1>5 DEF actorVars
<1>6. ASSUME \/ \E h \in Hashes, p \in Peers : Completed(h, p)
             \/ Purge \/ TimePasses \/ StopRequest \/ StopStep \/ CloseStorage
             \/ UNCHANGED vars
      PROVE  IdleHoldsNone'
  BY <1>5, <1>6 DEF Completed, Purge, TimePasses, StopRequest, StopStep, StopLock, StopClear,
     CloseStorage, vars
<1> QED BY <1>1, <1>2, <1>3, <1>4, <1>6 DEF Next

\* Every other step leaves the jobs where they are.
LEMMA Moves ==
    ASSUME TypeOK, IdleHoldsNone, [Next]_vars
    PROVE  \/ Unmoved
           \/ \E r \in Handlers : HandlerMove(r)
           \/ \E w \in Workers : WorkerMove(w)
           \/ SchedMove
           \/ StopClear
<1>0. /\ handler \in [Handlers -> HandlerStates] /\ worker \in [Workers -> WorkerStates]
      /\ sched \in [pc : SchedPC, canceled : SUBSET Jobs, ready : SUBSET Jobs]
  BY DEF TypeOK
<1>a. ASSUME NEW r \in Handlers, NEW x, handler' = [handler EXCEPT ![r] = x],
             x.job = handler[r].job, x.pc # "send", UNCHANGED <<worker, sched, tableVars>>
      PROVE  Unmoved
  BY <1>0, <1>a DEF Unmoved, Busy, tableVars
<1>b. ASSUME NEW w \in Workers, NEW x, worker' = [worker EXCEPT ![w] = x],
             x.job = worker[w].job, Busy(w) \/ x.pc \in {"finish", "exited"},
             UNCHANGED <<handler, sched, tableVars>>
      PROVE  Unmoved
  BY <1>0, <1>b DEF Unmoved, Busy, tableVars
<1>c. ASSUME UNCHANGED <<actorVars, pending, queue, scheduled>> PROVE Unmoved
  BY <1>c DEF Unmoved, Busy, actorVars
<1>1. ASSUME NEW r \in Handlers, Request(r) PROVE Unmoved
  <2>0. handler[r].pc = "idle" => handler[r].job = NoJob
    BY DEF IdleHoldsNone
  <2>1. ASSUME NEW h \in Hashes, NEW p \in Peers, Announce(r, h, p) PROVE Unmoved
    <3> DEFINE x == [IdleHandler EXCEPT !.pc = "admit", !.ses = SessionFor(h, p)]
    <3>1. x.job = NoJob /\ x.pc = "admit"
      BY DEF IdleHandler
    <3>2. handler' = [handler EXCEPT ![r] = x] /\ handler[r].pc = "idle"
      BY <2>1 DEF Announce
    <3> HIDE DEF x
    <3> QED BY <1>a, <2>0, <2>1, <3>1, <3>2 DEF Announce
  <2>2. ASSUME NEW h \in Hashes, NEW p \in Peers, Stopped(r, h, p) PROVE Unmoved
    <3>1. CASE UNCHANGED handler
      BY <1>c, <2>2, <3>1 DEF Stopped, actorVars, tableVars
    <3>2. CASE \E s \in SessionsOf(h, p) :
                 handler' = [handler EXCEPT ![r] = [IdleHandler EXCEPT !.pc = "cancel", !.ses = s]]
      <4>1. PICK s \in SessionsOf(h, p) :
                 handler' = [handler EXCEPT ![r] = [IdleHandler EXCEPT !.pc = "cancel", !.ses = s]]
        BY <3>2
      <4> DEFINE x == [IdleHandler EXCEPT !.pc = "cancel", !.ses = s]
      <4>2. x.job = NoJob /\ x.pc = "cancel"
        BY DEF IdleHandler
      <4>3. handler' = [handler EXCEPT ![r] = x] /\ handler[r].pc = "idle"
        BY <2>2, <4>1 DEF Stopped
      <4> HIDE DEF x
      <4> QED BY <1>a, <2>0, <2>2, <4>2, <4>3 DEF Stopped
    <3> QED BY <2>2, <3>1, <3>2 DEF Stopped
  <2>3. ASSUME NEW f \in Addable, Add(r, f) PROVE Unmoved
    <3> DEFINE x == [IdleHandler EXCEPT !.pc = "clear", !.fwd = f]
    <3>1. x.job = NoJob /\ x.pc = "clear"
      BY DEF IdleHandler
    <3>2. handler' = [handler EXCEPT ![r] = x] /\ handler[r].pc = "idle"
      BY <2>3 DEF Add
    <3> HIDE DEF x
    <3> QED BY <1>a, <2>0, <2>3, <3>1, <3>2 DEF Add
  <2> QED BY <1>1, <2>1, <2>2, <2>3 DEF Request
<1>2. ASSUME NEW r \in Handlers, HandlerStep(r) PROVE Unmoved \/ HandlerMove(r)
  <2>0. /\ handler[r] \in HandlerStates
        /\ handler[r].pc \notin {"send", "refused"} => handler[r].job = NoJob
        /\ IdleHandler.job = NoJob /\ IdleHandler.pc = "idle"
    BY <1>0 DEF IdleHoldsNone, IdleHandler
  <2>1. CASE Admit(r)
    BY <1>a, <2>0, <2>1 DEF Admit, HandlerStates
  <2>2. CASE Select(r)
    <3>1. CASE handler' = [handler EXCEPT ![r] = IdleHandler]
      BY <1>a, <2>0, <2>2, <3>1 DEF Select
    <3>2. ASSUME NEW F, NEW D,
                 handler' = [handler EXCEPT ![r] = [@ EXCEPT !.pc = "mark", !.fresh = F,
                                                      !.due = D, !.left = AnnounceLimit]]
          PROVE  Unmoved
      <4> DEFINE x == [handler[r] EXCEPT !.pc = "mark", !.fresh = F, !.due = D,
                                         !.left = AnnounceLimit]
      <4>1. x.pc = "mark" /\ x.job = handler[r].job
        BY <2>0 DEF HandlerStates
      <4>2. handler' = [handler EXCEPT ![r] = x]
        BY <3>2
      <4> HIDE DEF x
      <4> QED BY <1>a, <2>2, <4>1, <4>2 DEF Select
    <3> QED BY <2>2, <3>1, <3>2 DEF Select
  <2>3. CASE Mark(r)
    <3>1. PICK f \in Candidates(r) : Skip(r, f) \/ Reserve(r, f)
      BY <2>3 DEF Mark
    <3>2. Without(r, f).pc = "mark" /\ Without(r, f).job = handler[r].job
      BY <2>0, <2>3 DEF Mark, Without, HandlerStates
    <3>3. CASE Skip(r, f)
      BY <1>a, <3>2, <3>3 DEF Skip
    <3> QED BY <2>3, <3>1, <3>3 DEF HandlerMove
  <2>4. CASE Return(r)
    BY <1>a, <2>0, <2>4 DEF Return
  <2>5. CASE AddList(r)
    BY <1>a, <2>0, <2>5 DEF AddList
  <2>6. CASE AddClear(r) \/ AddUnsuspend(r)
    BY <1>a, <2>0, <2>6 DEF AddClear, AddUnsuspend, HandlerStates
  <2> QED BY <1>2, <2>1, <2>2, <2>3, <2>4, <2>5, <2>6 DEF HandlerStep, HandlerMove
<1>3. ASSUME NEW w \in Workers, WorkerStep(w) PROVE Unmoved \/ WorkerMove(w)
  <2>0. worker[w] \in WorkerStates
    BY <1>0
  <2>1. ASSUME NEW pc, Goto(w, pc), Busy(w) \/ pc \in {"finish", "exited"},
               UNCHANGED <<handler, sched, tableVars>>
        PROVE  Unmoved
    BY <1>b, <2>0, <2>1 DEF Goto, WorkerStates
  <2>2. CASE Answer(w)
    BY <1>b, <2>0, <2>1, <2>2 DEF Answer, WorkerStates, Busy
  <2>3. CASE PublishPeers(w) \/ RecordAttempt(w) \/ DeferAnnounce(w)
    <3>1. ASSUME NEW next, MayWrite(w, next), Busy(w), UNCHANGED <<handler, sched, tableVars>>
          PROVE  Unmoved
      BY <1>b, <2>0, <3>1 DEF MayWrite, WorkerStates
    <3> QED BY <2>1, <2>3, <3>1 DEF PublishPeers, RecordAttempt, DeferAnnounce, updatePeerCache, Busy
  <2>4. CASE ResetFailure(w) \/ SuspendForwarder(w) \/ DisableForget(w) \/ DisableDelist(w)
             \/ CheckDisabled(w) \/ DisableUncache(w) \/ WriteCache(w) \/ Exit(w)
    BY <2>1, <2>4 DEF ResetFailure, SuspendForwarder, DisableForget, DisableDelist,
       CheckDisabled, DisableUncache, WriteCache, Exit, Busy
  <2>5. CASE RegisterFailure(w)
    BY <1>b, <2>0, <2>5 DEF RegisterFailure, WorkerStates, Busy
  <2> QED BY <1>3, <2>2, <2>3, <2>4, <2>5 DEF WorkerStep, WorkerMove
<1>4. ASSUME SchedStep PROVE Unmoved \/ SchedMove
  <2>1. CASE Tick \/ Drained \/ ExitScheduler
    BY <1>0, <2>1 DEF Tick, Drained, ExitScheduler, Unmoved, Busy, tableVars
  <2> QED BY <1>4, <2>1 DEF SchedStep, SchedMove
<1>5. ASSUME \/ \E h \in Hashes, p \in Peers : Completed(h, p)
             \/ Purge \/ TimePasses \/ StopRequest \/ StopLock \/ CloseStorage
             \/ UNCHANGED vars
      PROVE  Unmoved
  BY <1>c, <1>5 DEF Completed, Purge, TimePasses, StopRequest, StopLock, CloseStorage, vars,
     tableVars
<1> QED BY <1>1, <1>2, <1>3, <1>4, <1>5 DEF Next, StopStep
-----------------------------------------------------------------------------
(***************************************************************************)
(* A job has one owner.                                                    *)
(***************************************************************************)

\* A send adds the job to the queue.
LEMMA QueuedAppend ==
    ASSUME queue \in Seq(Jobs), NEW j \in Jobs, queue' = Append(queue, j)
    PROVE  /\ Queued' = Queued \cup {j}
           /\ QueuedOnce /\ j \notin Queued => QueuedOnce'
<1>1. /\ Len(queue) \in Nat /\ Len(queue') = Len(queue) + 1
      /\ queue'[Len(queue) + 1] = j
      /\ \A i \in 1 .. Len(queue) : queue'[i] = queue[i]
  OBVIOUS
<1>2. Queued' = Queued \cup {j}
  BY <1>1 DEF Queued
<1>3. ASSUME QueuedOnce, j \notin Queued PROVE QueuedOnce'
  BY <1>1, <1>3 DEF QueuedOnce, Queued
<1> QED BY <1>2, <1>3

\* A receive takes the first job out.
LEMMA QueuedTail ==
    ASSUME queue \in Seq(Jobs), queue # <<>>, queue' = Tail(queue), QueuedOnce
    PROVE  /\ Head(queue) \in Queued
           /\ Queued' = Queued \ {Head(queue)}
           /\ QueuedOnce'
<1>1. /\ Len(queue) \in Nat /\ Len(queue) >= 1 /\ Len(queue') = Len(queue) - 1
      /\ Head(queue) = queue[1]
      /\ \A i \in 1 .. Len(queue) - 1 : queue'[i] = queue[i + 1]
  OBVIOUS
<1>2. Head(queue) \in Queued
  BY <1>1 DEF Queued
<1>3. Queued' = Queued \ {Head(queue)}
  <2>1. ASSUME NEW x \in Queued' PROVE x \in Queued \ {Head(queue)}
    <3>1. PICK i \in 1 .. Len(queue) - 1 : x = queue[i + 1]
      BY <1>1, <2>1 DEF Queued
    <3>2. i + 1 \in 1 .. Len(queue) /\ i + 1 # 1 /\ 1 \in 1 .. Len(queue)
      BY <1>1
    <3> QED BY <1>1, <3>1, <3>2 DEF Queued, QueuedOnce
  <2>2. ASSUME NEW x \in Queued, x # Head(queue) PROVE x \in Queued'
    <3>1. PICK i \in 1 .. Len(queue) : x = queue[i]
      BY <2>2 DEF Queued
    <3>2. i - 1 \in 1 .. Len(queue) - 1 /\ (i - 1) + 1 = i
      BY <1>1, <2>2, <3>1
    <3>3. queue'[i - 1] = x
      BY <1>1, <3>1, <3>2
    <3> QED BY <1>1, <3>2, <3>3 DEF Queued
  <2> QED BY <2>1, <2>2
<1>4. QueuedOnce'
  BY <1>1 DEF QueuedOnce
<1> QED BY <1>2, <1>3, <1>4
\* Every step leaves each job with one owner.
LEMMA OwnerStep ==
    ASSUME TypeOK, IdleHoldsNone, OneOwner, [Next]_vars
    PROVE  OneOwner'
<1> USE DEF OneOwner, Resting
<1>0. /\ handler \in [Handlers -> HandlerStates] /\ worker \in [Workers -> WorkerStates]
      /\ sched \in [pc : SchedPC, canceled : SUBSET Jobs, ready : SUBSET Jobs]
      /\ queue \in Seq(Jobs) /\ scheduled \subseteq Jobs /\ pending \subseteq Jobs
      /\ TableTypeOK
  BY DEF TypeOK, TableTypeOK
<1>a. NoJob \notin Jobs /\ Queued \subseteq Jobs /\ NoJob \notin Resting
  BY <1>0, ForwardingAssumption DEF Queued
<1>b. IdleHandler.job = NoJob /\ IdleWorker.job = NoJob
  BY DEF IdleHandler, IdleWorker
<1>c. queue' = queue => Queued' = Queued /\ QueuedOnce'
  BY DEF Queued, QueuedOnce
<1>1. CASE Unmoved
  BY <1>1, <1>c DEF Unmoved
<1>2. ASSUME NEW r \in Handlers, HandlerMove(r) PROVE OneOwner'
  <2>0. handler[r] \in HandlerStates
    BY <1>0
  <2>1. ASSUME NEW f \in Candidates(r), Mark(r), Reserve(r, f) PROVE OneOwner'
    <3>1. f \in Forwarders /\ handler[r].ses \in Sessions
      BY <2>0, <2>1 DEF Mark, Candidates, HandlerStates
    <3> DEFINE j == NewJob(handler[r].ses, f)
               x == [Without(r, f) EXCEPT !.pc = "send", !.job = j]
    <3>2. j \notin Referenced /\ j \in Jobs
      BY <2>1, <3>1, NewJobType DEF Reserve
    <3>3. x.job = j /\ handler' = [handler EXCEPT ![r] = x]
      BY <2>0, <2>1 DEF Reserve, Without, HandlerStates
    <3>4. queue' = queue /\ scheduled' = scheduled /\ worker' = worker /\ sched' = sched
      BY <2>1 DEF Reserve
    <3> HIDE DEF j, x
    <3> QED BY <1>0, <1>c, <3>2, <3>3, <3>4 DEF Referenced
  <2>2. CASE Send(r)
    <3> DEFINE j == handler[r].job
    <3>1. j \in Jobs /\ j \notin Resting
      BY <2>0, <2>2 DEF Send, HandlerStates
    <3>2. CASE /\ Enqueue(j)
               /\ handler' = [handler EXCEPT ![r] = [@ EXCEPT !.pc = "mark", !.job = NoJob,
                                                         !.left = handler[r].left - 1]]
      <4> DEFINE x == [handler[r] EXCEPT !.pc = "mark", !.job = NoJob,
                                         !.left = handler[r].left - 1]
      <4>1. Queued' = Queued \cup {j} /\ QueuedOnce'
        BY <1>0, <3>1, <3>2, QueuedAppend DEF Enqueue
      <4>2. x.job = NoJob /\ handler' = [handler EXCEPT ![r] = x]
        BY <2>0, <3>2 DEF HandlerStates
      <4>3. scheduled' = scheduled /\ worker' = worker /\ sched' = sched
        BY <2>2 DEF Send
      <4> HIDE DEF x
      <4> QED BY <1>0, <1>a, <3>1, <4>1, <4>2, <4>3
    <3>3. CASE /\ handler' = [handler EXCEPT ![r] = [@ EXCEPT !.pc = "refused"]]
               /\ UNCHANGED queue
      <4>1. \A q \in Handlers : handler'[q].job = handler[q].job
        BY <1>0, <3>3 DEF HandlerStates
      <4> QED BY <1>c, <2>2, <3>3, <4>1 DEF Send
    <3> QED BY <2>2, <3>2, <3>3 DEF Send
  <2>3. CASE Refused(r)
    BY <1>0, <1>a, <1>b, <1>c, <2>3 DEF Refused
  <2>4. CASE CancelPending(r)
    BY <1>0, <1>a, <1>b, <1>c, <2>4 DEF CancelPending, cancelPendingJobs
  <2> QED BY <1>2, <2>1, <2>2, <2>3, <2>4 DEF HandlerMove
<1>3. ASSUME NEW w \in Workers, WorkerMove(w) PROVE OneOwner'
  <2>0. worker[w] \in WorkerStates
    BY <1>0
  <2>1. CASE Take(w)
    <3> DEFINE j == Head(queue)
    <3>1. Queued' = Queued \ {j} /\ j \in Queued /\ QueuedOnce'
      BY <1>0, <2>1, QueuedTail DEF Take
    <3>2. worker'[w].job = j /\ \A v \in Workers \ {w} : worker'[v] = worker[v]
      BY <1>0, <2>1 DEF Take
    <3>3. scheduled' = scheduled /\ handler' = handler /\ sched' = sched
      BY <2>1 DEF Take
    <3> HIDE DEF j
    <3> QED BY <1>0, <1>a, <3>1, <3>2, <3>3
  <2>2. CASE ScheduleRetry(w)
    <3> DEFINE j == NewJob(worker[w].job.ses, worker[w].job.fwd)
    <3>1. worker[w].job.ses \in Sessions /\ worker[w].job.fwd \in Forwarders
      BY <2>0, <2>2 DEF ScheduleRetry, WorkerStates, Jobs
    <3>2. j \notin Referenced /\ j \in Jobs
      BY <2>2, <3>1, NewJobType DEF ScheduleRetry
    <3>3. \A v \in Workers : worker'[v].job = worker[v].job
      BY <1>0, <2>2 DEF ScheduleRetry, Goto, WorkerStates
    <3>4. /\ queue' = queue /\ handler' = handler /\ sched' = sched
          /\ scheduled' \in {scheduled, scheduled \cup {j}}
      BY <2>2 DEF ScheduleRetry
    <3> HIDE DEF j
    <3> QED BY <1>0, <1>c, <3>2, <3>3, <3>4 DEF Referenced
  <2>3. CASE Finish(w)
    BY <1>0, <1>a, <1>b, <1>c, <2>3 DEF Finish
  <2> QED BY <1>3, <2>1, <2>2, <2>3 DEF WorkerMove
<1>4. CASE SchedMove
  <2>1. CASE Extract
    BY <1>0, <1>c, <2>1 DEF Extract, IdleHoldsNone
  <2>2. CASE FinishCanceled
    BY <1>0, <1>c, <2>2 DEF FinishCanceled
  <2>3. CASE ProcessReady
    <3>1. PICK j \in sched.ready :
               /\ sched' = [sched EXCEPT !.ready = @ \ {j}]
               /\ \/ queue' = queue /\ scheduled' = scheduled
                  \/ Enqueue(j) /\ scheduled' = scheduled
                  \/ queue' = queue /\ scheduled' = scheduled \cup {j}
      BY <2>3 DEF ProcessReady, Reschedule
    <3>2. worker' = worker /\ handler' = handler /\ sched'.ready = sched.ready \ {j}
      BY <1>0, <2>3, <3>1 DEF ProcessReady
    <3>3. CASE queue' = queue
      BY <1>0, <1>c, <3>1, <3>2, <3>3 DEF Enqueue
    <3>4. CASE Enqueue(j) /\ scheduled' = scheduled
      <4>1. Queued' = Queued \cup {j} /\ QueuedOnce'
        BY <1>0, <3>1, <3>4, QueuedAppend DEF Enqueue
      <4> QED BY <1>0, <3>1, <3>2, <3>4, <4>1
    <3> QED BY <3>1, <3>3, <3>4
  <2> QED BY <1>4, <2>1, <2>2, <2>3 DEF SchedMove
<1>5. CASE StopClear
  <2>1. Queued' = {} /\ QueuedOnce'
    BY <1>5 DEF StopClear, Queued, QueuedOnce
  <2> QED BY <1>5, <2>1 DEF StopClear, actorVars
<1> QED BY <1>1, <1>2, <1>3, <1>4, <1>5, Moves
-----------------------------------------------------------------------------
(***************************************************************************)
(* Markers.                                                                *)
(***************************************************************************)

\* Setting a marker leaves one marker per key.
LEMMA SetMarkerUnique ==
    ASSUME OneMarkerPerKey, NEW j, pending' = SetMarker(j)
    PROVE  OneMarkerPerKey'
BY DEF OneMarkerPerKey, SetMarker, jobKey

\* What a step that moves jobs may do: markers keep their owners, jobs come
\* from their owners or are made for a live session, and what is in play and
\* alive has its marker.
MoveResult ==
    /\ OneMarkerPerKey' /\ MarkersHaveOwners'
    /\ \A j \in Owned' : j # NoJob => j \in Owned \/ j.ses \in sessions
    /\ \A j \in sched'.canceled : j \in Owned /\ canceled(j)
    /\ \A j \in InPlay' : j \in pending' \/ (j \in Owned /\ canceled(j))

\* The states the moves start from.
MoveStart == TypeOK /\ MarkerInv

\* What a goroutine has in hand when it moves a job.
LEMMA MoveTypes ==
    ASSUME MoveStart
    PROVE  /\ handler \in [Handlers -> HandlerStates] /\ worker \in [Workers -> WorkerStates]
           /\ sched \in [pc : SchedPC, canceled : SUBSET Jobs, ready : SUBSET Jobs]
           /\ queue \in Seq(Jobs) /\ scheduled \subseteq Jobs /\ pending \subseteq Jobs
           /\ NoJob \notin Jobs /\ Queued \subseteq Jobs
           /\ InPlay \subseteq Owned
           /\ pending \subseteq Owned
           /\ \A j \in InPlay : canceled(j) \/ j \in pending
           /\ \A j \in sched.canceled : j \in Owned /\ canceled(j)
<1>1. /\ handler \in [Handlers -> HandlerStates] /\ worker \in [Workers -> WorkerStates]
      /\ sched \in [pc : SchedPC, canceled : SUBSET Jobs, ready : SUBSET Jobs]
      /\ queue \in Seq(Jobs) /\ scheduled \subseteq Jobs /\ pending \subseteq Jobs
  BY DEF MoveStart, MarkerInv, TypeOK, TableTypeOK
<1>2. NoJob \notin Jobs /\ Queued \subseteq Jobs
  BY <1>1, ForwardingAssumption DEF Queued
<1>3. InPlay \subseteq Owned
  BY DEF InPlay, Owned
<1>4. pending \subseteq Owned /\ \A j \in InPlay : canceled(j) \/ j \in pending
  BY DEF MoveStart, MarkerInv, MarkersHaveOwners, Owned, LiveJobOwnsMarker
<1>5. \A j \in sched.canceled : j \in Owned /\ canceled(j)
  BY DEF MoveStart, MarkerInv, SessionsKnown, Owned
<1> QED BY <1>1, <1>2, <1>3, <1>4, <1>5

\* Handlers.
LEMMA HandlerMoveResult ==
    ASSUME MoveStart, NEW r \in Handlers, HandlerMove(r)
    PROVE  MoveResult
<1> USE MoveTypes
<1>0. handler[r] \in HandlerStates /\ Queued' = {queue'[i] : i \in 1 .. Len(queue')}
  BY DEF Queued
<1>c. queue' = queue => Queued' = Queued
  BY DEF Queued
<1>1. ASSUME NEW f \in Candidates(r), Mark(r), Reserve(r, f) PROVE MoveResult
  <2>1. f \in Forwarders /\ handler[r].ses \in Sessions /\ handler[r].job = NoJob
    BY <1>0, <1>1 DEF Mark, Candidates, HandlerStates, MoveStart, MarkerInv, IdleHoldsNone
  <2> DEFINE j == NewJob(handler[r].ses, f)
             x == [Without(r, f) EXCEPT !.pc = "send", !.job = j]
  <2>2. j \in Jobs /\ j.ses = handler[r].ses /\ handler[r].ses \in sessions
    BY <1>1, <2>1, NewJobType DEF Reserve, Ended
  <2>3. /\ x.job = j /\ x.pc = "send" /\ handler' = [handler EXCEPT ![r] = x]
    BY <1>0, <1>1 DEF Reserve, Without, HandlerStates
  <2>4. /\ queue' = queue /\ scheduled' = scheduled /\ worker' = worker /\ sched' = sched
        /\ pending' = SetMarker(j)
    BY <1>1 DEF Reserve
  <2>5. pending' = pending \cup {j}
    <3>1. jobKey(j) = <<handler[r].ses.hash, f, handler[r].ses.peer>>
      BY <2>1, <1>1, NewJobType DEF jobKey, Reserve
    <3>2. \A m \in pending : jobKey(m) # jobKey(j)
      BY <1>1, <3>1 DEF Reserve, isJobPending
    <3> QED BY <2>4, <3>2 DEF SetMarker
  <2>6. OneMarkerPerKey'
    BY <2>4, SetMarkerUnique DEF MoveStart, MarkerInv
  <2> HIDE DEF j, x
  <2>7. Owned' \subseteq Owned \cup {j} /\ Owned \subseteq Owned' \cup {NoJob} /\ j \in Owned'
    BY <1>c, <2>1, <2>3, <2>4 DEF Owned
  <2>8. InPlay' \subseteq InPlay \cup {j}
    BY <1>c, <2>3, <2>4 DEF InPlay, Busy
  <2>9. MarkersHaveOwners'
    BY <2>5, <2>7 DEF MarkersHaveOwners, Owned
  <2> QED BY <2>2, <2>4, <2>5, <2>6, <2>7, <2>8, <2>9 DEF MoveResult
<1>2. CASE Send(r)
  <2>0. pending' = pending /\ scheduled' = scheduled /\ worker' = worker /\ sched' = sched
    BY <1>2 DEF Send
  <2>1. handler[r].job \in Jobs /\ handler[r].pc = "send"
    BY <1>0, <1>2 DEF Send, HandlerStates
  <2>2. OneMarkerPerKey'
    BY <2>0 DEF MoveStart, MarkerInv, OneMarkerPerKey
  <2>3. CASE /\ Enqueue(handler[r].job)
             /\ handler' = [handler EXCEPT ![r] = [@ EXCEPT !.pc = "mark", !.job = NoJob,
                                                         !.left = handler[r].left - 1]]
    <3> DEFINE x == [handler[r] EXCEPT !.pc = "mark", !.job = NoJob,
                                       !.left = handler[r].left - 1]
    <3>1. Queued' = Queued \cup {handler[r].job}
      BY <2>1, <2>3, QueuedAppend DEF Enqueue
    <3>2. x.job = NoJob /\ x.pc = "mark" /\ handler' = [handler EXCEPT ![r] = x]
      BY <1>0, <2>3 DEF HandlerStates
    <3> HIDE DEF x
    <3>3. Owned' \subseteq Owned \cup {NoJob} /\ Owned \subseteq Owned'
      BY <2>0, <3>1, <3>2 DEF Owned
    <3>4. InPlay' \subseteq InPlay
      BY <2>0, <2>1, <3>1, <3>2 DEF InPlay, Busy
    <3>5. MarkersHaveOwners'
      BY <2>0, <3>3 DEF MarkersHaveOwners, Owned
    <3> QED BY <2>0, <2>2, <3>3, <3>4, <3>5 DEF MoveResult
  <2>4. CASE /\ handler' = [handler EXCEPT ![r] = [@ EXCEPT !.pc = "refused"]]
             /\ UNCHANGED queue
    <3>1. /\ \A q \in Handlers : handler'[q].job = handler[q].job
          /\ \A q \in Handlers : handler'[q].pc = "send" => handler[q].pc = "send"
      BY <1>0, <2>4 DEF HandlerStates
    <3>2. Owned' = Owned /\ InPlay' \subseteq InPlay
      BY <1>c, <2>0, <2>4, <3>1 DEF Owned, InPlay, Busy
    <3>3. MarkersHaveOwners'
      BY <2>0, <3>2 DEF MarkersHaveOwners, Owned
    <3> QED BY <2>0, <2>2, <3>2, <3>3 DEF MoveResult
  <2> QED BY <1>2, <2>3, <2>4 DEF Send
<1>3. CASE Refused(r)
  <2>0. /\ pending' = pending \ {handler[r].job} /\ handler' = [handler EXCEPT ![r] = IdleHandler]
        /\ queue' = queue /\ scheduled' = scheduled /\ worker' = worker /\ sched' = sched
        /\ IdleHandler.job = NoJob /\ IdleHandler.pc = "idle"
    BY <1>3 DEF Refused, finishJob, IdleHandler
  <2>1. OneMarkerPerKey'
    BY <2>0 DEF MoveStart, MarkerInv, OneMarkerPerKey
  <2>2. Owned' \subseteq Owned \cup {NoJob} /\ Owned \subseteq Owned' \cup {handler[r].job}
    BY <1>c, <2>0 DEF Owned
  <2>3. InPlay' \subseteq InPlay
    BY <1>c, <2>0 DEF InPlay, Busy
  <2>a. handler[r].job \in Jobs
    BY <1>0, <1>3 DEF Refused, HandlerStates
  <2>4. handler[r].job \notin InPlay'
    BY <1>c, <2>0, <2>a DEF InPlay, Busy, MoveStart, MarkerInv, OneOwner, Resting
  <2>5. MarkersHaveOwners'
    BY <2>0, <2>2 DEF MarkersHaveOwners, Owned
  <2> QED BY <2>0, <2>1, <2>2, <2>3, <2>4, <2>5 DEF MoveResult
<1>4. CASE CancelPending(r)
  <2> DEFINE s == handler[r].ses
  <2>0. /\ pending' = {m \in pending : m.ses # s} /\ scheduled' = {k \in scheduled : k.ses # s}
        /\ queue' = queue /\ worker' = worker /\ sched' = sched
        /\ handler' = [handler EXCEPT ![r] = IdleHandler]
        /\ IdleHandler.job = NoJob /\ IdleHandler.pc = "idle"
    BY <1>4 DEF CancelPending, cancelPendingJobs, IdleHandler
  <2>1. Ended(s) /\ handler[r].job = NoJob
    BY <1>4 DEF CancelPending, MoveStart, MarkerInv, SessionsKnown, IdleHoldsNone
  <2>2. OneMarkerPerKey'
    BY <2>0 DEF MoveStart, MarkerInv, OneMarkerPerKey
  <2>3. Owned' \subseteq Owned \cup {NoJob} /\ InPlay' \subseteq InPlay
    BY <1>c, <2>0 DEF Owned, InPlay, Busy
  <2>4. \A j \in Owned : j \in Owned' \/ j = NoJob \/ j.ses = s
    BY <1>c, <2>0, <2>1 DEF Owned
  <2>5. MarkersHaveOwners'
    BY <2>0, <2>4 DEF MarkersHaveOwners, Owned
  <2> QED BY <2>0, <2>1, <2>2, <2>3, <2>5 DEF MoveResult, canceled
<1> QED BY <1>1, <1>2, <1>3, <1>4 DEF HandlerMove
\* Workers.
LEMMA WorkerMoveResult ==
    ASSUME MoveStart, NEW w \in Workers, WorkerMove(w)
    PROVE  MoveResult
<1> USE MoveTypes
<1>0. worker[w] \in WorkerStates
  OBVIOUS
<1>c. queue' = queue => Queued' = Queued
  BY DEF Queued
<1>1. CASE Take(w)
  <2>0. /\ pending' = pending /\ scheduled' = scheduled /\ handler' = handler /\ sched' = sched
        /\ worker[w].job = NoJob
    BY <1>1 DEF Take, MoveStart, MarkerInv, IdleHoldsNone
  <2>1. Queued' = Queued \ {Head(queue)} /\ Head(queue) \in Queued
    BY <1>1, QueuedTail DEF Take, MoveStart, MarkerInv, OneOwner
  <2>2. worker'[w].job = Head(queue) /\ \A v \in Workers \ {w} : worker'[v] = worker[v]
    BY <1>1 DEF Take
  <2>3. OneMarkerPerKey'
    BY <2>0 DEF MoveStart, MarkerInv, OneMarkerPerKey
  <2>4. Owned' \subseteq Owned /\ Owned \subseteq Owned' \cup {NoJob}
    BY <2>0, <2>1, <2>2 DEF Owned
  <2>5. InPlay' \subseteq InPlay
    BY <2>0, <2>1, <2>2 DEF InPlay, Busy
  <2>6. MarkersHaveOwners'
    BY <2>0, <2>4 DEF MarkersHaveOwners, Owned
  <2> QED BY <2>0, <2>3, <2>4, <2>5, <2>6 DEF MoveResult
<1>2. CASE ScheduleRetry(w)
  <2> DEFINE j == worker[w].job
             k == NewJob(j.ses, j.fwd)
  <2>1. j \in Jobs /\ j.ses \in Sessions /\ j.fwd \in Forwarders /\ Busy(w) /\ j \in InPlay
    BY <1>0, <1>2 DEF ScheduleRetry, WorkerStates, Jobs, Busy, InPlay
  <2>2. k \in Jobs /\ k.ses = j.ses /\ k.fwd = j.fwd
    BY <1>2, <2>1, NewJobType DEF ScheduleRetry
  <2>3. /\ queue' = queue /\ handler' = handler /\ sched' = sched
        /\ \A v \in Workers : worker'[v].job = worker[v].job
        /\ worker'[w].pc = "finish" /\ \A v \in Workers \ {w} : worker'[v] = worker[v]
    BY <1>0, <1>2 DEF ScheduleRetry, Goto, WorkerStates
  <2>4. CASE Schedulable(k) /\ pending' = SetMarker(k) /\ scheduled' = scheduled \cup {k}
    <3>1. ~canceled(j) /\ j \in pending /\ j.ses \in sessions
      BY <2>1, <2>2, <2>4 DEF Schedulable, canceled, Ended
    <3>2. \A m \in pending : jobKey(m) = jobKey(j) => m = j
      BY <3>1 DEF MoveStart, MarkerInv, OneMarkerPerKey
    <3>3. pending' = (pending \ {j}) \cup {k}
      BY <2>2, <2>4, <3>1, <3>2 DEF SetMarker, jobKey
    <3>4. OneMarkerPerKey'
      BY <2>4, SetMarkerUnique DEF MoveStart, MarkerInv
    <3> HIDE DEF k
    <3>5. Owned' = Owned \cup {k}
      BY <1>c, <2>3, <2>4 DEF Owned
    <3>6. InPlay' \subseteq InPlay \cup {k}
      BY <1>c, <2>3, <2>4 DEF InPlay, Busy
    <3>7. j \in InPlay' => j = k
      BY <1>c, <2>1, <2>3, <2>4 DEF InPlay, Busy, MoveStart, MarkerInv, OneOwner, Resting
    <3>8. MarkersHaveOwners'
      BY <3>3, <3>5 DEF MarkersHaveOwners, Owned
    <3> QED BY <2>2, <2>3, <3>1, <3>3, <3>4, <3>5, <3>6, <3>7, <3>8 DEF MoveResult
  <2>5. CASE UNCHANGED <<pending, scheduled>>
    <3>1. OneMarkerPerKey'
      BY <2>5 DEF MoveStart, MarkerInv, OneMarkerPerKey
    <3>2. Owned' = Owned /\ InPlay' \subseteq InPlay
      BY <1>c, <2>3, <2>5 DEF Owned, InPlay, Busy
    <3>3. MarkersHaveOwners'
      BY <2>5, <3>2 DEF MarkersHaveOwners, Owned
    <3> QED BY <2>3, <2>5, <3>1, <3>2, <3>3 DEF MoveResult
  <2> QED BY <1>2, <2>4, <2>5 DEF ScheduleRetry
<1>3. CASE Finish(w)
  <2>0. /\ pending' = pending \ {worker[w].job} /\ worker' = [worker EXCEPT ![w] = IdleWorker]
        /\ queue' = queue /\ scheduled' = scheduled /\ handler' = handler /\ sched' = sched
        /\ IdleWorker.job = NoJob /\ IdleWorker.pc = "idle"
    BY <1>3 DEF Finish, finishJob, IdleWorker
  <2>1. OneMarkerPerKey'
    BY <2>0 DEF MoveStart, MarkerInv, OneMarkerPerKey
  <2>2. Owned' \subseteq Owned \cup {NoJob} /\ Owned \subseteq Owned' \cup {worker[w].job}
    BY <1>c, <2>0 DEF Owned
  <2>3. InPlay' \subseteq InPlay
    BY <1>c, <2>0 DEF InPlay, Busy
  <2>a. worker[w].job \in Jobs
    BY <1>0, <1>3 DEF Finish, WorkerStates
  <2>4. worker[w].job \notin InPlay'
    BY <1>c, <2>0, <2>a DEF InPlay, Busy, MoveStart, MarkerInv, OneOwner, Resting
  <2>5. MarkersHaveOwners'
    BY <2>0, <2>2 DEF MarkersHaveOwners, Owned
  <2> QED BY <2>0, <2>1, <2>2, <2>3, <2>4, <2>5 DEF MoveResult
<1> QED BY <1>1, <1>2, <1>3 DEF WorkerMove

\* The scheduler.
LEMMA SchedMoveResult ==
    ASSUME MoveStart, SchedMove
    PROVE  MoveResult
<1> USE MoveTypes
<1>c. queue' = queue => Queued' = Queued
  BY DEF Queued
<1>1. CASE Extract
  <2>0. PICK due \in SUBSET {j \in scheduled : ~canceled(j)} :
             LET dead == {j \in scheduled : canceled(j)}
             IN  /\ sched' = [pc |-> "drain", canceled |-> dead, ready |-> due]
                 /\ scheduled' = scheduled \ (dead \cup due)
    BY <1>1 DEF Extract
  <2>1. /\ sched'.ready = due /\ sched'.canceled = {j \in scheduled : canceled(j)}
        /\ scheduled' \subseteq scheduled
        /\ scheduled = scheduled' \cup sched'.ready \cup sched'.canceled
    BY <2>0
  <2>2. /\ pending' = pending /\ queue' = queue /\ handler' = handler /\ worker' = worker
        /\ sched.ready = {} /\ sched.canceled = {}
    BY <1>1 DEF Extract, MoveStart, MarkerInv, IdleHoldsNone
  <2>3. OneMarkerPerKey'
    BY <2>2 DEF MoveStart, MarkerInv, OneMarkerPerKey
  <2>4. Owned' = Owned /\ InPlay' \subseteq InPlay
    BY <1>c, <2>1, <2>2 DEF Owned, InPlay, Busy
  <2>5. MarkersHaveOwners'
    BY <2>2, <2>4 DEF MarkersHaveOwners, Owned
  <2>6. \A j \in sched'.canceled : j \in Owned /\ canceled(j)
    BY <2>1 DEF Owned
  <2> QED BY <2>2, <2>3, <2>4, <2>5, <2>6 DEF MoveResult
<1>2. CASE FinishCanceled
  <2>0. PICK j \in sched.canceled :
             /\ pending' = pending \ {j} /\ sched' = [sched EXCEPT !.canceled = @ \ {j}]
    BY <1>2 DEF FinishCanceled, finishJob
  <2>1. /\ queue' = queue /\ scheduled' = scheduled /\ handler' = handler /\ worker' = worker
        /\ sched'.ready = sched.ready /\ sched'.canceled = sched.canceled \ {j}
    BY <1>2, <2>0 DEF FinishCanceled
  <2>2. OneMarkerPerKey'
    BY <2>0 DEF MoveStart, MarkerInv, OneMarkerPerKey
  <2>3. Owned' \subseteq Owned /\ Owned \subseteq Owned' \cup {j} /\ InPlay' = InPlay
    BY <1>c, <2>1 DEF Owned, InPlay, Busy
  <2>4. MarkersHaveOwners'
    BY <2>0, <2>3 DEF MarkersHaveOwners, Owned
  <2> QED BY <2>0, <2>1, <2>2, <2>3, <2>4 DEF MoveResult
<1>3. CASE ProcessReady
  <2>0. PICK j \in sched.ready :
             /\ sched' = [sched EXCEPT !.ready = @ \ {j}]
             /\ \/ queue' = queue /\ scheduled' = scheduled /\ pending' = pending \ {j}
                \/ Enqueue(j) /\ scheduled' = scheduled /\ pending' = pending
                \/ queue' = queue /\ scheduled' = scheduled \cup {j} /\ pending' = pending
    BY <1>3 DEF ProcessReady, Reschedule, finishJob
  <2>1. /\ handler' = handler /\ worker' = worker
        /\ sched'.ready = sched.ready \ {j} /\ sched'.canceled = sched.canceled
    BY <1>3, <2>0 DEF ProcessReady
  <2>2. OneMarkerPerKey'
    BY <2>0 DEF MoveStart, MarkerInv, OneMarkerPerKey
  <2>3. CASE queue' = queue /\ scheduled' = scheduled /\ pending' = pending \ {j}
    <3>1. Owned' \subseteq Owned /\ Owned \subseteq Owned' \cup {j}
      BY <1>c, <2>1, <2>3 DEF Owned
    <3>2. InPlay' \subseteq InPlay /\ j \notin InPlay'
      BY <1>c, <2>1, <2>3 DEF InPlay, Busy, MoveStart, MarkerInv, OneOwner, Resting
    <3>3. MarkersHaveOwners'
      BY <2>3, <3>1 DEF MarkersHaveOwners, Owned
    <3> QED BY <2>1, <2>2, <2>3, <3>1, <3>2, <3>3 DEF MoveResult
  <2>4. CASE /\ pending' = pending
             /\ \/ Enqueue(j) /\ scheduled' = scheduled
                \/ queue' = queue /\ scheduled' = scheduled \cup {j}
    <3>1. Queued' \cup scheduled' = Queued \cup scheduled \cup {j}
      BY <1>c, <2>4, QueuedAppend DEF Enqueue
    <3>2. Owned' = Owned /\ InPlay' = InPlay
      BY <2>1, <3>1 DEF Owned, InPlay, Busy
    <3>3. MarkersHaveOwners'
      BY <2>4, <3>2 DEF MarkersHaveOwners, Owned
    <3> QED BY <2>1, <2>2, <2>4, <3>2, <3>3 DEF MoveResult
  <2> QED BY <2>0, <2>3, <2>4
<1> QED BY <1>1, <1>2, <1>3 DEF SchedMove

\* Stop clears the tables when nobody is left who could have a job.
LEMMA ClearResult ==
    ASSUME MoveStart, StopClear
    PROVE  MoveResult
<1> USE MoveTypes
<1>1. /\ pending' = {} /\ scheduled' = {} /\ queue' = <<>>
      /\ handler' = handler /\ worker' = worker /\ sched' = sched
      /\ \A w \in Workers : worker[w].pc = "exited"
  BY DEF StopClear, actorVars
<1>2. sched.ready = {} /\ sched.canceled = {}
  BY DEF StopClear, MoveStart, MarkerInv, IdleHoldsNone
<1>3. \A r \in Handlers : handler[r].pc # "send"
  BY DEF StopClear, MoveStart, MarkerInv, ShutdownInv, isStopping, QueueReaders
<1>4. Queued' = {}
  BY <1>1 DEF Queued
<1>5. InPlay' = {} /\ Owned' \subseteq Owned
  BY <1>1, <1>2, <1>3, <1>4 DEF InPlay, Owned, Busy
<1>6. OneMarkerPerKey' /\ MarkersHaveOwners'
  BY <1>1 DEF OneMarkerPerKey, MarkersHaveOwners
<1> QED BY <1>1, <1>2, <1>5, <1>6 DEF MoveResult

\* Whatever the step, the markers come out right.
LEMMA StepResult ==
    ASSUME MoveStart, [Next]_vars
    PROVE  MoveResult
<1> USE MoveTypes
<1>1. CASE Unmoved
  <2>1. OneMarkerPerKey' /\ pending' = pending /\ sched'.canceled = sched.canceled
    BY <1>1 DEF Unmoved, MoveStart, MarkerInv, OneMarkerPerKey
  <2>2. Queued' = Queued
    BY <1>1 DEF Unmoved, Queued
  <2>3. Owned' = Owned /\ InPlay' \subseteq InPlay
    BY <1>1, <2>2 DEF Unmoved, Owned, InPlay
  <2>4. MarkersHaveOwners'
    BY <2>1, <2>3 DEF MarkersHaveOwners, Owned
  <2> QED BY <2>1, <2>3, <2>4 DEF MoveResult
<1> QED BY <1>1, Moves, HandlerMoveResult, WorkerMoveResult, SchedMoveResult, ClearResult
        DEF MoveStart, MarkerInv
-----------------------------------------------------------------------------
(***************************************************************************)
(* Shutdown.                                                               *)
(***************************************************************************)

\* A handler enters a read-locked section of queueMu only while stopChan is
\* open.
LEMMA ReadersStep ==
    ASSUME TypeOK, [Next]_vars, isStopping
    PROVE  QueueReaders' \subseteq QueueReaders
<1> DEFINE In(x) == x.pc \in {"mark", "send", "refused", "clear", "unsuspend", "list"}
<1>0. handler \in [Handlers -> HandlerStates]
  BY DEF TypeOK
<1>a. ASSUME NEW r \in Handlers, NEW x, handler' = [handler EXCEPT ![r] = x],
             In(x) => In(handler[r])
      PROVE  QueueReaders' \subseteq QueueReaders
  BY <1>0, <1>a DEF QueueReaders
<1>b. ASSUME UNCHANGED handler PROVE QueueReaders' \subseteq QueueReaders
  BY <1>b DEF QueueReaders
<1>c. IdleHandler.pc = "idle"
  BY DEF IdleHandler
<1>1. ASSUME NEW r \in Handlers, Request(r) PROVE QueueReaders' \subseteq QueueReaders
  <2>1. ASSUME NEW h \in Hashes, NEW p \in Peers, Announce(r, h, p)
        PROVE  QueueReaders' \subseteq QueueReaders
    <3>1. [IdleHandler EXCEPT !.pc = "admit", !.ses = SessionFor(h, p)].pc = "admit"
      BY DEF IdleHandler
    <3> QED BY <1>a, <2>1, <3>1 DEF Announce
  <2>2. ASSUME NEW h \in Hashes, NEW p \in Peers, Stopped(r, h, p)
        PROVE  QueueReaders' \subseteq QueueReaders
    <3>1. \A s : [IdleHandler EXCEPT !.pc = "cancel", !.ses = s].pc = "cancel"
      BY DEF IdleHandler
    <3> QED BY <1>a, <1>b, <2>2, <3>1 DEF Stopped
  <2> QED BY <1>1, <2>1, <2>2 DEF Request, Add
<1>2. ASSUME NEW r \in Handlers, HandlerStep(r) PROVE QueueReaders' \subseteq QueueReaders
  <2>0. handler[r] \in HandlerStates
    BY <1>0
  <2>1. CASE Admit(r)
    <3>1. [handler[r] EXCEPT !.pc = "select"].pc = "select"
      BY <2>0 DEF HandlerStates
    <3> QED BY <1>a, <1>c, <2>1, <3>1 DEF Admit
  <2>2. CASE Select(r) \/ Refused(r) \/ Return(r) \/ CancelPending(r) \/ AddList(r)
    <3>1. handler' = [handler EXCEPT ![r] = IdleHandler]
      BY <2>2 DEF Select, Refused, Return, CancelPending, AddList
    <3> QED BY <1>a, <1>c, <3>1
  <2>3. CASE Mark(r) \/ Send(r) \/ AddClear(r) \/ AddUnsuspend(r)
    <3>1. In(handler[r]) /\ \A q \in Handlers \ {r} : handler'[q] = handler[q]
      BY <1>0, <2>3 DEF Mark, Skip, Reserve, Send, AddClear, AddUnsuspend
    <3> QED BY <1>0, <3>1 DEF QueueReaders
  <2> QED BY <1>2, <2>1, <2>2, <2>3 DEF HandlerStep
<1>3. ASSUME \/ \E w \in Workers : WorkerStep(w)
             \/ \E h \in Hashes, p \in Peers : Completed(h, p)
             \/ SchedStep \/ Purge \/ TimePasses \/ StopRequest \/ StopStep \/ CloseStorage
             \/ UNCHANGED vars
      PROVE  UNCHANGED handler
  BY <1>3 DEF WorkerStep, Take, Answer, PublishPeers, RecordAttempt, DeferAnnounce, updatePeerCache,
     WriteCache, ResetFailure, SuspendForwarder, RegisterFailure, DisableForget, DisableDelist,
     DisableUncache, CheckDisabled, ScheduleRetry, Finish, Exit, Completed,
     SchedStep, Tick, Extract, FinishCanceled, ProcessReady, Drained, ExitScheduler, Purge,
     TimePasses, StopRequest, StopStep, StopLock, StopClear, CloseStorage, actorVars, vars
<1> QED BY <1>1, <1>2, <1>3, <1>b DEF Next

\* Only StopRequest, StopLock and StopClear move Stop on.
LEMMA StopMoves ==
    ASSUME [Next]_vars
    PROVE  StopRequest \/ StopLock \/ StopClear \/ UNCHANGED stop
BY DEF Next, Request, Announce, Stopped, Add, HandlerStep, Admit, Select, Mark, Skip, Reserve,
   Send, Refused, Return, CancelPending, cancelPendingJobs, AddClear, AddUnsuspend, AddList,
   WorkerStep, Take, Answer, PublishPeers, RecordAttempt, DeferAnnounce, updatePeerCache,
   WriteCache, ResetFailure, SuspendForwarder, RegisterFailure, DisableForget, DisableDelist,
   DisableUncache, CheckDisabled, ScheduleRetry, Finish, Exit, Completed,
   SchedStep, Tick, Extract, FinishCanceled, ProcessReady, Drained, ExitScheduler, Purge,
   TimePasses, StopRequest, StopStep, StopLock, StopClear, CloseStorage, tableVars, vars

\* Shutdown goes through its phases in order, and the last one is final.
LEMMA ShutdownStep ==
    ASSUME TypeOK, ShutdownInv, [Next]_vars
    PROVE  ShutdownInv'
<1>0. /\ stop \in {"running", "locking", "stopping", "stopped"}
      /\ handler \in [Handlers -> HandlerStates] /\ worker \in [Workers -> WorkerStates]
  BY DEF TypeOK, TableTypeOK
<1>1. ASSUME isStopping' PROVE QueueReaders' = {}
  <2>1. CASE isStopping
    BY <2>1, ReadersStep DEF ShutdownInv
  <2>2. CASE StopLock
    BY <2>2 DEF StopLock, QueueReaders, actorVars
  <2> QED BY <1>0, <1>1, <2>1, <2>2, StopMoves DEF isStopping, StopRequest, StopClear
<1>2. ASSUME stop' = "stopped"
      PROVE  /\ pending' = {} /\ scheduled' = {} /\ queue' = <<>>
             /\ sched'.pc = "exited" /\ \A w \in Workers : worker'[w].pc = "exited"
  <2>1. CASE StopClear
    BY <2>1 DEF StopClear, actorVars
  <2>2. CASE stop = "stopped"
    <3>1. /\ pending = {} /\ scheduled = {} /\ queue = <<>> /\ sched.pc = "exited"
          /\ \A w \in Workers : worker[w].pc = "exited"
          /\ \A r \in Handlers : handler[r].pc \notin {"mark", "send", "refused"}
      BY <2>2 DEF ShutdownInv, isStopping, QueueReaders
    <3>2. ~\E w \in Workers : WorkerStep(w)
      BY <3>1 DEF WorkerStep, Take, Answer, PublishPeers, ResetFailure, SuspendForwarder,
         RegisterFailure, DisableForget, DisableDelist, DisableUncache, CheckDisabled, RecordAttempt,
         DeferAnnounce, WriteCache, ScheduleRetry, Finish, Exit
    <3>3. ~SchedStep
      BY <3>1 DEF SchedStep, Tick, Extract, FinishCanceled, ProcessReady, Drained, ExitScheduler
    <3>4. ASSUME NEW r \in Handlers, HandlerStep(r)
          PROVE  /\ pending' = {} /\ scheduled' = {} /\ queue' = <<>>
                 /\ UNCHANGED <<sched, worker>>
      BY <3>1, <3>4 DEF HandlerStep, Admit, Select, Mark, Send, Refused, Return, CancelPending,
         cancelPendingJobs, AddClear, AddUnsuspend, AddList, tableVars
    <3>5. ASSUME NEW r \in Handlers, Request(r)
          PROVE  UNCHANGED <<pending, scheduled, queue, sched, worker>>
      BY <3>5 DEF Request, Announce, Stopped, Add, tableVars
    <3>6. ASSUME \/ \E h \in Hashes, p \in Peers : Completed(h, p)
                 \/ Purge \/ TimePasses \/ CloseStorage \/ UNCHANGED vars
          PROVE  UNCHANGED <<pending, scheduled, queue, sched, worker>>
      BY <3>6 DEF Completed, Purge, TimePasses, CloseStorage, vars, tableVars, actorVars
    <3>7. ~(StopRequest \/ StopStep)
      BY <2>2 DEF StopRequest, StopStep, StopLock, StopClear
    <3> QED BY <3>1, <3>2, <3>3, <3>4, <3>5, <3>6, <3>7 DEF Next
  <2> QED BY <1>2, <2>1, <2>2, StopMoves DEF StopRequest, StopLock
<1> QED BY <1>1, <1>2 DEF ShutdownInv
-----------------------------------------------------------------------------
(***************************************************************************)
(* The invariant and what it says.                                         *)
(***************************************************************************)

\* A handler that is about to cancel has just ended the session, or goes on.
LEMMA CancelStep ==
    ASSUME TypeOK, [Next]_vars, NEW r \in Handlers, handler'[r].pc = "cancel"
    PROVE  handler'[r] = handler[r] \/ handler'[r].ses \in sessions \ sessions'
<1>0. handler \in [Handlers -> HandlerStates]
  BY DEF TypeOK
<1>1. ASSUME NEW q \in Handlers, Request(q)
      PROVE  handler'[r] = handler[r] \/ handler'[r].ses \in sessions \ sessions'
  <2>1. ASSUME NEW h \in Hashes, NEW p \in Peers, Announce(q, h, p)
        PROVE  handler'[r] = handler[r]
    BY <1>0, <2>1 DEF Announce, IdleHandler
  <2>2. ASSUME NEW h \in Hashes, NEW p \in Peers, Stopped(q, h, p)
        PROVE  handler'[r] = handler[r] \/ handler'[r].ses \in sessions \ sessions'
    <3>1. CASE UNCHANGED handler
      BY <3>1
    <3>2. ASSUME NEW s \in SessionsOf(h, p),
                 handler' = [handler EXCEPT ![q] = [IdleHandler EXCEPT !.pc = "cancel", !.ses = s]]
          PROVE  handler'[r] = handler[r] \/ handler'[r].ses \in sessions \ sessions'
      <4>1. s \in sessions /\ <<s.hash, s.peer>> \in {<<h, p>>}
        BY DEF SessionsOf
      <4>2. s \notin sessions'
        BY <2>2, <4>1 DEF Stopped, deleteLocked
      <4> QED BY <1>0, <3>2, <4>1, <4>2 DEF IdleHandler
    <3> QED BY <2>2, <3>1, <3>2 DEF Stopped
  <2>3. ASSUME NEW f \in Addable, Add(q, f) PROVE handler'[r] = handler[r]
    BY <1>0, <2>3 DEF Add, IdleHandler
  <2> QED BY <1>1, <2>1, <2>2, <2>3 DEF Request
<1>2. ASSUME NEW q \in Handlers, HandlerStep(q) PROVE handler'[r] = handler[r]
  <2>0. \A p \in Handlers \ {q} : handler'[p] = handler[p]
    BY <1>0, <1>2 DEF HandlerStep, Admit, Select, Mark, Skip, Reserve, Send, Refused, Return,
       CancelPending, AddClear, AddUnsuspend, AddList
  <2>1. handler[q] \in HandlerStates
    BY <1>0
  <2>2. handler'[q].pc # "cancel"
    <3>1. CASE Admit(q)
      BY <1>0, <2>1, <3>1 DEF Admit, IdleHandler, HandlerStates
    <3>2. CASE Select(q)
      BY <1>0, <2>1, <3>2 DEF Select, IdleHandler, HandlerStates
    <3>3. CASE Mark(q)
      <4>1. PICK f \in Candidates(q) : Skip(q, f) \/ Reserve(q, f)
        BY <3>3 DEF Mark
      <4>2. Without(q, f).pc = "mark"
        BY <2>1, <3>3 DEF Mark, Without, HandlerStates
      <4>3. [Without(q, f) EXCEPT !.pc = "send", !.job = NewJob(handler[q].ses, f)].pc = "send"
        BY <2>1 DEF Without, HandlerStates
      <4> QED BY <1>0, <4>1, <4>2, <4>3 DEF Skip, Reserve
    <3>4. CASE Send(q)
      BY <1>0, <2>1, <3>4 DEF Send, HandlerStates
    <3>5. CASE Refused(q) \/ Return(q) \/ CancelPending(q) \/ AddList(q)
      BY <1>0, <3>5 DEF Refused, Return, CancelPending, AddList, IdleHandler
    <3>6. CASE AddClear(q) \/ AddUnsuspend(q)
      BY <1>0, <2>1, <3>6 DEF AddClear, AddUnsuspend, HandlerStates
    <3> QED BY <1>2, <3>1, <3>2, <3>3, <3>4, <3>5, <3>6 DEF HandlerStep
  <2> QED BY <2>0, <2>2
<1>3. ASSUME \/ \E w \in Workers : WorkerStep(w)
             \/ \E h \in Hashes, p \in Peers : Completed(h, p)
             \/ SchedStep \/ Purge \/ TimePasses \/ StopRequest \/ StopStep \/ CloseStorage
             \/ UNCHANGED vars
      PROVE  UNCHANGED handler
  BY <1>3 DEF WorkerStep, Take, Answer, PublishPeers, RecordAttempt, DeferAnnounce, updatePeerCache,
     WriteCache, ResetFailure, SuspendForwarder, RegisterFailure, DisableForget, DisableDelist,
     DisableUncache, CheckDisabled, ScheduleRetry, Finish, Exit, Completed,
     SchedStep, Tick, Extract, FinishCanceled, ProcessReady, Drained, ExitScheduler, Purge,
     TimePasses, StopRequest, StopStep, StopLock, StopClear, CloseStorage, actorVars, vars
<1> QED BY <1>1, <1>2, <1>3 DEF Next

\* No step of handlers, workers, scheduler, expiry or shutdown breaks the
\* invariant.
LEMMA MarkerStep ==
    ASSUME TypeOK, TypeOK', MarkerInv, [Next]_vars
    PROVE  MarkerInv'
<1>1. MoveResult /\ MoveStart
  BY StepResult DEF MoveStart
<1>2. SessionStep /\ \A s \in sessions' : Known(s)'
  BY SessionsStay DEF MarkerInv, SessionsKnown
<1>3. \A j \in Owned' : j # NoJob => j.ses \in Sessions /\ Known(j.ses)'
  <2>1. \A j \in Owned' : j # NoJob => j \in Jobs
    BY DEF TypeOK, TableTypeOK, Owned, Queued, HandlerStates, WorkerStates
  <2>2. \A j \in Owned' : j # NoJob => j.ses \in Sessions
    BY <2>1 DEF Jobs
  <2>3. \A j \in Owned' : j # NoJob => Known(j.ses)
    BY <1>1 DEF MoveResult, MarkerInv, SessionsKnown
  <2> QED BY <1>2, <2>2, <2>3 DEF SessionStep
<1>4. ASSUME NEW j \in Owned, j \in Jobs, canceled(j) PROVE canceled(j)'
  <2>1. j.ses \in Sessions /\ Known(j.ses) /\ Ended(j.ses)
    BY <1>4, ForwardingAssumption DEF MarkerInv, SessionsKnown, Jobs, canceled
  <2> QED BY <1>2, <2>1 DEF SessionStep, canceled
<1>5. SessionsKnown'
  <2>1. ASSUME NEW r \in Handlers, handler'[r].pc = "cancel"
        PROVE  Known(handler[r].ses)' /\ Ended(handler[r].ses)'
    <3>1. handler'[r].ses \in Sessions
      BY <2>1 DEF TypeOK, HandlerStates
    <3>2. PICK s : s = handler'[r].ses
      OBVIOUS
    <3>3. Known(s) /\ (Ended(s) \/ s \notin sessions')
      BY <2>1, <3>2, CancelStep DEF MarkerInv, SessionsKnown
    <3>4. Known(s)' /\ Ended(s)'
      BY <1>2, <3>1, <3>2, <3>3 DEF SessionStep, Ended
    <3> QED BY <3>2, <3>4
  <2>2. \A j \in sched'.canceled : canceled(j)'
    <3>1. \A j \in sched'.canceled : j \in Jobs
      BY DEF TypeOK
    <3> QED BY <1>1, <1>4, <3>1 DEF MoveResult
  <2>3. \A j \in Owned' : j # NoJob => Known(j.ses)'
    BY <1>3
  <2> QED BY <1>2, <2>1, <2>2, <2>3 DEF SessionsKnown
<1>6. LiveJobOwnsMarker'
  <2>1. InPlay' \subseteq Jobs
    BY DEF InPlay, TypeOK, TableTypeOK, Queued, HandlerStates, WorkerStates, Busy
  <2>2. \A j \in InPlay' : canceled(j)' \/ j \in pending'
    BY <1>1, <1>4, <2>1 DEF MoveResult
  <2> QED BY <2>2 DEF LiveJobOwnsMarker
<1>7. IdleHoldsNone' /\ OneOwner' /\ ShutdownInv'
  BY IdleStep, OwnerStep, ShutdownStep DEF MarkerInv
<1> QED BY <1>1, <1>5, <1>6, <1>7 DEF MarkerInv, MoveResult

\* The types and the invariant hold throughout.
LEMMA MarkerInvariance == Spec => [](TypeOK /\ MarkerInv)
<1>1. Init => MarkerInv
  <2> SUFFICES ASSUME Init PROVE MarkerInv
    OBVIOUS
  <2>1. /\ Queued = {} /\ QueuedOnce /\ scheduled = {} /\ pending = {} /\ queue = <<>>
        /\ sched.pc = "idle" /\ sched.ready = {} /\ sched.canceled = {} /\ sessions = {}
        /\ stop = "running"
    BY DEF Init, TableInit, StorageInit, Queued, QueuedOnce
  <2>2. /\ \A w \in Workers : worker[w].pc = "idle" /\ worker[w].job = NoJob
        /\ \A r \in Handlers : handler[r].pc = "idle" /\ handler[r].job = NoJob
    BY DEF Init, IdleWorker, IdleHandler
  <2>3. IdleHoldsNone /\ OneOwner
    BY <2>1, <2>2 DEF IdleHoldsNone, OneOwner, Resting
  <2>4. SessionsKnown /\ OneMarkerPerKey /\ MarkersHaveOwners
    BY <2>1, <2>2 DEF SessionsKnown, Owned, OneMarkerPerKey, MarkersHaveOwners
  <2>5. LiveJobOwnsMarker /\ ShutdownInv
    BY <2>1, <2>2 DEF LiveJobOwnsMarker, InPlay, Busy, ShutdownInv, isStopping
  <2> QED BY <2>3, <2>4, <2>5 DEF MarkerInv
<1>2. TypeOK /\ TypeOK' /\ MarkerInv /\ [Next]_vars => MarkerInv'
  BY MarkerStep
<1> QED BY <1>1, <1>2, TypeCorrect, PTL DEF Spec

\* Whatever stops, restarts, retries and late finishes of older jobs do, a job
\* in play whose session is alive has the marker of its key.
THEOREM MarkerOwnership == Spec => []LiveJobOwnsMarker
<1>1. MarkerInv => LiveJobOwnsMarker
  BY DEF MarkerInv
<1> QED BY <1>1, MarkerInvariance, PTL

\* No marker is left without an owner that will take it away.
THEOREM NoOrphanMarkers == Spec => []MarkersHaveOwners
<1>1. MarkerInv => MarkersHaveOwners
  BY DEF MarkerInv
<1> QED BY <1>1, MarkerInvariance, PTL

\* A job is never in two places at once: it is once in the queue, or scheduled,
\* or due, or in the hands of one handler or worker, so it is announced, retried
\* and finished by one goroutine only.
THEOREM OneOwnerPerJob == Spec => []OneOwner
<1>1. MarkerInv => OneOwner
  BY DEF MarkerInv
<1> QED BY <1>1, MarkerInvariance, PTL

\* Two workers are never at work on the same key for live sessions: both would
\* have the one marker of that key, and so be at work on the same job.
THEOREM OneAnnouncePerKey == Spec => []OneLiveAnnouncePerKey
<1>1. TypeOK /\ MarkerInv => OneLiveAnnouncePerKey
  <2> SUFFICES ASSUME TypeOK, MarkerInv, NEW v \in Workers, NEW w \in Workers, v # w,
                      Busy(v), Busy(w), ~canceled(worker[v].job), ~canceled(worker[w].job),
                      jobKey(worker[v].job) = jobKey(worker[w].job)
               PROVE  FALSE
    BY DEF OneLiveAnnouncePerKey
  <2>1. worker[v].job \in InPlay /\ worker[w].job \in InPlay
    BY DEF InPlay
  <2>2. worker[v].job \in pending /\ worker[w].job \in pending
    BY <2>1 DEF MarkerInv, LiveJobOwnsMarker
  <2>3. worker[v].job = worker[w].job
    BY <2>2 DEF MarkerInv, OneMarkerPerKey
  <2>4. worker[v].job # NoJob
    BY ForwardingAssumption DEF Busy, TypeOK, WorkerStates
  <2> QED BY <2>3, <2>4 DEF MarkerInv, OneOwner
<1> QED BY <1>1, MarkerInvariance, PTL

\* After Stop no job is left and none is added, whatever the handlers that are
\* still running do.
THEOREM QuietAfterStop == Spec => []StoppedIsQuiet
<1>1. MarkerInv => StoppedIsQuiet
  BY DEF MarkerInv, ShutdownInv, StoppedIsQuiet
<1> QED BY <1>1, MarkerInvariance, PTL
\* AnnounceJob.canceled is final: a peer that comes back gets a new context, and
\* no job that is still queued, scheduled or in somebody's hands is revived by
\* it, so a check of canceled made earlier stays right.
CancelFinal == \A j \in Owned \ {NoJob} : canceled(j) => canceled(j)'

\* No step revives a cancelled job that anybody still has.
THEOREM CancellationIsFinal == Spec => [][CancelFinal]_vars
<1>1. TypeOK /\ MarkerInv /\ [Next]_vars => [CancelFinal]_vars
  <2> SUFFICES ASSUME TypeOK, MarkerInv, [Next]_vars PROVE CancelFinal
    OBVIOUS
  <2>1. SessionStep
    BY SessionsStay DEF MarkerInv, SessionsKnown
  <2>2. ASSUME NEW j \in Owned \ {NoJob}, canceled(j) PROVE canceled(j)'
    <3>1. j \in Jobs
      BY DEF TypeOK, TableTypeOK, Owned, Queued, HandlerStates, WorkerStates
    <3>2. j.ses \in Sessions /\ Known(j.ses) /\ Ended(j.ses)
      BY <2>2, <3>1 DEF MarkerInv, SessionsKnown, Jobs, canceled
    <3> QED BY <2>1, <3>2 DEF SessionStep, canceled
  <2> QED BY <2>2 DEF CancelFinal
<1> QED BY <1>1, MarkerInvariance, PTL DEF Spec
-----------------------------------------------------------------------------
(***************************************************************************)
(* The refinement.  Forwarding implements AnnounceService, for any number  *)
(* of handlers, workers, hashes, peers and forwarders.  The refinement     *)
(* mapping is Forwarding's Service: stored peers, live sessions, pending   *)
(* markers, the jobs of busy workers, and the hashes with cached entries.  *)
(***************************************************************************)

\* The parts of the mapping that are not variables.
Live == IF closed THEN {} ELSE sessions
Working == {worker[w].job : w \in {v \in Workers : Busy(v)}}
Cached == {h \in Hashes : HasInfoHash(h)}

\* A step of the announce service, or one that leaves its state alone.
ServiceStep == [Service!Next]_(Service!vars)

\* What the refinement needs to know of a state.
ServiceInv == TypeOK /\ MarkerInv /\ WriteInv /\ LifetimeInv
-----------------------------------------------------------------------------
(***************************************************************************)
(* The actions of the service, in terms of the mapping.                    *)
(***************************************************************************)

\* A step that leaves all five parts alone.
LEMMA Stutter ==
    ASSUME requests' = requests, Live' = Live, pending' = pending, Working' = Working,
           Cached' = Cached
    PROVE  ServiceStep
BY DEF ServiceStep, Service!vars, Live, Working, Cached

\* A peer announces and keeps its session or gets its first.
LEMMA MapsToJoin ==
    ASSUME NEW h \in Hashes, NEW p \in Peers, requests' = requests \cup {<<h, p>>},
           \/ Live' = Live
           \/ /\ \A s \in Live : <<s.hash, s.peer>> # <<h, p>>
              /\ Live \subseteq Live'
              /\ \E s \in Live' : Live' \ Live = {s} /\ <<s.hash, s.peer>> = <<h, p>>,
           pending' = pending, Working' = Working, Cached' = Cached
    PROVE  ServiceStep
BY DEF ServiceStep, Service!Next, Service!Join, Live, Working, Cached

\* Peers go, with their sessions and the cache of hashes left without any.
LEMMA MapsToLeave ==
    ASSUME requests' \subseteq requests,
           Live' = {s \in Live : <<s.hash, s.peer>> \in requests'},
           Cached' = {h \in Cached : \E p \in Peers : <<h, p>> \in requests'},
           pending' = pending, Working' = Working
    PROVE  ServiceStep
BY DEF ServiceStep, Service!Next, Service!Leave, Service!HasPeer, Live, Working, Cached

\* A marker is set for a key that has none.
LEMMA MapsToClaim ==
    ASSUME NEW j, j.ses \in Live, \A m \in pending : jobKey(m) # jobKey(j),
           pending' = pending \cup {j},
           requests' = requests, Live' = Live, Working' = Working, Cached' = Cached
    PROVE  ServiceStep
BY DEF ServiceStep, Service!Next, Service!Claim, Service!Key, jobKey, Live, Working, Cached

\* A worker starts on a job that has its marker.
LEMMA MapsToBegin ==
    ASSUME NEW j \in pending, j.ses \in Live, Working' = Working \cup {j},
           requests' = requests, Live' = Live, pending' = pending, Cached' = Cached
    PROVE  ServiceStep
BY DEF ServiceStep, Service!Next, Service!Begin, Live, Working, Cached

\* A worker is done; a retry may have taken over the marker.
LEMMA MapsToEnd ==
    ASSUME NEW j \in Working, Working' = Working \ {j},
           \/ pending' = pending
           \/ \E k \in pending' : /\ k.ses = j.ses /\ k.fwd = j.fwd
                                  /\ pending' = (pending \ {j}) \cup {k},
           requests' = requests, Live' = Live, Cached' = Cached
    PROVE  ServiceStep
BY DEF ServiceStep, Service!Next, Service!End, Live, Working, Cached

\* Markers go that no announce at work for a live session needs.
LEMMA MapsToRelease ==
    ASSUME pending' \subseteq pending,
           \A j \in Working : j.ses \in Live /\ j \in pending => j \in pending',
           requests' = requests, Live' = Live, Working' = Working, Cached' = Cached
    PROVE  ServiceStep
BY DEF ServiceStep, Service!Next, Service!Release, Live, Working, Cached

\* An answer is cached for a live session.
LEMMA MapsToPublish ==
    ASSUME NEW j \in Working, j.ses \in Live, Cached' = Cached \cup {j.ses.hash},
           Working' = Working \/ Working' = Working \ {j},
           requests' = requests, Live' = Live, pending' = pending
    PROVE  ServiceStep
BY DEF ServiceStep, Service!Next, Service!PublishAnswer, Live, Working, Cached

\* Cached state goes.
LEMMA MapsToDrop ==
    ASSUME Cached' \subseteq Cached,
           Working' = Working \/ \E j \in Working : Working' = Working \ {j},
           requests' = requests, Live' = Live, pending' = pending
    PROVE  ServiceStep
BY DEF ServiceStep, Service!Next, Service!Drop, Live, Working, Cached

\* The sessions end together.
LEMMA MapsToShutdown ==
    ASSUME Live' = {}, requests' = requests, pending' = pending, Working' = Working,
           Cached' = Cached
    PROVE  ServiceStep
BY DEF ServiceStep, Service!Next, Service!Shutdown, Live, Working, Cached
-----------------------------------------------------------------------------
(***************************************************************************)
(* The peer storage.                                                       *)
(***************************************************************************)

\* The mapping sees no more of the storage than its variables ...
LEMMA StorageView ==
    ASSUME UNCHANGED storageVars
    PROVE  requests' = requests /\ Live' = Live /\ Cached' = Cached
BY DEF storageVars, Live, Cached, HasInfoHash

\* ... and of the announces at work no more than the workers.
LEMMA WorkerView ==
    ASSUME UNCHANGED worker
    PROVE  Working' = Working
BY DEF Working, Busy

\* Update is a join: the peer keeps its session or gets its only one.
LEMMA UpdateJoins ==
    ASSUME TypeOK, NEW h \in Hashes, NEW p \in Peers, Update(h, p), UNCHANGED <<worker, pending>>
    PROVE  ServiceStep
<1>1. Working' = Working
  BY WorkerView
<1>2. Cached' = Cached /\ requests' = requests \cup {<<h, p>>} /\ closed' = closed
  BY DEF Update, Cached, HasInfoHash
<1>3. PICK x : x = SessionFor(h, p)
  OBVIOUS
<1>4. sessions' = sessions \cup {x}
  BY <1>3 DEF Update
<1>5. CASE closed
  BY <1>1, <1>2, <1>5, MapsToJoin DEF Live
<1>6. CASE ~closed /\ SessionsOf(h, p) # {}
  <2>1. x \in sessions
    BY <1>3, <1>6 DEF SessionFor, SessionsOf
  <2>2. Live' = Live
    BY <1>2, <1>4, <2>1 DEF Live
  <2> QED BY <1>1, <1>2, <2>2, MapsToJoin
<1>7. CASE ~closed /\ SessionsOf(h, p) = {}
  <2>1. x.hash = h /\ x.peer = p
    BY <1>3, <1>7 DEF SessionFor
  <2>2. \A s \in sessions : <<s.hash, s.peer>> # <<h, p>>
    BY <1>7 DEF SessionsOf
  <2>3. x \notin sessions
    BY <2>1, <2>2
  <2>4. Live = sessions /\ Live' = sessions \cup {x}
    BY <1>2, <1>4, <1>7 DEF Live
  <2>5. Live \subseteq Live' /\ x \in Live' /\ Live' \ Live = {x}
    BY <2>3, <2>4
  <2> QED BY <1>1, <1>2, <2>1, <2>2, <2>4, <2>5, MapsToJoin
<1> QED BY <1>5, <1>6, <1>7

\* deleteLocked is a leave: the sessions that remain are those of the peers
\* that remain, and the cache of a hash goes exactly with its last peer.
LEMMA DeleteLeaves ==
    ASSUME TypeOK, LifetimeInv, NEW S, NEW H \in SUBSET Hashes, deleteLocked(S, H),
           \A h \in H : \A p \in PeersOf(h) : <<h, p>> \in S,
           UNCHANGED <<worker, pending>>
    PROVE  ServiceStep
<1>1. Working' = Working
  BY WorkerView
<1>2. requests' = requests \ S /\ closed' = closed
  BY DEF deleteLocked
<1>3. sessions' = {s \in sessions : <<s.hash, s.peer>> \in requests'}
  BY <1>2 DEF deleteLocked, LifetimeInv, SessionsHavePeers
<1>4. Live' = {s \in Live : <<s.hash, s.peer>> \in requests'}
  BY <1>2, <1>3 DEF Live
<1>5. ASSUME NEW h \in Hashes
      PROVE  HasInfoHash(h)' <=> HasInfoHash(h) /\ \E p \in Peers : <<h, p>> \in requests'
  <2>1. HasInfoHash(h)' <=> HasInfoHash(h) /\ h \notin Emptied(S) \cup H
    BY DEF deleteLocked, Cleanup, HasInfoHash
  <2>2. HasInfoHash(h) => PeersOf(h) # {}
    BY DEF LifetimeInv, CacheNeedsLocalPeer
  <2>3. (\E p \in Peers : <<h, p>> \in requests') <=> \E p \in PeersOf(h) : <<h, p>> \notin S
    BY <1>2 DEF PeersOf
  <2>4. h \in Emptied(S) <=> PeersOf(h) # {} /\ \A p \in PeersOf(h) : <<h, p>> \in S
    BY DEF Emptied
  <2> QED BY <2>1, <2>2, <2>3, <2>4
<1>6. Cached' = {h \in Cached : \E p \in Peers : <<h, p>> \in requests'}
  BY <1>5 DEF Cached
<1> QED BY <1>1, <1>2, <1>4, <1>6, MapsToLeave
-----------------------------------------------------------------------------
(***************************************************************************)
(* Request handlers.                                                       *)
(***************************************************************************)

\* A request is a join or a leave, or not seen by the service yet.
LEMMA RequestMaps ==
    ASSUME ServiceInv, NEW r \in Handlers, Request(r)
    PROVE  ServiceStep
<1> USE DEF ServiceInv
<1>1. ASSUME NEW h \in Hashes, NEW p \in Peers, Announce(r, h, p) PROVE ServiceStep
  BY <1>1, UpdateJoins DEF Announce, tableVars
<1>2. ASSUME NEW h \in Hashes, NEW p \in Peers, Stopped(r, h, p) PROVE ServiceStep
  <2>1. PICK H \in SUBSET Hashes :
              H = (IF PeersOf(h) \subseteq {p} THEN {h} ELSE {})
    OBVIOUS
  <2>2. deleteLocked({<<h, p>>}, H)
    BY <1>2, <2>1 DEF Stopped
  <2>3. \A k \in H : \A q \in PeersOf(k) : <<k, q>> \in {<<h, p>>}
    BY <2>1
  <2> QED BY <1>2, <2>2, <2>3, DeleteLeaves DEF Stopped, tableVars
<1>3. ASSUME NEW f \in Addable, Add(r, f) PROVE ServiceStep
  BY <1>3, Stutter, StorageView, WorkerView DEF Add, tableVars
<1> QED BY <1>1, <1>2, <1>3 DEF Request

\* A handler claims a key nobody has, or gives up markers no worker needs:
\* its own job's, or those of a session that has ended.
LEMMA HandlerStepMaps ==
    ASSUME ServiceInv, NEW r \in Handlers, HandlerStep(r)
    PROVE  ServiceStep
<1> USE DEF ServiceInv
<1>0. requests' = requests /\ Live' = Live /\ Cached' = Cached /\ Working' = Working
  <2>1. UNCHANGED storageVars /\ UNCHANGED worker
    BY DEF HandlerStep, Admit, Select, Mark, Skip, Reserve, Send, Refused, Return, CancelPending,
       AddClear, AddUnsuspend, AddList
  <2> QED BY <2>1, StorageView, WorkerView
<1>1. CASE Mark(r)
  <2>1. PICK f \in Candidates(r) : Skip(r, f) \/ Reserve(r, f)
    BY <1>1 DEF Mark
  <2>2. CASE Skip(r, f)
    BY <1>0, <2>2, Stutter DEF Skip, tableVars
  <2>3. CASE Reserve(r, f)
    <3>1. PICK x : x = handler[r].ses
      OBVIOUS
    <3>2. x \in Sessions /\ f \in Forwarders
      BY <1>1, <3>1 DEF Mark, Candidates, TypeOK, HandlerStates
    <3>3. ~isJobPending(x.hash, f, x.peer) /\ ~Ended(x) /\ FreeIds(x, f) # {}
          /\ pending' = SetMarker(NewJob(x, f))
      BY <2>3, <3>1 DEF Reserve
    <3>4. PICK j : j = NewJob(x, f)
      OBVIOUS
    <3>5. j.ses = x /\ j.fwd = f
      BY <3>2, <3>3, <3>4, NewJobType
    <3>6. \A m \in pending : jobKey(m) # jobKey(j)
      BY <3>3, <3>5 DEF isJobPending, jobKey
    <3>7. pending' = pending \cup {j}
      BY <3>3, <3>4, <3>6 DEF SetMarker
    <3>8. j.ses \in Live
      BY <3>3, <3>5 DEF Ended, Live
    <3> QED BY <1>0, <3>6, <3>7, <3>8, MapsToClaim
  <2> QED BY <2>1, <2>2, <2>3
<1>2. CASE Refused(r)
  <2>1. pending' = pending \ {handler[r].job}
    BY <1>2 DEF Refused, finishJob
  <2>2. \A j \in Working : j # handler[r].job
    BY ForwardingAssumption DEF Working, Busy, TypeOK, WorkerStates, MarkerInv, OneOwner
  <2> QED BY <1>0, <2>1, <2>2, MapsToRelease
<1>3. CASE CancelPending(r)
  <2>1. pending' = {m \in pending : m.ses # handler[r].ses}
    BY <1>3 DEF CancelPending, cancelPendingJobs
  <2>2. Ended(handler[r].ses)
    BY <1>3 DEF CancelPending, MarkerInv, SessionsKnown
  <2>3. handler[r].ses \notin Live
    BY <2>2 DEF Ended, Live
  <2> QED BY <1>0, <2>1, <2>3, MapsToRelease
<1>4. CASE \/ Admit(r) \/ Select(r) \/ Send(r) \/ Return(r)
           \/ AddClear(r) \/ AddUnsuspend(r) \/ AddList(r)
  <2>1. pending' = pending
    BY <1>4 DEF Admit, Select, Send, Return, AddClear, AddUnsuspend, AddList, tableVars
  <2> QED BY <1>0, <2>1, Stutter
<1> QED BY <1>1, <1>2, <1>3, <1>4 DEF HandlerStep
-----------------------------------------------------------------------------
(***************************************************************************)
(* Announce workers.                                                       *)
(***************************************************************************)

AtWork(pc) == pc \notin {"idle", "finish", "exited"}

\* What a worker's move does to the announces at work.  That the job it lets
\* go of is at work nowhere else is OneOwner.
LEMMA WorkMoves ==
    ASSUME TypeOK, OneOwner, NEW w \in Workers, NEW x, worker' = [worker EXCEPT ![w] = x]
    PROVE  /\ Busy(w) => worker[w].job \in Working
           /\ Busy(w) /\ AtWork(x.pc) /\ x.job = worker[w].job => Working' = Working
           /\ Busy(w) /\ ~AtWork(x.pc) => Working' = Working \ {worker[w].job}
           /\ ~Busy(w) /\ AtWork(x.pc) => Working' = Working \cup {x.job}
           /\ ~Busy(w) /\ ~AtWork(x.pc) => Working' = Working
<1>0. worker \in [Workers -> WorkerStates]
  BY DEF TypeOK
<1>1. /\ worker'[w] = x /\ \A v \in Workers \ {w} : worker'[v] = worker[v]
      /\ Busy(w)' <=> AtWork(x.pc)
      /\ \A v \in Workers \ {w} : Busy(v)' <=> Busy(v)
  BY <1>0 DEF Busy, AtWork
<1>2. \A j : j \in Working' <=> \E v \in Workers : Busy(v)' /\ worker'[v].job = j
  BY DEF Working
<1>3. \A j : j \in Working <=> \E v \in Workers : Busy(v) /\ worker[v].job = j
  BY DEF Working
<1>4. \A v \in Workers \ {w} : Busy(v) => worker[v].job # worker[w].job
  BY <1>0, ForwardingAssumption DEF Busy, WorkerStates, OneOwner
<1>5. \A j : j \in Working' <=>
                (\/ AtWork(x.pc) /\ x.job = j
                 \/ \E v \in Workers \ {w} : Busy(v) /\ worker[v].job = j)
  BY <1>1, <1>2
<1>6. \A j : j \in Working <=>
                (\/ Busy(w) /\ worker[w].job = j
                 \/ \E v \in Workers \ {w} : Busy(v) /\ worker[v].job = j)
  BY <1>3
<1>7. Busy(w) => worker[w].job \in Working
  BY <1>6
<1>8. Busy(w) /\ AtWork(x.pc) /\ x.job = worker[w].job => Working' = Working
  BY <1>5, <1>6
<1>9. Busy(w) /\ ~AtWork(x.pc) => Working' = Working \ {worker[w].job}
  BY <1>4, <1>5, <1>6
<1>10. ~Busy(w) /\ AtWork(x.pc) => Working' = Working \cup {x.job}
  BY <1>5, <1>6
<1>11. ~Busy(w) /\ ~AtWork(x.pc) => Working' = Working
  BY <1>5, <1>6
<1> QED BY <1>7, <1>8, <1>9, <1>10, <1>11

\* The same for Goto.
LEMMA GotoMoves ==
    ASSUME TypeOK, OneOwner, NEW w \in Workers, NEW pc, Busy(w), Goto(w, pc)
    PROVE  /\ worker[w].job \in Working
           /\ AtWork(pc) => Working' = Working
           /\ ~AtWork(pc) => Working' = Working \ {worker[w].job}
<1>1. worker[w] \in WorkerStates
  BY DEF TypeOK
<1>2. PICK x : x = [worker[w] EXCEPT !.pc = pc]
  OBVIOUS
<1>3. x.pc = pc /\ x.job = worker[w].job
  BY <1>1, <1>2 DEF WorkerStates
<1>4. worker' = [worker EXCEPT ![w] = x]
  BY <1>2 DEF Goto
<1> QED BY <1>3, <1>4, WorkMoves

\* A busy worker that goes on, or is done, is seen as such.
LEMMA GotoMaps ==
    ASSUME ServiceInv, NEW w \in Workers, NEW pc, Busy(w), Goto(w, pc), UNCHANGED storageVars,
           UNCHANGED pending
    PROVE  ServiceStep
<1>1. /\ worker[w].job \in Working
      /\ Working' = Working \/ Working' = Working \ {worker[w].job}
  BY GotoMoves DEF ServiceInv, MarkerInv
<1>2. requests' = requests /\ Live' = Live /\ Cached' = Cached
  BY StorageView
<1> QED BY <1>1, <1>2, Stutter, MapsToEnd

\* The tests of updatePeerCache change nothing, or end the announce.
LEMMA UpdateCacheMaps ==
    ASSUME ServiceInv, NEW w \in Workers, NEW next, Busy(w), updatePeerCache(w, next)
    PROVE  ServiceStep
<1>1. UNCHANGED storageVars /\ pending' = pending
  BY DEF updatePeerCache, tableVars
<1>2. CASE Goto(w, "finish")
  BY <1>1, <1>2, GotoMaps
<1>3. CASE MayWrite(w, next)
  <2>1. PICK x : x = [worker[w] EXCEPT !.pc = "write", !.then = next]
    OBVIOUS
  <2>2. x.pc = "write" /\ x.job = worker[w].job
    BY <2>1 DEF ServiceInv, TypeOK, WorkerStates
  <2>3. worker' = [worker EXCEPT ![w] = x]
    BY <1>3, <2>1 DEF MayWrite
  <2>4. Working' = Working
    BY <2>2, <2>3, WorkMoves DEF AtWork, ServiceInv, MarkerInv
  <2> QED BY <1>1, <2>4, Stutter, StorageView
<1> QED BY <1>2, <1>3 DEF updatePeerCache

\* The write publishes for a session that is still live.
LEMMA WriteCacheMaps ==
    ASSUME ServiceInv, NEW w \in Workers, WriteCache(w)
    PROVE  ServiceStep
<1>0. PICK j : j = worker[w].job
  OBVIOUS
<1>1. Busy(w) /\ Publish(j.ses.hash, j.fwd) /\ Goto(w, worker[w].then) /\ pending' = pending
  BY <1>0 DEF WriteCache, Busy, tableVars
<1>2. ~canceled(j)
  BY <1>0 DEF WriteCache, ServiceInv, WriteInv, Writers
<1>3. j \in Working /\ (Working' = Working \/ Working' = Working \ {j})
  BY <1>0, <1>1, GotoMoves DEF ServiceInv, MarkerInv
<1>4. j.ses \in Live
  BY <1>2 DEF canceled, Ended, Live
<1>5. j.ses.hash \in Hashes /\ j.fwd \in Forwarders
  BY <1>0, <1>1 DEF ServiceInv, TypeOK, WorkerStates, Busy, Jobs, Sessions
<1>6. entries' = entries \cup {<<j.ses.hash, j.fwd>>}
      /\ requests' = requests /\ sessions' = sessions /\ closed' = closed
  BY <1>1 DEF Publish
<1>7. \A h \in Hashes : HasInfoHash(h)' <=> HasInfoHash(h) \/ h = j.ses.hash
  BY <1>5, <1>6 DEF HasInfoHash
<1>8. Cached' = Cached \cup {j.ses.hash}
  BY <1>5, <1>7 DEF Cached
<1>9. Live' = Live
  BY <1>6 DEF Live
<1> QED BY <1>1, <1>3, <1>4, <1>6, <1>8, <1>9, MapsToPublish

\* Every step of a worker.
LEMMA WorkerStepMaps ==
    ASSUME ServiceInv, NEW w \in Workers, WorkerStep(w)
    PROVE  ServiceStep
<1>0. /\ worker \in [Workers -> WorkerStates] /\ worker[w] \in WorkerStates
      /\ TypeOK /\ OneOwner
  BY DEF ServiceInv, MarkerInv, TypeOK
<1>1. CASE Take(w)
  <2>0. requests' = requests /\ Live' = Live /\ Cached' = Cached /\ pending' = pending
    BY <1>1, StorageView DEF Take
  <2>1. PICK j : j = Head(queue)
    OBVIOUS
  <2>2. j \in Queued
    <3>1. queue \in Seq(Jobs) /\ queue # <<>>
      BY <1>0, <1>1 DEF Take, TypeOK, TableTypeOK
    <3>2. Len(queue) \in Nat /\ Len(queue) >= 1 /\ Head(queue) = queue[1]
      BY <3>1
    <3> QED BY <2>1, <3>2 DEF Queued
  <2>a. PICK pc : /\ pc = "finish" \/ (pc = "flight" /\ ~canceled(j))
                  /\ worker' = [worker EXCEPT ![w] =
                                  [pc |-> pc, job |-> j, then |-> "finish"]]
    BY <1>1, <2>1 DEF Take
  <2>b. PICK x : x = [pc |-> pc, job |-> j, then |-> "finish"]
    OBVIOUS
  <2>3. /\ worker' = [worker EXCEPT ![w] = x] /\ x.job = j
        /\ x.pc = "finish" \/ (x.pc = "flight" /\ ~canceled(j))
    BY <2>a, <2>b
  <2>4. ~Busy(w)
    BY <1>1 DEF Take, Busy
  <2>5. CASE x.pc = "finish"
    <3>1. Working' = Working
      BY <1>0, <2>3, <2>4, <2>5, WorkMoves DEF AtWork
    <3> QED BY <2>0, <3>1, Stutter
  <2>6. CASE x.pc = "flight" /\ ~canceled(j)
    <3>1. Working' = Working \cup {j}
      BY <1>0, <2>3, <2>4, <2>6, WorkMoves DEF AtWork
    <3>2. j \in pending
      BY <2>2, <2>6 DEF ServiceInv, MarkerInv, LiveJobOwnsMarker, InPlay
    <3>3. j.ses \in Live
      BY <2>6 DEF canceled, Ended, Live
    <3> QED BY <2>0, <3>1, <3>2, <3>3, MapsToBegin
  <2> QED BY <2>3, <2>5, <2>6
<1>2. CASE Answer(w)
  <2>1. Busy(w) /\ UNCHANGED storageVars /\ UNCHANGED pending
    BY <1>2 DEF Answer, Busy, tableVars
  <2>2. ASSUME NEW then, worker' = [worker EXCEPT ![w] =
                            [worker[w] EXCEPT !.pc = "forget", !.then = then]]
        PROVE  ServiceStep
    <3>1. PICK x : x = [worker[w] EXCEPT !.pc = "forget", !.then = then]
      OBVIOUS
    <3>2. x.pc = "forget" /\ x.job = worker[w].job
      BY <1>0, <3>1 DEF WorkerStates
    <3>3. worker' = [worker EXCEPT ![w] = x]
      BY <2>2, <3>1
    <3>4. Working' = Working
      BY <1>0, <2>1, <3>2, <3>3, WorkMoves DEF AtWork
    <3> QED BY <2>1, <3>4, Stutter, StorageView
  <2> QED BY <1>2, <2>1, <2>2, GotoMaps DEF Answer
<1>3. CASE PublishPeers(w) \/ RecordAttempt(w) \/ DeferAnnounce(w)
  BY <1>3, UpdateCacheMaps DEF PublishPeers, RecordAttempt, DeferAnnounce, Busy
<1>4. CASE \/ ResetFailure(w) \/ SuspendForwarder(w) \/ DisableForget(w) \/ DisableDelist(w)
           \/ CheckDisabled(w)
  <2>1. Busy(w) /\ UNCHANGED storageVars /\ UNCHANGED pending
    BY <1>4 DEF ResetFailure, SuspendForwarder, DisableForget, DisableDelist, CheckDisabled, Busy,
       tableVars
  <2> QED BY <1>4, <2>1, GotoMaps DEF ResetFailure, SuspendForwarder, DisableForget, DisableDelist,
             CheckDisabled
<1>5. CASE RegisterFailure(w)
  <2>1. Busy(w) /\ UNCHANGED storageVars /\ UNCHANGED pending
    BY <1>5 DEF RegisterFailure, Busy, tableVars
  <2>2. PICK pc \in {"forget", "check"} : worker' = [worker EXCEPT ![w] =
                                             [worker[w] EXCEPT !.pc = pc, !.then = "check"]]
    BY <1>5 DEF RegisterFailure
  <2>3. PICK x : x = [worker[w] EXCEPT !.pc = pc, !.then = "check"]
    OBVIOUS
  <2>4. x.pc = pc /\ x.job = worker[w].job
    BY <1>0, <2>3 DEF WorkerStates
  <2>5. Working' = Working
    BY <1>0, <2>1, <2>2, <2>3, <2>4, WorkMoves DEF AtWork
  <2> QED BY <2>1, <2>5, Stutter, StorageView
<1>6. CASE DisableUncache(w)
  <2>1. Busy(w) /\ Goto(w, worker[w].then) /\ pending' = pending
    BY <1>6 DEF DisableUncache, Busy, tableVars
  <2>2. /\ worker[w].job \in Working
        /\ Working' = Working \/ Working' = Working \ {worker[w].job}
    BY <1>0, <2>1, GotoMoves
  <2>3. entries' \subseteq entries /\ requests' = requests /\ Live' = Live
    BY <1>6 DEF DisableUncache, ForgetForwarder, Live
  <2>4. Cached' \subseteq Cached
    BY <2>3 DEF Cached, HasInfoHash
  <2> QED BY <2>1, <2>2, <2>3, <2>4, MapsToDrop
<1>7. CASE ScheduleRetry(w)
  <2>1. PICK j : j = worker[w].job
    OBVIOUS
  <2>2. PICK k : k = NewJob(j.ses, j.fwd)
    OBVIOUS
  <2>3. Busy(w) /\ Goto(w, "finish") /\ UNCHANGED storageVars
    BY <1>7 DEF ScheduleRetry, Busy
  <2>4. CASE pending' = pending
    BY <2>3, <2>4, GotoMaps
  <2>5. CASE Schedulable(k) /\ pending' = SetMarker(k)
    <3>1. j.ses \in Sessions /\ j.fwd \in Forwarders /\ FreeIds(j.ses, j.fwd) # {}
      BY <1>0, <1>7, <2>1 DEF ScheduleRetry, WorkerStates, Jobs
    <3>2. k.ses = j.ses /\ k.fwd = j.fwd
      BY <2>2, <3>1, NewJobType
    <3>3. j \in InPlay /\ ~canceled(j)
      BY <2>1, <2>3, <2>5, <3>2 DEF InPlay, Schedulable, canceled
    <3>4. j \in pending
      BY <3>3 DEF ServiceInv, MarkerInv, LiveJobOwnsMarker
    <3>5. \A m \in pending : jobKey(m) = jobKey(k) <=> m = j
      BY <3>2, <3>4 DEF ServiceInv, MarkerInv, OneMarkerPerKey, jobKey
    <3>6. pending' = (pending \ {j}) \cup {k} /\ k \in pending'
      BY <2>5, <3>5 DEF SetMarker
    <3>7. j \in Working /\ Working' = Working \ {j}
      BY <1>0, <2>1, <2>3, GotoMoves DEF AtWork
    <3> QED BY <2>3, <3>2, <3>6, <3>7, MapsToEnd, StorageView
  <2> QED BY <1>7, <2>1, <2>2, <2>4, <2>5 DEF ScheduleRetry
<1>8. CASE Finish(w)
  <2>1. worker' = [worker EXCEPT ![w] = IdleWorker] /\ ~Busy(w) /\ pending' = pending \ {worker[w].job}
    BY <1>8 DEF Finish, finishJob, Busy
  <2>2. Working' = Working
    <3>1. PICK x : x = IdleWorker
      OBVIOUS
    <3>2. x.pc = "idle"
      BY <3>1 DEF IdleWorker
    <3> QED BY <1>0, <2>1, <3>1, <3>2, WorkMoves DEF AtWork
  <2>3. \A j \in Working : j # worker[w].job
    BY <1>0, <2>1, ForwardingAssumption DEF Working, Busy, WorkerStates, OneOwner
  <2> QED BY <1>8, <2>1, <2>2, <2>3, MapsToRelease, StorageView DEF Finish
<1>9. CASE Exit(w)
  <2>1. PICK x : x = [worker[w] EXCEPT !.pc = "exited"]
    OBVIOUS
  <2>2. x.pc = "exited" /\ worker' = [worker EXCEPT ![w] = x] /\ ~Busy(w)
    BY <1>0, <1>9, <2>1 DEF Exit, Goto, WorkerStates, Busy
  <2>3. Working' = Working
    BY <1>0, <2>2, WorkMoves DEF AtWork
  <2> QED BY <1>9, <2>3, Stutter, StorageView DEF Exit, tableVars
<1> QED BY <1>1, <1>2, <1>3, <1>4, <1>5, <1>6, <1>7, <1>8, <1>9, WriteCacheMaps DEF WorkerStep
-----------------------------------------------------------------------------
(***************************************************************************)
(* The scheduler, expiry, time and shutdown.                               *)
(***************************************************************************)

\* The scheduler drops cache entries and gives up markers of jobs that only
\* it has, or whose session has ended.
LEMMA SchedStepMaps ==
    ASSUME ServiceInv, SchedStep
    PROVE  ServiceStep
<1>0. Working' = Working
  BY WorkerView DEF SchedStep, Tick, Extract, FinishCanceled, ProcessReady, Drained, ExitScheduler
<1>1. CASE Tick
  <2>1. entries' \subseteq entries /\ requests' = requests /\ Live' = Live /\ pending' = pending
    BY <1>1 DEF Tick, Prune, Live, tableVars
  <2>2. Cached' \subseteq Cached
    BY <2>1 DEF Cached, HasInfoHash
  <2> QED BY <1>0, <2>1, <2>2, MapsToDrop
<1>2. CASE Extract \/ Drained \/ ExitScheduler
  BY <1>0, <1>2, Stutter, StorageView DEF Extract, Drained, ExitScheduler, tableVars
<1>3. CASE FinishCanceled
  <2>1. PICK j \in sched.canceled : pending' = pending \ {j}
    BY <1>3 DEF FinishCanceled, finishJob
  <2>2. canceled(j)
    BY <2>1 DEF ServiceInv, MarkerInv, SessionsKnown
  <2>3. j.ses \notin Live
    BY <2>2 DEF canceled, Ended, Live
  <2> QED BY <1>0, <1>3, <2>1, <2>3, MapsToRelease, StorageView DEF FinishCanceled
<1>4. CASE ProcessReady
  <2>0. requests' = requests /\ Live' = Live /\ Cached' = Cached
    BY <1>4, StorageView DEF ProcessReady
  <2>1. PICK j \in sched.ready : pending' = pending \ {j} \/ pending' = pending
    BY <1>4 DEF ProcessReady, Reschedule, finishJob
  <2>2. \A k \in Working : k # j
    BY <2>1 DEF Working, ServiceInv, MarkerInv, OneOwner, Resting
  <2> QED BY <1>0, <2>0, <2>1, <2>2, MapsToRelease, Stutter
<1> QED BY <1>1, <1>2, <1>3, <1>4 DEF SchedStep

\* Expiry is a leave, closing the storage the end of all sessions, and Stop
\* clears the markers after every worker has gone.
LEMMA BackgroundMaps ==
    ASSUME ServiceInv,
           \/ Purge \/ TimePasses \/ StopRequest \/ StopStep \/ CloseStorage
           \/ \E h \in Hashes, p \in Peers : Completed(h, p)
           \/ UNCHANGED vars
    PROVE  ServiceStep
<1> USE DEF ServiceInv
<1>1. CASE Purge
  <2>1. PICK S : deleteLocked(S, {})
    BY <1>1 DEF Purge, purgeExpired
  <2> QED BY <1>1, <2>1, DeleteLeaves DEF Purge, tableVars, actorVars
<1>2. CASE TimePasses
  <2>1. /\ requests' = requests /\ sessions' = sessions /\ closed' = closed /\ entries' = entries
        /\ pending' = pending /\ worker' = worker
    BY <1>2 DEF TimePasses, CooldownElapses, storageVars, tableVars, actorVars
  <2>2. Live' = Live /\ Cached' = Cached
    BY <2>1 DEF Live, Cached, HasInfoHash
  <2> QED BY <2>1, <2>2, Stutter, WorkerView
<1>3. CASE StopRequest \/ StopLock \/ UNCHANGED vars
  BY <1>3, Stutter, StorageView, WorkerView DEF StopRequest, StopLock, vars, tableVars, actorVars
<1>4. CASE StopClear
  <2>1. Working = {}
    BY <1>4 DEF StopClear, Working, Busy
  <2> QED BY <1>4, <2>1, MapsToRelease, StorageView, WorkerView DEF StopClear, actorVars
<1>5. CASE CloseStorage
  <2>1. Live' = {} /\ requests' = requests /\ entries' = entries /\ pending' = pending
        /\ worker' = worker
    BY <1>5 DEF CloseStorage, Close, Live, tableVars, actorVars
  <2>2. Cached' = Cached
    BY <2>1 DEF Cached, HasInfoHash
  <2> QED BY <2>1, <2>2, MapsToShutdown, WorkerView
<1>6. ASSUME NEW h \in Hashes, NEW p \in Peers, Completed(h, p) PROVE ServiceStep
  BY <1>6, UpdateJoins DEF Completed, tableVars, actorVars
<1> QED BY <1>1, <1>2, <1>3, <1>4, <1>5, <1>6 DEF StopStep
-----------------------------------------------------------------------------
\* Every behaviour of handlers, workers, scheduler, expiry and shutdown is a
\* behaviour of the announce service: one claim per key, announces only under
\* a claim, answers cached only for a live session and only as long as a
\* local peer announces the hash.
THEOREM ServiceImplemented == Spec => ImplementsAnnounceService
<1>1. Init => Service!Init
  BY DEF Init, StorageInit, TableInit, IdleWorker, Service!Init, Busy, HasInfoHash
<1>2. ServiceInv /\ [Next]_vars => [Service!Next]_(Service!vars)
  BY RequestMaps, HandlerStepMaps, WorkerStepMaps, SchedStepMaps, BackgroundMaps
  DEF Next, ServiceStep
<1>3. Spec => []ServiceInv
  BY MarkerInvariance, WriteInvariance, LifetimeInvariance, PTL DEF ServiceInv
<1> QED BY <1>1, <1>2, <1>3, PTL DEF Spec, ImplementsAnnounceService, Service!Spec
=============================================================================
