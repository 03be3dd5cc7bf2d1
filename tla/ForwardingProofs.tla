-------------------------- MODULE ForwardingProofs --------------------------
(***************************************************************************)
(* Theorems about Forwarding, for any number of hashes, peers, forwarders, *)
(* handlers and workers and any queue capacity.                            *)
(***************************************************************************)
EXTENDS Forwarding, TLAPS

\* A session Update hands out is one of the sessions.
LEMMA SessionForType ==
    ASSUME StorageTypeOK, NEW h \in Hashes, NEW p \in Peers,
           SessionsOf(h, p) # {} \/ gen[h][p] < MaxGen
    PROVE  SessionFor(h, p) \in Sessions
<1>1. CASE SessionsOf(h, p) # {}
  BY <1>1 DEF SessionFor, SessionsOf, StorageTypeOK
<1>2. CASE SessionsOf(h, p) = {}
  BY <1>2, PeerStorageAssumption DEF SessionFor, Sessions, StorageTypeOK
<1> QED BY <1>1, <1>2

\* A new job is a job, with an identity nothing refers to.
LEMMA NewJobType ==
    ASSUME NEW s \in Sessions, NEW f \in Forwarders, FreeIds(s, f) # {}
    PROVE  /\ NewJob(s, f) \in Jobs
           /\ NewJob(s, f) \notin Referenced
           /\ NewJob(s, f).ses = s /\ NewJob(s, f).fwd = f
<1> DEFINE i == CHOOSE x \in FreeIds(s, f) : TRUE
<1>1. i \in FreeIds(s, f)
  OBVIOUS
<1>2. i \in JobIds /\ [ses |-> s, fwd |-> f, id |-> i] \notin Referenced
  BY <1>1 DEF FreeIds
<1>3. NewJob(s, f) = [ses |-> s, fwd |-> f, id |-> i]
  BY DEF NewJob
<1> HIDE DEF i
<1> QED BY <1>2, <1>3 DEF Jobs

\* A send that finds room leaves a queue of jobs.
LEMMA EnqueueType ==
    ASSUME TableTypeOK, NEW j \in Jobs, Enqueue(j)
    PROVE  queue' \in Seq(Jobs)
BY DEF TableTypeOK, Enqueue

\* Handlers keep the types: the new locals of the handler are well formed,
\* and so is what it changes elsewhere.
LEMMA HandlerType ==
    ASSUME TypeOK, NEW r \in Handlers, Request(r) \/ HandlerStep(r)
    PROVE  TypeOK'
<1> DEFINE x == handler[r]
<1> USE DEF TypeOK, StorageTypeOK, RegistryTypeOK, TableTypeOK,
            storageVars, registryVars, tableVars, actorVars
<1>0. IdleHandler \in HandlerStates /\ x \in HandlerStates
  BY DEF IdleHandler, HandlerStates, HandlerPC
<1>1. ASSUME NEW h \in Hashes, NEW p \in Peers, Announce(r, h, p) PROVE TypeOK'
  <2>1. SessionFor(h, p) \in Sessions
    BY <1>1, SessionForType DEF Announce, Update
  <2>2. [IdleHandler EXCEPT !.pc = "admit", !.ses = SessionFor(h, p)] \in HandlerStates
    BY <2>1 DEF IdleHandler, HandlerStates, HandlerPC
  <2>3. StorageTypeOK'
    BY <1>1, <2>1 DEF Announce, Update
  <2> QED BY <1>1, <2>2, <2>3 DEF Announce
<1>2. ASSUME NEW h \in Hashes, NEW p \in Peers, Stopped(r, h, p) PROVE TypeOK'
  <2>1. ASSUME NEW s \in SessionsOf(h, p)
        PROVE  [IdleHandler EXCEPT !.pc = "cancel", !.ses = s] \in HandlerStates
    BY DEF SessionsOf, IdleHandler, HandlerStates, HandlerPC
  <2>2. StorageTypeOK'
    BY <1>2 DEF Stopped, deleteLocked, Cleanup
  <2> QED BY <1>2, <2>1, <2>2 DEF Stopped
<1>3. ASSUME NEW f \in Addable, Add(r, f) PROVE TypeOK'
  <2>1. [IdleHandler EXCEPT !.pc = "clear", !.fwd = f] \in HandlerStates
    BY <1>3, ForwardingAssumption DEF IdleHandler, HandlerStates, HandlerPC
  <2> QED BY <1>3, <2>1 DEF Add
<1>4. ASSUME Admit(r) PROVE TypeOK'
  <2>1. [x EXCEPT !.pc = "select"] \in HandlerStates
    BY <1>0, <1>4 DEF Admit, HandlerStates, HandlerPC
  <2> QED BY <1>0, <1>4, <2>1 DEF Admit
<1>5. ASSUME Select(r) PROVE TypeOK'
  <2>1. ASSUME NEW F \in SUBSET Forwarders, NEW D \in SUBSET Forwarders
        PROVE  [x EXCEPT !.pc = "mark", !.fresh = F, !.due = D, !.left = AnnounceLimit]
                  \in HandlerStates
    <3>1. AnnounceLimit \in Nat
      BY ForwardingAssumption DEF AnnounceLimit
    <3> QED BY <1>0, <1>5, <3>1 DEF Select, HandlerStates, HandlerPC
  <2>2. active \subseteq Forwarders
    BY DEF active
  <2>3. handler' \in [Handlers -> HandlerStates]
    BY <1>0, <1>5, <2>1, <2>2 DEF Select
  <2> QED BY <1>5, <2>3 DEF Select
<1>6. ASSUME Mark(r) PROVE TypeOK'
  <2>1. PICK f \in Candidates(r) : Skip(r, f) \/ Reserve(r, f)
    BY <1>6 DEF Mark
  <2>2. /\ f \in Forwarders /\ x.ses \in Sessions
        /\ x.pc = "mark" /\ x.left > 0
        /\ x.fresh \in SUBSET Forwarders /\ x.due \in SUBSET Forwarders
    BY <1>0, <1>6 DEF Mark, Candidates, HandlerStates
  <2>a. Without(r, f) \in HandlerStates /\ Without(r, f).left > 0
        /\ Without(r, f).ses \in Sessions
    BY <1>0, <2>2 DEF Without, HandlerStates
  <2>3. CASE Skip(r, f)
    BY <2>3, <2>a DEF Skip
  <2>4. CASE Reserve(r, f)
    <3>1. NewJob(x.ses, f) \in Jobs
      BY <2>2, <2>4, NewJobType DEF Reserve
    <3>2. [Without(r, f) EXCEPT !.pc = "send", !.job = NewJob(x.ses, f)] \in HandlerStates
      BY <2>a, <3>1 DEF HandlerStates, HandlerPC
    <3> QED BY <2>4, <3>1, <3>2 DEF Reserve, SetMarker
  <2> QED BY <2>1, <2>3, <2>4
<1>7. ASSUME Send(r) PROVE TypeOK'
  <2>1. x.pc = "send" /\ x.left > 0 /\ x.left \in Nat /\ x.job \in Jobs
        /\ x.ses \in Sessions
    BY <1>0, <1>7 DEF Send, HandlerStates
  <2>2. [x EXCEPT !.pc = "mark", !.job = NoJob, !.left = x.left - 1] \in HandlerStates
    <3>1. x.left - 1 \in Nat
      BY <2>1
    <3> QED BY <1>0, <2>1, <3>1 DEF HandlerStates, HandlerPC
  <2>3. [x EXCEPT !.pc = "refused"] \in HandlerStates
    BY <1>0, <2>1 DEF HandlerStates, HandlerPC
  <2>4. handler' \in [Handlers -> HandlerStates]
    BY <1>7, <2>2, <2>3 DEF Send
  <2>5. TableTypeOK'
    BY <1>7, <2>1, EnqueueType DEF Send
  <2> QED BY <1>7, <2>4, <2>5 DEF Send
<1>8. ASSUME Refused(r) PROVE TypeOK'
  BY <1>0, <1>8 DEF Refused, finishJob
<1>9. ASSUME Return(r) PROVE TypeOK'
  BY <1>0, <1>9 DEF Return
<1>10. ASSUME CancelPending(r) PROVE TypeOK'
  BY <1>0, <1>10 DEF CancelPending, cancelPendingJobs
<1>11. ASSUME AddClear(r) PROVE TypeOK'
  <2>1. [x EXCEPT !.pc = "unsuspend"] \in HandlerStates
    BY <1>0, <1>11 DEF AddClear, HandlerStates, HandlerPC
  <2> QED BY <1>11, <2>1 DEF AddClear, ClearDisabled
<1>12. ASSUME AddUnsuspend(r) PROVE TypeOK'
  <2>1. [x EXCEPT !.pc = "list"] \in HandlerStates
    BY <1>0, <1>12 DEF AddUnsuspend, HandlerStates, HandlerPC
  <2> QED BY <1>12, <2>1 DEF AddUnsuspend, ClearSuspended
<1>13. ASSUME AddList(r) PROVE TypeOK'
  <2>1. x.fwd \in Forwarders
    BY <1>0, <1>13 DEF AddList, HandlerStates
  <2>2. listings' \in [Forwarders -> Nat]
    BY <1>13, <2>1 DEF AddList, List
  <2> QED BY <1>0, <1>13, <2>2 DEF AddList, List
<1> QED
  BY <1>1, <1>2, <1>3, <1>4, <1>5, <1>6, <1>7, <1>8, <1>9, <1>10, <1>11, <1>12, <1>13
  DEF Request, HandlerStep

\* Workers keep the types.
LEMMA WorkerType ==
    ASSUME TypeOK, NEW w \in Workers, WorkerStep(w)
    PROVE  TypeOK'
<1> DEFINE x == worker[w]
<1> USE DEF TypeOK, StorageTypeOK, RegistryTypeOK, TableTypeOK,
            storageVars, registryVars, tableVars, actorVars
<1>0. /\ IdleWorker \in WorkerStates /\ x \in WorkerStates
      /\ [x EXCEPT !.pc = "exited"] \in WorkerStates
  <2>1. IdleWorker \in WorkerStates
    BY DEF IdleWorker, WorkerStates, WorkerPC
  <2>2. x \in WorkerStates
    OBVIOUS
  <2>3. [x EXCEPT !.pc = "exited"] \in WorkerStates
    BY <2>2 DEF WorkerStates, WorkerPC
  <2>4. QED
    BY <2>1, <2>2, <2>3
<1>a. ASSUME NEW pc \in WorkerPC, x.pc \notin {"idle", "exited"}, Goto(w, pc)
      PROVE  worker' \in [Workers -> WorkerStates]
  <2>1. [x EXCEPT !.pc = pc] \in WorkerStates
    BY <1>0, <1>a DEF WorkerStates
  <2> QED BY <1>a, <2>1 DEF Goto
<1>b. ASSUME x.pc \notin {"idle", "exited"}
      PROVE  x.job \in Jobs /\ x.job.fwd \in Forwarders /\ x.job.ses.hash \in Hashes
  BY <1>0, <1>b DEF WorkerStates, Jobs, Sessions
<1>1. ASSUME Take(w) PROVE TypeOK'
  <2>1. Head(queue) \in Jobs /\ Tail(queue) \in Seq(Jobs)
    BY <1>1 DEF Take
  <2>2. ASSUME NEW pc \in {"finish", "flight"}
        PROVE  [pc |-> pc, job |-> Head(queue), then |-> "finish"] \in WorkerStates
    BY <2>1 DEF WorkerStates, WorkerPC
  <2> QED BY <1>1, <2>1, <2>2 DEF Take
<1>2. ASSUME Answer(w) PROVE TypeOK'
  <2>1. ASSUME NEW then \in {"check", "finish"}
        PROVE  [x EXCEPT !.pc = "forget", !.then = then] \in WorkerStates
    BY <1>0, <1>2 DEF Answer, WorkerStates, WorkerPC
  <2> QED BY <1>2, <1>a, <2>1 DEF Answer, WorkerPC
<1>3. ASSUME NEW next \in {"reset", "swap", "finish"}, x.pc \notin {"idle", "exited"},
             updatePeerCache(w, next)
      PROVE  TypeOK'
  <2>1. [x EXCEPT !.pc = "write", !.then = next] \in WorkerStates
    BY <1>0, <1>3 DEF WorkerStates, WorkerPC
  <2>2. worker' \in [Workers -> WorkerStates]
    BY <1>3, <1>a, <2>1 DEF updatePeerCache, MayWrite, WorkerPC
  <2> QED BY <1>3, <2>2 DEF updatePeerCache
<1>4. ASSUME PublishPeers(w) \/ RecordAttempt(w) \/ DeferAnnounce(w) PROVE TypeOK'
  BY <1>3, <1>4 DEF PublishPeers, RecordAttempt, DeferAnnounce
<1>5. ASSUME ResetFailure(w) PROVE TypeOK'
  <2>1. worker' \in [Workers -> WorkerStates]
    BY <1>5, <1>a DEF ResetFailure, WorkerPC
  <2>2. RegistryTypeOK'
    BY <1>5, <1>b DEF ResetFailure, ForgetFailures
  <2> QED BY <1>5, <2>1, <2>2 DEF ResetFailure
<1>6. ASSUME SuspendForwarder(w) PROVE TypeOK'
  BY <1>6, <1>a, <1>b DEF SuspendForwarder, Suspend, WorkerPC
<1>7. ASSUME RegisterFailure(w) PROVE TypeOK'
  <2>1. ASSUME NEW pc \in {"forget", "check"}
        PROVE  [x EXCEPT !.pc = pc, !.then = "check"] \in WorkerStates
    BY <1>0, <1>7 DEF RegisterFailure, WorkerStates, WorkerPC
  <2>2. worker' \in [Workers -> WorkerStates]
    BY <1>7, <2>1 DEF RegisterFailure
  <2>3. RegistryTypeOK'
    BY <1>7, <1>b DEF RegisterFailure, CountFailure
  <2> QED BY <1>7, <2>2, <2>3 DEF RegisterFailure
<1>8. ASSUME DisableForget(w) PROVE TypeOK'
  BY <1>8, <1>a, <1>b DEF DisableForget, ForgetFailures, WorkerPC
<1>9. ASSUME DisableDelist(w) PROVE TypeOK'
  <2>1. x.job.fwd \in Forwarders /\ worker' \in [Workers -> WorkerStates]
    BY <1>9, <1>a, <1>b DEF DisableDelist, WorkerPC
  <2>2. RegistryTypeOK'
    BY <1>9, <2>1 DEF DisableDelist, Delist, active
  <2> QED BY <1>9, <2>1, <2>2 DEF DisableDelist
<1>10. ASSUME DisableUncache(w) PROVE TypeOK'
  <2>1. x.then \in WorkerPC
    BY <1>0 DEF WorkerStates, WorkerPC
  <2>2. worker' \in [Workers -> WorkerStates]
    BY <1>10, <1>a, <2>1 DEF DisableUncache
  <2> QED BY <1>10, <2>2 DEF DisableUncache, ForgetForwarder
<1>11. ASSUME CheckDisabled(w) PROVE TypeOK'
  BY <1>11, <1>a DEF CheckDisabled, WorkerPC
<1>12. ASSUME ScheduleRetry(w) PROVE TypeOK'
  <2>1. x.job.ses \in Sessions /\ x.job.fwd \in Forwarders
    BY <1>12, <1>b DEF ScheduleRetry, Jobs
  <2>2. NewJob(x.job.ses, x.job.fwd) \in Jobs
    BY <1>12, <2>1, NewJobType DEF ScheduleRetry
  <2>3. worker' \in [Workers -> WorkerStates]
    BY <1>12, <1>a DEF ScheduleRetry, WorkerPC
  <2> QED BY <1>12, <2>2, <2>3 DEF ScheduleRetry, SetMarker
<1>13. ASSUME Finish(w) PROVE TypeOK'
  BY <1>0, <1>13 DEF Finish, finishJob
<1>14. ASSUME Exit(w) PROVE TypeOK'
  BY <1>0, <1>14 DEF Exit, Goto
<1>15. ASSUME WriteCache(w) PROVE TypeOK'
  <2>1. x.then \in WorkerPC
    BY <1>0 DEF WorkerStates, WorkerPC
  <2>2. worker' \in [Workers -> WorkerStates]
    BY <1>15, <1>a, <2>1 DEF WriteCache
  <2>3. StorageTypeOK'
    BY <1>15, <1>b DEF WriteCache, Publish
  <2> QED BY <1>15, <2>2, <2>3 DEF WriteCache
<1> QED
  BY <1>1, <1>2, <1>4, <1>5, <1>6, <1>7, <1>8, <1>9, <1>10, <1>11, <1>12, <1>13, <1>14, <1>15
  DEF WorkerStep

\* The scheduler, shutdown, expiry and time keep the types.
LEMMA BackgroundType ==
    ASSUME TypeOK,
           \/ SchedStep \/ Purge \/ TimePasses \/ StopRequest \/ StopStep \/ CloseStorage
           \/ \E h \in Hashes, p \in Peers : Completed(h, p)
           \/ UNCHANGED vars
    PROVE  TypeOK'
<1> USE DEF TypeOK, StorageTypeOK, RegistryTypeOK, TableTypeOK,
            storageVars, registryVars, tableVars, actorVars, SchedPC
<1>1. ASSUME Tick PROVE TypeOK'
  BY <1>1 DEF Tick, Prune
<1>2. ASSUME Extract PROVE TypeOK'
  BY <1>2 DEF Extract
<1>3. ASSUME FinishCanceled PROVE TypeOK'
  BY <1>3 DEF FinishCanceled, finishJob
<1>4. ASSUME ProcessReady PROVE TypeOK'
  <2>1. PICK j \in sched.ready :
               \/ queue' = queue /\ pending' = pending \ {j} /\ scheduled' = scheduled
               \/ Enqueue(j) /\ pending' = pending /\ scheduled' = scheduled
               \/ queue' = queue /\ pending' = pending /\ scheduled' = scheduled \cup {j}
    BY <1>4 DEF ProcessReady, Reschedule, finishJob
  <2>2. j \in Jobs
    OBVIOUS
  <2>3. TableTypeOK'
    BY <1>4, <2>1, <2>2, EnqueueType DEF ProcessReady
  <2>4. sched' \in [pc : SchedPC, canceled : SUBSET Jobs, ready : SUBSET Jobs]
    BY <1>4 DEF ProcessReady
  <2> QED BY <1>4, <2>3, <2>4 DEF ProcessReady
<1>5. ASSUME Drained \/ ExitScheduler PROVE TypeOK'
  BY <1>5 DEF Drained, ExitScheduler
<1>6. ASSUME Purge PROVE TypeOK'
  BY <1>6 DEF Purge, purgeExpired, deleteLocked, Cleanup
<1>7. ASSUME TimePasses PROVE TypeOK'
  BY <1>7 DEF TimePasses, CooldownElapses, SuspensionExpires
<1>8. ASSUME StopRequest \/ StopStep PROVE TypeOK'
  <2>1. <<>> \in Seq(Jobs)
    OBVIOUS
  <2> QED BY <1>8, <2>1 DEF StopRequest, StopStep, StopLock, StopClear
<1>9. ASSUME CloseStorage PROVE TypeOK'
  BY <1>9 DEF CloseStorage, Close
<1>10. ASSUME NEW h \in Hashes, NEW p \in Peers, Completed(h, p) PROVE TypeOK'
  <2>1. SessionFor(h, p) \in Sessions
    BY <1>10, SessionForType DEF Completed, Update
  <2> QED BY <1>10, <2>1 DEF Completed, Update
<1>11. ASSUME UNCHANGED vars PROVE TypeOK'
  BY <1>11 DEF vars
<1> QED
  BY <1>1, <1>2, <1>3, <1>4, <1>5, <1>6, <1>7, <1>8, <1>9, <1>10, <1>11 DEF SchedStep

\* Every variable keeps its type, and every goroutine has the locals its
\* program counter relies on, in any run of the program.
THEOREM TypeCorrect == Spec => []TypeOK
<1>1. Init => TypeOK
  <2> SUFFICES ASSUME Init PROVE TypeOK
    OBVIOUS
  <2>1. StorageTypeOK
    BY DEF Init, StorageInit, StorageTypeOK
  <2>2. RegistryTypeOK
    BY RegistryAssumption DEF Init, RegistryInit, RegistryTypeOK
  <2>3. TableTypeOK
    BY DEF Init, TableInit, TableTypeOK
  <2>4. IdleHandler \in HandlerStates /\ IdleWorker \in WorkerStates
    BY DEF IdleHandler, HandlerStates, HandlerPC, IdleWorker, WorkerStates, WorkerPC
  <2> QED BY <2>1, <2>2, <2>3, <2>4 DEF Init, TypeOK, SchedPC
<1>2. TypeOK /\ [Next]_vars => TypeOK'
  BY HandlerType, WorkerType, BackgroundType DEF Next
<1> QED BY <1>1, <1>2, PTL DEF Spec
-----------------------------------------------------------------------------
(***************************************************************************)
(* updatePeerCache writes in a later step than it tests, under the same    *)
(* hold of requestsMu.                                                     *)
(***************************************************************************)

\* Whoever may write does so for a peer that is still here, because ending a
\* session takes requestsMu or, when Storage.Close does it, comes after Stop,
\* which has waited for the workers.
WriteInv ==
    /\ \A w \in Writers : ~canceled(worker[w].job)
    /\ stop = "stopped" => \A w \in Workers : worker[w].pc = "exited"

\* Steps that end no session and move no worker keep it.
LEMMA WriteKept ==
    ASSUME WriteInv, UNCHANGED <<worker, closed, stop>>, sessions \subseteq sessions'
    PROVE  WriteInv'
BY DEF WriteInv, Writers, canceled, Ended

\* So do steps of other goroutines while nobody may write.
LEMMA WriteFree ==
    ASSUME WriteInv, UNCHANGED <<worker, stop>>, Writers = {}
    PROVE  WriteInv'
BY DEF WriteInv, Writers

\* Workers keep it: the one way into "write" is past both tests.
LEMMA WriteWorker ==
    ASSUME TypeOK, WriteInv, NEW w \in Workers, WorkerStep(w)
    PROVE  WriteInv'
<1>0. worker \in [Workers -> WorkerStates] /\ worker[w] \in WorkerStates
  BY DEF TypeOK
<1>1. worker[w].pc # "exited"
  BY DEF WorkerStep, Take, Answer, PublishPeers, ResetFailure, SuspendForwarder, RegisterFailure,
     DisableForget, DisableDelist, DisableUncache, CheckDisabled, RecordAttempt, DeferAnnounce,
     WriteCache, ScheduleRetry, Finish, Exit
<1>2. stop # "stopped"
  BY <1>1 DEF WriteInv
<1>3. UNCHANGED <<sessions, closed, stop>>
  BY DEF WorkerStep, Take, Answer, PublishPeers, ResetFailure, SuspendForwarder, RegisterFailure,
     DisableForget, DisableDelist, DisableUncache, ForgetForwarder, CheckDisabled, RecordAttempt,
     DeferAnnounce, updatePeerCache, WriteCache, Publish, ScheduleRetry, Finish, Exit,
     storageVars, tableVars
<1>4. ASSUME NEW y, worker' = [worker EXCEPT ![w] = y],
             y.pc = "write" => ~canceled(y.job)
      PROVE  WriteInv'
  BY <1>0, <1>2, <1>3, <1>4 DEF WriteInv, Writers, canceled, Ended
<1>5. ASSUME NEW pc, pc # "write", Goto(w, pc) PROVE WriteInv'
  <2>1. [worker[w] EXCEPT !.pc = pc].pc # "write"
    BY <1>0, <1>5 DEF WorkerStates
  <2> QED BY <1>4, <1>5, <2>1 DEF Goto
<1>6. worker[w].then # "write"
  BY <1>0 DEF WorkerStates
<1>7. CASE PublishPeers(w) \/ RecordAttempt(w) \/ DeferAnnounce(w)
  <2>1. PICK next : updatePeerCache(w, next)
    BY <1>7 DEF PublishPeers, RecordAttempt, DeferAnnounce
  <2>2. CASE ~canceled(worker[w].job) /\ MayWrite(w, next)
    <3>1. [worker[w] EXCEPT !.pc = "write", !.then = next].job = worker[w].job
      BY <1>0 DEF WorkerStates
    <3> QED BY <1>4, <2>2, <3>1 DEF MayWrite
  <2> QED BY <1>5, <2>1, <2>2 DEF updatePeerCache
<1>8. CASE Take(w)
  BY <1>4, <1>8 DEF Take
<1>9. CASE Answer(w)
  <2>1. ASSUME NEW then PROVE [worker[w] EXCEPT !.pc = "forget", !.then = then].pc # "write"
    BY <1>0 DEF WorkerStates
  <2> QED BY <1>4, <1>5, <1>9, <2>1 DEF Answer
<1>10. CASE RegisterFailure(w)
  <2>1. ASSUME NEW pc \in {"forget", "check"}
        PROVE  [worker[w] EXCEPT !.pc = pc, !.then = "check"].pc # "write"
    BY <1>0 DEF WorkerStates
  <2> QED BY <1>4, <1>10, <2>1 DEF RegisterFailure
<1>11. CASE Finish(w)
  BY <1>4, <1>11 DEF Finish, IdleWorker
<1>12. CASE DisableUncache(w) \/ WriteCache(w)
  BY <1>5, <1>6, <1>12 DEF DisableUncache, WriteCache
<1>13. CASE ResetFailure(w) \/ SuspendForwarder(w) \/ DisableForget(w) \/ DisableDelist(w)
            \/ CheckDisabled(w) \/ ScheduleRetry(w) \/ Exit(w)
  BY <1>5, <1>13 DEF ResetFailure, SuspendForwarder, DisableForget, DisableDelist, CheckDisabled,
     ScheduleRetry, Exit
<1> QED BY <1>7, <1>8, <1>9, <1>10, <1>11, <1>12, <1>13 DEF WorkerStep

\* No step breaks it.
LEMMA WriteStep ==
    ASSUME TypeOK, WriteInv, [Next]_vars
    PROVE  WriteInv'
<1> USE DEF storageVars, tableVars, actorVars
<1>1. ASSUME NEW r \in Handlers, Request(r) PROVE WriteInv'
  BY <1>1, WriteKept, WriteFree DEF Request, Announce, Update, Stopped, Add, requestsMuFree
<1>2. ASSUME NEW r \in Handlers, HandlerStep(r) PROVE WriteInv'
  BY <1>2, WriteKept DEF HandlerStep, Admit, Select, Mark, Skip, Reserve, Send, Refused, Return,
     CancelPending, cancelPendingJobs, AddClear, AddUnsuspend, AddList
<1>3. ASSUME NEW h \in Hashes, NEW p \in Peers, Completed(h, p) PROVE WriteInv'
  BY <1>3, WriteKept DEF Completed, Update
<1>4. ASSUME SchedStep \/ TimePasses PROVE WriteInv'
  BY <1>4, WriteKept DEF SchedStep, Tick, Prune, Extract, FinishCanceled, ProcessReady, Drained,
     ExitScheduler, TimePasses, CooldownElapses
<1>5. ASSUME Purge PROVE WriteInv'
  BY <1>5, WriteFree DEF Purge, requestsMuFree
<1>6. ASSUME StopRequest \/ StopStep PROVE WriteInv'
  BY <1>6 DEF StopRequest, StopStep, StopLock, StopClear, WriteInv, Writers, canceled, Ended
<1>7. ASSUME CloseStorage PROVE WriteInv'
  BY <1>7 DEF CloseStorage, WriteInv, Writers
<1>8. ASSUME UNCHANGED vars PROVE WriteInv'
  BY <1>8, WriteKept DEF vars
<1> QED BY <1>1, <1>2, <1>3, <1>4, <1>5, <1>6, <1>7, <1>8, WriteWorker DEF Next

\* The tests of updatePeerCache still hold when it writes.
LEMMA WriteInvariance == Spec => []WriteInv
<1>1. Init => WriteInv
  BY DEF Init, TableInit, IdleWorker, WriteInv, Writers
<1>2. TypeOK /\ WriteInv /\ [Next]_vars => WriteInv'
  BY WriteStep
<1> QED BY <1>1, <1>2, TypeCorrect, PTL DEF Spec
-----------------------------------------------------------------------------
(***************************************************************************)
(* Cached upstream state lives and dies with the local peers of its hash.  *)
(* CacheNeedsLocalPeer is not inductive: a worker publishes because its    *)
(* session is alive, and that says something about the stored peers only   *)
(* together with SessionsHavePeers.                                        *)
(***************************************************************************)
LifetimeInv == SessionsHavePeers /\ CacheNeedsLocalPeer

\* Update keeps the invariant: it only adds peers, and a session with its peer.
LEMMA UpdateLifetime ==
    ASSUME StorageTypeOK, LifetimeInv, NEW h \in Hashes, NEW p \in Peers, Update(h, p)
    PROVE  LifetimeInv'
<1>1. SessionFor(h, p).hash = h /\ SessionFor(h, p).peer = p
  BY DEF SessionFor, SessionsOf
<1>2. SessionsHavePeers'
  BY <1>1 DEF Update, LifetimeInv, SessionsHavePeers
<1>3. CacheNeedsLocalPeer'
  BY DEF Update, LifetimeInv, CacheNeedsLocalPeer, HasInfoHash, PeersOf
<1> QED BY <1>2, <1>3 DEF LifetimeInv

\* deleteLocked keeps it: the sessions of deleted peers go, and so does the
\* cache of every hash that loses its last peer.
LEMMA DeleteLifetime ==
    ASSUME StorageTypeOK, LifetimeInv, NEW S, NEW H, deleteLocked(S, H)
    PROVE  LifetimeInv'
<1>1. SessionsHavePeers'
  BY DEF deleteLocked, LifetimeInv, SessionsHavePeers
<1>2. ASSUME NEW h \in Hashes, HasInfoHash(h)' PROVE PeersOf(h)' # {}
  <2>1. HasInfoHash(h) /\ h \notin Emptied(S)
    BY <1>2 DEF deleteLocked, Cleanup, HasInfoHash
  <2>2. PICK p \in PeersOf(h) : <<h, p>> \notin S
    BY <2>1 DEF LifetimeInv, CacheNeedsLocalPeer, Emptied
  <2> QED BY <2>2 DEF deleteLocked, PeersOf
<1> QED BY <1>1, <1>2 DEF LifetimeInv, CacheNeedsLocalPeer

\* Steps that leave peers and sessions alone and add no cache entry keep it.
LEMMA ShrinkLifetime ==
    ASSUME LifetimeInv, UNCHANGED requests, sessions' \subseteq sessions,
           entries' \subseteq entries
    PROVE  LifetimeInv'
BY DEF LifetimeInv, SessionsHavePeers, CacheNeedsLocalPeer, HasInfoHash, PeersOf

\* Publishing keeps it: the entry added is for the hash of a live session,
\* whose peer is stored.
LEMMA PublishLifetime ==
    ASSUME LifetimeInv, NEW j \in Jobs, ~canceled(j), Publish(j.ses.hash, j.fwd)
    PROVE  LifetimeInv'
<1>1. j.ses \in sessions /\ j.ses.peer \in Peers
  BY DEF canceled, Ended, Jobs, Sessions
<1>2. <<j.ses.hash, j.ses.peer>> \in requests
  BY <1>1 DEF LifetimeInv, SessionsHavePeers
<1>3. SessionsHavePeers'
  BY DEF Publish, LifetimeInv, SessionsHavePeers
<1>4. ASSUME NEW h \in Hashes, HasInfoHash(h)' PROVE PeersOf(h)' # {}
  <2>1. h = j.ses.hash \/ HasInfoHash(h)
    BY <1>4 DEF Publish, HasInfoHash
  <2>2. PeersOf(h) # {}
    BY <1>1, <1>2, <2>1 DEF PeersOf, LifetimeInv, CacheNeedsLocalPeer
  <2> QED BY <2>2 DEF Publish, PeersOf
<1> QED BY <1>3, <1>4 DEF LifetimeInv, CacheNeedsLocalPeer

\* No request handler, worker, scheduler tick, expiry or shutdown step breaks
\* the invariant.
LEMMA LifetimeStep ==
    ASSUME TypeOK, WriteInv, LifetimeInv, [Next]_vars
    PROVE  LifetimeInv'
<1>0. ASSUME UNCHANGED storageVars PROVE LifetimeInv'
  BY <1>0, ShrinkLifetime DEF storageVars
<1>1. ASSUME NEW r \in Handlers, Request(r) PROVE LifetimeInv'
  BY <1>0, <1>1, UpdateLifetime, DeleteLifetime DEF Request, Announce, Stopped, Add, TypeOK
<1>2. ASSUME NEW r \in Handlers, HandlerStep(r) PROVE LifetimeInv'
  BY <1>0, <1>2 DEF HandlerStep, Admit, Select, Mark, Skip, Reserve, Send, Refused, Return,
     CancelPending, AddClear, AddUnsuspend, AddList
<1>3. ASSUME NEW h \in Hashes, NEW p \in Peers, Completed(h, p) PROVE LifetimeInv'
  BY <1>3, UpdateLifetime DEF Completed, TypeOK
<1>4. ASSUME NEW w \in Workers, WorkerStep(w) PROVE LifetimeInv'
  <2>1. CASE WriteCache(w)
    <3>1. worker[w].job \in Jobs /\ ~canceled(worker[w].job)
      BY <2>1 DEF WriteCache, TypeOK, WorkerStates, WriteInv, Writers
    <3> QED BY <2>1, <3>1, PublishLifetime DEF WriteCache
  <2>2. CASE DisableUncache(w)
    BY <2>2, ShrinkLifetime DEF DisableUncache, ForgetForwarder
  <2>3. CASE Take(w) \/ Answer(w) \/ PublishPeers(w) \/ RecordAttempt(w) \/ DeferAnnounce(w)
             \/ ResetFailure(w) \/ SuspendForwarder(w)
             \/ RegisterFailure(w) \/ DisableForget(w) \/ DisableDelist(w)
             \/ CheckDisabled(w) \/ ScheduleRetry(w) \/ Finish(w) \/ Exit(w)
    BY <1>0, <2>3 DEF Take, Answer, PublishPeers, RecordAttempt, DeferAnnounce, updatePeerCache,
       ResetFailure, SuspendForwarder, RegisterFailure, DisableForget, DisableDelist,
       CheckDisabled, ScheduleRetry, Finish, Exit
  <2> QED BY <1>4, <2>1, <2>2, <2>3 DEF WorkerStep
<1>5. ASSUME SchedStep PROVE LifetimeInv'
  <2>1. CASE Tick
    BY <2>1, ShrinkLifetime DEF Tick, Prune
  <2> QED BY <1>0, <1>5, <2>1 DEF SchedStep, Extract, FinishCanceled, ProcessReady, Drained,
             ExitScheduler
<1>6. ASSUME Purge PROVE LifetimeInv'
  BY <1>6, DeleteLifetime DEF Purge, purgeExpired, TypeOK
<1>7. ASSUME TimePasses PROVE LifetimeInv'
  BY <1>0, <1>7, ShrinkLifetime DEF TimePasses, CooldownElapses
<1>8. ASSUME StopRequest \/ StopStep PROVE LifetimeInv'
  BY <1>0, <1>8 DEF StopRequest, StopStep, StopLock, StopClear
<1>9. ASSUME CloseStorage PROVE LifetimeInv'
  BY <1>9, ShrinkLifetime DEF CloseStorage, Close
<1>10. ASSUME UNCHANGED vars PROVE LifetimeInv'
  BY <1>0, <1>10 DEF vars
<1> QED BY <1>1, <1>2, <1>3, <1>4, <1>5, <1>6, <1>7, <1>8, <1>9, <1>10 DEF Next

\* The invariant holds throughout.
LEMMA LifetimeInvariance == Spec => []LifetimeInv
<1>1. Init => LifetimeInv
  BY DEF Init, StorageInit, LifetimeInv, SessionsHavePeers, CacheNeedsLocalPeer, HasInfoHash
<1>2. TypeOK /\ WriteInv /\ LifetimeInv /\ [Next]_vars => LifetimeInv'
  BY LifetimeStep
<1> QED BY <1>1, <1>2, TypeCorrect, WriteInvariance, PTL DEF Spec

\* Cached state is never left behind for a hash nobody announces here,
\* whatever order answers and stops arrive in.
THEOREM CacheLifetime == Spec => []CacheNeedsLocalPeer
<1>1. LifetimeInv => CacheNeedsLocalPeer
  BY DEF LifetimeInv
<1> QED BY <1>1, LifetimeInvariance, PTL
-----------------------------------------------------------------------------
(***************************************************************************)
(* Who adds cached upstream state, and when.                               *)
(***************************************************************************)

\* What PublishOnlyWhileServing says of the entries a step adds ...
ServingStep ==
    \A e \in entries' \ entries :
        stop # "stopped" /\ \E s \in sessions : s.hash = e[1] /\ ~Ended(s)

\* ... and of the workers that may write.
NoNewWriter == isStopping => Writers' \subseteq Writers

\* Every step that adds an entry is the write of a worker that has tested its
\* session under the same hold of requestsMu.
LEMMA EntriesStep ==
    ASSUME TypeOK, WriteInv, [Next]_vars
    PROVE  ServingStep
<1>0. ASSUME entries' \subseteq entries PROVE ServingStep
  BY <1>0 DEF ServingStep
<1>1. ASSUME NEW r \in Handlers, Request(r) \/ HandlerStep(r) PROVE entries' \subseteq entries
  BY <1>1 DEF Request, Announce, Update, Stopped, deleteLocked, Cleanup, Add, HandlerStep, Admit,
     Select, Mark, Skip, Reserve, Send, Refused, Return, CancelPending, AddClear, AddUnsuspend,
     AddList, storageVars
<1>2. ASSUME NEW w \in Workers, WorkerStep(w) PROVE ServingStep
  <2>1. CASE WriteCache(w)
    <3>1. PICK j : j = worker[w].job
      OBVIOUS
    <3>2. ~canceled(j) /\ stop # "stopped"
      BY <2>1, <3>1 DEF WriteCache, WriteInv, Writers
    <3>3. j.ses \in sessions /\ ~Ended(j.ses)
      BY <3>2 DEF canceled, Ended
    <3>4. \A e \in entries' \ entries : e[1] = j.ses.hash
      BY <2>1, <3>1 DEF WriteCache, Publish
    <3> QED BY <3>2, <3>3, <3>4 DEF ServingStep
  <2>2. CASE ~WriteCache(w)
    BY <1>0, <1>2, <2>2 DEF WorkerStep, Take, Answer, PublishPeers, RecordAttempt, DeferAnnounce,
       updatePeerCache, ResetFailure, SuspendForwarder, RegisterFailure, DisableForget,
       DisableDelist, DisableUncache, ForgetForwarder, CheckDisabled, ScheduleRetry, Finish, Exit,
       storageVars
  <2> QED BY <2>1, <2>2
<1>3. ASSUME \/ SchedStep \/ Purge \/ TimePasses \/ StopRequest \/ StopStep \/ CloseStorage
             \/ \E h \in Hashes, p \in Peers : Completed(h, p)
             \/ UNCHANGED vars
      PROVE  entries' \subseteq entries
  BY <1>3 DEF SchedStep, Tick, Prune, Extract, FinishCanceled, ProcessReady, Drained, ExitScheduler,
     Purge, purgeExpired, deleteLocked, Cleanup, TimePasses, CooldownElapses, StopRequest,
     StopStep, StopLock, StopClear, CloseStorage, Close, Completed, Update, storageVars, vars
<1> QED BY <1>0, <1>1, <1>2, <1>3 DEF Next

\* Once stopChan is closed updatePeerCache lets nobody through.
LEMMA WritersStep ==
    ASSUME TypeOK, [Next]_vars
    PROVE  NoNewWriter
<1>0. worker \in [Workers -> WorkerStates]
  BY DEF TypeOK
<1>1. ASSUME UNCHANGED worker PROVE NoNewWriter
  BY <1>1 DEF NoNewWriter, Writers
<1>2. ASSUME NEW w \in Workers, WorkerStep(w), isStopping PROVE Writers' \subseteq Writers
  <2>0. worker[w] \in WorkerStates
    BY <1>0
  <2>1. ASSUME NEW y, worker' = [worker EXCEPT ![w] = y], y.pc # "write"
        PROVE  Writers' \subseteq Writers
    BY <1>0, <2>1 DEF Writers
  <2>2. ASSUME NEW pc, pc # "write", Goto(w, pc) PROVE Writers' \subseteq Writers
    <3>1. [worker[w] EXCEPT !.pc = pc].pc # "write"
      BY <2>0, <2>2 DEF WorkerStates
    <3> QED BY <2>1, <2>2, <3>1 DEF Goto
  <2>3. worker[w].then # "write"
    BY <2>0 DEF WorkerStates
  <2>4. CASE Take(w)
    <3>1. PICK pc \in {"finish", "flight"} :
             worker' = [worker EXCEPT ![w] = [pc |-> pc, job |-> Head(queue), then |-> "finish"]]
      BY <2>4 DEF Take
    <3>2. [pc |-> pc, job |-> Head(queue), then |-> "finish"].pc # "write"
      OBVIOUS
    <3> QED BY <2>1, <3>1, <3>2
  <2>5. CASE RegisterFailure(w)
    <3>1. ASSUME NEW pc \in {"forget", "check"}
          PROVE  [worker[w] EXCEPT !.pc = pc, !.then = "check"].pc # "write"
      BY <2>0 DEF WorkerStates
    <3> QED BY <2>1, <2>5, <3>1 DEF RegisterFailure
  <2>6. CASE Finish(w)
    <3>1. worker' = [worker EXCEPT ![w] = IdleWorker] /\ IdleWorker.pc # "write"
      BY <2>6 DEF Finish, IdleWorker
    <3> QED BY <2>1, <3>1
  <2>7. CASE ~(Take(w) \/ RegisterFailure(w) \/ Finish(w))
    BY <1>2, <2>2, <2>3, <2>7 DEF WorkerStep, Answer, PublishPeers, RecordAttempt, DeferAnnounce,
       updatePeerCache, WriteCache, ResetFailure, SuspendForwarder, DisableForget, DisableDelist,
       DisableUncache, CheckDisabled, ScheduleRetry, Exit
  <2> QED BY <2>4, <2>5, <2>6, <2>7
<1>3. ASSUME \/ \E r \in Handlers : Request(r) \/ HandlerStep(r)
             \/ \E h \in Hashes, p \in Peers : Completed(h, p)
             \/ SchedStep \/ Purge \/ TimePasses \/ StopRequest \/ StopStep \/ CloseStorage
             \/ UNCHANGED vars
      PROVE  UNCHANGED worker
  BY <1>3 DEF Request, Announce, Stopped, Add, HandlerStep, Admit, Select, Mark, Skip, Reserve,
     Send, Refused, Return, CancelPending, AddClear, AddUnsuspend, AddList, Completed, SchedStep,
     Tick, Extract, FinishCanceled, ProcessReady, Drained, ExitScheduler, Purge, TimePasses,
     StopRequest, StopStep, StopLock, StopClear, CloseStorage, actorVars, vars
<1> QED BY <1>1, <1>2, <1>3 DEF Next, NoNewWriter

\* An answer that arrives after the peer has left adds nothing to the cache, and
\* neither does one that meets a closed stopChan: at most the write whose tests
\* came before it was closed still lands, and Stop waits for its worker.
THEOREM LateAnswersDropped == Spec => PublishOnlyWhileServing
<1>1. TypeOK /\ WriteInv /\ [Next]_vars =>
         [/\ \A e \in entries' \ entries :
                stop # "stopped" /\ \E s \in sessions : s.hash = e[1] /\ ~Ended(s)
          /\ isStopping => Writers' \subseteq Writers]_vars
  BY EntriesStep, WritersStep DEF ServingStep, NoNewWriter
<1> QED BY <1>1, TypeCorrect, WriteInvariance, PTL DEF Spec, PublishOnlyWhileServing
-----------------------------------------------------------------------------
(***************************************************************************)
(* Failure counts.  Together with TypeOK, ThresholdActs is inductive.      *)
(***************************************************************************)

\* Only a worker that zeroes the count leaves "forget".
LEMMA ForgetStays ==
    ASSUME TypeOK, [Next]_vars, NEW w \in Workers, worker[w].pc = "forget", ~DisableForget(w)
    PROVE  worker'[w].pc = "forget" /\ worker'[w].job = worker[w].job
<1>0. worker \in [Workers -> WorkerStates]
  BY DEF TypeOK
<1>1. ASSUME UNCHANGED worker PROVE worker'[w] = worker[w]
  BY <1>1
<1>2. ASSUME NEW v \in Workers, WorkerStep(v) PROVE worker'[w] = worker[w]
  <2>1. v # w
    BY <1>2 DEF WorkerStep, Take, Answer, PublishPeers, RecordAttempt, DeferAnnounce, ResetFailure,
       SuspendForwarder, RegisterFailure, DisableDelist, DisableUncache, CheckDisabled,
       WriteCache, ScheduleRetry, Finish, Exit
  <2> QED BY <1>0, <1>2, <2>1 DEF WorkerStep, Take, Answer, PublishPeers, RecordAttempt,
             DeferAnnounce, updatePeerCache, MayWrite, WriteCache, ResetFailure,
             SuspendForwarder, RegisterFailure, DisableForget, DisableDelist, DisableUncache, CheckDisabled, ScheduleRetry, Finish,
             Exit, Goto
<1>3. ASSUME \/ \E r \in Handlers : Request(r) \/ HandlerStep(r)
             \/ \E h \in Hashes, p \in Peers : Completed(h, p)
             \/ SchedStep \/ Purge \/ TimePasses \/ StopRequest \/ StopStep \/ CloseStorage
             \/ UNCHANGED vars
      PROVE  UNCHANGED worker
  BY <1>3 DEF Request, Announce, Stopped, Add, HandlerStep, Admit, Select, Mark, Skip, Reserve,
     Send, Refused, Return, CancelPending, AddClear, AddUnsuspend, AddList, Completed, SchedStep,
     Tick, Extract, FinishCanceled, ProcessReady, Drained, ExitScheduler, Purge, TimePasses,
     StopRequest, StopStep, StopLock, StopClear, CloseStorage, actorVars, vars
<1> QED BY <1>1, <1>2, <1>3 DEF Next

\* A count grows only by registerFailure.
LEMMA CountStep ==
    ASSUME TypeOK, [Next]_vars, NEW f \in Forwarders, failCounts'[f] > failCounts[f]
    PROVE  \E w \in Workers : RegisterFailure(w) /\ worker[w].job.fwd = f
<1>0. failCounts \in [Forwarders -> Nat]
  BY DEF TypeOK, RegistryTypeOK
<1>1. failCounts' # failCounts
  BY <1>0
<1>2. ASSUME NEW g, failCounts' = [failCounts EXCEPT ![g] = 0] PROVE FALSE
  BY <1>0, <1>2
<1>3. ASSUME NEW r \in Handlers, Request(r) \/ HandlerStep(r) PROVE FALSE
  BY <1>1, <1>2, <1>3 DEF Request, Announce, Stopped, Add, HandlerStep, Admit, Select, Mark, Skip,
     Reserve, Send, Refused, Return, CancelPending, AddClear, ClearDisabled, AddUnsuspend,
     ClearSuspended, AddList, List, registryVars
<1>4. ASSUME NEW w \in Workers, WorkerStep(w)
      PROVE  RegisterFailure(w) /\ worker[w].job.fwd = f
  <2>1. RegisterFailure(w)
    BY <1>1, <1>2, <1>4 DEF WorkerStep, Take, Answer, PublishPeers, RecordAttempt, DeferAnnounce,
       updatePeerCache, WriteCache, ResetFailure, SuspendForwarder, Suspend, DisableForget, ForgetFailures,
       DisableDelist, Delist, DisableUncache, CheckDisabled, ScheduleRetry, Finish, Exit,
       registryVars
  <2> QED BY <1>0, <2>1 DEF RegisterFailure, CountFailure
<1>5. ASSUME \/ SchedStep \/ Purge \/ TimePasses \/ StopRequest \/ StopStep \/ CloseStorage
             \/ \E h \in Hashes, p \in Peers : Completed(h, p)
             \/ UNCHANGED vars
      PROVE  FALSE
  BY <1>1, <1>5 DEF SchedStep, Tick, Extract, FinishCanceled, ProcessReady, Drained, ExitScheduler,
     Purge, TimePasses, SuspensionExpires, StopRequest, StopStep, StopLock, StopClear,
     CloseStorage, Completed, registryVars, vars
<1> QED BY <1>3, <1>4, <1>5 DEF Next

\* A worker is disabling every forwarder whose count has reached the
\* threshold, however failures, successes and runtime additions of the same
\* forwarder interleave.
THEOREM FailuresNoticed == Spec => []ThresholdActs
<1>1. Init => ThresholdActs
  BY RegistryAssumption DEF Init, RegistryInit, ThresholdActs
<1>2. TypeOK /\ ThresholdActs /\ [Next]_vars => ThresholdActs'
  <2> SUFFICES ASSUME TypeOK, ThresholdActs, [Next]_vars, NEW f \in Forwarders,
                      FailThreshold > 0, failCounts'[f] >= FailThreshold
               PROVE  \E w \in Workers : worker'[w].pc = "forget" /\ worker'[w].job.fwd = f
    BY DEF ThresholdActs
  <2>0. /\ worker \in [Workers -> WorkerStates] /\ failCounts \in [Forwarders -> Nat]
        /\ FailThreshold \in Nat
    BY RegistryAssumption DEF TypeOK, RegistryTypeOK
  <2>1. CASE failCounts[f] >= FailThreshold
    <3>1. PICK w \in Workers : worker[w].pc = "forget" /\ worker[w].job.fwd = f
      BY <2>1 DEF ThresholdActs
    <3>2. ~DisableForget(w)
      BY <2>0, <3>1 DEF DisableForget, ForgetFailures
    <3> QED BY <3>1, <3>2, ForgetStays
  <2>2. CASE ~(failCounts[f] >= FailThreshold)
    <3>1. PICK n \in Nat : n = failCounts[f]
      BY <2>0
    <3>2. PICK w \in Workers : RegisterFailure(w) /\ worker[w].job.fwd = f
      <4>1. TypeOK'
        BY HandlerType, WorkerType, BackgroundType DEF Next
      <4>2. failCounts'[f] \in Nat
        BY <4>1 DEF TypeOK, RegistryTypeOK
      <4> QED BY <2>0, <2>2, <4>2, CountStep
    <3>3. failCounts'[f] = n + 1
      BY <2>0, <3>1, <3>2 DEF RegisterFailure, CountFailure
    <3>4. AtThreshold(f)
      BY <3>1, <3>3 DEF AtThreshold
    <3>5. worker' = [worker EXCEPT ![w] = [worker[w] EXCEPT !.pc = "forget", !.then = "check"]]
      BY <3>2, <3>4 DEF RegisterFailure
    <3>6. worker[w] \in WorkerStates
      BY <2>0
    <3> QED BY <2>0, <3>2, <3>5, <3>6 DEF WorkerStates
  <2> QED BY <2>1, <2>2
<1> QED BY <1>1, <1>2, TypeCorrect, PTL DEF Spec
-----------------------------------------------------------------------------
(***************************************************************************)
(* Adding forwarders at runtime.  AddRuntimeForwarder drops its locks      *)
(* between its checks, so several requests may be adding one name; what    *)
(* keeps its entries apart is the second look under forwardersMu.          *)
(***************************************************************************)

\* The steps that change how often a name is listed.
LEMMA ListingMoves ==
    ASSUME [Next]_vars
    PROVE  \/ UNCHANGED listings
           \/ \E r \in Handlers : AddList(r)
           \/ \E w \in Workers : DisableDelist(w)
<1>1. ASSUME NEW r \in Handlers, Request(r) \/ HandlerStep(r)
      PROVE  UNCHANGED listings \/ AddList(r)
  BY <1>1 DEF Request, Announce, Stopped, Add, HandlerStep, Admit, Select, Mark, Skip, Reserve,
     Send, Refused, Return, CancelPending, AddClear, ClearDisabled, AddUnsuspend, ClearSuspended,
     registryVars
<1>2. ASSUME NEW w \in Workers, WorkerStep(w)
      PROVE  UNCHANGED listings \/ DisableDelist(w)
  BY <1>2 DEF WorkerStep, Take, Answer, PublishPeers, RecordAttempt, DeferAnnounce,
     updatePeerCache, WriteCache, ResetFailure, ForgetFailures, SuspendForwarder, Suspend,
     RegisterFailure, CountFailure, DisableForget, DisableUncache, CheckDisabled, ScheduleRetry,
     Finish, Exit, registryVars
<1>3. ASSUME \/ SchedStep \/ Purge \/ TimePasses \/ StopRequest \/ StopStep \/ CloseStorage
             \/ \E h \in Hashes, p \in Peers : Completed(h, p)
             \/ UNCHANGED vars
      PROVE  UNCHANGED listings
  BY <1>3 DEF SchedStep, Tick, Extract, FinishCanceled, ProcessReady, Drained, ExitScheduler,
     Purge, TimePasses, SuspensionExpires, StopRequest, StopStep, StopLock, StopClear,
     CloseStorage, Completed, registryVars, vars
<1> QED BY <1>1, <1>2, <1>3 DEF Next

\* However many requests add a name at once, and however often it is disabled
\* in between, additions leave at most one entry of it.
THEOREM AdditionsListOnce == Spec => []ListedOnce
<1>1. Init => ListedOnce
  BY RegistryAssumption DEF Init, RegistryInit, ListedOnce
<1>2. TypeOK /\ ListedOnce /\ [Next]_vars => ListedOnce'
  <2> SUFFICES ASSUME TypeOK, ListedOnce, [Next]_vars, NEW f \in Forwarders
               PROVE  listings'[f] <= 1 \/ listings'[f] <= Configured[f]
    BY DEF ListedOnce
  <2>0. /\ listings \in [Forwarders -> Nat] /\ Configured \in [Forwarders -> Nat]
        /\ listings[f] <= 1 \/ listings[f] <= Configured[f]
    BY RegistryAssumption DEF TypeOK, RegistryTypeOK, ListedOnce
  <2>1. ASSUME NEW r \in Handlers, AddList(r) PROVE listings'[f] = listings[f] \/ listings'[f] = 1
    <3>1. PICK g : List(g) /\ g = handler[r].fwd
      BY <2>1 DEF AddList
    <3>2. CASE listings' = listings
      BY <3>2
    <3>3. CASE g \notin active /\ listings' = [listings EXCEPT ![g] = @ + 1]
      BY <2>0, <3>3 DEF active
    <3> QED BY <3>1, <3>2, <3>3 DEF List
  <2>2. ASSUME NEW w \in Workers, DisableDelist(w) PROVE listings'[f] <= listings[f]
    <3>1. PICK g : Delist(g)
      BY <2>2 DEF DisableDelist
    <3> QED BY <2>0, <3>1 DEF Delist, active
  <2>3. listings'[f] = listings[f] \/ listings'[f] = 1 \/ listings'[f] <= listings[f]
    BY <2>1, <2>2, ListingMoves
  <2>4. listings'[f] \in Nat
    <3>1. TypeOK'
      BY HandlerType, WorkerType, BackgroundType DEF Next
    <3> QED BY <3>1 DEF TypeOK, RegistryTypeOK
  <2> QED BY <2>0, <2>3, <2>4
<1> QED BY <1>1, <1>2, TypeCorrect, PTL DEF Spec
=============================================================================
