-------------------------- MODULE HttpAnnounceProofs --------------------------
(***************************************************************************)
(* Proofs about announces to an HTTP forwarder, for any number of peers,   *)
(* attempts, intervals and retry periods.                                  *)
(*                                                                         *)
(* What a step of the program can do to the cache entry is one of a few    *)
(* things (CacheStep), and the invariant about the entry is shown for      *)
(* those.  The rest is about jobs: a job that gave up for the program's    *)
(* own reasons keeps that reason until its worker is done with it.         *)
(***************************************************************************)
EXTENDS HttpAnnounce, TLAPS

\* Peers in the entry are as old as the entry says, and the cooldown it was
\* last given is the one in force.
EntryInv ==
    /\ payload = "peers" => fetched = age
    /\ due = wait
    /\ payload = "absent" => wait = 0

\* A worker that is done has nothing to give up, and one that gave up did so
\* for a reason that is still there.
JobInv ==
    /\ \A p \in Peers : pc[p] = "idle" => source[p] = "upstream"
    /\ \A p \in Peers : source[p] = "own" => RequestCanceled(p)
    /\ CancelNotBlamed

\* What a step may do to the cache entry.
CacheStep ==
    \/ UNCHANGED entryVars
    \/ Elapse
    \/ Prune
    \/ Delete
    \/ \E n \in Periods : DeferAnnounce(n)
    \/ /\ \E what \in {"none", "peers"}, n \in Nat : UpdatePeers(what, n)
       /\ asked' \in {0, asked}
-----------------------------------------------------------------------------
\* Every step of peers, workers, scheduler and clock changes the entry in one
\* of those ways only.
LEMMA StepIsCacheStep == [Next]_vars => CacheStep
<1> SUFFICES ASSUME [Next]_vars PROVE CacheStep
  OBVIOUS
<1> USE HttpAnnounceAssumption
<1>1. ASSUME NEW p \in Peers, SessionStarts(p) \/ Stopped(p) \/ Expired(p) \/ Queue(p)
      PROVE  CacheStep
  BY <1>1 DEF SessionStarts, SessionEnds, Stopped, Expired, Queue, CacheStep
<1>2. ASSUME NEW p \in Peers, WorkerStep(p)
      PROVE  CacheStep
  <2>1. CASE Execute(p) \/ LoopHead(p) \/ Backoff(p) \/ NoAnswer(p) \/ ErrorAnswer(p)
             \/ GoodAnswer(p) \/ UnroutableAnswer(p) \/ Fail(p)
    BY <2>1 DEF Execute, LoopHead, Backoff, NoAnswer, ErrorAnswer, GoodAnswer,
                UnroutableAnswer, Fail, CacheStep
  <2>2. CASE RetryNever(p)
    BY <2>2 DEF RetryNever, Disable, CacheStep
  <2>3. CASE RetryIn(p)
    BY <2>3 DEF RetryIn, CacheStep
  <2>4. CASE Publish(p)
    <3>1. CASE UNCHANGED entryVars
      BY <3>1 DEF CacheStep
    <3>2. CASE /\ asked' = 0
               /\ \E n \in Intervals :
                    UpdatePeers(IF result[p] = "peers" THEN "peers" ELSE "none", n)
      BY <3>2 DEF CacheStep
    <3> QED
      BY <2>4, <3>1, <3>2 DEF Publish
  <2>5. CASE Punish(p)
    BY <2>5 DEF Punish, RegisterFailure, Disable, CacheStep
  <2>6. CASE RecordAttempt(p)
    BY <2>6 DEF RecordAttempt, CacheStep
  <2> QED
    BY <1>2, <2>1, <2>2, <2>3, <2>4, <2>5, <2>6 DEF WorkerStep
<1>3. CASE SchedulerTick \/ ProcessRetry \/ AddRuntimeForwarder \/ Stop \/ Tick
  BY <1>3 DEF SchedulerTick, ProcessRetry, AddRuntimeForwarder, Stop, Tick, CacheStep
<1>4. CASE UNCHANGED vars
  BY <1>4 DEF vars, CacheStep
<1> QED
  BY <1>1, <1>2, <1>3, <1>4 DEF Next

\* Such a change keeps the entry well typed and its invariant.
LEMMA CacheStepKeepsEntry ==
    ASSUME EntryTypeOK, EntryInv, CacheStep
    PROVE  EntryTypeOK' /\ EntryInv'
<1> USE CooldownAssumption, HttpAnnounceAssumption DEF EntryTypeOK, EntryInv
<1>1. CASE UNCHANGED entryVars
  BY <1>1 DEF entryVars
<1>2. CASE Elapse
  BY <1>2 DEF Elapse, Rest, Later
<1>3. CASE Prune
  BY <1>3 DEF Prune, expired
<1>4. CASE Delete
  BY <1>4 DEF Delete
<1>5. ASSUME NEW n \in Periods, DeferAnnounce(n)
      PROVE  EntryTypeOK' /\ EntryInv'
  BY <1>5 DEF DeferAnnounce, Longer
<1>6. ASSUME NEW what \in {"none", "peers"}, NEW n \in Nat, UpdatePeers(what, n),
             asked' \in {0, asked}
      PROVE  EntryTypeOK' /\ EntryInv'
  BY <1>6 DEF UpdatePeers
<1> QED
  BY <1>1, <1>2, <1>3, <1>4, <1>5, <1>6 DEF CacheStep
-----------------------------------------------------------------------------
\* What an error is classified as is a result.
LEMMA ErrorsAreResults ==
    TransportErrors \cup StatusErrors \cup BodyErrors \subseteq {"retryable", "permanent", "limited"}
BY DEF TransportErrors, StatusErrors, BodyErrors, classifyForwarderError,
       classifyForwarderErrorMessage

\* An attempt under way has attempts left to count.
TriesInv ==
    \A p \in Peers : pc[p] \in {"idle", "queued", "loop", "backoff", "flight"}
        => tries[p] < Attempts

LEMMA TypeStep ==
    TypeOK /\ TriesInv /\ DeferredWaits /\ EntryInv /\ [Next]_vars => TypeOK' /\ TriesInv'
<1> SUFFICES ASSUME TypeOK, TriesInv, DeferredWaits, EntryInv, [Next]_vars
             PROVE  TypeOK' /\ TriesInv'
  OBVIOUS
<1> USE HttpAnnounceAssumption
<1>0. EntryTypeOK'
  BY StepIsCacheStep, CacheStepKeepsEntry DEF TypeOK
<1> DEFINE Jobs == /\ pc \in [Peers -> {"idle", "queued", "loop", "backoff", "flight",
                                       "result", "punish", "cool"}]
                   /\ tries \in [Peers -> 0 .. Attempts]
                   /\ result \in [Peers -> Results]
                   /\ source \in [Peers -> {"upstream", "own"}]
                   /\ TriesInv
           Others == /\ live \subseteq Peers /\ stop \in {"open", "closed"}
                    /\ fails \in Nat /\ listing \in {"listed", "disabled"}
                    /\ suspended \in Nat
                    /\ retrying \in Peers \cup {NoPeer} /\ left \in Nat
                    /\ sched \in {"idle", "extract"} /\ blamed \in {"no", "yes"}
<1>a. Jobs /\ Others /\ EntryTypeOK
  BY DEF TypeOK
<1>b. SUFFICES Jobs' /\ Others'
  BY <1>0 DEF TypeOK
<1>1. ASSUME NEW p \in Peers, SessionStarts(p) \/ Stopped(p) \/ Expired(p) \/ Queue(p)
      PROVE  Jobs' /\ Others'
  BY <1>a, <1>1 DEF SessionStarts, SessionEnds, Stopped, Expired, Queue, Goto, TriesInv, jobVars,
                    forwarderVars, retryVars
<1>2. ASSUME NEW p \in Peers, WorkerStep(p)
      PROVE  Jobs' /\ Others'
  <2>1. ASSUME Done(p) PROVE Jobs'
    BY <1>a, <2>1 DEF Done, Goto, TriesInv, Results
  <2>2. ASSUME NEW what \in Results, NEW whose \in {"upstream", "own"},
               pc[p] = "flight", Attempted(p, what, whose)
        PROVE  Jobs'
    BY <1>a, <2>2 DEF Attempted, Goto, TriesInv
  <2>3. ASSUME NEW where \in {"loop", "backoff", "flight"}, tries[p] < Attempts,
               Goto(p, where), UNCHANGED <<tries, result, source>>
        PROVE  Jobs'
    BY <1>a, <2>3 DEF Goto, TriesInv
  <2>4. ASSUME NEW where \in {"punish", "cool"}, Goto(p, where),
               UNCHANGED <<tries, result, source>>
        PROVE  Jobs'
    BY <1>a, <2>4 DEF Goto, TriesInv
  <2>5. ASSUME GivesUp(p) PROVE Jobs'
    BY <1>a, <2>5 DEF GivesUp, Goto, TriesInv, Results, classifyForwarderError,
                      classifyForwarderErrorMessage
  <2>6. ASSUME Disable(p) PROVE fails' \in Nat /\ listing' \in {"listed", "disabled"}
                                /\ suspended' \in Nat /\ blamed' \in {"no", "yes"}
    BY <1>a, <2>6 DEF Disable
  <2>7. CASE Execute(p)
    <3>1. pc[p] = "queued" /\ Others'
      BY <1>a, <2>7 DEF Execute, forwarderVars, retryVars
    <3> QED
      BY <1>a, <2>1, <2>3, <2>7, <3>1 DEF Execute, TriesInv
  <2>8. CASE LoopHead(p) \/ Backoff(p)
    <3>1. pc[p] \in {"loop", "backoff"} /\ Others'
      BY <1>a, <2>8 DEF LoopHead, Backoff, forwarderVars, retryVars
    <3>2. tries[p] < Attempts
      BY <1>a, <3>1 DEF TriesInv
    <3> QED
      BY <2>3, <2>5, <2>8, <3>1, <3>2 DEF LoopHead, Backoff
  <2>9. CASE NoAnswer(p) \/ ErrorAnswer(p) \/ GoodAnswer(p)
    <3>1. pc[p] = "flight" /\ Others'
      BY <1>a, <2>9 DEF NoAnswer, ErrorAnswer, GoodAnswer, forwarderVars, retryVars
    <3>2. \E what \in Results, whose \in {"upstream", "own"} : Attempted(p, what, whose)
      <4>1. {"retryable", "permanent", "limited"} \subseteq Results
        BY DEF Results
      <4>2. TransportErrors \subseteq Results /\ StatusErrors \cup BodyErrors \subseteq Results
        BY <4>1, ErrorsAreResults
      <4>3. {"peers", "empty"} \subseteq Results
        BY DEF Results
      <4> QED
        BY <2>9, <4>2, <4>3 DEF NoAnswer, ErrorAnswer, GoodAnswer
    <3> QED
      BY <2>2, <3>1, <3>2
  <2>10. CASE UnroutableAnswer(p)
    BY <1>a, <2>10 DEF UnroutableAnswer, Goto, TriesInv, Results, classifyForwarderError,
                       classifyForwarderErrorMessage, forwarderVars, retryVars
  <2>11. CASE RetryNever(p)
    <3>1. Done(p) /\ UNCHANGED <<live, stop, retryVars, sched>>
          /\ (Disable(p) \/ UNCHANGED forwarderVars)
      BY <2>11 DEF RetryNever
    <3> QED
      BY <1>a, <2>1, <2>6, <3>1 DEF retryVars, forwarderVars
  <2>12. CASE RetryIn(p)
    <3>1. Done(p) /\ UNCHANGED <<live, stop, forwarderVars, sched>>
      BY <2>12 DEF RetryIn
    <3>2. retrying' \in Peers \cup {NoPeer} /\ left' \in Nat
      <4>1. CASE UNCHANGED retryVars
        BY <1>a, <4>1 DEF retryVars
      <4>2. ASSUME NEW n \in Periods, Schedule(p, Longer(wait, n))
            PROVE  retrying' \in Peers \cup {NoPeer} /\ left' \in Nat
        BY <1>a, <4>2 DEF Schedule, Longer, retryVars, EntryTypeOK
      <4> QED
        BY <2>12, <4>1, <4>2 DEF RetryIn
    <3> QED
      BY <1>a, <2>1, <3>1, <3>2 DEF forwarderVars
  <2>13. CASE Publish(p)
    BY <1>a, <2>1, <2>13 DEF Publish, forwarderVars, retryVars
  <2>14. CASE Fail(p)
    BY <1>a, <2>1, <2>4, <2>14 DEF Fail, forwarderVars, retryVars
  <2>15. CASE Punish(p)
    <3>1. Jobs' /\ UNCHANGED <<live, stop, retryVars, sched>>
      BY <2>1, <2>4, <2>15 DEF Punish
    <3>2. fails' \in Nat /\ listing' \in {"listed", "disabled"}
          /\ suspended' \in Nat /\ blamed' \in {"no", "yes"}
      BY <1>a, <2>6, <2>15 DEF Punish, RegisterFailure, forwarderVars
    <3> QED
      BY <1>a, <3>1, <3>2 DEF retryVars
  <2>16. CASE RecordAttempt(p)
    BY <1>a, <2>1, <2>16 DEF RecordAttempt, forwarderVars, retryVars
  <2> QED
    BY <1>2, <2>7, <2>8, <2>9, <2>10, <2>11, <2>12, <2>13, <2>14, <2>15, <2>16
       DEF WorkerStep
<1>3. CASE ProcessRetry
  <2>1. Others' /\ UNCHANGED <<tries, result, source>>
    BY <1>a, <1>3 DEF ProcessRetry, forwarderVars, retryVars
  <2>2. CASE UNCHANGED pc
    BY <1>a, <2>1, <2>2 DEF TriesInv
  <2>3. CASE retrying # NoPeer /\ Goto(retrying, "queued")
    <3>1. tries[retrying] < Attempts
      BY <1>a, <2>3 DEF DeferredWaits, TriesInv
    <3> QED
      BY <1>a, <2>1, <2>3, <3>1 DEF TriesInv, Goto
  <2> QED
    BY <1>3, <2>2, <2>3 DEF ProcessRetry, retryVars
<1>4. CASE SchedulerTick \/ AddRuntimeForwarder \/ Stop \/ Tick
  BY <1>a, <1>4 DEF SchedulerTick, AddRuntimeForwarder, Stop, Tick, Rest, TriesInv,
                    jobVars, forwarderVars, retryVars
<1>5. CASE UNCHANGED vars
  BY <1>a, <1>5 DEF vars, TriesInv, jobVars, forwarderVars, retryVars
<1> QED
  BY <1>1, <1>2, <1>3, <1>4, <1>5 DEF Next
-----------------------------------------------------------------------------
\* A retry that is scheduled keeps its peer out of the workers' hands.
LEMMA WaitStep == TypeOK /\ DeferredWaits /\ [Next]_vars => DeferredWaits'
<1> SUFFICES ASSUME TypeOK, DeferredWaits, [Next]_vars PROVE DeferredWaits'
  OBVIOUS
<1> USE HttpAnnounceAssumption DEF DeferredWaits
<1>0. pc \in [Peers -> {"idle", "queued", "loop", "backoff", "flight", "result",
                       "punish", "cool"}]
      /\ retrying \in Peers \cup {NoPeer}
  BY DEF TypeOK
<1>1. ASSUME NEW p \in Peers, SessionStarts(p) \/ Stopped(p) \/ Expired(p) \/ Queue(p)
      PROVE  DeferredWaits'
  BY <1>0, <1>1 DEF SessionStarts, SessionEnds, Stopped, Expired, Queue, Goto, jobVars, retryVars
<1>2. ASSUME NEW p \in Peers, WorkerStep(p)
      PROVE  DeferredWaits'
  <2>1. pc[p] # "idle"
    BY <1>2 DEF WorkerStep, Execute, LoopHead, Backoff, NoAnswer, ErrorAnswer, GoodAnswer,
                UnroutableAnswer, RetryNever, RetryIn, Publish, Fail, Punish, RecordAttempt
  <2>2. \E where \in {"idle", "loop", "backoff", "flight", "result", "punish", "cool"} :
           Goto(p, where)
    BY <1>2, Zenon
       DEF WorkerStep, Execute, LoopHead, Backoff, NoAnswer, ErrorAnswer, GoodAnswer,
           UnroutableAnswer, RetryNever, RetryIn, Publish, Fail, Punish, RecordAttempt,
           Done, GivesUp, Attempted
  <2>3. CASE UNCHANGED retryVars
    BY <1>0, <2>1, <2>2, <2>3 DEF Goto, retryVars
  <2>4. CASE RetryIn(p)
    BY <1>0, <2>4 DEF RetryIn, Schedule, Done, Goto, retryVars
  <2> QED
    BY <1>2, <2>3, <2>4
       DEF WorkerStep, Execute, LoopHead, Backoff, NoAnswer, ErrorAnswer, GoodAnswer,
           UnroutableAnswer, RetryNever, Publish, Fail, Punish, RecordAttempt
<1>3. CASE SchedulerTick \/ ProcessRetry \/ AddRuntimeForwarder \/ Stop \/ Tick
  BY <1>0, <1>3 DEF SchedulerTick, ProcessRetry, AddRuntimeForwarder, Stop, Tick, Goto,
                    jobVars, retryVars
<1>4. CASE UNCHANGED vars
  BY <1>4 DEF vars, jobVars, retryVars
<1> QED
  BY <1>1, <1>2, <1>3, <1>4 DEF Next

\* A job gives up only for a reason that lasts as long as the job, and no
\* forwarder is made to pay while that reason is there.
LEMMA JobStep == TypeOK /\ DeferredWaits /\ JobInv /\ [Next]_vars => JobInv'
<1> SUFFICES ASSUME TypeOK, DeferredWaits, JobInv, [Next]_vars PROVE JobInv'
  OBVIOUS
<1> USE HttpAnnounceAssumption DEF JobInv, CancelNotBlamed, RequestCanceled
<1>0. /\ pc \in [Peers -> {"idle", "queued", "loop", "backoff", "flight", "result",
                          "punish", "cool"}]
      /\ source \in [Peers -> {"upstream", "own"}]
      /\ retrying \in Peers \cup {NoPeer}
  BY DEF TypeOK
<1>1. ASSUME NEW p \in Peers, SessionStarts(p) \/ Stopped(p) \/ Expired(p) \/ Queue(p)
      PROVE  JobInv'
  BY <1>0, <1>1 DEF SessionStarts, SessionEnds, Stopped, Expired, Queue, Goto, jobVars, forwarderVars
<1>2. ASSUME NEW p \in Peers, WorkerStep(p)
      PROVE  JobInv'
  <2>1. UNCHANGED <<live, stop>>
    BY <1>2 DEF WorkerStep, Execute, LoopHead, Backoff, NoAnswer, ErrorAnswer, GoodAnswer,
                UnroutableAnswer, RetryNever, RetryIn, Publish, Fail, Punish, RecordAttempt
  <2>2. blamed' = "no"
    <3>1. ASSUME Disable(p), ~Canceled(p) PROVE blamed' = "no"
      BY <1>0, <3>1 DEF Disable, Canceled
    <3>2. CASE Punish(p)
      BY <1>0, <3>1, <3>2 DEF Punish, RegisterFailure, Canceled, forwarderVars
    <3> QED
      BY <1>2, <3>1, <3>2
         DEF WorkerStep, Execute, LoopHead, Backoff, NoAnswer, ErrorAnswer, GoodAnswer,
             UnroutableAnswer, RetryNever, RetryIn, Publish, Fail, RecordAttempt,
             forwarderVars
  <2>3. \/ Done(p)
        \/ \E where \in {"loop", "backoff", "flight", "result", "punish", "cool"} :
              /\ Goto(p, where)
              /\ \/ UNCHANGED source
                 \/ source' = [source EXCEPT ![p] = "upstream"]
                 \/ source' = [source EXCEPT ![p] = "own"] /\ RequestCanceled(p)
    <3>1. ASSUME NEW what, NEW whose \in {"upstream", "own"}, Attempted(p, what, whose)
          PROVE  \E where \in {"loop", "result"} :
                    Goto(p, where) /\ source' = [source EXCEPT ![p] = whose]
      BY <3>1, Zenon DEF Attempted
    <3>2. CASE NoAnswer(p) \/ ErrorAnswer(p) \/ GoodAnswer(p)
      BY <3>1, <3>2 DEF NoAnswer, ErrorAnswer, GoodAnswer
    <3>3. CASE LoopHead(p) \/ Backoff(p)
      BY <3>3, Zenon DEF LoopHead, Backoff, GivesUp, Canceled
    <3>4. CASE Execute(p) \/ UnroutableAnswer(p) \/ RetryNever(p) \/ RetryIn(p)
               \/ Publish(p) \/ Fail(p) \/ Punish(p) \/ RecordAttempt(p)
      BY <3>4, Zenon DEF Execute, UnroutableAnswer, RetryNever, RetryIn, Publish, Fail,
                         Punish, RecordAttempt
    <3> QED
      BY <1>2, <3>2, <3>3, <3>4 DEF WorkerStep
  <2>4. CASE Done(p)
    BY <1>0, <2>1, <2>2, <2>4 DEF Done, Goto
  <2>5. ASSUME NEW where \in {"loop", "backoff", "flight", "result", "punish", "cool"},
               Goto(p, where),
               \/ UNCHANGED source
               \/ source' = [source EXCEPT ![p] = "upstream"]
               \/ source' = [source EXCEPT ![p] = "own"] /\ RequestCanceled(p)
        PROVE  JobInv'
    BY <1>0, <2>1, <2>2, <2>5 DEF Goto
  <2> QED
    BY <2>3, <2>4, <2>5
<1>3. CASE SchedulerTick \/ ProcessRetry \/ AddRuntimeForwarder \/ Stop \/ Tick
  BY <1>0, <1>3 DEF SchedulerTick, ProcessRetry, AddRuntimeForwarder, Stop, Tick, Goto,
                    jobVars, forwarderVars
<1>4. CASE UNCHANGED vars
  BY <1>4 DEF vars, jobVars, forwarderVars
<1> QED
  BY <1>1, <1>2, <1>3, <1>4 DEF Next
-----------------------------------------------------------------------------
\* The inductive invariant.
UpstreamInv == TypeOK /\ TriesInv /\ EntryInv /\ DeferredWaits /\ JobInv

LEMMA UpstreamInvariant == Spec => []UpstreamInv
<1>1. Init => UpstreamInv
  BY CooldownAssumption, HttpAnnounceAssumption
     DEF Init, EntryInit, UpstreamInv, TypeOK, EntryTypeOK, TriesInv, EntryInv,
         DeferredWaits, JobInv, CancelNotBlamed, RequestCanceled, Results
<1>2. UpstreamInv /\ [Next]_vars => UpstreamInv'
  <2> SUFFICES ASSUME UpstreamInv, [Next]_vars PROVE UpstreamInv'
    OBVIOUS
  <2>1. TypeOK' /\ TriesInv'
    BY TypeStep DEF UpstreamInv
  <2>2. EntryInv'
    BY StepIsCacheStep, CacheStepKeepsEntry DEF UpstreamInv, TypeOK
  <2>3. DeferredWaits' /\ JobInv'
    BY WaitStep, JobStep DEF UpstreamInv
  <2> QED
    BY <2>1, <2>2, <2>3 DEF UpstreamInv
<1> QED
  BY <1>1, <1>2, PTL DEF Spec

\* doHTTPAnnounce never counts more than the configured attempts, and all other
\* state keeps its type, for any number of peers.
THEOREM UpstreamTypeCorrect == Spec => []TypeOK
<1>1. UpstreamInv => TypeOK
  BY DEF UpstreamInv
<1> QED
  BY <1>1, UpstreamInvariant, PTL

\* GetAllPeers serves no peers older than maxPeerAge.
THEOREM PeersServedFresh == Spec => []PeersFresh
<1>1. UpstreamInv => PeersFresh
  BY CooldownAssumption
     DEF UpstreamInv, EntryInv, TypeOK, EntryTypeOK, PeersFresh, Served, expired
<1> QED
  BY <1>1, UpstreamInvariant, PTL

\* Prune and DeferAnnounce never cut a cooldown short.
THEOREM CooldownOutlivesPeers == Spec => []CooldownSurvivesExpiry
<1>1. UpstreamInv => CooldownSurvivesExpiry
  BY DEF UpstreamInv, EntryInv, TypeOK, EntryTypeOK, CooldownSurvivesExpiry
<1> QED
  BY <1>1, UpstreamInvariant, PTL

\* handleAnnounceResult and handleRetryError never hold a cancelled request
\* against the forwarder.
THEOREM ForwarderNotBlamed == Spec => []CancelNotBlamed
<1>1. UpstreamInv => CancelNotBlamed
  BY DEF UpstreamInv, JobInv
<1> QED
  BY <1>1, UpstreamInvariant, PTL

\* A peer is announced to a forwarder at most once at a time, retries included.
THEOREM DeferralWaits == Spec => []DeferredWaits
<1>1. UpstreamInv => DeferredWaits
  BY DEF UpstreamInv
<1> QED
  BY <1>1, UpstreamInvariant, PTL
=============================================================================
