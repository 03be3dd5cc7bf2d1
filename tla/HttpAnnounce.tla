----------------------------- MODULE HttpAnnounce -----------------------------
(***************************************************************************)
(* What becomes of an announce to one HTTP forwarder for one hash: the     *)
(* attempts and their backoff (doHTTPAnnounce), what a reply is taken for  *)
(* (doSingleHTTPRequest, errors.go), what it does to the forwarder and to  *)
(* the cache entry (handleAnnounceResult, handleRetryError), and the       *)
(* retries it schedules, under a clock.  Peers of the hash announce        *)
(* concurrently and share the forwarder, the entry and the retry slot.     *)
(*                                                                         *)
(* Left to Forwarding: the queue between handler and worker, the marker    *)
(* hand-over, the critical sections inside disableForwarder, the scheduler *)
(* and updatePeerCache, and a peer that returns before its old job ended.  *)
(***************************************************************************)
EXTENDS Cooldown

CONSTANTS
    Peers,           \* local peers of the hash
    Attempts,        \* ForwarderRetryAttempts, at least 1
    FailThreshold,   \* ForwarderFailThreshold
    FailWait,        \* the 60s a failed attempt is recorded with
    SuspendFor,      \* ForwarderSuspendSeconds
    QueueWait,       \* the 10s a retry is put off for when the queue is full
    Intervals,       \* intervals an upstream answers with
    Periods,         \* positive retry periods it asks for
    NoPeer

ASSUME HttpAnnounceAssumption ==
    /\ Attempts \in Nat \ {0} /\ FailThreshold \in Nat \ {0}
    /\ FailWait \in Nat /\ SuspendFor \in Nat \ {0} /\ QueueWait \in Nat
    /\ Intervals \subseteq Nat /\ Periods \subseteq Nat \ {0}
    /\ NoPeer \notin Peers

VARIABLES
    live,        \* the peers whose session has not ended
    stop,        \* stopChan: "open", "closed"
    pc,          \* per peer: where its job is
    tries,       \* doHTTPAnnounce: attempts made
    result,      \* what the last attempt came to
    source,      \* history: whether that was the upstream's doing or our own
    fails,       \* failCounts of the forwarder
    listing,     \* "listed", "disabled"
    suspended,   \* SuspendedUntil - now, 0 when not suspended
    retrying,    \* the peer whose retry is in scheduledJobs, or NoPeer
    left,        \* ScheduledTime - now of that retry
    sched,       \* schedulerRoutine: "idle", "extract"
    blamed       \* history: the forwarder paid for a request we cancelled: "no", "yes"

jobVars == <<pc, tries, result, source>>
forwarderVars == <<fails, listing, suspended, blamed>>
retryVars == <<retrying, left>>
vars == <<entryVars, live, stop, jobVars, forwarderVars, retryVars, sched>>

Results == {"none", "peers", "empty", "retryable", "permanent", "limited"}

TypeOK ==
    /\ EntryTypeOK
    /\ live \subseteq Peers /\ stop \in {"open", "closed"}
    /\ pc \in [Peers -> {"idle", "queued", "loop", "backoff", "flight", "result",
                         "punish", "cool"}]
    /\ tries \in [Peers -> 0 .. Attempts]
    /\ result \in [Peers -> Results] /\ source \in [Peers -> {"upstream", "own"}]
    /\ fails \in Nat /\ listing \in {"listed", "disabled"} /\ suspended \in Nat
    /\ retrying \in Peers \cup {NoPeer} /\ left \in Nat
    /\ sched \in {"idle", "extract"} /\ blamed \in {"no", "yes"}

Init ==
    /\ EntryInit
    /\ live = {} /\ stop = "open"
    /\ pc = [p \in Peers |-> "idle"] /\ tries = [p \in Peers |-> 0]
    /\ result = [p \in Peers |-> "none"] /\ source = [p \in Peers |-> "upstream"]
    /\ fails = 0 /\ listing = "listed" /\ suspended = 0 /\ blamed = "no"
    /\ retrying = NoPeer /\ left = 0 /\ sched = "idle"
-----------------------------------------------------------------------------
\* requestContext: the program's own reasons to give up a request in flight.
RequestCanceled(p) == p \notin live \/ stop = "closed"

\* A slip in the checks below: only the peer's session is looked at.
Canceled_IgnoresStop(p) == p \notin live

\* job.canceled() \/ fm.isStopping()
Canceled(p) == p \notin live \/ stop = "closed"

Goto(p, where) == pc' = [pc EXCEPT ![p] = where]

\* executeAnnounce returns; the worker finishes the job.
Done(p) ==
    /\ Goto(p, "idle")
    /\ tries' = [tries EXCEPT ![p] = 0]
    /\ result' = [result EXCEPT ![p] = "none"]
    /\ source' = [source EXCEPT ![p] = "upstream"]

\* Of an error message: whether it names the tracker, speaks of rate limiting,
\* or contains one of the permanent patterns.
classifyForwarderErrorMessage(words) ==
    IF {"tracker", "rate"} \subseteq words THEN "limited"
    ELSE IF "permanent" \in words THEN "permanent" ELSE "retryable"

\* Whether an error comes from the transport and is one of those taken for
\* permanent overrides what its message says.
classifyForwarderError(words, transport) ==
    IF transport THEN "permanent" ELSE classifyForwarderErrorMessage(words)

\* What can come back without an answer: timeouts and resets, DNS failures and
\* refused connections, TLS errors.  A cancelled lookup is a DNS failure too.
TransportErrors ==
    {classifyForwarderError(words, transport) :
        words \in {{}, {"permanent"}}, transport \in BOOLEAN}

\* A status other than 200: 429, a tracker rejection (400, 403, 404), others.
StatusErrors ==
    {classifyForwarderError(words, FALSE) :
        words \in {{"tracker", "rate"}, {"tracker", "permanent"}, {"tracker"}}}

\* A body that is too large, cut short or not bencode; a failure reason whose
\* words are the tracker's own.
BodyErrors ==
    {classifyForwarderError(words, FALSE) :
        words \in {{}, {"tracker"}, {"tracker", "rate"}, {"tracker", "permanent"},
                   {"tracker", "rate", "permanent"}}}
-----------------------------------------------------------------------------
(***************************************************************************)
(* Local peers and the handlers that queue their announces.                *)
(***************************************************************************)

\* Storage.Update makes a session.
SessionStarts(p) ==
    /\ p \notin live /\ pc[p] = "idle" /\ retrying # p
    /\ live' = live \cup {p}
    /\ UNCHANGED <<entryVars, stop, jobVars, forwarderVars, retryVars, sched>>

\* The session is cancelled; the last peer takes the cache entry along.
SessionEnds(p) ==
    /\ p \in live
    /\ live' = live \ {p}
    /\ IF live' = {} THEN Delete ELSE UNCHANGED entryVars
    /\ UNCHANGED <<stop, jobVars, forwarderVars, sched>>

\* handleStoppedEvent: cancelPendingJobs takes the peer's retry out.
Stopped(p) ==
    /\ SessionEnds(p)
    /\ IF retrying = p THEN retrying' = NoPeer /\ left' = 0 ELSE UNCHANGED retryVars

\* purgeExpired leaves it to the scheduler.
Expired(p) == SessionEnds(p) /\ UNCHANGED retryVars

\* queueEligibleAnnounces for a forwarder that is listed and not suspended.
Queue(p) ==
    /\ pc[p] = "idle" /\ retrying # p
    /\ ~Canceled(p) /\ listing = "listed" /\ suspended = 0
    /\ ShouldAnnounceNow
    /\ Goto(p, "queued")
    /\ UNCHANGED <<entryVars, live, stop, tries, result, source, forwarderVars,
                   retryVars, sched>>
-----------------------------------------------------------------------------
(***************************************************************************)
(* Announce workers.                                                       *)
(***************************************************************************)

\* executeAnnounce up to the protocol handler.
Execute(p) ==
    /\ pc[p] = "queued"
    /\ IF Canceled(p) \/ listing = "disabled" \/ suspended > 0
       THEN Done(p)
       ELSE Goto(p, "loop") /\ UNCHANGED <<tries, result, source>>
    /\ UNCHANGED <<entryVars, live, stop, forwarderVars, retryVars, sched>>

\* buildFailureResult for context.Canceled.
GivesUp(p) ==
    /\ Canceled(p)
    /\ Goto(p, "result")
    /\ result' = [result EXCEPT ![p] = classifyForwarderError({}, FALSE)]
    /\ source' = [source EXCEPT ![p] = "own"]
    /\ UNCHANGED tries

\* doHTTPAnnounce, the head of the loop.
LoopHead(p) ==
    /\ pc[p] = "loop"
    /\ \/ GivesUp(p)
       \/ /\ ~Canceled(p)
          /\ Goto(p, IF tries[p] > 0 THEN "backoff" ELSE "flight")
          /\ UNCHANGED <<tries, result, source>>
    /\ UNCHANGED <<entryVars, live, stop, forwarderVars, retryVars, sched>>

\* The backoff ends, or the session or the manager does.
Backoff(p) ==
    /\ pc[p] = "backoff"
    /\ \/ GivesUp(p)
       \/ Goto(p, "flight") /\ UNCHANGED <<tries, result, source>>
    /\ UNCHANGED <<entryVars, live, stop, forwarderVars, retryVars, sched>>

\* A slip in doHTTPAnnounce: one attempt too many.
Attempted_OneMore(p, what, whose) ==
    /\ Goto(p, IF what = "retryable" /\ tries[p] < Attempts THEN "loop" ELSE "result")
    /\ tries' = [tries EXCEPT ![p] = @ + 1]
    /\ result' = [result EXCEPT ![p] = what]
    /\ source' = [source EXCEPT ![p] = whose]

\* A slip in doHTTPAnnounce: the attempts are not counted.
Attempted_Uncounted(p, what, whose) ==
    /\ Goto(p, IF what = "retryable" /\ tries[p] + 1 < Attempts THEN "loop" ELSE "result")
    /\ result' = [result EXCEPT ![p] = what]
    /\ source' = [source EXCEPT ![p] = whose]
    /\ UNCHANGED tries

\* doHTTPAnnounce after an attempt: a retryable failure goes round again.
Attempted(p, what, whose) ==
    /\ Goto(p, IF what = "retryable" /\ tries[p] + 1 < Attempts THEN "loop" ELSE "result")
    /\ tries' = [tries EXCEPT ![p] = @ + 1]
    /\ result' = [result EXCEPT ![p] = what]
    /\ source' = [source EXCEPT ![p] = whose]

\* doSingleHTTPRequest: no answer comes, or not all of it, by the upstream's
\* fault, after ForwardTimeout, or because requestContext was cancelled.
NoAnswer(p) ==
    /\ pc[p] = "flight"
    /\ \E what \in TransportErrors :
          \/ Attempted(p, what, "upstream")
          \/ RequestCanceled(p) /\ Attempted(p, what, "own")
    /\ UNCHANGED <<entryVars, live, stop, forwarderVars, retryVars, sched>>

\* An answer that is an error, or a failure reason without a retry period that
\* handleRetryError makes something of.
ErrorAnswer(p) ==
    /\ pc[p] = "flight"
    /\ \E what \in StatusErrors \cup BodyErrors : Attempted(p, what, "upstream")
    /\ UNCHANGED <<entryVars, live, stop, forwarderVars, retryVars, sched>>

\* An answer with routable peers, with none at all, or with unroutable ones
\* only, which handleAnnounceResult turns into a failure.
GoodAnswer(p) ==
    /\ pc[p] = "flight"
    /\ \E what \in {"peers", "empty"} : Attempted(p, what, "upstream")
    /\ UNCHANGED <<entryVars, live, stop, forwarderVars, retryVars, sched>>

UnroutableAnswer(p) ==
    /\ pc[p] = "flight"
    /\ Goto(p, "result")
    /\ tries' = [tries EXCEPT ![p] = @ + 1]
    /\ result' = [result EXCEPT ![p] = classifyForwarderError({}, FALSE)]
    /\ source' = [source EXCEPT ![p] = "upstream"]
    /\ UNCHANGED <<entryVars, live, stop, forwarderVars, retryVars, sched>>

\* disableForwarder.
Disable(p) ==
    /\ listing' = "disabled" /\ fails' = 0
    /\ blamed' = IF source[p] = "own" THEN "yes" ELSE blamed
    /\ Delete
    /\ UNCHANGED suspended

\* handleRetryError, "retry in: never".
RetryNever(p) ==
    /\ pc[p] = "flight"
    /\ IF Canceled(p) THEN UNCHANGED <<entryVars, forwarderVars>> ELSE Disable(p)
    /\ Done(p)
    /\ UNCHANGED <<live, stop, retryVars, sched>>

\* scheduleJob at n units from now: one retry per hash and forwarder.
Schedule(p, n) ==
    IF retrying = NoPeer THEN retrying' = p /\ left' = n ELSE UNCHANGED retryVars

\* A slip in doHTTPAnnounce: a deferred announce is attempted again.
RetryIn_GoesOn(p) ==
    /\ pc[p] = "flight" /\ ~Canceled(p)
    /\ \E period \in Periods : DeferAnnounce(period) /\ Schedule(p, Longer(wait, period))
    /\ Attempted(p, "retryable", "upstream")
    /\ UNCHANGED <<live, stop, forwarderVars, sched>>

\* handleRetryError, a positive period: the cooldown is extended and the retry
\* scheduled for its end.
RetryIn(p) ==
    /\ pc[p] = "flight"
    /\ \/ Canceled(p) /\ UNCHANGED <<entryVars, retryVars>>
       \/ /\ ~Canceled(p)
          /\ \E period \in Periods :
                DeferAnnounce(period) /\ Schedule(p, Longer(wait, period))
    /\ Done(p)
    /\ UNCHANGED <<live, stop, forwarderVars, sched>>

\* handleAnnounceResult, success: the peers are cached, for a live session.
Publish(p) ==
    /\ pc[p] = "result" /\ result[p] \in {"peers", "empty"}
    /\ \/ Canceled(p) /\ UNCHANGED <<entryVars, forwarderVars>>
       \/ /\ ~Canceled(p)
          /\ \E n \in Intervals :
                UpdatePeers(IF result[p] = "peers" THEN "peers" ELSE "none", n)
          /\ asked' = 0
          /\ fails' = IF result[p] = "peers" THEN 0 ELSE fails
          /\ UNCHANGED <<listing, suspended, blamed>>
    /\ Done(p)
    /\ UNCHANGED <<live, stop, retryVars, sched>>

\* handleAnnounceResult, failure: up to the second look at the session.
Fail(p) ==
    /\ pc[p] = "result" /\ result[p] \in {"retryable", "permanent", "limited"}
    /\ IF Canceled(p) THEN Done(p)
       ELSE Goto(p, "punish") /\ UNCHANGED <<tries, result, source>>
    /\ UNCHANGED <<entryVars, live, stop, forwarderVars, retryVars, sched>>

\* registerFailure counts, and disables at the threshold.
RegisterFailure(p) ==
    IF fails + 1 >= FailThreshold THEN Disable(p)
    ELSE /\ fails' = fails + 1
         /\ blamed' = IF source[p] = "own" THEN "yes" ELSE blamed
         /\ UNCHANGED <<listing, suspended, entryVars>>

\* handleAnnounceResult, failure: the forwarder is suspended, disabled or
\* charged with a failure.
Punish(p) ==
    /\ pc[p] = "punish"
    /\ \/ Canceled(p) /\ Done(p) /\ UNCHANGED <<entryVars, forwarderVars>>
       \/ /\ ~Canceled(p) /\ result[p] = "limited"
          /\ suspended' = SuspendFor
          /\ blamed' = IF source[p] = "own" THEN "yes" ELSE blamed
          /\ Done(p)
          /\ UNCHANGED <<entryVars, fails, listing>>
       \/ /\ ~Canceled(p) /\ result[p] # "limited"
          /\ IF result[p] = "permanent" THEN Disable(p) ELSE RegisterFailure(p)
          /\ Goto(p, "cool") /\ UNCHANGED <<tries, result, source>>
    /\ UNCHANGED <<live, stop, retryVars, sched>>

\* The failed attempt is recorded with the default interval.
RecordAttempt(p) ==
    /\ pc[p] = "cool"
    /\ IF listing = "disabled" \/ Canceled(p) THEN UNCHANGED entryVars
       ELSE UpdatePeers("none", FailWait) /\ UNCHANGED asked
    /\ Done(p)
    /\ UNCHANGED <<live, stop, forwarderVars, retryVars, sched>>

WorkerStep(p) ==
    \/ Execute(p) \/ LoopHead(p) \/ Backoff(p)
    \/ NoAnswer(p) \/ ErrorAnswer(p) \/ GoodAnswer(p) \/ UnroutableAnswer(p)
    \/ RetryNever(p) \/ RetryIn(p)
    \/ Publish(p) \/ Fail(p) \/ Punish(p) \/ RecordAttempt(p)
-----------------------------------------------------------------------------
(***************************************************************************)
(* The scheduler, the registry, shutdown and the clock.                    *)
(***************************************************************************)

\* schedulerRoutine: a tick begins with Prune.
SchedulerTick ==
    /\ sched = "idle" /\ stop = "open"
    /\ Prune
    /\ sched' = "extract"
    /\ UNCHANGED <<live, stop, jobVars, forwarderVars, retryVars>>

\* schedulerRoutine and processScheduledReadyJob for the one scheduled retry: it
\* is dropped when cancelled, put off while the forwarder is suspended or the
\* queue is full, and else queued.
ProcessRetry ==
    /\ sched = "extract"
    /\ sched' = "idle"
    /\ \/ /\ retrying # NoPeer /\ Canceled(retrying)
          /\ retrying' = NoPeer /\ left' = 0 /\ UNCHANGED pc
       \/ /\ retrying # NoPeer /\ ~Canceled(retrying) /\ left = 0
          /\ \/ /\ left' = IF suspended > 0 THEN suspended ELSE QueueWait
                /\ UNCHANGED <<retrying, pc>>
             \/ /\ suspended = 0
                /\ Goto(retrying, "queued")
                /\ retrying' = NoPeer /\ UNCHANGED left
       \/ /\ retrying = NoPeer \/ (~Canceled(retrying) /\ left > 0)
          /\ UNCHANGED <<pc, retryVars>>
    /\ UNCHANGED <<entryVars, live, stop, tries, result, source, forwarderVars>>

\* AddRuntimeForwarder lists a disabled forwarder again.
AddRuntimeForwarder ==
    /\ listing = "disabled" /\ stop = "open"
    /\ listing' = "listed" /\ suspended' = 0 /\ fails' = 0
    /\ UNCHANGED <<entryVars, live, stop, jobVars, blamed, retryVars, sched>>

Stop ==
    /\ stop = "open"
    /\ stop' = "closed"
    /\ UNCHANGED <<entryVars, live, jobVars, forwarderVars, retryVars, sched>>

\* Time passes.
Tick ==
    /\ Elapse
    /\ suspended' = Rest(suspended) /\ left' = Rest(left)
    /\ UNCHANGED <<live, stop, jobVars, fails, listing, blamed, retrying, sched>>

Next ==
    \/ \E p \in Peers :
          SessionStarts(p) \/ Stopped(p) \/ Expired(p) \/ Queue(p) \/ WorkerStep(p)
    \/ SchedulerTick \/ ProcessRetry \/ AddRuntimeForwarder \/ Stop \/ Tick

Spec == Init /\ [][Next]_vars

\* Workers run; ForwardTimeout ends every attempt and a timer every backoff.
FairSpec == Spec /\ \A p \in Peers : WF_vars(WorkerStep(p))
-----------------------------------------------------------------------------
\* A request that the program gave up itself, because its peer has left or the
\* manager stops, is never held against the forwarder: no failure is counted,
\* nothing suspended or disabled, although a cancelled request looks like any
\* other transport error (even like a DNS failure, which is permanent).
CancelNotBlamed == blamed = "no"

\* A peer whose retry is scheduled has no announce on its way: a deferred
\* announce ends the attempts at once, and nothing queues that peer again
\* before the retry.
DeferredWaits == retrying # NoPeer => pc[retrying] = "idle"

\* Every announce a worker is given comes to an end, however its attempts fail.
AnnouncesReturn == \A p \in Peers : pc[p] = "queued" ~> pc[p] = "idle"
=============================================================================
