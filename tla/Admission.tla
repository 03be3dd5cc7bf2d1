------------------------------ MODULE Admission ------------------------------
(***************************************************************************)
(* Which first announces of a hash get through when the job queue fills    *)
(* up: handleFirstAnnounce (receiverAnnounce.go), shouldRateLimitInitial   *)
(* and the token bucket it asks (forwarderManager.go), under a clock.      *)
(*                                                                         *)
(* A token is worth Interval units of time (1/rate seconds).  The time     *)
(* since lastTick is kept as whole tokens and the part of the next one,    *)
(* which is what int(elapsed.Seconds() * rate) computes and what it cuts   *)
(* off; more than Burst whole tokens need not be told apart, because the   *)
(* bucket holds no more.  Of the queue only its length is kept; subsequent *)
(* announces and retries fill it, workers empty it.                        *)
(***************************************************************************)
EXTENDS Naturals

CONSTANTS
    Handlers,        \* goroutines serving announces
    Burst,           \* rateLimiter.burst
    Interval,        \* units of time per token
    QueueCap,        \* cap(fm.jobQueue)
    RateLimitThresh, \* queueRateLimitThresh, percent
    MaxWindow        \* bound: length of the window of time looked at

ASSUME AdmissionAssumption ==
    /\ Burst \in Nat \ {0} /\ Interval \in Nat \ {0} /\ QueueCap \in Nat \ {0}
    /\ RateLimitThresh \in Nat /\ MaxWindow \in Nat

VARIABLES
    tokens,     \* rateLimiter.tokens
    lastTick,   \* rateLimiter.lastTick: "zero" until the first call
    whole,      \* tokens the time since lastTick is worth
    part,       \* and the units beyond them
    queued,     \* len(fm.jobQueue)
    handler,    \* per handler: "idle", "limit", "room", "queue"
    last,       \* what allow() said at this moment: "nothing", "yes", "no"
    dry,        \* history: units since it last said yes, up to Interval
    elapsed,    \* history: length of the window looked at, ...
    spent       \* ... and the announces allowed in it

bucketVars == <<tokens, lastTick, whole, part>>
historyVars == <<last, dry, elapsed, spent>>
vars == <<bucketVars, queued, handler, historyVars>>

TypeOK ==
    /\ tokens \in 0 .. Burst
    /\ lastTick \in {"zero", "set"}
    /\ whole \in 0 .. Burst /\ part \in 0 .. Interval - 1
    /\ queued \in 0 .. QueueCap
    /\ handler \in [Handlers -> {"idle", "limit", "room", "queue"}]
    /\ last \in {"nothing", "yes", "no"}
    /\ dry \in 0 .. Interval
    /\ elapsed \in Nat /\ spent \in Nat

Init ==
    /\ tokens = Burst /\ lastTick = "zero" /\ whole = 0 /\ part = 0
    /\ queued = 0
    /\ handler = [r \in Handlers |-> "idle"]
    /\ last = "nothing" /\ dry = 0 /\ elapsed = 0 /\ spent = 0
-----------------------------------------------------------------------------
queueFillPct == (queued * 100) \div QueueCap

shouldRateLimitInitial == RateLimitThresh > 0 /\ queueFillPct >= RateLimitThresh

Goto(r, pc) == handler' = [handler EXCEPT ![r] = pc]

\* handleFirstAnnounce: the fill level decides whether the bucket is asked.
FirstAnnounce(r) ==
    /\ handler[r] = "idle"
    /\ Goto(r, IF shouldRateLimitInitial THEN "limit" ELSE "room")
    /\ UNCHANGED <<bucketVars, queued, historyVars>>

\* A slip in allow: the refill is not cut off at the burst.
Refilled_NoCap == IF whole > 0 THEN tokens + whole ELSE tokens

\* allow: the tokens it has to give, the ones for the time since lastTick added.
Refilled ==
    IF whole = 0 THEN tokens
    ELSE IF tokens + whole < Burst THEN tokens + whole ELSE Burst

\* A slip in allow: lastTick is moved on every call.
Remainder_Dropped == 0

\* allow: lastTick moves only with a refill, and then drops what is over.
Remainder == IF whole > 0 THEN 0 ELSE part

\* allow; handleFirstAnnounce goes on or answers "tracker busy".
Allow(r) ==
    /\ handler[r] = "limit"
    /\ lastTick' = "set" /\ whole' = 0 /\ part' = Remainder
    /\ \/ /\ Refilled > 0
          /\ tokens' = Refilled - 1
          /\ Goto(r, "room")
          /\ last' = "yes" /\ dry' = 0 /\ spent' = spent + 1
       \/ /\ Refilled = 0
          /\ tokens' = 0
          /\ Goto(r, "idle")
          /\ last' = "no" /\ UNCHANGED <<dry, spent>>
    /\ UNCHANGED <<queued, elapsed>>

\* isQueueFull: the announce is answered "tracker queue full".
CheckRoom(r) ==
    /\ handler[r] = "room"
    /\ Goto(r, IF queued >= QueueCap THEN "idle" ELSE "queue")
    /\ UNCHANGED <<bucketVars, queued, historyVars>>

\* queueEligibleAnnounces sends a number of jobs without waiting for room.
QueueJobs(r) ==
    /\ handler[r] = "queue"
    /\ queued' \in queued .. QueueCap
    /\ Goto(r, "idle")
    /\ UNCHANGED <<bucketVars, historyVars>>

\* Subsequent announces and retries add jobs, workers take them.
QueueChanges ==
    /\ queued' \in 0 .. QueueCap
    /\ UNCHANGED <<bucketVars, handler, historyVars>>

\* Time passes.
Tick ==
    /\ elapsed < MaxWindow
    /\ \/ /\ lastTick = "zero" /\ UNCHANGED <<whole, part>>
       \/ /\ lastTick = "set" /\ part + 1 < Interval
          /\ part' = part + 1 /\ UNCHANGED whole
       \/ /\ lastTick = "set" /\ part + 1 = Interval
          /\ part' = 0 /\ whole' = IF whole < Burst THEN whole + 1 ELSE Burst
    /\ last' = "nothing"
    /\ dry' = IF dry < Interval THEN dry + 1 ELSE Interval
    /\ elapsed' = elapsed + 1
    /\ UNCHANGED <<tokens, lastTick, queued, handler, spent>>

\* A new window of time to look at begins.
Look ==
    /\ elapsed' = 0 /\ spent' = 0
    /\ UNCHANGED <<bucketVars, queued, handler, last, dry>>

Next ==
    \/ \E r \in Handlers : FirstAnnounce(r) \/ Allow(r) \/ CheckRoom(r) \/ QueueJobs(r)
    \/ QueueChanges \/ Tick \/ Look

Spec == Init /\ [][Next]_vars
-----------------------------------------------------------------------------
\* In any window of time the bucket lets no more announces through than the
\* burst and the rate allow, and one more for the part of a token that was
\* there when the window began: rounding never adds up, however calls fall.
RateIsBounded == Interval * spent < Interval * (Burst + 1) + elapsed

\* However often it is asked, the bucket refuses only if it said yes less
\* than the time of one token ago: polling does not put the next one off,
\* because lastTick stays where it is until there is a whole token.
PollingNotStarved == last = "no" => dry < Interval
=============================================================================
