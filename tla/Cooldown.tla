------------------------------- MODULE Cooldown -------------------------------
(***************************************************************************)
(* One entry of the upstream cache (forwarderStorage.go), of one hash and  *)
(* one forwarder, under a clock: the peers it serves and the cooldown it   *)
(* keeps, which run out independently of each other.  Instants are kept as *)
(* distances from now.  Every operator is one critical section of          *)
(* ForwarderStorage.mu.                                                    *)
(***************************************************************************)
EXTENDS Naturals

CONSTANTS
    MaxAge     \* ForwarderStorage.maxPeerAge

ASSUME CooldownAssumption == MaxAge \in Nat \ {0}

VARIABLES
    payload,   \* the entry: "absent", "none" (no peers) or "peers"
    wait,      \* NextAnnounce - now, 0 once it is reached
    age,       \* now - LastUpdate, up to MaxAge; a LastUpdate never set is MaxAge old
    fetched,   \* history: the time since the upstream gave the peers, up to MaxAge
    due,       \* history: the rest of the cooldown last given to the entry
    asked      \* history: the rest of the retry period the upstream asked for

entryVars == <<payload, wait, age, fetched, due, asked>>

EntryTypeOK ==
    /\ payload \in {"absent", "none", "peers"}
    /\ wait \in Nat /\ due \in Nat /\ asked \in Nat
    /\ age \in 0 .. MaxAge /\ fetched \in 0 .. MaxAge

EntryInit ==
    /\ payload = "absent" /\ wait = 0 /\ age = 0
    /\ fetched = 0 /\ due = 0 /\ asked = 0
-----------------------------------------------------------------------------
\* n units of a cooldown of t later.
Rest(t) == IF t > 0 THEN t - 1 ELSE 0

Later(t) == IF t < MaxAge THEN t + 1 ELSE MaxAge

Longer(s, t) == IF s > t THEN s ELSE t

Elapse ==
    /\ wait' = Rest(wait) /\ due' = Rest(due) /\ asked' = Rest(asked)
    /\ age' = Later(age) /\ fetched' = Later(fetched)
    /\ UNCHANGED payload

expired == age >= MaxAge

\* GetAllPeers, and so announce and scrape answers, use the entry.
Served == payload = "peers" /\ ~expired

\* ShouldAnnounceNow, and the same test in queueEligibleAnnounces.
ShouldAnnounceNow == payload = "absent" \/ wait = 0

\* UpdatePeers replaces the entry.
UpdatePeers(what, interval) ==
    /\ payload' = what /\ wait' = interval /\ age' = 0
    /\ fetched' = 0 /\ due' = interval

\* A slip in DeferAnnounce: the entry counts as updated.
DeferAnnounce_Refreshes(period) ==
    /\ payload' = IF payload = "absent" THEN "none" ELSE payload
    /\ wait' = Longer(wait, period) /\ due' = Longer(due, period)
    /\ asked' = Longer(asked, period)
    /\ age' = 0
    /\ UNCHANGED fetched

\* DeferAnnounce keeps the peers and the longer cooldown; an entry it has to
\* make was never updated.
DeferAnnounce(period) ==
    /\ payload' = IF payload = "absent" THEN "none" ELSE payload
    /\ wait' = Longer(wait, period) /\ due' = Longer(due, period)
    /\ asked' = Longer(asked, period)
    /\ age' = IF payload = "absent" THEN MaxAge ELSE age
    /\ UNCHANGED fetched

\* A slip in Prune: an expired entry goes with its cooldown.
Prune_DropsCooldown ==
    /\ payload' = IF expired THEN "absent" ELSE payload
    /\ wait' = IF expired THEN 0 ELSE wait
    /\ UNCHANGED <<age, fetched, due, asked>>

\* Prune: an expired entry goes, but while it cools down only its peers do.
Prune ==
    /\ payload' = IF payload = "absent" \/ ~expired THEN payload
                  ELSE IF wait > 0 THEN "none" ELSE "absent"
    /\ UNCHANGED <<wait, age, fetched, due, asked>>

\* Cleanup of the hash, and disableForwarder, delete the entry.
Delete ==
    /\ payload' = "absent" /\ wait' = 0 /\ age' = 0
    /\ fetched' = 0 /\ due' = 0 /\ asked' = 0
-----------------------------------------------------------------------------
\* Peers served to clients were given by the upstream less than MaxAge ago,
\* whatever deferrals, failures and prunings the entry has gone through.
PeersFresh == Served => fetched < MaxAge

\* docs/QUEUE_AND_SCHEDULER.md: "Future upstream cooldowns survive payload
\* expiry."  The cooldown an entry was last given is in force until it is over,
\* although its peers expire and are pruned meanwhile.
CooldownSurvivesExpiry == due > 0 => payload # "absent" /\ wait = due

\* docs/ANNOUNCE_LOGIC.md: a retry period "preserves the shared hash/forwarder
\* cooldown".  Until the upstream has answered with peers again, the cooldown
\* is no shorter than the retry period it asked for.
RetryPeriodKept == asked > 0 => payload # "absent" /\ wait >= asked
=============================================================================
