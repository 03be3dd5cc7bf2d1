# Verification of retracker

retracker is a BitTorrent tracker that answers clients from memory and forwards
their announces to upstream trackers ("forwarders") in the background. The
modules here model its concurrent core, TLC checks them on small instances and
TLAPS proves the central facts for every instance.

## Inventory

| Part | State | Operations | Interaction |
|---|---|---|---|
| Peer storage (`storage.go`) | `Requests`, `peerSessions` under `requestsMu` | `Update`, `deleteLocked`, `purgeExpired`, `Close` | owns the hash lifetime of the forwarder cache |
| Forwarder cache (`forwarderStorage.go`) | `Entries` per hash and forwarder: peers, `NextAnnounce` | `UpdatePeers`, `DeferAnnounce`, `Prune`, `Cleanup` | written by workers, read by receivers |
| Job tables (`forwarderManager.go`) | `pendingJobs`, channel `jobQueue`, `scheduledJobs` | `queueEligibleAnnounces`, `finishJob`, `scheduleJob`, `cancelPendingJobs` | shared by receivers, workers, scheduler |
| Forwarder registry (`forwarderManager.go`) | list, disabled, suspended, failure counts, a mutex each | `registerFailure`, `disableForwarder`, `suspendForwarderWithReason`, `AddRuntimeForwarder` | written by workers and the add endpoint |
| Announce receiver (`receiverAnnounce.go`) | none of its own | started / completed / stopped announces | HTTP and UDP requests run concurrently |
| Admission (`forwarderManager.go`, `receiverAnnounce.go`) | token bucket, fill of the queue | `shouldRateLimitInitial`, `allow`, `isQueueFull` | asked for the first announce of a hash |
| Answers (`receiverAnnounce.go`, `scrape.go`) | none | `getPeersForResponse`, `filterPeers`, `getScrapeStats` | read storage and cache |
| Start-up checks (`forwarderManager.go`) | the configured list | validate, DNS check, deduplicate | before anything runs |
| Workers (`forwarderAnnounce.go`, `forwarderHTTP.go`, `errors.go`) | the job in hand, attempts, backoff | take, announce, classify, cache the result, fail, retry | one goroutine each |
| Scheduler (`forwarderManager.go`) | slices taken from `scheduledJobs` | prune, extract, requeue | 5 s ticker |
| Worker pool, shutdown (`forwarderManager.go`, `background.go`, `core.go`) | worker count, scale-down channel, stop channel, wait group | `Start`, `scaleWorkers`, `Stop`, `Core.Close`, `ensureForwarderManager` | the manager may be created by a request at any time |
| UDP client (`udpForwarder.go`) | connection-ID cache under `connMu` | connect, announce, retry, reconnect, `Stop` | called by workers; one entry per tracker, shared by all |
| UDP receiver (`receiverUDP.go`) | connection IDs handed out, a goroutine per packet | connect, announce, scrape, sweep, `Close` | calls the announce receiver under `forwarderMu` |
| Everything else | configuration, wire formats, statistics | | values or text only, see `PROJECT.json` |

What is hard here is the concurrency: a job outlives the request that created
it, the peer session it belongs to may end and begin again while the job is
queued, in flight, scheduled for a retry or in a slice the scheduler has taken
out, and four tables with mutexes of their own must agree about it all the
time. Around it are goroutines that must be counted and ended exactly once, and
the two ends of a lossy datagram protocol. `PROJECT.json` lists the hazards at
their lines. What makes each part correct:

- storage and cache: cached upstream state lives and dies with the local peers;
- job tables: one live job per key, no marker without somebody who removes it;
- registry: additions list a name once, a full failure count has consequences;
- pool and shutdown: the count is the truth, nothing survives `Core.Close`;
- UDP client: an answer belongs to the latest attempt, requests are bounded, no
  socket or cache entry is left behind;
- UDP receiver: IDs are accepted as long as BEP 15 asks and not much longer;
- announce to an upstream: attempts end, cooldowns and peers live as long as they
  should, and a forwarder pays only for what it did;
- admission: burst and rate bound what gets through, and a token comes in time;
- start-up checks and answers: the loops compute what they are meant to.

## The forwarding core

`ForwarderRegistry`, `PeerStorage` and `JobTable` hold the shared state, one
operator per critical section. `Forwarding` composes them with the actors:

| Actor | Actions | Code |
|---|---|---|
| request handlers | `Announce`, `Admit`, `Select`, `Mark` (`Skip`, `Reserve`), `Send`, `Refused`, `Return`; `Stopped`, `CancelPending`; `Completed`; `Add`, `AddClear`, `AddUnsuspend`, `AddList` | `handleRegularAnnounce`, `queueEligibleAnnounces`, `handleStoppedEvent`, `handleCompletedEvent`, `AddRuntimeForwarder` |
| workers | `Take`, `Answer`, `PublishPeers`, `WriteCache`, `ResetFailure`, `SuspendForwarder`, `RegisterFailure`, `Disable*`, `CheckDisabled`, `RecordAttempt`, `DeferAnnounce`, `ScheduleRetry`, `Finish`, `Exit` | `worker`, `executeAnnounce`, `handleAnnounceResult`, `updatePeerCache`, `handleRetryError` |
| scheduler | `Tick`, `Extract`, `FinishCanceled`, `ProcessReady`, `Drained`, `ExitScheduler` | `schedulerRoutine`, `processScheduledReadyJob` |
| others | `Purge`, `StopRequest`, `StopLock`, `StopClear`, `CloseStorage`, `TimePasses` | `purgeExpired`, `ForwarderManager.Stop`, `Core.Close` |

Abstractions, and why they are sound:

- A session is the `context.Context` of a peer, numbered per peer. Contexts are
  compared by identity in the code; a number that grows is an identity.
- A job's `announceJobState` pointer is the field `id`, drawn from the ids no
  live reference uses, so pointer equality is equality of jobs.
- Time is abstract: a cooldown or suspension may end, a peer expire and a retry
  become due at any moment. This includes every schedule real clocks allow.
- `Take` joins the receive with the cancelled, stopping, disabled and suspended
  checks before the request; nothing is written between them, and a change that
  falls between two of them is the same as one that falls after. The worker's
  check for a job that is not due yet never holds: only due jobs are queued.
- `Select` sees the candidates at one moment. A candidate that changes state
  later is what `Skip` and `Take` check again, as the code does.
- `ProcessReady` is one step although it takes two mutexes in turn: the job it
  holds is referenced by the scheduler alone, and cancellation in between is
  found by the next tick or by the worker.
- An announce to an upstream is one step with every outcome
  `handleAnnounceResult` and `handleRetryError` tell apart; `HttpAnnounce` and
  `UdpClient` look inside that step.
- `queueMu` is a read-write lock; a waiting writer keeps new readers out
  (`CanReadLock`), as Go's `sync.RWMutex` does.
- `updatePeerCache` tests and writes in two steps (`updatePeerCache`, `WriteCache`)
  and holds `requestsMu` in between (`requestsMuFree`), because `Stop` closes
  `stopChan` under `queueMu` and may come in between. Where a critical section of
  `requestsMu` is one step, only that guard is left of the mutex.
- The list of forwarders is the number of entries of each name (`listings`): what the
  code asks of it is whether a name is there, and `disableForwarder` removes the first
  entry of a name. `Configured` and `StartDisabled` are what `NewForwarderManager`
  leaves, where a name may be listed twice, or listed and disabled, as `Startup` shows.
- That a channel never has more elements than its capacity is Go's doing; no
  property is about it.

`AnnounceService` states what all this promises: one claim per key, claimed
before it is worked on, and cached state only from work for a live session.

## An announce to an upstream: `Cooldown` and `HttpAnnounce`

`Cooldown` is one cache entry under a clock, its instants kept as distances from
now: what is served (`Served`), whether the forwarder may be asked
(`ShouldAnnounceNow`), and the four writers `UpdatePeers`, `DeferAnnounce`, `Prune`
and `Delete`. `HttpAnnounce` puts it together with what writes it: local peers of
one hash announce to one HTTP forwarder and share the entry, the failure count, the
suspension and the one retry slot of `scheduledJobs`.

| Actions | Code |
|---|---|
| `Execute`, `LoopHead`, `Backoff`, `Attempted` | `executeAnnounce`, the loop of `doHTTPAnnounce` |
| `NoAnswer`, `ErrorAnswer`, `GoodAnswer`, `UnroutableAnswer` | `doSingleHTTPRequest`, `errors.go`, `filterRoutableForwarderPeers` |
| `RetryNever`, `RetryIn`, `Schedule` | `handleRetryError`, `scheduleJob` |
| `Publish`, `Fail`, `Punish`, `RegisterFailure`, `Disable`, `RecordAttempt` | `handleAnnounceResult`, `registerFailure`, `disableForwarder` |
| `SchedulerTick`, `ProcessRetry`, `AddRuntimeForwarder`, `Stop`, `SessionStarts`, `Stopped`, `Expired`, `Queue`, `Tick` | scheduler, registry, shutdown, storage, receiver, clock |

An error is the set of word classes its message contains: whether it names the
tracker, speaks of rate limiting, or has one of the permanent patterns; a transport
error may be permanent by its type. `source` remembers whether an error is the
upstream's or a cancellation by the program, which look alike to the classifier: a
cancelled DNS lookup would disable a forwarder for good if it were not for the
checks in `handleAnnounceResult`. `requestContext` gives an attempt a deadline, so
`NoAnswer` is always possible. Cancellation and `stopChan` are seen by each check at
the moment of the check, and may come between any two.

What `Forwarding` has in detail is coarse here: the queue is left out, a job is its
peer's (so a peer does not come back before its old job has ended), `disableForwarder`
is one step and so is a turn of the scheduler. A stop event takes the peer's scheduled
retry out in the same step; after an expiry the scheduler finds it.

## Admission: `Admission`

A token is worth `Interval` units of time, and the time since `lastTick` is kept as
whole tokens and the part of the next one, which is exactly what
`int(elapsed * rate)` computes and cuts off. Handlers pass the three tests of
`handleFirstAnnounce` one by one while the queue changes between them. The history
variables count in a window that `Look` may begin anywhere. The model has rational
time; that a float rounds the last bit of `elapsed.Seconds()` is left out.

## Algorithms: `Startup`, `Answers` and `Algorithms`

Loops over lists and maps, one step per round, so that what a loop has computed so far
is a state to reason about. `Startup` has the four loops of `NewForwarderManager`:
validation, DNS check, grouping by main domain, and the new list. It keeps of a URI
what the code looks at (does it parse, scheme, main domain and what stands before it,
port, path, length), and the answer of DNS is an input, one per host: the code looks a
host up for each of its forwarders, and the model assumes that it gets the same answer
each time during start-up. The passes that disable go
through a copy, and `disableForwarder` removes from the list the first forwarder of
that *name*, not the one that was found bad, as the code does. A name is the
configured one, else host and port. `Answers` has the count of
`getPeersForResponse` and `getScrapeStats`, which visits local peers in any order, as
Go does with maps, and then the cached ones; and the loop of `filterPeers`, which stops
when there are enough. `Algorithms` runs one of them at a time, since they share
nothing, and states what they should have computed at their ends: the best usable
URI of every domain, the first peer of every address at its rank, the number of hosts.
`MCAlgorithms` gives it every small input.

## Goroutines: `Lifecycle`

`Lifecycle` follows who starts and who ends goroutines: `Core.Start`,
`ensureForwarderManager` (requests that arrive before, during and after
`Core.Close`), `worker`, `scaleWorkers` and `backgroundTasks`. Workers are
counted; which job a worker has does not matter here. The queue is the fill
level `scaleWorkers` distinguishes and changes freely. `scaleWorkers` is three
steps because it reads the fill before it takes `workerCountMu` and starts the
worker after releasing it. In between another worker may leave, so the number of
running workers may be one below the base for a moment; `PoolInBounds` counts
the one that is about to start. After `Stop` has begun the count may be too
high, which nobody reads any more.

## Both ends of UDP: `UdpClient` and `UdpReceiver`

`UdpClient` is one tracker and any number of concurrent announces; entries of
different trackers share nothing. A read may return a reply to any request sent
so far, or nothing: datagrams are lost, late and repeated, and the tracker may
answer anything. Transaction IDs are 32 random bits in the code and are assumed
not to repeat; the retransmissions of one `connect` share one, so a request also carries
the attempt it is from and every datagram counts. An entry that is gone has the age
`"old"`, as the zero timestamp of a missing map entry has. An error deletes the cached ID even if another call has just
stored a newer one; that costs a connect and no more. Cancellation of the peer's
context is seen at once, `Stop` reaches the calls through a goroutine of its own
and may be seen later.

`UdpReceiver` is the tracker's own side. Time is counted in parts of a minute,
and a sweep that is due is not put off: without that an ID could be accepted for
any length of time. The age of an ID counts from the moment it is stored, which
is just before it is sent. `forwarderMu` is Go's `sync.RWMutex`: announces hold
it for reading, `Core.Close` takes and releases it before it waits for them, and
a waiting writer keeps new readers out. UDP packets and `Core.Close` are the only users
of it here. Any error of a read ends the intake (`ReaderExit`), with the socket
open or closed; that it ends is only assumed once the socket is closed.

## Runs

Bounds of the forwarding core: one hash and one forwarder in the runs (no table
couples two keys except `scheduledJobs`, where two peers of one key meet, which
`job_loss` has; the theorems are about any number), at most two contexts per peer
(an old and a new session are what the hazards need), a queue of one so that it
is full and empty, and three ids, which TLC showed to suffice: with four, no
reachable state lacks a free id. `restart` has a failure threshold of
one, so that a single failure disables the forwarder and two requests may add it again;
in `liveness` it is listed twice, so that it may be disabled and still listed. Handlers, workers and peers are symmetric in
the safety runs. `Lifecycle` has a base of two workers, a maximum of four and
three tokens, so that more tokens than surplus workers are under way.
`UdpClient` has two calls with retries and two IDs (one is replaced by
another), `UdpReceiver` two packets, one ID (no ID affects another) and
half-minutes, so that a sweep falls before, at and after the end of a lifetime.
`HttpAnnounce` has two peers, two attempts, a failure threshold of two, peers that
expire after one unit and cooldowns of zero to two, so that peers expire before,
with and after their cooldown. `Admission` has a burst of two, three units per token
and windows of up to eight, so that several refills and roundings fall into one
window. `MCAlgorithms` has lists of up to three forwarders of two domains (fourteen URIs,
two of them of equal score, and a configured name), four collected peers, three local
and up to six cached ones, which is enough for a bad entry before, between and after
good ones, and for every pair of peers of one address or host. Deadlock is not
checked where the system stops for good after shutdown, or where a behaviour is one
run of a loop.

| Run | Question |
|---|---|
| `restart` | Two requests of one peer, one worker: do cache, sessions and markers stay consistent through stop, expiry, restart, retry and shutdown, and do two requests that add one forwarder list it once? |
| `workers` | Two workers, a forwarder that is disabled and added again: is no key announced twice, is a full failure count acted upon, and is every step one of `AnnounceService`? |
| `liveness` | Are markers of ended sessions reclaimed, and does `Stop` return? |
| `lifecycle` | Is the worker count exact and the pool in its bounds, does `Core.Close` return, and is nothing left then? |
| `udp_client` | Do announces sharing an ID keep to their own replies, bounds and sockets, and does every one return? |
| `udp_receiver` | Are IDs accepted for two to three minutes, and does `Close` end the intake without deadlock? |
| `upstream` | Does every announce end, are served peers fresh and cooldowns kept through expiry, and does no forwarder pay for our cancellations? |
| `admission` | Do burst and rate hold in every window, and does polling not starve? |
| `algorithms` | Do start-up checks, peer filter and counts agree with their reference definitions? |
| `job_loss`, `retry_period`, `startup_names` | Statements of the documentation and of a comment that TLC refutes; see the findings in `PROJECT.json`. |

Fairness (`FairSpec`): a handler in the middle of a request, a worker with
something to do, the scheduler (its ticker fires every 5 s) and `Stop` keep
going. Leaving the scheduler's loop is strongly fair: its `select` finds the
closed stop channel on every turn and picks at random. No client, expiry or
shutdown is assumed to happen. In `Lifecycle` the same holds of workers and
`scaleWorkers`, and a request under way ends because stopping cancels its
context. In `UdpClient` only a call's own steps are fair, which deadlines and
timers justify; the tracker owes nothing. In `UdpReceiver` goroutines keep going
and packets need not come. In `HttpAnnounce` only the worker's steps are fair:
`ForwardTimeout` ends an attempt and a timer a backoff. Which of the possible answers
comes is never assumed.

## Proofs

All theorems are for every value of the constants that satisfies the named
assumptions, so for any number of hashes, peers, forwarders, handlers, workers and
calls. Every inductive invariant was checked by TLC on the constants of the runs
before it was proved.

`ForwardingProofs` has what needs little more than the types:

- `TypeCorrect`.
- `CacheLifetime`. `CacheNeedsLocalPeer` is not inductive by itself: a worker
  publishes when its session is in `peerSessions`, so `LifetimeInv` adds
  `SessionsHavePeers`, which `Update` and `deleteLocked` keep because they change both
  maps together. `WriteInv` says that a worker between its tests and its write has a
  live session, because `requestsMu` keeps every step out that could end it, and that all
  workers have left when `Stop` returns.
- `LateAnswersDropped` (`PublishOnlyWhileServing`): every other step only removes
  entries, `WriteCache` adds one for the session `WriteInv` speaks of, and a worker comes
  to write only by the tests of `updatePeerCache`. One write may still land after
  `stopChan` is closed; none after `Stop` has returned.
- `FailuresNoticed` (`ThresholdActs`): a count grows only by `registerFailure`, which
  acts on the value it has just written, and only the step that zeroes the count leaves
  `"forget"`.
- `AdditionsListOnce` (`ListedOnce`): the list grows only where `AddRuntimeForwarder`
  looks for the name again under `forwardersMu`. That a listed name is not disabled is no
  theorem: start-up and two additions break it (see the observations below).

`MarkerProofs` proves who owns a job and its marker: `MarkerOwnership`,
`NoOrphanMarkers`, `OneAnnouncePerKey`, `OneOwnerPerJob`, `QuietAfterStop` and, as an
action property, `CancellationIsFinal`. The invariant `MarkerInv` joins them with what
they need of each other:

| Conjunct | Needed because |
|---|---|
| `OneOwner` | `finishJob` takes the marker of the job it is given; that harms nobody only if no other goroutine or table has the same job |
| `OneMarkerPerKey` | a retry overwrites the marker of its key; it may only be its predecessor's |
| `SessionsKnown` | `cancelPendingJobs` and the scheduler drop markers of ended sessions; `Update` must not bring one back, so sessions in use are among those created |
| `IdleHoldsNone` | a goroutine that takes up a job had let go of the last one |
| `ShutdownInv` | `StopClear` empties the tables; that is final only because producers have left `queueMu` before `stopChan` is closed |

`Moves` sorts the steps: a few move a job (reserve, send, refuse, cancel, take, retry,
finish, extract, requeue, clear), all others leave every job and marker in place. The
conjuncts are then shown for the moves, one lemma per actor.

It also proves `ServiceImplemented`, the refinement of `AnnounceService`: one
lemma per action of the service says what it looks like under the mapping, and one per
actor picks the action each step implements. It uses both invariants: a marker set is a
claim because `enqueue` found the key free under the same lock, a job taken is claimed by
`LiveJobOwnsMarker`, a retry takes over exactly its predecessor's claim by
`OneMarkerPerKey`, an announce that ends is at work nowhere else by `OneOwner`, and the
cache goes exactly with the last peer by `LifetimeInv`.

`UdpClientProofs` proves `TypeCorrect`, `StopClean`, `SocketsClosed`, `CachedIds`,
`OkByLastAttempt` and `RequestBound`. `IInv` follows each call: which steps have a socket
(`Sockets`), where the ID in hand comes from (`IdInHand`), that the transaction numbers in
use are the call's own and its latest one is the largest (`Transactions`), and how many
announces and connects it has sent against the attempts and the reconnect it still has
(`AnnounceBudget`, `ConnectBudget`). The bound is not inductive without the last two: a
reconnect gives an attempt back, and only that it happens once keeps the sum down. The
connect datagrams are split into those of the run of `connect` under way, one for each
attempt made (`ThisRun`), and those of the run before (`EarlierRun`).

`LifecycleProofs` proves `WorkerCountExact`, `PoolStaysInBounds` and
`CloseIsQuiet`, besides type correctness, for every pool size. The bounds rest on the count being exact: a
worker decides by the count whether it may leave, so `PoolInv` carries both, and
that nothing runs before `Start`. `CloseInv` adds how far `Core.Close` has come
and what has ended by then.

`UdpReceiverProofs` proves `ReceiverTypeCorrect`, `IdsAcceptedForLifetime`,
`IdsRefusedAfterSweep` and `IntakeStaysEnded`. The upper bound is not inductive: the invariant `SweepDue`
says that age plus the time to the next sweep stays within three minutes.

`AdmissionProofs` proves `AdmissionTypeCorrect`, `RateBounded` and `PollersServed`
for every burst, rate and number of handlers. `BucketInv` is a potential argument:
what was let through in the window, the tokens left and the time since `lastTick`
together never exceed the burst, the part of a token that was there when the window
began, and the time that has passed. For polling it adds that an empty bucket has
not been dry for longer than the time kept since `lastTick`.

`HttpAnnounceProofs` proves `UpstreamTypeCorrect`, `PeersServedFresh`,
`CooldownOutlivesPeers`, `ForwarderNotBlamed` and `DeferralWaits` for any number of
peers, attempts and periods. `StepIsCacheStep` first shows that whatever happens to
the entry is one of the operations of `Cooldown`, so that the entry's own invariant
(its peers are as old as it says, and its cooldown is the one last given) needs one case per operation. `JobInv` says that a job with the
program's own error belongs to a session that has ended or a manager that is
stopping; since neither is undone while the job lives, the check before the
punishment always sees it.

`AlgorithmsProofs` proves `StartupKeepsBest`, `FilterIsExact` and `CountIsOfHosts` for
inputs of every length. Induction over the input is out of the prover's reach, but an
invariant of a loop is not: `LoopInv` says what each loop has computed of the part it
has gone through.

| Part | What it says |
|---|---|
| `CountInv` | the IPs seen split into those counted as seeders and those counted as leechers; the latter have a local leecher, the former a local seeder or no local peer |
| `FilterInv` | what was taken of the first places is the first peer of every eligible address, each at its rank, and no eligible address is left |
| `Passed` | in a pass that disables, the list is what it left of the entries behind it, none of them bad, and then the entries ahead |
| `Grouped` | `toKeep` has one URI of every domain seen, of the highest score seen; without duplicates no two entries seen are of one domain |
| `Rebuilt` | the new list has, of the entries seen, those to keep |

`Passed` is where names matter: that the first forwarder of the bad entry's name is the
bad entry itself rests on all entries before it being good and so, by `NamesAgree`, of
other names. `NamesAgree` is the hypothesis of `StartupKeepsBest`, and the run
`startup_names` shows that it is needed. `OnlyMissingPortsDisagree` says how far it
reaches: where no names are configured and all URIs parse, it fails only if a UDP
forwarder without a port shares its host with a forwarder of another scheme that has
none either; `http` and `udp` on one host and port satisfy it.

Checked by TLC only, because it is out of the prover's reach: the liveness properties
(`DeadMarkersReclaimed`, `ShutdownCompletes`, `CloseReturns`, `CallsReturn`,
`IntakeCloses`, `AnnouncesReturn`), which rest on fairness. Every safety property of the
passing runs is also a theorem.

## Observations without a run

Seen while modelling, each one comparison or one interleaving and easy to see in the
code once known:

- A forwarder can be listed and disabled: by start-up when two URIs share its name
  (`startup_names`), by disabling one of two entries, and by two concurrent additions
  around a disabling (`AddRuntimeForwarder` holds `queueMu` for reading only, and looks,
  clears and lists in separate critical sections). `queueEligibleAnnounces` looks at the
  list and not at `disabledForwarders` (compare "disabled?" at
  `docs/ANNOUNCE_LOGIC.md:194`), so it chooses the forwarder for every announce and
  `executeAnnounce` drops the job.
- `updatePeerCache` looks at `stopChan` without `queueMu`, so the answer of one worker
  may be cached just after `Stop` has closed it.
- Any error of a UDP read ends `handlePackets`; the receiver then answers nobody although
  its socket stays open.
- Under throttling the limit becomes `queue_throttle_top_n` even where
  `max_forwarders_per_announce` is smaller; `docs/ANNOUNCE_LOGIC.md:239` says minimum.
- A success in flight recreates the cache entry of a forwarder disabled meanwhile;
  compare the wording at `forwarderAnnounce_test.go:461`.
- `executeAnnounce` and the scheduler do not look at the cooldown again, so a job
  queued before another peer's deferral still asks the upstream.
- A URI that is listed twice stays listed twice: `removeDuplicateForwardersByDomain`
  keeps by URI. `BestUsableKept` is about the set of URIs.
- URIs that do not parse are dropped at start-up only when some domain has
  duplicates.
- If a seeder and a leecher share an IP, which of them is counted depends on the
  order in which Go visits the map; `CountsAreHosts` allows either.

## Not modelled

Request parsing, bencoding and the UDP byte layouts; configuration and command line;
the temporary announce log; statistics, metrics and the console: values and text
without influence on the state above. `ForwardStoppedEvent`, `ForwardCompletedEvent`,
`GetNextAnnounceJobs` and `MarkAnnounced` have no caller outside tests. The announced
interval is a constant of the configuration (`clampInterval`).

## What could come next

The wire formats (BEP 15 packets, compact peers) as conversions with their inverses,
and the configuration's defaults. Both are functions of bytes and text that the rest of
the model abstracts from.
