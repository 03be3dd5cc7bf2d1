------------------------------ MODULE UdpClient ------------------------------
(***************************************************************************)
(* Announces to one UDP tracker (udpForwarder.go): the cached connection   *)
(* ID shared by all announce calls, connecting, retries, the one reconnect *)
(* after a cookie error, cancellation and Stop.  Entries of different      *)
(* trackers share nothing but the mutex.                                   *)
(*                                                                         *)
(* The tracker and the network are external: a request may be lost, or be  *)
(* answered early, late or twice, with an ID, with peers or with an error. *)
(* So a reply to any request sent so far may be what a read returns next.  *)
(* A transaction ID is <<call, n>>: the code draws 32 random bits, assumed *)
(* not to repeat.                                                          *)
(***************************************************************************)
EXTENDS Naturals, FiniteSets

CONSTANTS
    Calls,        \* concurrent AnnounceContext calls
    MaxRetries,   \* uf.maxRetries
    MaxIds,       \* bound: connection IDs the tracker hands out
    NoId          \* no cached entry, or no ID yet

ASSUME UdpClientAssumption ==
    /\ MaxRetries \in Nat \ {0}
    /\ MaxIds \in Nat
    /\ NoId \notin Nat

VARIABLES
    cache,        \* uf.connections: the cached ID, or NoId
    age,          \* of the entry: "fresh" (below lifetime - 10s), "buffer", "old";
                  \* a missing one has the zero timestamp, which is old
    call,         \* per call: program counter and locals
    gone,         \* calls whose parent context is cancelled
    stop,         \* UDPForwarder.Stop: "running", "stopping", "stopped"
    sent,         \* request datagrams, each with the attempt of connect it is from
    issued        \* number of connection IDs handed out by the tracker

vars == <<cache, age, call, gone, stop, sent, issued>>

Ids == 1 .. MaxIds
Txs == Calls \X Nat
CallPC == {"idle", "lookup", "connect", "connecting", "store", "announce", "announcing",
           "ok", "failed"}
Running == CallPC \ {"idle", "ok", "failed"}

\* The connection ID in hand, the attempts used up by the announce loop and by
\* connect, the transactions drawn, the one whose reply was accepted, whether
\* the reconnect is spent, and the sockets held.
CallStates == [pc : CallPC, id : Nat, retry : 0 .. MaxRetries - 1, tries : 0 .. MaxRetries - 1,
               tx : Nat, answered : Nat, reconnected : BOOLEAN, open : Nat]

IdleCall == [pc |-> "idle", id |-> 0, retry |-> 0, tries |-> 0, tx |-> 0, answered |-> 0,
             reconnected |-> FALSE, open |-> 0]

\* The type invariant; the retry counters stay within their loops.
TypeOK ==
    /\ cache \in Nat \cup {NoId}
    /\ age \in {"fresh", "buffer", "old"}
    /\ call \in [Calls -> CallStates]
    /\ gone \subseteq Calls
    /\ stop \in {"running", "stopping", "stopped"}
    /\ sent \subseteq [tx : Txs, id : Nat \cup {NoId}, try : Nat]
    /\ issued \in Nat

Init ==
    /\ cache = NoId /\ age = "old"
    /\ call = [c \in Calls |-> IdleCall]
    /\ gone = {} /\ stop = "running"
    /\ sent = {} /\ issued = 0
-----------------------------------------------------------------------------
\* The peer left or the client stops.
Cancelled(c) == c \in gone \/ stop # "running"

Set(c, x) == call' = [call EXCEPT ![c] = x]

\* The call returns; its deferred functions close the socket it holds.
Return(c, pc) == Set(c, [call[c] EXCEPT !.pc = pc, !.open = 0])

\* AnnounceContext: tasks.begin refuses once Stop has begun.
Begin(c) ==
    /\ call[c].pc = "idle"
    /\ Set(c, [call[c] EXCEPT !.pc = IF stop = "running" THEN "lookup" ELSE "failed"])
    /\ UNCHANGED <<cache, age, gone, stop, sent, issued>>

\* dialUDP, and the locals of connect when it succeeds.
Dial(c, x) ==
    \/ Set(c, [x EXCEPT !.pc = "connect", !.open = @ + 1, !.id = 0, !.tries = 0,
                      !.tx = @ + 1])
    \/ Set(c, [x EXCEPT !.pc = "failed", !.open = 0])

\* getConnectionID: a fresh entry is used, else connect is called.
GetConnectionID(c) ==
    /\ call[c].pc = "lookup"
    /\ \/ /\ cache # NoId /\ age = "fresh"
          /\ \/ Set(c, [call[c] EXCEPT !.pc = "announce", !.id = cache, !.open = @ + 1])
             \/ Return(c, "failed")
       \/ ~(cache # NoId /\ age = "fresh") /\ Dial(c, call[c])
    /\ UNCHANGED <<cache, age, gone, stop, sent, issued>>

\* waitRetry and the write; one that fails is a datagram that is lost.  Stop
\* reaches the call's context through a goroutine, so it may be seen late.
Send(c, id, next, x) ==
    \/ /\ c \notin gone
       /\ sent' = sent \cup {[tx |-> <<c, x.tx>>, id |-> id, try |-> x.tries]}
       /\ Set(c, [x EXCEPT !.pc = next])
    \/ /\ Cancelled(c)
       /\ Return(c, "failed")
       /\ UNCHANGED sent

\* Every attempt of one connect has the same transaction.
ConnectSend(c) ==
    /\ call[c].pc = "connect"
    /\ Send(c, NoId, "connecting", call[c])
    /\ UNCHANGED <<cache, age, gone, stop, issued>>

\* A slip in connect: after the last attempt it falls out of the loop.
ConnectRetry_FallsThrough(c) ==
    IF call[c].tries + 1 >= MaxRetries THEN Set(c, [call[c] EXCEPT !.pc = "store"])
    ELSE Set(c, [call[c] EXCEPT !.pc = "connect", !.tries = @ + 1])

\* A slip in connect: one attempt too many.
ConnectRetry_OneMore(c) ==
    IF call[c].tries >= MaxRetries THEN Return(c, "failed")
    ELSE Set(c, [call[c] EXCEPT !.pc = "connect", !.tries = @ + 1])

\* A failed connect attempt: the next one, or an error after the last.
ConnectRetry(c) ==
    IF call[c].tries + 1 >= MaxRetries THEN Return(c, "failed")
    ELSE Set(c, [call[c] EXCEPT !.pc = "connect", !.tries = @ + 1])

\* A slip in readUDPTrackerResponse: the transaction is not compared.
Readable_AnyTransaction(c) == {q \in sent : q.tx[1] = c}

\* readUDPTrackerResponse skips replies to other transactions than the current
\* one; these are the requests whose reply it can return.
Readable(c) == {q \in sent : q.tx = <<c, call[c].tx>>}

\* connect: the deadline passes or the reply is unusable.
ConnectTimeout(c) ==
    /\ call[c].pc = "connecting"
    /\ ConnectRetry(c)
    /\ UNCHANGED <<cache, age, gone, stop, sent, issued>>

\* connect: a tracker error, or an ID the tracker has just made up.
ConnectReply(c) ==
    /\ call[c].pc = "connecting"
    /\ Readable(c) # {}
    /\ \/ Return(c, "failed") /\ UNCHANGED issued
       \/ /\ issued < MaxIds
          /\ issued' = issued + 1
          /\ Set(c, [call[c] EXCEPT !.pc = "store", !.id = issued + 1])
    /\ UNCHANGED <<cache, age, gone, stop, sent>>

\* connect under connMu.
StoreConnectionID(c) ==
    /\ call[c].pc = "store"
    /\ cache' = call[c].id
    /\ age' = "fresh"
    /\ Set(c, [call[c] EXCEPT !.pc = "announce"])
    /\ UNCHANGED <<gone, stop, sent, issued>>

\* Every announce attempt has a transaction of its own.
AnnounceSend(c) ==
    /\ call[c].pc = "announce"
    /\ Send(c, call[c].id, "announcing", [call[c] EXCEPT !.tx = @ + 1])
    /\ UNCHANGED <<cache, age, gone, stop, issued>>

AnnounceRetry(c) ==
    IF call[c].retry + 1 >= MaxRetries THEN Return(c, "failed")
    ELSE Set(c, [call[c] EXCEPT !.pc = "announce", !.retry = @ + 1])

\* A slip in AnnounceContext: no deadline is set for the read.
AnnounceTimeout_NoDeadline(c) ==
    /\ call[c].pc = "announcing" /\ Cancelled(c)
    /\ AnnounceRetry(c)
    /\ UNCHANGED <<cache, age, gone, stop, sent, issued>>

\* The deadline passes or the reply is unusable.
AnnounceTimeout(c) ==
    /\ call[c].pc = "announcing"
    /\ AnnounceRetry(c)
    /\ UNCHANGED <<cache, age, gone, stop, sent, issued>>

\* A reply with peers.
AnnounceOk(c) ==
    /\ call[c].pc = "announcing"
    /\ \E q \in Readable(c) :
          Set(c, [call[c] EXCEPT !.pc = "ok", !.open = 0, !.answered = q.tx[2]])
    /\ UNCHANGED <<cache, age, gone, stop, sent, issued>>

\* A slip in AnnounceContext: the socket stays open over the reconnect.
AnnounceError_KeepsSocket(c) ==
    /\ call[c].pc = "announcing"
    /\ Readable(c) # {}
    /\ cache' = NoId /\ age' = "old"
    /\ \/ ~call[c].reconnected /\ Dial(c, [call[c] EXCEPT !.reconnected = TRUE])
       \/ Return(c, "failed")
    /\ UNCHANGED <<gone, stop, sent, issued>>

\* A slip in AnnounceContext: every cookie error leads to a reconnect.
AnnounceError_AlwaysReconnects(c) ==
    /\ call[c].pc = "announcing"
    /\ Readable(c) # {}
    /\ cache' = NoId /\ age' = "old"
    /\ \/ Dial(c, [call[c] EXCEPT !.reconnected = TRUE, !.open = @ - 1])
       \/ Return(c, "failed")
    /\ UNCHANGED <<gone, stop, sent, issued>>

\* A tracker error drops the cached ID.  A cookie error, the first choice, is
\* met once with a reconnect that does not use up an attempt.
AnnounceError(c) ==
    /\ call[c].pc = "announcing"
    /\ Readable(c) # {}
    /\ cache' = NoId /\ age' = "old"
    /\ \/ /\ ~call[c].reconnected
          /\ Dial(c, [call[c] EXCEPT !.reconnected = TRUE, !.open = @ - 1])
       \/ Return(c, "failed")
    /\ UNCHANGED <<gone, stop, sent, issued>>

\* What a call does without hearing from the tracker, and what it hears.
OwnStep(c) ==
    \/ GetConnectionID(c) \/ ConnectSend(c) \/ ConnectTimeout(c) \/ StoreConnectionID(c)
    \/ AnnounceSend(c) \/ AnnounceTimeout(c)
HearTracker(c) == ConnectReply(c) \/ AnnounceOk(c) \/ AnnounceError(c)
-----------------------------------------------------------------------------
\* The peer's session ends.
CancelCall(c) ==
    /\ call[c].pc \in Running /\ c \notin gone
    /\ gone' = gone \cup {c}
    /\ UNCHANGED <<cache, age, call, stop, sent, issued>>

\* Time passes for the cached entry.
Age ==
    /\ cache # NoId
    /\ \/ age = "fresh" /\ age' = "buffer"
       \/ age = "buffer" /\ age' = "old"
    /\ UNCHANGED <<cache, call, gone, stop, sent, issued>>

\* cleanupConnections.
CleanupConnections ==
    /\ stop = "running"
    /\ cache # NoId /\ age = "old"
    /\ cache' = NoId /\ age' = "old"
    /\ UNCHANGED <<call, gone, stop, sent, issued>>

\* Stop: backgroundTasks.stop cancels every context ...
StopRequest ==
    /\ stop = "running"
    /\ stop' = "stopping"
    /\ UNCHANGED <<cache, age, call, gone, sent, issued>>

\* A slip in Stop: the entries are cleared without waiting for the calls.
StopClear_NoWait ==
    /\ stop = "stopping"
    /\ stop' = "stopped"
    /\ cache' = NoId /\ age' = "old"
    /\ UNCHANGED <<call, gone, sent, issued>>

\* ... and once wg.Wait returns the entries are cleared.
StopClear ==
    /\ stop = "stopping"
    /\ \A c \in Calls : call[c].pc \notin Running
    /\ stop' = "stopped"
    /\ cache' = NoId /\ age' = "old"
    /\ UNCHANGED <<call, gone, sent, issued>>

Next ==
    \/ \E c \in Calls : Begin(c) \/ OwnStep(c) \/ HearTracker(c) \/ CancelCall(c)
    \/ Age \/ CleanupConnections \/ StopRequest \/ StopClear

Spec == Init /\ [][Next]_vars

\* Reads have deadlines and backoffs have timers, so a call keeps going on its
\* own; the tracker owes nothing.
FairSpec == Spec /\ \A c \in Calls : WF_vars(OwnStep(c))
-----------------------------------------------------------------------------
\* Stop leaves nothing behind: no call is under way, no socket is open, and no
\* connect that was finishing meanwhile has put an ID back into the cache.
StopIsClean ==
    stop = "stopped" => /\ cache = NoId
                        /\ \A c \in Calls : call[c].pc \notin Running /\ call[c].open = 0

\* Every way out of an announce, the reconnect included, closes what it opened,
\* and a call never holds two sockets.
NoSocketLeak ==
    \A c \in Calls :
        /\ call[c].open <= 1
        /\ call[c].pc \notin Running => call[c].open = 0

\* A cached ID is one the tracker handed out: connect does not fall out of its
\* retry loop with the zero ID.
CachedIdWasIssued == cache # NoId => cache \in 1 .. issued

\* An announce succeeds by the reply to its latest attempt, sent under the ID
\* the call holds: replies to attempts given up earlier do not count.
OkAnswersLastAttempt ==
    \A c \in Calls : call[c].pc = "ok" =>
        \E q \in sent : /\ q.tx = <<c, call[c].answered>> /\ q.id = call[c].id
                        /\ \A r \in sent : r.tx[1] = c => r.tx[2] <= q.tx[2]

\* The datagrams of one call are bounded although a reconnect gives an attempt
\* back: MaxRetries announces and one more, and MaxRetries connect requests for
\* each of two runs of connect.
RequestsBounded ==
    \A c \in Calls :
        /\ Cardinality({q \in sent : q.tx[1] = c /\ q.id # NoId}) <= MaxRetries + 1
        /\ Cardinality({q \in sent : q.tx[1] = c /\ q.id = NoId}) <= 2 * MaxRetries

\* Every announce returns, whatever the tracker and the network do.
CallsReturn == \A c \in Calls : (call[c].pc = "lookup") ~> (call[c].pc \in {"ok", "failed"})
=============================================================================
