----------------------------- MODULE UdpReceiver -----------------------------
(***************************************************************************)
(* The UDP tracker (receiverUDP.go): connection IDs handed to clients and  *)
(* swept once a minute, one goroutine per packet, and Close as Core.Close  *)
(* (core.go) calls it, with the forwarderMu that announces hold for        *)
(* reading.                                                                *)
(*                                                                         *)
(* Clients and the network are external: any packet may arrive at any      *)
(* time.  Time is counted in units of a Minute-th of a minute.  What an    *)
(* announce does is in Forwarding.                                         *)
(***************************************************************************)
EXTENDS Naturals

CONSTANTS
    Handlers,   \* bound: goroutines of handlePacket at a time
    Ids,        \* bound: connection IDs in use at a time
    Minute,     \* units of time in a minute
    NoId

ASSUME UdpReceiverAssumption == Minute \in Nat \ {0}

VARIABLES
    connections,  \* keys of ru.connections
    age,          \* their ages, also after the entry is gone
    untilSweep,   \* time to the next tick of cleanupConnections
    conn,         \* ru.conn: "none", "open", "closed"
    closing,      \* Core.Close: "no", "wanted" (forwarderMu), "locked", "flagged",
                  \* "waiting" (for wg), "done"
    reader,       \* handlePackets: "none", "reading", "read"
    packet,       \* the packet it has read
    sweeper,      \* cleanupConnections: "none", "running"
    handler       \* goroutines of handlePacket: program counter and packet

timeVars == <<connections, age, untilSweep>>
vars == <<timeVars, conn, closing, reader, packet, sweeper, handler>>

Lifetime == 2 * Minute
Forgotten == 3 * Minute + 1        \* this old, or never issued

\* A connect, or an announce or scrape with any ID, issued or not.
NoPacket == [kind |-> "none", id |-> NoId]
Packets == [kind : {"connect"}, id : {NoId}] \cup [kind : {"announce", "scrape"}, id : Ids]

Free == [pc |-> "free", packet |-> NoPacket]

HandlerPC == {"free", "start", "store", "valid", "announce", "reply"}

TypeOK ==
    /\ connections \subseteq Ids
    /\ age \in [Ids -> 0 .. Forgotten]
    /\ untilSweep \in 0 .. Minute
    /\ conn \in {"none", "open", "closed"}
    /\ closing \in {"no", "wanted", "locked", "flagged", "waiting", "done"}
    /\ reader \in {"none", "reading", "read"} /\ packet \in Packets \cup {NoPacket}
    /\ sweeper \in {"none", "running"}
    /\ handler \in [Handlers -> [pc : HandlerPC, packet : Packets \cup {NoPacket}]]

Init ==
    /\ connections = {} /\ age = [i \in Ids |-> Forgotten]
    /\ untilSweep = Minute
    /\ conn = "none" /\ closing = "no"
    /\ reader = "none" /\ packet = NoPacket /\ sweeper = "none"
    /\ handler = [h \in Handlers |-> Free]
-----------------------------------------------------------------------------
\* Start, when the address can be bound; run calls it before Close.
Start ==
    /\ conn = "none" /\ closing = "no"
    /\ conn' = "open"
    /\ reader' = "reading" /\ sweeper' = "running"
    /\ untilSweep' = Minute
    /\ UNCHANGED <<connections, age, closing, packet, handler>>

\* handlePackets: a packet long enough to be looked at; a read that was under
\* way may still return it while the socket is being closed.
ReadPacket ==
    /\ reader = "reading" /\ conn = "open"
    /\ reader' = "read" /\ packet' \in Packets
    /\ UNCHANGED <<timeVars, conn, closing, sweeper, handler>>

\* wg.Add and the goroutine of a packet.
Dispatch(h) ==
    /\ reader = "read"
    /\ handler[h].pc = "free"
    /\ handler' = [handler EXCEPT ![h] = [pc |-> "start", packet |-> packet]]
    /\ reader' = "reading" /\ packet' = NoPacket
    /\ UNCHANGED <<timeVars, conn, closing, sweeper>>

\* The read fails, because the socket is closed or for another reason; any
\* error ends the intake and nothing starts it again.
ReaderExit ==
    /\ reader = "reading"
    /\ reader' = "none"
    /\ UNCHANGED <<timeVars, conn, closing, packet, sweeper, handler>>

Step(h, pc) == handler' = [handler EXCEPT ![h].pc = pc]

\* handlePacket: a connect, or a look at the ID under connMu, which is not
\* repeated later; or an error, for a wrong action or a short packet too.
Validate(h) ==
    /\ handler[h].pc = "start"
    /\ \/ handler[h].packet.kind = "connect" /\ Step(h, "store")
       \/ handler[h].packet.id \in connections /\ Step(h, "valid")
       \/ Step(h, "reply")
    /\ UNCHANGED <<timeVars, conn, closing, reader, packet, sweeper>>

\* handleConnect: a random ID, assumed not to be in use, stored under connMu.
\* Where none of the bounded Ids is left the packet is as good as lost.
HandleConnect(h) ==
    /\ handler[h].pc = "store"
    /\ LET unused == {i \in Ids \ connections : age[i] = Forgotten} IN
       \/ \E i \in unused : /\ connections' = connections \cup {i}
                            /\ age' = [age EXCEPT ![i] = 0]
       \/ unused = {} /\ UNCHANGED <<connections, age>>
    /\ Step(h, "reply")
    /\ UNCHANGED <<untilSweep, conn, closing, reader, packet, sweeper>>

\* ProcessAnnounce takes forwarderMu for reading and keeps it, handleScrape
\* gives it back at once; a writer that waits keeps new readers out.
HandleRequest(h) ==
    /\ handler[h].pc = "valid"
    /\ closing \notin {"wanted", "locked"}
    /\ Step(h, IF handler[h].packet.kind = "announce" THEN "announce" ELSE "reply")
    /\ UNCHANGED <<timeVars, conn, closing, reader, packet, sweeper>>

\* A slip in ReceiverUDP.ProcessAnnounce: its ReceiverAnnounce gets forwarderMu
\* as well and takes it a second time.
AnnounceDone_Relocks(h) ==
    /\ handler[h].pc = "announce"
    /\ closing \notin {"wanted", "locked"}
    /\ Step(h, "reply")
    /\ UNCHANGED <<timeVars, conn, closing, reader, packet, sweeper>>

\* ReceiverAnnounce.ProcessAnnounce is through, without taking forwarderMu.
AnnounceDone(h) ==
    /\ handler[h].pc = "announce"
    /\ Step(h, "reply")
    /\ UNCHANGED <<timeVars, conn, closing, reader, packet, sweeper>>

\* The answer or error goes out, or is lost with the socket, and wg.Done.
Reply(h) ==
    /\ handler[h].pc = "reply"
    /\ handler' = [handler EXCEPT ![h] = Free]
    /\ UNCHANGED <<timeVars, conn, closing, reader, packet, sweeper>>

Handle(h) == Validate(h) \/ HandleConnect(h) \/ HandleRequest(h) \/ AnnounceDone(h) \/ Reply(h)
-----------------------------------------------------------------------------
\* Time passes; a tick of the ticker that is due is not put off.
Tick ==
    /\ sweeper = "running" => untilSweep > 0
    /\ age' = [i \in Ids |-> IF age[i] < Forgotten THEN age[i] + 1 ELSE Forgotten]
    /\ untilSweep' = IF untilSweep > 0 THEN untilSweep - 1 ELSE 0
    /\ UNCHANGED <<connections, conn, closing, reader, packet, sweeper, handler>>

\* A slip in cleanupConnections: an ID goes when it is two minutes old.
Sweep_AtLifetime ==
    /\ sweeper = "running" /\ untilSweep = 0
    /\ connections' = {i \in connections : age[i] < Lifetime}
    /\ untilSweep' = Minute
    /\ UNCHANGED <<age, conn, closing, reader, packet, sweeper, handler>>

\* A slip in cleanupConnections: the ticker has the period of the lifetime.
Sweep_Seldom ==
    /\ sweeper = "running" /\ untilSweep = 0
    /\ connections' = {i \in connections : age[i] <= Lifetime}
    /\ untilSweep' = Lifetime
    /\ UNCHANGED <<age, conn, closing, reader, packet, sweeper, handler>>

\* cleanupConnections.
Sweep ==
    /\ sweeper = "running" /\ untilSweep = 0
    /\ connections' = {i \in connections : age[i] <= Lifetime}
    /\ untilSweep' = Minute
    /\ UNCHANGED <<age, conn, closing, reader, packet, sweeper, handler>>

SweeperExit ==
    /\ sweeper = "running" /\ conn = "closed"
    /\ sweeper' = "none"
    /\ UNCHANGED <<timeVars, conn, closing, reader, packet, handler>>
-----------------------------------------------------------------------------
\* Core.Close locks forwarderMu, which waits for the announces that hold it, ...
CloseBegin ==
    /\ closing = "no"
    /\ closing' = "wanted"
    /\ UNCHANGED <<timeVars, conn, reader, packet, sweeper, handler>>

CloseLock ==
    /\ closing = "wanted"
    /\ \A h \in Handlers : handler[h].pc # "announce"
    /\ closing' = "locked"
    /\ UNCHANGED <<timeVars, conn, reader, packet, sweeper, handler>>

\* ... and gives it back before ...
CloseUnlock ==
    /\ closing = "locked"
    /\ closing' = "flagged"
    /\ UNCHANGED <<timeVars, conn, reader, packet, sweeper, handler>>

\* ... ReceiverUDP.Close, which returns at once if there is no socket, or
\* closes it ...
CloseSocket ==
    /\ closing = "flagged"
    /\ closing' = IF conn = "none" THEN "done" ELSE "waiting"
    /\ conn' = IF conn = "none" THEN conn ELSE "closed"
    /\ UNCHANGED <<timeVars, reader, packet, sweeper, handler>>

\* A slip in Start: handlePackets is not counted in wg.
CloseWait_ReaderUncounted ==
    /\ closing = "waiting"
    /\ sweeper = "none" /\ \A h \in Handlers : handler[h].pc = "free"
    /\ closing' = "done"
    /\ UNCHANGED <<timeVars, conn, reader, packet, sweeper, handler>>

\* ... and waits for wg: both routines and every packet.
CloseWait ==
    /\ closing = "waiting"
    /\ reader = "none" /\ sweeper = "none" /\ \A h \in Handlers : handler[h].pc = "free"
    /\ closing' = "done"
    /\ UNCHANGED <<timeVars, conn, reader, packet, sweeper, handler>>

Next ==
    \/ Start \/ ReadPacket \/ ReaderExit
    \/ \E h \in Handlers : Dispatch(h) \/ Handle(h)
    \/ Tick \/ Sweep \/ SweeperExit
    \/ CloseBegin \/ CloseLock \/ CloseUnlock \/ CloseSocket \/ CloseWait

Spec == Init /\ [][Next]_vars

\* Goroutines keep going, and no read is left once the socket is closed.
FairSpec ==
    /\ Spec
    /\ \A h \in Handlers : WF_vars(Handle(h))
    /\ WF_vars(\E h \in Handlers : Dispatch(h))
    /\ WF_vars(conn = "closed" /\ ReaderExit) /\ WF_vars(SweeperExit)
    /\ WF_vars(CloseLock) /\ WF_vars(CloseUnlock) /\ WF_vars(CloseSocket) /\ WF_vars(CloseWait)
-----------------------------------------------------------------------------
\* A connection ID is accepted for two minutes after it was stored, as BEP 15
\* asks, the end of them included, however the sweep falls.
RecentIdAccepted == \A i \in Ids : age[i] <= Lifetime => i \in connections

\* While the sweep runs no ID is accepted for longer than three minutes: the
\* lifetime and one period.
OldIdRefused == sweeper = "running" => \A i \in connections : age[i] <= 3 * Minute

\* When ReceiverUDP.Close has returned, no packet is being handled and none can
\* be any more, one that was read while the socket was being closed included:
\* forwarding and storage are closed next.
IntakeEnded ==
    (closing = "done" /\ conn = "closed") =>
        reader = "none" /\ sweeper = "none" /\ \A h \in Handlers : handler[h].pc = "free"

\* Core.Close gets past the receiver although it waits for announces that hold
\* forwarderMu, and for packets that wait for it.
IntakeCloses == (closing = "wanted") ~> (closing = "done")
=============================================================================
