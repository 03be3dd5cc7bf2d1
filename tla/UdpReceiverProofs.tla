-------------------------- MODULE UdpReceiverProofs --------------------------
(***************************************************************************)
(* Proofs about UdpReceiver: how long connection IDs are accepted, and     *)
(* that nothing is left of the intake when Close has returned.             *)
(***************************************************************************)
EXTENDS UdpReceiver, TLAPS

\* Nothing happens before Start.
Unstarted ==
    conn = "none" => /\ connections = {} /\ reader = "none" /\ sweeper = "none"
                     /\ \A h \in Handlers : handler[h].pc = "free"

\* No ID in the map outlives the next sweep by more than its period.
SweepDue == sweeper = "running" => \A i \in connections : age[i] + untilSweep <= 3 * Minute

IdInv ==
    /\ TypeOK
    /\ Unstarted
    /\ RecentIdAccepted
    /\ SweepDue

LEMMA IdStart == Init => IdInv
BY UdpReceiverAssumption DEF Init, IdInv, TypeOK, Unstarted, RecentIdAccepted, SweepDue,
   Forgotten, Lifetime, Free, HandlerPC

\* What the steps that leave the IDs and the time alone have in common.
LEMMA IdFrame ==
    ASSUME IdInv, TypeOK', Unstarted', UNCHANGED <<connections, age, untilSweep>>,
           sweeper' = "running" => sweeper = "running"
    PROVE  IdInv'
BY DEF IdInv, RecentIdAccepted, SweepDue

LEMMA IdStep == IdInv /\ [Next]_vars => IdInv'
<1> SUFFICES ASSUME IdInv, [Next]_vars PROVE IdInv'
  OBVIOUS
<1> USE UdpReceiverAssumption DEF IdInv, Unstarted
<1> USE DEF TypeOK, Forgotten, Lifetime
<1>1. CASE Start
  BY <1>1 DEF Start, RecentIdAccepted, SweepDue
<1>2. CASE ReadPacket
  BY <1>2, IdFrame DEF ReadPacket, timeVars
<1>3. CASE ReaderExit
  BY <1>3, IdFrame DEF ReaderExit, timeVars
<1>4. ASSUME NEW h \in Handlers, Dispatch(h) \/ Handle(h) PROVE IdInv'
  <2>1. CASE Dispatch(h)
    BY <2>1, IdFrame DEF Dispatch, timeVars, HandlerPC
  <2>2. CASE Validate(h) \/ HandleRequest(h) \/ AnnounceDone(h)
    BY <2>2, IdFrame DEF Validate, HandleRequest, AnnounceDone, Step, timeVars, HandlerPC
  <2>3. CASE Reply(h)
    BY <2>3, IdFrame DEF Reply, Free, timeVars, HandlerPC
  <2>4. CASE HandleConnect(h)
    <3>1. handler' \in [Handlers -> [pc : HandlerPC, packet : Packets \cup {NoPacket}]]
      BY <2>4 DEF HandleConnect, Step, HandlerPC
    <3>2. conn # "none"
      BY <2>4 DEF HandleConnect
    <3>3. CASE UNCHANGED <<connections, age>>
      BY <2>4, <3>1, <3>2, <3>3 DEF HandleConnect, RecentIdAccepted, SweepDue
    <3>4. ASSUME NEW i \in Ids, connections' = connections \cup {i},
                 age' = [age EXCEPT ![i] = 0]
          PROVE  IdInv'
      BY <2>4, <3>1, <3>2, <3>4 DEF HandleConnect, RecentIdAccepted, SweepDue
    <3>5. QED
      BY <2>4, <3>3, <3>4 DEF HandleConnect
  <2>5. QED
    BY <1>4, <2>1, <2>2, <2>3, <2>4 DEF Handle
<1>5. CASE Tick
  BY <1>5 DEF Tick, RecentIdAccepted, SweepDue
<1>6. CASE Sweep
  BY <1>6 DEF Sweep, RecentIdAccepted, SweepDue
<1>7. CASE SweeperExit
  BY <1>7, IdFrame DEF SweeperExit, timeVars
<1>8. CASE CloseBegin \/ CloseLock \/ CloseUnlock \/ CloseWait
  BY <1>8, IdFrame DEF CloseBegin, CloseLock, CloseUnlock, CloseWait, timeVars
<1>9. CASE CloseSocket
  BY <1>9, IdFrame DEF CloseSocket, timeVars
<1>10. CASE UNCHANGED vars
  BY <1>10, IdFrame DEF vars, timeVars
<1>11. QED
  BY <1>1, <1>2, <1>3, <1>4, <1>5, <1>6, <1>7, <1>8, <1>9, <1>10 DEF Next

\* However fine the time and however the sweep falls, a connection ID is
\* accepted for two minutes.
THEOREM IdsAcceptedForLifetime == Spec => []RecentIdAccepted
<1>1. IdInv => RecentIdAccepted
  BY DEF IdInv
<1>2. QED
  BY <1>1, IdStart, IdStep, PTL DEF Spec

\* ... and, while the sweep runs, for three minutes at most.
THEOREM IdsRefusedAfterSweep == Spec => []OldIdRefused
<1>1. IdInv => OldIdRefused
  BY UdpReceiverAssumption DEF IdInv, TypeOK, SweepDue, OldIdRefused
<1>2. QED
  BY <1>1, IdStart, IdStep, PTL DEF Spec

\* Close has got past wg.Wait only if there was nothing to wait for.
ClosedInv ==
    /\ closing = "waiting" => conn = "closed"
    /\ IntakeEnded

LEMMA ClosedStart == Init => ClosedInv
BY DEF Init, ClosedInv, IntakeEnded

\* The packets under way: none is begun or carried on once Close is through.
LEMMA ClosedPackets ==
    ASSUME ClosedInv, NEW h \in Handlers, Dispatch(h) \/ Handle(h)
    PROVE  ClosedInv'
<1>1. CASE Dispatch(h)
  BY <1>1 DEF Dispatch, ClosedInv, IntakeEnded
<1>2. CASE Handle(h)
  BY <1>2 DEF Handle, Validate, HandleConnect, HandleRequest, AnnounceDone, Reply,
     ClosedInv, IntakeEnded
<1> QED
  BY <1>1, <1>2

\* Close itself.
LEMMA ClosedClose ==
    ASSUME ClosedInv,
           CloseBegin \/ CloseLock \/ CloseUnlock \/ CloseSocket \/ CloseWait
    PROVE  ClosedInv'
BY DEF CloseBegin, CloseLock, CloseUnlock, CloseSocket, CloseWait, ClosedInv, IntakeEnded

LEMMA ClosedStep == ClosedInv /\ [Next]_vars => ClosedInv'
<1> SUFFICES ASSUME ClosedInv, [Next]_vars PROVE ClosedInv'
  OBVIOUS
<1>stutter. CASE UNCHANGED vars
  BY <1>stutter DEF vars, ClosedInv, IntakeEnded
<1>intake. CASE Start \/ ReadPacket \/ ReaderExit
  BY <1>intake DEF Start, ReadPacket, ReaderExit, ClosedInv, IntakeEnded
<1>sweep. CASE Tick \/ Sweep \/ SweeperExit
  BY <1>sweep DEF Tick, Sweep, SweeperExit, ClosedInv, IntakeEnded
<1> QED
  BY <1>stutter, <1>intake, <1>sweep, ClosedPackets, ClosedClose DEF Next

\* Every reachable state of the receiver is well typed.
THEOREM ReceiverTypeCorrect == Spec => []TypeOK
<1>1. IdInv => TypeOK
  BY DEF IdInv
<1>2. QED
  BY <1>1, IdStart, IdStep, PTL DEF Spec

\* When ReceiverUDP.Close has returned, no packet is handled and none can be
\* any more, for any number of packets under way.
THEOREM IntakeStaysEnded == Spec => []IntakeEnded
<1>1. ClosedInv => IntakeEnded
  BY DEF ClosedInv
<1>2. QED
  BY <1>1, ClosedStart, ClosedStep, PTL DEF Spec
=============================================================================
