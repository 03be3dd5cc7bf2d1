--------------------------- MODULE UdpClientProofs ---------------------------
(***************************************************************************)
(* Proofs about announces to a UDP tracker, for any number of concurrent   *)
(* calls and any number of retries.                                        *)
(*                                                                         *)
(* A call changes only its own locals and sends only its own datagrams, so *)
(* what the invariant says of the other calls is carried over once         *)
(* (OtherCalls), and each action is shown to keep it for the call that     *)
(* takes the step.                                                         *)
(***************************************************************************)
EXTENDS UdpClient, FiniteSetTheorems, TLAPS

\* The steps at which a call has a socket.
Holding == Running \ {"lookup"}

\* A call has one socket exactly where the code has one open.
Sockets(c) == call[c].open = IF call[c].pc \in Holding THEN 1 ELSE 0

\* From the reply to connect on, the ID in hand is one the tracker gave out.
IdInHand(c) ==
    call[c].pc \in {"store", "announce", "announcing"} => call[c].id \in 1 .. issued

\* A call's requests have the transactions it has drawn; the request of the
\* current announce attempt carries the ID in hand, and so does the one whose
\* answer ended the call.
Transactions(c) ==
    /\ \A q \in sent : q.tx[1] = c => q.tx[2] <= call[c].tx
    /\ call[c].pc = "announcing" => \A q \in Readable(c) : q.id = call[c].id
    /\ call[c].pc = "ok" =>
         /\ call[c].answered = call[c].tx
         /\ \E q \in sent : q.tx = <<c, call[c].tx>> /\ q.id = call[c].id

Announces(c) == {q \in sent : q.tx[1] = c /\ q.id # NoId}
Connects(c) == {q \in sent : q.tx[1] = c /\ q.id = NoId}

\* The datagram of the current attempt of connect.
ConnectRequest(c) == [tx |-> <<c, call[c].tx>>, id |-> NoId, try |-> call[c].tries]

\* The reconnects used up.
Spent(c) == IF call[c].reconnected THEN 1 ELSE 0

\* The announces sent are the attempts used up, one more for the reconnect and
\* one for the attempt under way or just over.
AnnounceBudget(c) ==
    /\ call[c].retry < MaxRetries
    /\ Cardinality(Announces(c)) <=
          call[c].retry + Spent(c)
          + (IF call[c].pc \in {"announcing", "ok", "failed"} THEN 1 ELSE 0)

\* The connect datagrams of the run of connect before the reconnect, at most ...
EarlierRun(c) == IF call[c].reconnected THEN MaxRetries ELSE 0

\* ... and those of the last run.
ThisRun(c) == IF call[c].pc = "connect" THEN call[c].tries
              ELSE IF call[c].pc = "connecting" THEN call[c].tries + 1
              ELSE MaxRetries

\* Every attempt sends one connect datagram, and an earlier run of connect is
\* paid for by the reconnect.
ConnectBudget(c) ==
    /\ call[c].pc \in {"idle", "lookup"} => Connects(c) = {} /\ ~call[c].reconnected
    /\ Cardinality(Connects(c)) <= EarlierRun(c) + ThisRun(c)

CallInv(c) == /\ Sockets(c) /\ IdInHand(c) /\ Transactions(c)
              /\ AnnounceBudget(c) /\ ConnectBudget(c)

\* The inductive invariant.
IInv == /\ TypeOK /\ IsFiniteSet(sent)
        /\ CachedIdWasIssued /\ StopIsClean
        /\ \A c \in Calls : CallInv(c)
-----------------------------------------------------------------------------
\* A step of one call: its new locals and the datagrams it adds.
StepOf(c, x, new) ==
    /\ call' = [call EXCEPT ![c] = x]
    /\ x \in CallStates
    /\ sent' = sent \cup new
    /\ new \subseteq [tx : {c} \X Nat, id : Nat \cup {NoId}, try : Nat]
    /\ issued' \in Nat /\ issued <= issued'

\* A step of one call does not touch what holds of another.
LEMMA OtherCalls ==
    ASSUME TypeOK, NEW c \in Calls, NEW d \in Calls, d # c, NEW x, NEW new,
           StepOf(c, x, new), CallInv(d)
    PROVE  CallInv(d)'
<1>1. call[d]' = call[d] /\ (\A q \in new : q.tx[1] # d)
  BY DEF StepOf, TypeOK
<1>2. Announces(d)' = Announces(d) /\ Connects(d)' = Connects(d)
  BY <1>1 DEF StepOf, Announces, Connects
<1>3. Sockets(d)'
  BY <1>1 DEF CallInv, Sockets
<1>4. IdInHand(d)'
  BY <1>1 DEF CallInv, IdInHand, StepOf, TypeOK, CallStates
<1>5. Transactions(d)'
  <2>1. \A q \in sent' : q.tx[1] = d => q \in sent
    BY <1>1 DEF StepOf
  <2>2. \A q \in Readable(d)' : q \in Readable(d)
    BY <1>1, <2>1 DEF Readable
  <2> QED BY <1>1, <2>1, <2>2 DEF CallInv, Transactions, StepOf
<1>6. AnnounceBudget(d)' /\ ConnectBudget(d)'
  BY <1>1, <1>2 DEF CallInv, AnnounceBudget, ConnectBudget, Spent, EarlierRun, ThisRun
<1> QED BY <1>3, <1>4, <1>5, <1>6 DEF CallInv

\* A step that sends nothing keeps the counts.
LEMMA NothingSent ==
    ASSUME NEW c \in Calls, TypeOK, UNCHANGED sent
    PROVE  Announces(c)' = Announces(c) /\ Connects(c)' = Connects(c)
BY DEF Announces, Connects

\* The invariant after a step of one call, from what the step does to it.
LEMMA CallStep ==
    ASSUME IInv, NEW c \in Calls, NEW x, NEW new, StepOf(c, x, new), IsFiniteSet(new),
           CallInv(c)',
           cache' \in (1 .. issued') \cup {NoId} \/ cache' = cache,
           age' \in {age, "fresh", "old"}, UNCHANGED <<gone, stop>>,
           stop = "stopped" => x.pc \notin Running /\ cache' = NoId
    PROVE  IInv'
<1> USE UdpClientAssumption
<1>1. TypeOK'
  <2>1. new \subseteq [tx : Txs, id : Nat \cup {NoId}, try : Nat]
    BY DEF StepOf, Txs
  <2>2. cache' \in Nat \cup {NoId}
    BY DEF IInv, TypeOK, StepOf
  <2> QED BY <2>1, <2>2 DEF IInv, TypeOK, StepOf
<1>2. IsFiniteSet(sent')
  BY FS_Union DEF IInv, StepOf
<1>3. CachedIdWasIssued'
  <2>1. issued \in Nat /\ issued' \in Nat /\ issued <= issued'
    BY DEF IInv, TypeOK, StepOf
  <2> QED BY <2>1 DEF IInv, CachedIdWasIssued
<1>4. \A d \in Calls : CallInv(d)'
  BY OtherCalls DEF IInv
<1>5. StopIsClean'
  <2>1. ASSUME stop' = "stopped", NEW d \in Calls
        PROVE  call'[d].pc \notin Running /\ call'[d].open = 0
    <3>1. call'[d].pc \notin Running
      BY <2>1 DEF IInv, StopIsClean, StepOf, TypeOK
    <3> QED BY <1>4, <3>1 DEF CallInv, Sockets, Holding
  <2> QED BY <2>1 DEF StopIsClean
<1> QED BY <1>1, <1>2, <1>3, <1>4, <1>5 DEF IInv

\* What is counted is finite, and the invariant bounds both counts.
LEMMA Counts ==
    ASSUME IInv, NEW c \in Calls
    PROVE  /\ IsFiniteSet(Announces(c)) /\ IsFiniteSet(Connects(c))
           /\ Cardinality(Announces(c)) \in Nat /\ Cardinality(Connects(c)) \in Nat
           /\ Spent(c) \in {0, 1} /\ call[c].retry \in Nat /\ EarlierRun(c) \in Nat
           /\ Cardinality(Announces(c)) <= call[c].retry + Spent(c) + 1
           /\ Cardinality(Connects(c)) <= EarlierRun(c) + MaxRetries
<1>1. call[c] \in CallStates /\ CallInv(c) /\ MaxRetries \in Nat
  BY UdpClientAssumption DEF IInv, TypeOK
<1>2. Announces(c) \subseteq sent /\ Connects(c) \subseteq sent
  BY DEF Announces, Connects
<1>3. IsFiniteSet(Announces(c)) /\ IsFiniteSet(Connects(c))
  BY <1>2, FS_Subset DEF IInv
<1>4. Cardinality(Announces(c)) \in Nat /\ Cardinality(Connects(c)) \in Nat
  BY <1>3, FS_CardinalityType
<1>5. Spent(c) \in {0, 1} /\ call[c].retry \in Nat /\ EarlierRun(c) \in Nat
  BY <1>1 DEF CallStates, Spent, EarlierRun
<1>6. Cardinality(Announces(c)) <= call[c].retry + Spent(c) + 1
  BY <1>1, <1>4, <1>5 DEF CallInv, AnnounceBudget
<1>7. ThisRun(c) \in Nat /\ ThisRun(c) <= MaxRetries
  BY <1>1 DEF ThisRun, CallStates
<1>8. Cardinality(Connects(c)) <= EarlierRun(c) + MaxRetries
  BY <1>1, <1>4, <1>5, <1>7 DEF CallInv, ConnectBudget
<1> QED BY <1>3, <1>4, <1>5, <1>6, <1>8

\* Returning, from any step: the socket goes, and what was sent stays within
\* the budget, the request under way included.
LEMMA ReturnKeeps ==
    ASSUME IInv, NEW c \in Calls, call[c].pc \in Running, Return(c, "failed"),
           UNCHANGED <<gone, stop, sent, issued>>, cache' \in {cache, NoId},
           age' \in {age, "old"}
    PROVE  IInv'
<1> DEFINE x == [call[c] EXCEPT !.pc = "failed", !.open = 0]
<1> USE UdpClientAssumption
<1>1. call[c] \in CallStates /\ TypeOK /\ CallInv(c)
  BY DEF IInv, TypeOK
<1>2. StepOf(c, x, {})
  <2>1. x \in CallStates
    BY <1>1 DEF CallStates, CallPC
  <2> QED BY <1>1, <2>1 DEF StepOf, Return, Set, IInv, TypeOK
<1>3. call'[c] = x
  BY <1>1 DEF Return, Set, TypeOK
<1>4. /\ Announces(c)' = Announces(c) /\ Connects(c)' = Connects(c)
      /\ Spent(c)' = Spent(c) /\ EarlierRun(c)' = EarlierRun(c) /\ ThisRun(c)' = MaxRetries
  BY <1>1, <1>3, NothingSent DEF Spent, EarlierRun, ThisRun, CallStates
<1>5. Sockets(c)' /\ IdInHand(c)'
  BY <1>3, <1>1 DEF Sockets, IdInHand, Holding, Running, CallStates
<1>6. Transactions(c)'
  BY <1>1, <1>3 DEF CallInv, Transactions, CallStates
<1>7. AnnounceBudget(c)'
  BY <1>1, <1>3, <1>4, Counts DEF CallInv, AnnounceBudget, CallStates
<1>8. ConnectBudget(c)'
  BY <1>1, <1>3, <1>4, Counts DEF ConnectBudget, CallStates
<1>9. CallInv(c)'
  BY <1>5, <1>6, <1>7, <1>8 DEF CallInv
<1>10. stop # "stopped"
  BY DEF IInv, StopIsClean
<1> QED BY <1>2, <1>9, <1>10, CallStep, FS_EmptySet

\* A new socket and a new transaction, with the socket of the call closed
\* before: all connects sent so far are of an earlier run.
LEMMA DialKeeps ==
    ASSUME IInv, NEW c \in Calls, NEW y \in CallStates,
           call[c].pc \in Running, y.open = 0,
           y.tx = call[c].tx, y.retry = call[c].retry,
           Cardinality(Announces(c)) <= y.retry + (IF y.reconnected THEN 1 ELSE 0),
           Cardinality(Connects(c)) <= (IF y.reconnected THEN MaxRetries ELSE 0),
           Dial(c, y),
           UNCHANGED <<gone, stop, sent, issued>>, cache' \in {cache, NoId},
           age' \in {age, "old"}
    PROVE  IInv'
<1> USE UdpClientAssumption
<1>1. call[c] \in CallStates /\ TypeOK /\ CallInv(c) /\ stop # "stopped"
  BY DEF IInv, TypeOK, StopIsClean
<1>2. Announces(c)' = Announces(c) /\ Connects(c)' = Connects(c)
  BY <1>1, NothingSent
<1>3. CASE Set(c, [y EXCEPT !.pc = "failed", !.open = 0])
  <2> DEFINE x == [y EXCEPT !.pc = "failed", !.open = 0]
  <2>1. x \in CallStates /\ call'[c] = x
    BY <1>1, <1>3 DEF CallStates, CallPC, Set, TypeOK
  <2>2. StepOf(c, x, {})
    BY <1>1, <1>3, <2>1 DEF StepOf, Set, TypeOK
  <2>3. Sockets(c)' /\ IdInHand(c)' /\ Transactions(c)'
    BY <1>1, <2>1 DEF Sockets, IdInHand, Transactions, CallInv, Holding, Running, CallStates
  <2>4. AnnounceBudget(c)'
    BY <1>1, <1>2, <2>1, Counts DEF AnnounceBudget, Spent, CallInv, CallStates
  <2>5. ConnectBudget(c)'
    BY <1>2, <2>1, Counts DEF ConnectBudget, EarlierRun, ThisRun, CallStates
  <2> QED BY <1>1, <2>2, <2>3, <2>4, <2>5, CallStep, FS_EmptySet DEF CallInv
<1>4. CASE Set(c, [y EXCEPT !.pc = "connect", !.open = @ + 1, !.id = 0, !.tries = 0,
                          !.tx = @ + 1])
  <2> DEFINE x == [y EXCEPT !.pc = "connect", !.open = @ + 1, !.id = 0, !.tries = 0,
                          !.tx = @ + 1]
  <2>a. /\ y.open + 1 \in Nat /\ y.tx + 1 \in Nat /\ 0 \in 0 .. MaxRetries - 1
        /\ call' = [call EXCEPT ![c] = x]
    BY <1>4 DEF CallStates, Set
  <2>b. x \in CallStates
    BY <2>a DEF CallStates, CallPC
  <2>1. x \in CallStates /\ call'[c] = x
    BY <1>1, <2>a, <2>b DEF TypeOK
  <2>2. StepOf(c, x, {})
    BY <1>1, <1>4, <2>1 DEF StepOf, Set, TypeOK
  <2>3. Sockets(c)' /\ IdInHand(c)'
    BY <1>1, <2>1 DEF Sockets, IdInHand, Holding, Running, CallPC, CallStates
  <2>4. Transactions(c)'
    BY <1>1, <2>1 DEF Transactions, CallInv, CallStates, TypeOK, Txs
  <2>5. AnnounceBudget(c)'
    BY <1>1, <1>2, <2>1 DEF AnnounceBudget, Spent, CallInv, CallStates
  <2>6. ConnectBudget(c)'
    BY <1>2, <2>1, Counts DEF ConnectBudget, EarlierRun, ThisRun, CallStates
  <2> QED BY <1>1, <2>2, <2>3, <2>4, <2>5, <2>6, CallStep, FS_EmptySet DEF CallInv
<1> QED BY <1>3, <1>4 DEF Dial

\* A step of a call with a socket that sends nothing, draws no transaction and
\* goes on to a step with a socket.
LEMMA QuietKeeps ==
    ASSUME IInv, NEW c \in Calls, NEW x \in CallStates, Set(c, x), UNCHANGED sent,
           call[c].pc \in Holding, x.pc \in Holding \ {"announcing"}, x.open = call[c].open,
           x.tx = call[c].tx, x.reconnected = call[c].reconnected,
           x.retry < MaxRetries,
           x.retry = IF call[c].pc = "announcing" THEN call[c].retry + 1 ELSE call[c].retry,
           x.pc # "connecting",
           x.pc = "connect" => call[c].pc = "connecting" /\ x.tries = call[c].tries + 1,
           call[c].pc # "connect",
           issued' \in Nat, issued <= issued',
           x.pc \in {"store", "announce"} => x.id \in 1 .. issued',
           cache' \in 1 .. issued' \/ cache' = cache, age' \in {age, "fresh"},
           UNCHANGED <<gone, stop>>
    PROVE  IInv'
<1> USE UdpClientAssumption
<1>1. call[c] \in CallStates /\ TypeOK /\ CallInv(c) /\ stop # "stopped"
  BY DEF IInv, TypeOK, StopIsClean, Holding
<1>2. Announces(c)' = Announces(c) /\ Connects(c)' = Connects(c)
  BY <1>1, NothingSent
<1>3. call'[c] = x /\ StepOf(c, x, {})
  BY <1>1 DEF Set, StepOf, TypeOK
<1>4. Sockets(c)' /\ IdInHand(c)'
  BY <1>1, <1>3 DEF Sockets, IdInHand, CallInv
<1>5. Transactions(c)'
  BY <1>1, <1>3 DEF Transactions, CallInv, Holding, Running
<1>6. AnnounceBudget(c)'
  BY <1>1, <1>2, <1>3, Counts DEF AnnounceBudget, Spent, CallInv, Holding, Running
<1>7. ConnectBudget(c)'
  BY <1>1, <1>2, <1>3, Counts DEF ConnectBudget, EarlierRun, ThisRun, CallInv, Holding, Running
<1> QED BY <1>1, <1>3, <1>4, <1>5, <1>6, <1>7, CallStep, FS_EmptySet DEF CallInv

\* An attempt of connect adds at most one datagram.
LEMMA ConnectSendKeeps ==
    ASSUME IInv, NEW c \in Calls, ConnectSend(c)
    PROVE  IInv'
<1> USE UdpClientAssumption
<1>1. /\ call[c] \in CallStates /\ TypeOK /\ CallInv(c) /\ call[c].pc = "connect"
      /\ stop # "stopped"
  BY DEF IInv, TypeOK, StopIsClean, ConnectSend, Running, CallPC
<1>2. CASE Return(c, "failed") /\ UNCHANGED sent
  BY <1>1, <1>2, ReturnKeeps DEF ConnectSend, Running, CallPC
<1>3. CASE /\ sent' = sent \cup {ConnectRequest(c)}
           /\ Set(c, [call[c] EXCEPT !.pc = "connecting"])
  <2> DEFINE x == [call[c] EXCEPT !.pc = "connecting"]
  <2>1. x \in CallStates /\ call'[c] = x
    BY <1>1, <1>3 DEF CallStates, CallPC, Set, TypeOK
  <2>2. StepOf(c, x, {ConnectRequest(c)})
    BY <1>1, <1>3, <2>1 DEF StepOf, Set, TypeOK, ConnectRequest, CallStates, ConnectSend
  <2>3. Sockets(c)' /\ IdInHand(c)'
    BY <1>1, <2>1 DEF Sockets, IdInHand, CallInv, Holding, Running, CallPC, CallStates
  <2>4. Transactions(c)'
    BY <1>1, <1>3, <2>1 DEF Transactions, CallInv, CallStates, ConnectRequest
  <2>5. Announces(c)' = Announces(c) /\ Connects(c)' = Connects(c) \cup {ConnectRequest(c)}
    BY <1>3 DEF Announces, Connects, ConnectRequest
  <2>6. AnnounceBudget(c)'
    BY <1>1, <2>1, <2>5 DEF CallInv, AnnounceBudget, Spent, CallStates
  <2>7. ConnectBudget(c)'
    <3>1. \/ Cardinality(Connects(c)') = Cardinality(Connects(c))
          \/ Cardinality(Connects(c)') = Cardinality(Connects(c)) + 1
      BY <2>5, Counts, FS_AddElement
    <3>2. /\ EarlierRun(c)' = EarlierRun(c) /\ EarlierRun(c) \in Nat
          /\ ThisRun(c)' = ThisRun(c) + 1 /\ ThisRun(c) \in Nat
      BY <1>1, <2>1, Counts DEF EarlierRun, ThisRun, CallStates
    <3>3. Cardinality(Connects(c)) <= EarlierRun(c) + ThisRun(c)
      BY <1>1 DEF CallInv, ConnectBudget
    <3>4. Cardinality(Connects(c)') <= EarlierRun(c)' + ThisRun(c)'
      BY <3>1, <3>2, <3>3, Counts
    <3> QED BY <2>1, <3>4 DEF ConnectBudget, CallStates
  <2> QED BY <1>1, <2>2, <2>3, <2>4, <2>6, <2>7, CallStep, FS_Singleton DEF CallInv, ConnectSend
<1> QED BY <1>2, <1>3 DEF ConnectSend, Send, ConnectRequest

\* Every announce attempt adds one request, with a transaction not used before.
LEMMA AnnounceSendKeeps ==
    ASSUME IInv, NEW c \in Calls, AnnounceSend(c)
    PROVE  IInv'
<1> DEFINE y == [call[c] EXCEPT !.tx = @ + 1]
           q == [tx |-> <<c, y.tx>>, id |-> call[c].id, try |-> y.tries]
<1> USE UdpClientAssumption
<1>1. /\ call[c] \in CallStates /\ TypeOK /\ CallInv(c) /\ call[c].pc = "announce"
      /\ stop # "stopped"
  BY DEF IInv, TypeOK, StopIsClean, AnnounceSend, Running, CallPC
<1>2. CASE Return(c, "failed") /\ UNCHANGED sent
  BY <1>1, <1>2, ReturnKeeps DEF AnnounceSend, Running, CallPC
<1>3. CASE sent' = sent \cup {q} /\ Set(c, [y EXCEPT !.pc = "announcing"])
  <2> DEFINE x == [y EXCEPT !.pc = "announcing"]
  <2>1. call[c].tx + 1 \in Nat /\ y \in CallStates /\ y.tx = call[c].tx + 1
    BY <1>1 DEF CallStates
  <2>2. x \in CallStates /\ call'[c] = x
    BY <1>1, <1>3, <2>1 DEF CallStates, CallPC, Set, TypeOK
  <2>3. /\ x.pc = "announcing" /\ x.tx = call[c].tx + 1 /\ x.id = call[c].id
        /\ x.retry = call[c].retry /\ x.reconnected = call[c].reconnected
        /\ x.open = call[c].open
    BY <1>1, <2>1 DEF CallStates
  <2>4. /\ q.tx = <<c, call[c].tx + 1>> /\ q.id = call[c].id /\ q.id \in Nat
        /\ y.tries \in Nat
    BY <1>1, <2>1 DEF CallStates
  <2> HIDE DEF x, y
  <2>5. StepOf(c, x, {q})
    BY <1>1, <1>3, <2>1, <2>2, <2>4 DEF StepOf, Set, TypeOK, CallStates, AnnounceSend, x
  <2>6. Sockets(c)' /\ IdInHand(c)'
    BY <1>1, <2>2, <2>3 DEF Sockets, IdInHand, CallInv, Holding, Running, CallPC, AnnounceSend
  <2>7. q \notin sent /\ \A r \in sent : r.tx # q.tx
    BY <1>1, <2>1, <2>4 DEF CallInv, Transactions, CallStates, TypeOK, Txs
  <2>8. Transactions(c)'
    <3>1. \A r \in sent' : r.tx[1] = c => r.tx[2] <= call'[c].tx
      BY <1>1, <1>3, <2>2, <2>3, <2>4 DEF CallInv, Transactions, CallStates, TypeOK, Txs
    <3>2. Readable(c)' \subseteq {q}
      BY <1>3, <2>2, <2>3, <2>4, <2>7 DEF Readable
    <3> QED BY <2>2, <2>3, <2>4, <3>1, <3>2 DEF Transactions
  <2>9. Announces(c)' = Announces(c) \cup {q} /\ Connects(c)' = Connects(c)
    BY <1>3, <2>4 DEF Announces, Connects
  <2>10. AnnounceBudget(c)'
    <3>1. q \notin Announces(c)
      BY <2>7 DEF Announces
    <3>2. Cardinality(Announces(c)') = Cardinality(Announces(c)) + 1
      BY <2>9, <3>1, Counts, FS_AddElement
    <3> QED BY <1>1, <2>2, <2>3, <3>2, Counts DEF CallInv, AnnounceBudget, Spent
  <2>11. ConnectBudget(c)'
    BY <1>1, <2>2, <2>3, <2>9 DEF CallInv, ConnectBudget, EarlierRun, ThisRun
  <2> QED BY <1>1, <2>5, <2>6, <2>8, <2>10, <2>11, CallStep, FS_Singleton
          DEF CallInv, AnnounceSend
<1> QED BY <1>2, <1>3 DEF AnnounceSend, Send

\* Begin and the lookup: nothing has been sent yet.
LEMMA BeginKeeps ==
    ASSUME IInv, NEW c \in Calls, Begin(c) \/ GetConnectionID(c)
    PROVE  IInv'
<1> USE UdpClientAssumption
<1>1. /\ call[c] \in CallStates /\ TypeOK /\ CallInv(c)
      /\ Announces(c)' = Announces(c) /\ Connects(c)' = Connects(c)
  BY NothingSent DEF IInv, TypeOK, Begin, GetConnectionID
<1>2. ASSUME NEW x \in CallStates, Set(c, x), UNCHANGED <<cache, age, gone, stop, sent, issued>>,
             call[c].pc \in {"idle", "lookup"}, x.pc \in {"lookup", "announce", "failed"},
             x.open = IF x.pc = "announce" THEN 1 ELSE 0,
             x.pc = "announce" => x.id \in 1 .. issued,
             x.tx = call[c].tx, x.retry = call[c].retry, x.reconnected = call[c].reconnected,
             stop = "stopped" => x.pc = "failed"
      PROVE  IInv'
  <2>1. call'[c] = x /\ StepOf(c, x, {})
    BY <1>1, <1>2 DEF Set, StepOf, TypeOK
  <2>2. Sockets(c)' /\ IdInHand(c)'
    BY <1>2, <2>1 DEF Sockets, IdInHand, Holding, Running, CallPC
  <2>3. Transactions(c)'
    BY <1>1, <1>2, <2>1 DEF Transactions, CallInv
  <2>4. AnnounceBudget(c)' /\ ConnectBudget(c)'
    BY <1>1, <1>2, <2>1, Counts
    DEF AnnounceBudget, ConnectBudget, Spent, EarlierRun, ThisRun, CallInv
  <2>5. stop = "stopped" => x.pc \notin Running /\ cache' = NoId
    BY <1>2 DEF IInv, StopIsClean, Running
  <2> QED BY <1>2, <2>1, <2>2, <2>3, <2>4, <2>5, CallStep, FS_EmptySet DEF CallInv
<1>3. CASE Begin(c)
  <2> DEFINE x == [call[c] EXCEPT !.pc = IF stop = "running" THEN "lookup" ELSE "failed"]
  <2>1. /\ x \in CallStates /\ x.pc = IF stop = "running" THEN "lookup" ELSE "failed"
        /\ x.open = 0 /\ x.tx = call[c].tx /\ x.retry = call[c].retry
        /\ x.reconnected = call[c].reconnected
    BY <1>1, <1>3 DEF CallStates, CallPC, CallInv, Sockets, Holding, Running, Begin
  <2>2. Set(c, x)
    BY <1>3 DEF Begin
  <2> HIDE DEF x
  <2> QED BY <1>2, <1>3, <2>1, <2>2 DEF Begin
<1>4. CASE GetConnectionID(c)
  <2>0. /\ call[c].pc = "lookup" /\ call[c].pc \in Running /\ stop # "stopped"
        /\ call[c].open = 0 /\ ~call[c].reconnected
        /\ UNCHANGED <<cache, age, gone, stop, sent, issued>>
    BY <1>1, <1>4 DEF GetConnectionID, CallInv, Sockets, ConnectBudget, Holding, Running, CallPC,
       IInv, StopIsClean
  <2>1. CASE Return(c, "failed")
    BY <2>0, <2>1, ReturnKeeps
  <2>2. CASE /\ cache # NoId
             /\ Set(c, [call[c] EXCEPT !.pc = "announce", !.id = cache, !.open = @ + 1])
    <3> DEFINE x == [call[c] EXCEPT !.pc = "announce", !.id = cache, !.open = @ + 1]
    <3>1. /\ cache \in 1 .. issued /\ cache \in Nat
          /\ call[c].open + 1 = 1 /\ call[c].open + 1 \in Nat
      BY <1>1, <2>0, <2>2 DEF IInv, CachedIdWasIssued, TypeOK
    <3>2. /\ x \in CallStates /\ x.pc = "announce" /\ x.open = 1 /\ x.id = cache
          /\ x.tx = call[c].tx /\ x.retry = call[c].retry
          /\ x.reconnected = call[c].reconnected
      BY <1>1, <3>1 DEF CallStates, CallPC
    <3>3. Set(c, x)
      BY <2>2
    <3> HIDE DEF x
    <3> QED BY <1>2, <2>0, <3>1, <3>2, <3>3
  <2>3. CASE Dial(c, call[c])
    <3>1. Cardinality(Connects(c)) <= (IF call[c].reconnected THEN MaxRetries ELSE 0)
      BY <1>1, <2>0, FS_EmptySet DEF CallInv, ConnectBudget
    <3>2. Cardinality(Announces(c)) <= call[c].retry + (IF call[c].reconnected THEN 1 ELSE 0)
      BY <1>1, <2>0, Counts DEF CallInv, AnnounceBudget, Spent
    <3> QED BY <1>1, <2>0, <2>3, <3>1, <3>2, DialKeeps
  <2> QED BY <1>4, <2>1, <2>2, <2>3 DEF GetConnectionID
<1> QED BY <1>3, <1>4

\* connect: another attempt, a reply, or the ID put into the cache.
LEMMA ConnectKeeps ==
    ASSUME IInv, NEW c \in Calls,
           ConnectTimeout(c) \/ ConnectReply(c) \/ StoreConnectionID(c)
    PROVE  IInv'
<1> USE UdpClientAssumption
<1>1. /\ call[c] \in CallStates /\ TypeOK /\ CallInv(c)
      /\ call[c].pc \in {"connecting", "store"}
      /\ call[c].pc \in Running /\ call[c].pc \in Holding
      /\ call[c].retry < MaxRetries
  BY DEF IInv, TypeOK, ConnectTimeout, ConnectReply, StoreConnectionID, Holding, Running,
     CallPC, CallInv, AnnounceBudget
<1>2. CASE ConnectTimeout(c)
  <2>1. CASE Return(c, "failed")
    BY <1>1, <1>2, <2>1, ReturnKeeps DEF ConnectTimeout
  <2>2. CASE /\ ~(call[c].tries + 1 >= MaxRetries)
             /\ Set(c, [call[c] EXCEPT !.pc = "connect", !.tries = @ + 1])
    <3> DEFINE x == [call[c] EXCEPT !.pc = "connect", !.tries = @ + 1]
    <3>0. call[c].tries + 1 \in 0 .. MaxRetries - 1
      BY <1>1, <2>2 DEF CallStates
    <3>1. /\ x \in CallStates /\ x.pc = "connect" /\ x.open = call[c].open
          /\ x.tries = call[c].tries + 1
          /\ x.tx = call[c].tx /\ x.retry = call[c].retry
          /\ x.reconnected = call[c].reconnected
      BY <1>1, <3>0 DEF CallStates, CallPC
    <3>2. Set(c, x) /\ call[c].pc = "connecting"
      BY <1>2, <2>2 DEF ConnectTimeout
    <3> HIDE DEF x
    <3> QED BY <1>1, <1>2, <3>1, <3>2, QuietKeeps
            DEF ConnectTimeout, TypeOK, Holding, Running, CallPC
  <2> QED BY <1>2, <2>1, <2>2 DEF ConnectTimeout, ConnectRetry
<1>3. CASE ConnectReply(c)
  <2>1. CASE Return(c, "failed") /\ UNCHANGED issued
    BY <1>1, <1>3, <2>1, ReturnKeeps DEF ConnectReply
  <2>2. CASE /\ issued' = issued + 1
             /\ Set(c, [call[c] EXCEPT !.pc = "store", !.id = issued + 1])
    <3> DEFINE x == [call[c] EXCEPT !.pc = "store", !.id = issued + 1]
    <3>0. issued + 1 \in Nat /\ issued + 1 \in 1 .. issued'
      BY <1>1, <2>2 DEF TypeOK
    <3>1. /\ x \in CallStates /\ x.pc = "store" /\ x.open = call[c].open /\ x.id = issued + 1
          /\ x.tx = call[c].tx /\ x.retry = call[c].retry
          /\ x.reconnected = call[c].reconnected
      BY <1>1, <3>0 DEF CallStates, CallPC
    <3>2. Set(c, x) /\ call[c].pc = "connecting"
      BY <1>3, <2>2 DEF ConnectReply
    <3>3. issued' \in Nat /\ issued <= issued'
      BY <1>1, <2>2 DEF TypeOK
    <3> HIDE DEF x
    <3> QED BY <1>1, <1>3, <2>2, <3>0, <3>1, <3>2, <3>3, QuietKeeps
            DEF ConnectReply, Holding, Running, CallPC
  <2> QED BY <1>3, <2>1, <2>2 DEF ConnectReply
<1>4. CASE StoreConnectionID(c)
  <2> DEFINE x == [call[c] EXCEPT !.pc = "announce"]
  <2>1. /\ x \in CallStates /\ x.pc = "announce" /\ x.open = call[c].open /\ x.id = call[c].id
        /\ x.tx = call[c].tx /\ x.retry = call[c].retry
        /\ x.reconnected = call[c].reconnected
    BY <1>1 DEF CallStates, CallPC
  <2>2. Set(c, x) /\ call[c].pc = "store" /\ call[c].id \in 1 .. issued
    BY <1>1, <1>4 DEF StoreConnectionID, CallInv, IdInHand
  <2> HIDE DEF x
  <2> QED BY <1>1, <1>4, <2>1, <2>2, QuietKeeps
          DEF StoreConnectionID, Holding, Running, CallPC, TypeOK
<1> QED BY <1>2, <1>3, <1>4

\* An announce attempt times out, is answered or is met with an error.
LEMMA AnswerKeeps ==
    ASSUME IInv, NEW c \in Calls, AnnounceTimeout(c) \/ AnnounceOk(c) \/ AnnounceError(c)
    PROVE  IInv'
<1> USE UdpClientAssumption
<1>1. /\ call[c] \in CallStates /\ TypeOK /\ CallInv(c)
      /\ call[c].pc = "announcing" /\ stop # "stopped"
      /\ call[c].pc \in Running /\ call[c].pc \in Holding /\ call[c].open = 1
  BY DEF IInv, TypeOK, AnnounceTimeout, AnnounceOk, AnnounceError, Holding, Running,
     CallPC, CallInv, Sockets, StopIsClean
<1>2. CASE AnnounceTimeout(c)
  <2>1. CASE Return(c, "failed")
    BY <1>1, <1>2, <2>1, ReturnKeeps DEF AnnounceTimeout
  <2>2. CASE /\ ~(call[c].retry + 1 >= MaxRetries)
             /\ Set(c, [call[c] EXCEPT !.pc = "announce", !.retry = @ + 1])
    <3> DEFINE x == [call[c] EXCEPT !.pc = "announce", !.retry = @ + 1]
    <3>0. call[c].retry + 1 \in 0 .. MaxRetries - 1 /\ call[c].retry + 1 < MaxRetries
      BY <1>1, <2>2 DEF CallStates
    <3>1. /\ x \in CallStates /\ x.pc = "announce" /\ x.open = call[c].open
          /\ x.tx = call[c].tx /\ x.retry = call[c].retry + 1 /\ x.id = call[c].id
          /\ x.reconnected = call[c].reconnected
      BY <1>1, <3>0 DEF CallStates, CallPC
    <3>2. Set(c, x) /\ call[c].id \in 1 .. issued
      BY <1>1, <2>2 DEF CallInv, IdInHand
    <3> HIDE DEF x
    <3> QED BY <1>1, <1>2, <3>0, <3>1, <3>2, QuietKeeps
            DEF AnnounceTimeout, TypeOK, Holding, Running, CallPC
  <2> QED BY <1>2, <2>1, <2>2 DEF AnnounceTimeout, AnnounceRetry
<1>3. CASE AnnounceOk(c)
  <2>1. PICK q \in Readable(c) :
               Set(c, [call[c] EXCEPT !.pc = "ok", !.open = 0, !.answered = q.tx[2]])
    BY <1>3 DEF AnnounceOk
  <2> DEFINE x == [call[c] EXCEPT !.pc = "ok", !.open = 0, !.answered = q.tx[2]]
  <2>2. /\ q \in sent /\ q.tx = <<c, call[c].tx>> /\ q.tx[2] = call[c].tx
        /\ q.id = call[c].id /\ call[c].tx \in Nat
    BY <1>1 DEF Readable, CallInv, Transactions, CallStates
  <2>3. /\ x \in CallStates /\ x.pc = "ok" /\ x.open = 0 /\ x.id = call[c].id
        /\ x.answered = call[c].tx /\ x.tx = call[c].tx /\ x.retry = call[c].retry
        /\ x.reconnected = call[c].reconnected
    BY <1>1, <2>2 DEF CallStates, CallPC
  <2>4. call' = [call EXCEPT ![c] = x]
    BY <2>1 DEF Set
  <2> HIDE DEF x
  <2>5. call'[c] = x /\ StepOf(c, x, {})
    <3>1. call'[c] = x
      BY <1>1, <2>4 DEF TypeOK
    <3>2. sent' = sent /\ issued' = issued
      BY <1>3 DEF AnnounceOk
    <3>3. sent' = sent \cup {} /\ issued' \in Nat /\ issued <= issued'
      BY <1>1, <3>2 DEF TypeOK
    <3> QED BY <2>3, <2>4, <3>1, <3>3 DEF StepOf
  <2>6. Sockets(c)' /\ IdInHand(c)'
    BY <2>3, <2>5 DEF Sockets, IdInHand, Holding, Running
  <2>7. Transactions(c)'
    <3>1. \E r \in sent' : r.tx = <<c, x.tx>> /\ r.id = x.id
      BY <1>3, <2>2, <2>3 DEF AnnounceOk
    <3> QED BY <1>1, <1>3, <2>3, <2>5, <3>1 DEF CallInv, Transactions, AnnounceOk
  <2>8. Announces(c)' = Announces(c) /\ Connects(c)' = Connects(c)
    BY <1>1, <1>3, NothingSent DEF AnnounceOk
  <2>9. AnnounceBudget(c)' /\ ConnectBudget(c)'
    BY <1>1, <2>3, <2>5, <2>8 DEF CallInv, AnnounceBudget, ConnectBudget, Spent, EarlierRun, ThisRun
  <2> QED BY <1>1, <1>3, <2>5, <2>6, <2>7, <2>9, CallStep, FS_EmptySet DEF CallInv, AnnounceOk
<1>4. CASE AnnounceError(c)
  <2>1. CASE Return(c, "failed")
    BY <1>1, <1>4, <2>1, ReturnKeeps DEF AnnounceError
  <2>2. CASE /\ ~call[c].reconnected
             /\ Dial(c, [call[c] EXCEPT !.reconnected = TRUE, !.open = @ - 1])
    <3> DEFINE y == [call[c] EXCEPT !.reconnected = TRUE, !.open = @ - 1]
    <3>0. call[c].open - 1 = 0 /\ call[c].open - 1 \in Nat
      BY <1>1
    <3>1. /\ y \in CallStates /\ y.open = 0 /\ y.tx = call[c].tx /\ y.retry = call[c].retry
          /\ y.reconnected = TRUE
      BY <1>1, <3>0 DEF CallStates
    <3>2. Dial(c, y)
      BY <2>2
    <3>3. /\ Cardinality(Announces(c)) <= call[c].retry + 1
          /\ Cardinality(Connects(c)) <= MaxRetries
      BY <1>1, <2>2, Counts DEF Spent, EarlierRun
    <3> HIDE DEF y
    <3> QED BY <1>1, <1>4, <3>1, <3>2, <3>3, DialKeeps DEF AnnounceError
  <2> QED BY <1>4, <2>1, <2>2 DEF AnnounceError
<1> QED BY <1>2, <1>3, <1>4

\* Steps that leave the calls and their requests alone.
LEMMA OutsideKeeps ==
    ASSUME IInv, UNCHANGED <<call, sent, issued>>,
           cache' \in {cache, NoId}, age' \in {"fresh", "buffer", "old"}, gone' \subseteq Calls,
           stop' \in {"running", "stopping", "stopped"},
           stop' = "stopped" =>
              cache' = NoId /\ \A c \in Calls : call[c].pc \notin Running
    PROVE  IInv'
<1>1. TypeOK' /\ IsFiniteSet(sent') /\ CachedIdWasIssued'
  BY DEF IInv, TypeOK, CachedIdWasIssued
<1>2. \A c \in Calls : CallInv(c)'
  BY DEF IInv, CallInv, Sockets, IdInHand, Transactions, Readable, AnnounceBudget, ConnectBudget,
     Announces, Connects, Spent, EarlierRun, ThisRun
<1>3. StopIsClean'
  BY <1>2 DEF StopIsClean, CallInv, Sockets, Holding
<1> QED BY <1>1, <1>2, <1>3 DEF IInv

\* No step of a call, of the tracker, of time or of Stop breaks the invariant.
LEMMA Invariance == Spec => []IInv
<1>1. Init => IInv
  <2> SUFFICES ASSUME Init PROVE IInv
    OBVIOUS
  <2>1. IdleCall \in CallStates
    BY UdpClientAssumption DEF IdleCall, CallStates, CallPC
  <2>2. TypeOK /\ CachedIdWasIssued /\ StopIsClean /\ IsFiniteSet(sent)
    BY <2>1, FS_EmptySet DEF Init, TypeOK, CachedIdWasIssued, StopIsClean
  <2>3. ASSUME NEW c \in Calls PROVE CallInv(c)
    <3>1. call[c] = IdleCall /\ Announces(c) = {} /\ Connects(c) = {}
      BY DEF Init, Announces, Connects
    <3>2. Sockets(c) /\ IdInHand(c) /\ Transactions(c)
      BY <3>1 DEF Init, Sockets, IdInHand, Transactions, IdleCall, Holding, Running
    <3>3. AnnounceBudget(c) /\ ConnectBudget(c)
      BY <3>1, UdpClientAssumption, FS_EmptySet
      DEF AnnounceBudget, ConnectBudget, Spent, EarlierRun, ThisRun, IdleCall
    <3> QED BY <3>2, <3>3 DEF CallInv
  <2> QED BY <2>2, <2>3 DEF IInv
<1>2. IInv /\ [Next]_vars => IInv'
  <2> SUFFICES ASSUME IInv, [Next]_vars PROVE IInv'
    OBVIOUS
  <2>1. ASSUME NEW c \in Calls, Begin(c) \/ OwnStep(c) \/ HearTracker(c) PROVE IInv'
    BY <2>1, BeginKeeps, ConnectKeeps, AnswerKeeps, ConnectSendKeeps, AnnounceSendKeeps
    DEF OwnStep, HearTracker
  <2>2. ASSUME NEW c \in Calls, CancelCall(c) PROVE IInv'
    BY <2>2, OutsideKeeps DEF CancelCall, IInv, TypeOK, StopIsClean
  <2>3. ASSUME Age \/ CleanupConnections PROVE IInv'
    BY <2>3, OutsideKeeps DEF Age, CleanupConnections, IInv, TypeOK, StopIsClean
  <2>4. ASSUME StopRequest \/ StopClear PROVE IInv'
    BY <2>4, OutsideKeeps DEF StopRequest, StopClear, IInv, TypeOK, StopIsClean
  <2>5. ASSUME UNCHANGED vars PROVE IInv'
    BY <2>5, OutsideKeeps DEF vars, IInv, TypeOK, StopIsClean
  <2> QED BY <2>1, <2>2, <2>3, <2>4, <2>5 DEF Next
<1> QED BY <1>1, <1>2, PTL DEF Spec
-----------------------------------------------------------------------------
\* Every variable keeps its type: both retry counters stay within their loops,
\* and the socket count never goes below zero when the reconnect closes the
\* socket it is about to replace.
THEOREM TypeCorrect == Spec => []TypeOK
<1>1. IInv => TypeOK
  BY DEF IInv
<1> QED BY <1>1, Invariance, PTL

\* Stop leaves no call under way, no open socket and no cached ID, whichever
\* step each call was at when Stop began.
THEOREM StopClean == Spec => []StopIsClean
<1>1. IInv => StopIsClean
  BY DEF IInv
<1> QED BY <1>1, Invariance, PTL

\* A call never has two sockets and none once it has returned.
THEOREM SocketsClosed == Spec => []NoSocketLeak
<1>1. IInv => NoSocketLeak
  BY DEF IInv, CallInv, Sockets, NoSocketLeak, Holding
<1> QED BY <1>1, Invariance, PTL

\* Only IDs the tracker gave out are ever cached and shared.
THEOREM CachedIds == Spec => []CachedIdWasIssued
<1>1. IInv => CachedIdWasIssued
  BY DEF IInv
<1> QED BY <1>1, Invariance, PTL

\* A call succeeds by the reply to its last request, sent with the ID it
\* holds, however late the replies to earlier attempts arrive.
THEOREM OkByLastAttempt == Spec => []OkAnswersLastAttempt
<1>1. IInv => OkAnswersLastAttempt
  <2> SUFFICES ASSUME IInv, NEW c \in Calls, call[c].pc = "ok"
               PROVE  \E q \in sent : /\ q.tx = <<c, call[c].answered>> /\ q.id = call[c].id
                                      /\ \A r \in sent : r.tx[1] = c => r.tx[2] <= q.tx[2]
    BY DEF OkAnswersLastAttempt
  <2>1. /\ call[c].answered = call[c].tx
        /\ \A r \in sent : r.tx[1] = c => r.tx[2] <= call[c].tx
    BY DEF IInv, CallInv, Transactions
  <2>2. PICK q \in sent : q.tx = <<c, call[c].tx>> /\ q.id = call[c].id
    BY DEF IInv, CallInv, Transactions
  <2> QED BY <2>1, <2>2
<1> QED BY <1>1, Invariance, PTL

\* A call sends at most MaxRetries + 1 announce datagrams and 2 * MaxRetries
\* connect datagrams, retransmissions included, although the reconnect gives an
\* attempt back.
THEOREM RequestBound == Spec => []RequestsBounded
<1>1. IInv => RequestsBounded
  <2> SUFFICES ASSUME IInv, NEW c \in Calls
               PROVE  /\ Cardinality(Announces(c)) <= MaxRetries + 1
                      /\ Cardinality(Connects(c)) <= 2 * MaxRetries
    BY DEF RequestsBounded, Announces, Connects
  <2>1. call[c].retry + 1 <= MaxRetries
    BY UdpClientAssumption, Counts DEF IInv, CallInv, AnnounceBudget
  <2>2. EarlierRun(c) <= MaxRetries /\ MaxRetries \in Nat
    BY UdpClientAssumption DEF EarlierRun
  <2> QED BY <2>1, <2>2, Counts
<1> QED BY <1>1, Invariance, PTL
=============================================================================
