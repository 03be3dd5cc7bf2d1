--------------------------- MODULE AdmissionProofs ---------------------------
(***************************************************************************)
(* Proofs about Admission: what the token bucket lets through, and that    *)
(* asking it often does not put its next token off.                        *)
(***************************************************************************)
EXTENDS Admission, TLAPS

\* What the bucket holds and is owed never exceeds what the window still
\* allows; or the window has been idle, and then it is full at most.
Budget ==
    \/ Interval * spent <= elapsed
    \/ Interval * (spent + tokens + whole) + part < Interval * (Burst + 1) + elapsed

\* lastTick has not moved since the last yes, unless there is a token again.
TickNotAfterYes == tokens > 0 \/ whole > 0 \/ dry <= part

\* Until allow() is called for the first time the bucket is full.
FullAtStart == lastTick = "zero" => tokens = Burst

BucketInv ==
    /\ TypeOK
    /\ FullAtStart
    /\ Budget
    /\ TickNotAfterYes
    /\ PollingNotStarved

\* Multiplication by the length of an interval.
LEMMA Scale ==
    /\ \A a, b \in Nat : Interval * (a + b) = Interval * a + Interval * b
    /\ \A a, b \in Nat : a <= b => Interval * a <= Interval * b
    /\ Interval * 1 = Interval /\ Interval * 0 = 0
    /\ \A a \in Nat : Interval * a \in Nat
BY AdmissionAssumption

LEMMA RefilledType ==
    ASSUME TypeOK
    PROVE  /\ Refilled \in 0 .. Burst
           /\ Remainder \in 0 .. Interval - 1
           /\ Refilled <= tokens + whole
           /\ whole = 0 => Refilled = tokens /\ Remainder = part
           /\ whole > 0 => Refilled > 0 /\ Remainder = 0
           /\ Refilled = tokens + whole \/ Refilled = Burst
BY AdmissionAssumption DEF TypeOK, Refilled, Remainder

LEMMA BucketStart == Init => BucketInv
<1> SUFFICES ASSUME Init PROVE BucketInv
  OBVIOUS
<1>1. TypeOK
  BY AdmissionAssumption DEF Init, TypeOK
<1>2. Budget
  BY Scale DEF Init, Budget
<1>3. FullAtStart /\ TickNotAfterYes /\ PollingNotStarved
  BY AdmissionAssumption DEF Init, FullAtStart, TickNotAfterYes, PollingNotStarved
<1> QED
  BY <1>1, <1>2, <1>3 DEF BucketInv

\* allow: an announce it lets through is paid with a token.
LEMMA AllowKeeps ==
    ASSUME BucketInv, NEW r \in Handlers, Allow(r)
    PROVE  BucketInv'
<1> USE AdmissionAssumption
<1> DEFINE t == Refilled
<1>1. /\ t \in 0 .. Burst /\ t <= tokens + whole
      /\ whole = 0 => t = tokens /\ Remainder = part
      /\ whole > 0 => t > 0 /\ Remainder = 0
      /\ Remainder \in 0 .. Interval - 1
      /\ t = tokens + whole \/ t = Burst
  BY RefilledType DEF BucketInv
<1>2. /\ tokens \in Nat /\ whole \in Nat /\ part \in Nat /\ spent \in Nat /\ elapsed \in Nat
      /\ part < Interval /\ dry \in 0 .. Interval
  BY DEF BucketInv, TypeOK
<1>3. /\ whole' = 0 /\ part' = Remainder /\ elapsed' = elapsed /\ part' \in Nat /\ part' < Interval
      /\ lastTick' = "set"
  BY <1>1 DEF Allow
<1> HIDE DEF t
<1>4. CASE t > 0 /\ tokens' = t - 1 /\ spent' = spent + 1 /\ last' = "yes" /\ dry' = 0
           /\ Goto(r, "room")
  <2>1. TypeOK'
    BY <1>1, <1>3, <1>4 DEF Allow, BucketInv, TypeOK, Goto
  <2>2. spent' + tokens' + whole' = spent + t
    BY <1>1, <1>2, <1>3, <1>4
  <2>3. Interval * (spent + t) = Interval * spent + Interval * t
    BY <1>1, <1>2, Scale
  <2>4. Interval * (Burst + 1) = Interval * Burst + Interval
    BY Scale
  <2>5. Interval * t <= Interval * Burst
    BY <1>1, Scale
  <2>6. /\ Interval * spent \in Nat /\ Interval * t \in Nat /\ Interval * Burst \in Nat
    BY <1>1, <1>2, Scale
  <2>7. CASE Interval * spent <= elapsed
    <3>1. Interval * (spent' + tokens' + whole') + part' < Interval * (Burst + 1) + elapsed'
      BY <1>2, <1>3, <2>2, <2>3, <2>4, <2>5, <2>6, <2>7
    <3> QED
      BY <2>1, <3>1, <1>3, <1>4 DEF BucketInv, Budget, FullAtStart, TickNotAfterYes, PollingNotStarved
  <2>8. CASE Interval * (spent + tokens + whole) + part < Interval * (Burst + 1) + elapsed
    <3>1. Interval * (spent + t) <= Interval * (spent + tokens + whole)
      BY <1>1, <1>2, Scale
    <3>2. part' <= part
      BY <1>1, <1>2, <1>3
    <3>3. Interval * (spent + tokens + whole) \in Nat /\ Interval * (spent + t) \in Nat
      BY <1>1, <1>2, Scale
    <3>4. Interval * (spent' + tokens' + whole') + part' < Interval * (Burst + 1) + elapsed'
      BY <1>2, <1>3, <2>2, <2>4, <2>6, <2>8, <3>1, <3>2, <3>3
    <3> QED
      BY <2>1, <3>4, <1>3, <1>4 DEF BucketInv, Budget, FullAtStart, TickNotAfterYes, PollingNotStarved
  <2> QED
    BY <2>7, <2>8 DEF BucketInv, Budget
<1>5. CASE t = 0 /\ tokens' = 0 /\ last' = "no" /\ UNCHANGED <<dry, spent>> /\ Goto(r, "idle")
  <2>1. whole = 0 /\ tokens = 0 /\ part' = part
    BY <1>1, <1>2, <1>3, <1>5
  <2>2. TypeOK'
    BY <1>1, <1>3, <1>5 DEF Allow, BucketInv, TypeOK, Goto
  <2>3. dry < Interval
    BY <1>2, <2>1 DEF BucketInv, TickNotAfterYes
  <2> QED
    BY <1>2, <1>3, <1>5, <2>1, <2>2, <2>3
       DEF BucketInv, Budget, FullAtStart, TickNotAfterYes, PollingNotStarved
<1> QED
  BY <1>4, <1>5 DEF Allow, t

\* Time passes: the window grows by as much as the bucket is owed.
LEMMA TickKeeps ==
    ASSUME BucketInv, Tick
    PROVE  BucketInv'
<1> USE AdmissionAssumption
<1>1. /\ tokens \in Nat /\ whole \in Nat /\ part \in Nat /\ spent \in Nat /\ elapsed \in Nat
      /\ part < Interval /\ dry \in 0 .. Interval
  BY DEF BucketInv, TypeOK
<1>2. TypeOK'
  BY DEF Tick, BucketInv, TypeOK
<1>3. FullAtStart' /\ TickNotAfterYes' /\ PollingNotStarved'
  BY <1>1 DEF Tick, BucketInv, FullAtStart, TickNotAfterYes, PollingNotStarved
<1>4. Interval * (spent + tokens + whole) \in Nat /\ Interval * (Burst + 1) \in Nat
  BY <1>1, Scale
<1>5. CASE Interval * spent <= elapsed
  BY <1>1, <1>2, <1>3, <1>5, Scale DEF Tick, BucketInv, Budget
<1>6. CASE Interval * (spent + tokens + whole) + part < Interval * (Burst + 1) + elapsed
  <2> DEFINE owed == spent + tokens + whole
  <2>1. owed \in Nat /\ Interval * owed \in Nat /\ Interval * (Burst + 1) \in Nat
    BY <1>1, <1>4
  <2>2. Interval * owed + part < Interval * (Burst + 1) + elapsed
    BY <1>6
  <2>3. PICK w \in Nat, p \in Nat : /\ w = whole' /\ p = part'
                                     /\ \/ w = whole /\ p <= part + 1
                                        \/ part + 1 = Interval /\ p = 0 /\ w <= whole + 1
    BY <1>1 DEF Tick, BucketInv, TypeOK
  <2>4. spent' + tokens' + whole' = spent + tokens + w /\ elapsed' = elapsed + 1
    BY <2>3 DEF Tick
  <2>5. \/ w = whole /\ p <= part + 1
        \/ part + 1 = Interval /\ p = 0 /\ w <= whole + 1
    BY <2>3, Zenon
  <2>6. \/ spent + tokens + w = owed /\ p <= part + 1
        \/ part + 1 = Interval /\ p = 0 /\ spent + tokens + w <= owed + 1
    BY <1>1, <2>5
  <2>7. PICK n \in Nat : n = spent + tokens + w
    BY <1>1
  <2> HIDE DEF owed
  <2>8. /\ n <= owed + 1 => Interval * n <= Interval * (owed + 1)
        /\ Interval * (owed + 1) = Interval * owed + Interval
        /\ Interval * n \in Nat
    BY <2>1, <2>7, Scale
  <2>9. Interval * n + p < Interval * (Burst + 1) + (elapsed + 1)
    BY <1>1, <2>1, <2>2, <2>6, <2>7, <2>8
  <2> QED
    BY <1>2, <1>3, <2>3, <2>4, <2>7, <2>9 DEF BucketInv, Budget
<1> QED
  BY <1>5, <1>6 DEF BucketInv, Budget

\* A new window: the bucket is full at most, and at most a part of a token over.
LEMMA LookKeeps ==
    ASSUME BucketInv, Look
    PROVE  BucketInv'
BY Scale DEF Look, bucketVars, BucketInv, TypeOK, Budget, FullAtStart, TickNotAfterYes, PollingNotStarved

LEMMA BucketStep == BucketInv /\ [Next]_vars => BucketInv'
<1> SUFFICES ASSUME BucketInv, [Next]_vars PROVE BucketInv'
  OBVIOUS
<1> USE AdmissionAssumption
<1>other. ASSUME UNCHANGED <<bucketVars, historyVars>>, TypeOK'
          PROVE  BucketInv'
  BY <1>other DEF bucketVars, historyVars, BucketInv, Budget, FullAtStart, TickNotAfterYes, PollingNotStarved
<1>first. ASSUME NEW r \in Handlers, FirstAnnounce(r) PROVE BucketInv'
  BY <1>first, <1>other DEF FirstAnnounce, Goto, bucketVars, historyVars, BucketInv, TypeOK
<1>room. ASSUME NEW r \in Handlers, CheckRoom(r) PROVE BucketInv'
  BY <1>room, <1>other DEF CheckRoom, Goto, bucketVars, historyVars, BucketInv, TypeOK
<1>jobs. ASSUME NEW r \in Handlers, QueueJobs(r) PROVE BucketInv'
  BY <1>jobs, <1>other DEF QueueJobs, Goto, bucketVars, historyVars, BucketInv, TypeOK
<1>queue. CASE QueueChanges
  BY <1>queue, <1>other DEF QueueChanges, bucketVars, historyVars, BucketInv, TypeOK
<1>stutter. CASE UNCHANGED vars
  BY <1>stutter, <1>other DEF vars, bucketVars, historyVars, BucketInv, TypeOK
<1> QED
  BY <1>first, <1>room, <1>jobs, <1>queue, <1>stutter, AllowKeeps, TickKeeps, LookKeeps DEF Next

\* Every reachable state is well typed; the bucket never holds more than its
\* burst.
THEOREM AdmissionTypeCorrect == Spec => []TypeOK
<1>1. BucketInv => TypeOK
  BY DEF BucketInv
<1>2. QED
  BY <1>1, BucketStart, BucketStep, PTL DEF Spec

\* In no window of time does allow() let more announces through than burst and
\* rate permit, for every burst, every resolution of time and any callers.
THEOREM RateBounded == Spec => []RateIsBounded
<1>1. BucketInv => RateIsBounded
  <2> SUFFICES ASSUME BucketInv PROVE RateIsBounded
    OBVIOUS
  <2>1. /\ tokens \in Nat /\ whole \in Nat /\ part \in Nat /\ spent \in Nat /\ elapsed \in Nat
        /\ Burst + 1 \in Nat
    BY AdmissionAssumption DEF BucketInv, TypeOK
  <2>2. Interval * spent <= Interval * (spent + tokens + whole)
    BY <2>1, Scale
  <2>3. Interval * (Burst + 1) = Interval * Burst + Interval /\ Interval * Burst \in Nat
    BY AdmissionAssumption, Scale
  <2>4. Interval * spent \in Nat /\ Interval * (spent + tokens + whole) \in Nat
    <3>1. spent + tokens + whole \in Nat
      BY <2>1
    <3> QED
      BY <2>1, <3>1, Scale
  <2> QED
    BY <2>1, <2>2, <2>3, <2>4, AdmissionAssumption DEF BucketInv, Budget, RateIsBounded
<1>2. QED
  BY <1>1, BucketStart, BucketStep, PTL DEF Spec

\* allow() refuses only within the time of one token of its last yes.
THEOREM PollersServed == Spec => []PollingNotStarved
<1>1. BucketInv => PollingNotStarved
  BY DEF BucketInv
<1>2. QED
  BY <1>1, BucketStart, BucketStep, PTL DEF Spec
=============================================================================
