-------------------------- MODULE AlgorithmsProofs --------------------------
(***************************************************************************)
(* What the loops of Algorithms compute, for inputs of every length.  Each *)
(* loop has an invariant that says what it has computed of the part of its *)
(* input it has gone through.                                              *)
(***************************************************************************)
EXTENDS Algorithms, FiniteSetTheorems, TLAPS

(***************************************************************************)
(* Counting: the IPs seen split into those that were counted as seeders    *)
(* and those that were counted as leechers.  A leecher's IP has a local    *)
(* peer that leeches; a seeder's IP has one that seeds or no local peer.   *)
(***************************************************************************)
Split(C) ==
    /\ complete = Cardinality(C)
    /\ incomplete = Cardinality(seen \ C)
    /\ \A ip \in C \cap LocalHosts : \E p \in local : p.ip = ip /\ p.seeds
    /\ \A ip \in seen \ C : \E p \in local : p.ip = ip /\ ~p.seeds

CountInv ==
    /\ \A p \in local \ left : p.ip \in seen \cup {NoIp}
    /\ \A p \in cached \ rest : p.ip \in seen \cup {NoIp}
    /\ seen \subseteq LocalHosts \cup CachedHosts
    /\ IsFiniteSet(seen)
    /\ \E C \in SUBSET seen : Split(C)

(***************************************************************************)
(* Filtering: what was taken of the peers looked at so far is the first of *)
(* every eligible address, each at its rank; no eligible address is left.  *)
(***************************************************************************)
Taken(address) == \E k \in DOMAIN filtered : Address(filtered[k]) = address

FilterInv ==
    /\ Len(filtered) = Cardinality(Firsts(next))
    /\ Len(filtered) <= MaxPeers
    /\ \A i \in Firsts(next) : Rank(i) \in DOMAIN filtered /\ filtered[Rank(i)] = peers[i]
    /\ \A k \in DOMAIN filtered : \E i \in Firsts(next) : Rank(i) = k
    /\ \A j \in 1 .. next - 1 : Eligible(peers[j]) => Taken(Address(peers[j]))

(***************************************************************************)
(* A pass that disables what is bad: listed is what it has left of the     *)
(* entries it has gone through, none of them bad, and then the entries it  *)
(* has not come to.                                                        *)
(***************************************************************************)
Ahead == Len(copy) + 1 - at
Behind == Len(listed) - Ahead

Passed(bad) ==
    /\ Behind >= 0
    /\ \A i \in 1 .. Behind : /\ listed[i].uri \notin bad
                              /\ \E j \in 1 .. at - 1 : listed[i] = copy[j]
    /\ \A j \in at .. Len(copy) : listed[Behind + 1 + (j - at)] = copy[j]
    /\ \A j \in 1 .. at - 1 : copy[j].uri \notin bad => \E i \in 1 .. Behind : listed[i] = copy[j]

InvalidUris == {u \in Uris : Invalid(u)}
BlockedUris == {u \in Uris : Blocked(u)}

\* The grouping has found, of the entries before place n, the best of every
\* domain, and whether there were two of one domain.
Grouped(n) ==
    /\ \A u \in toKeep : u.parses /\ \E i \in 1 .. n - 1 : copy[i].uri = u
    /\ \A i \in 1 .. n - 1 : copy[i].uri.parses =>
          \E u \in toKeep : /\ SameDomain(copy[i].uri, u)
                            /\ forwarderScore(copy[i].uri) <= forwarderScore(u)
    /\ \A u, v \in toKeep : SameDomain(u, v) => u = v
    /\ ~twice => \A i, j \in 1 .. n - 1 : SameDomain(copy[i].uri, copy[j].uri) => i = j

\* The new list has, of the entries before place n, those to be kept.
Rebuilt(n) ==
    /\ \A k \in DOMAIN kept : kept[k].uri \in toKeep /\ kept[k] \in ToSet(copy)
    /\ \A i \in 1 .. n - 1 : copy[i].uri \in toKeep => copy[i] \in ToSet(kept)

StartInv ==
    /\ pass = "validate" => copy = given /\ Passed(InvalidUris)
    /\ pass = "check" =>
          /\ ToSet(copy) = {f \in ToSet(given) : f.uri \notin InvalidUris}
          /\ Passed(BlockedUris)
    /\ pass \in {"validate", "check"} => toKeep = {} /\ ~twice
    /\ pass \in {"group", "keep"} =>
          /\ listed = copy
          /\ ToSet(copy) = {f \in ToSet(given) : f.uri \notin InvalidUris \cup BlockedUris}
    /\ pass = "group" => Grouped(at)
    /\ pass = "keep" => Grouped(Len(copy) + 1) /\ Rebuilt(at)
    /\ pass # "keep" /\ pass # "done" => kept = <<>>

\* The loops together.  What is said of start-up supposes NamesAgree.
LoopInv == CountInv /\ FilterInv /\ (NamesAgree => StartInv) /\ BestUsableKept
-----------------------------------------------------------------------------
\* Sequences without one entry.
LEMMA RemoveAtShape ==
    ASSUME NEW S, NEW s \in Seq(S), NEW i \in 1 .. Len(s)
    PROVE  /\ RemoveAt(s, i) \in Seq(S)
           /\ Len(RemoveAt(s, i)) = Len(s) - 1
           /\ \A j \in 1 .. Len(s) - 1 : RemoveAt(s, i)[j] = IF j < i THEN s[j] ELSE s[j + 1]
<1>1. SubSeq(s, 1, i - 1) \in Seq(S) /\ Len(SubSeq(s, 1, i - 1)) = i - 1
  OBVIOUS
<1>2. SubSeq(s, i + 1, Len(s)) \in Seq(S) /\ Len(SubSeq(s, i + 1, Len(s))) = Len(s) - i
  OBVIOUS
<1>3. \A j \in 1 .. i - 1 : SubSeq(s, 1, i - 1)[j] = s[j]
  OBVIOUS
<1>4. \A j \in 1 .. Len(s) - i : SubSeq(s, i + 1, Len(s))[j] = s[i + j]
  OBVIOUS
<1>5. PICK a \in Seq(S), b \in Seq(S) :
          a = SubSeq(s, 1, i - 1) /\ b = SubSeq(s, i + 1, Len(s))
  BY <1>1, <1>2
<1>6. RemoveAt(s, i) = a \o b
  BY <1>5 DEF RemoveAt
<1>7. Len(a) = i - 1 /\ Len(b) = Len(s) - i
  BY <1>1, <1>2, <1>5
<1>8. a \o b \in Seq(S) /\ Len(a \o b) = Len(s) - 1
  BY <1>7
<1>9. ASSUME NEW j \in 1 .. Len(s) - 1
      PROVE  (a \o b)[j] = IF j < i THEN s[j] ELSE s[j + 1]
  <2>1. (a \o b)[j] = IF j <= Len(a) THEN a[j] ELSE b[j - Len(a)]
    BY <1>7
  <2>2. CASE j < i
    <3>1. j \in 1 .. i - 1
      BY <2>2
    <3>2. a[j] = s[j]
      BY <1>3, <1>5, <3>1
    <3> QED BY <1>7, <2>1, <2>2, <3>2
  <2>3. CASE ~(j < i)
    <3>1. j - Len(a) \in 1 .. Len(s) - i
      BY <1>7, <2>3
    <3>2. b[j - Len(a)] = s[i + (j - Len(a))]
      BY <1>4, <1>5, <3>1
    <3> QED BY <1>7, <2>1, <2>3, <3>2
  <2> QED BY <2>2, <2>3
<1> QED BY <1>6, <1>8, <1>9

\* The inputs have their types.
LEMMA TypeInit == Init => TypeOK
<1> SUFFICES ASSUME Init PROVE TypeOK
  OBVIOUS
<1> USE InputsAssumption
<1>1. (CHOOSE answers \in Resolutions : TRUE) \in Resolutions
  OBVIOUS
<1>2. (CHOOSE request \in Requests : TRUE) \in Requests
  OBVIOUS
<1>3. \E list \in Seq(Forwards), answers \in Resolutions : StartInit(list, answers)
  <2>1. <<>> \in Seq(Forwards)
    OBVIOUS
  <2>2. StartIdle => \E answers \in Resolutions : StartInit(<<>>, answers)
    BY <1>1 DEF StartIdle
  <2> QED BY <2>1, <2>2 DEF Init
<1>4. \E mine \in SUBSET LocalPeers, theirs \in SUBSET [ip : IPs, port : Ports] :
          CountInit(mine, theirs)
  BY DEF Init, CountIdle
<1>5. \E collected \in Seq(Peers), request \in Requests : FilterInit(collected, request)
  <2>1. <<>> \in Seq(Peers)
    OBVIOUS
  <2>2. FilterIdle => \E request \in Requests : FilterInit(<<>>, request)
    BY <1>2 DEF FilterIdle
  <2> QED BY <2>1, <2>2 DEF Init
<1>6. /\ given \in Seq(Forwards) /\ dns \in [Hosts -> SUBSET Resolved]
      /\ listed \in Seq(Forwards) /\ copy \in Seq(Forwards) /\ kept \in Seq(Forwards)
      /\ pass \in {"validate", "check", "group", "keep", "done"}
      /\ at \in 1 .. Len(copy) + 1
      /\ toKeep \in SUBSET Uris /\ twice \in BOOLEAN
      /\ disabled \subseteq {GetName(f) : f \in Forwards}
  <2> PICK list \in Seq(Forwards), answers \in Resolutions : StartInit(list, answers)
    BY <1>3
  <2>1. answers \in [Hosts -> SUBSET Resolved]
    OBVIOUS
  <2>2. kept \in Seq(Forwards) /\ toKeep \in SUBSET Uris
    <3>1. <<>> \in Seq(Forwards)
      OBVIOUS
    <3> QED BY <3>1 DEF StartInit
  <2>3. twice \in BOOLEAN
    BY DEF StartInit
  <2>4. pass \in {"validate", "check", "group", "keep", "done"}
    BY DEF StartInit
  <2>5. at \in 1 .. Len(copy) + 1
    BY DEF StartInit
  <2> QED BY <2>1, <2>2, <2>4, <2>5, <2>3 DEF StartInit
<1>7. /\ local \subseteq LocalPeers /\ left \subseteq local
      /\ cached \subseteq [ip : IPs, port : Ports] /\ rest \subseteq cached
      /\ seen \subseteq IPs \ {NoIp} /\ complete \in Nat /\ incomplete \in Nat
  BY <1>4 DEF CountInit
<1>8. /\ peers \in Seq(Peers) /\ ask \in [requester : Peers, want : Nat, family : {0, 4, 6}]
      /\ next \in 1 .. Len(peers) + 1 /\ filtered \in Seq(Peers)
  BY <1>5 DEF FilterInit
<1> QED BY <1>6, <1>7, <1>8 DEF TypeOK

\* disableForwarder leaves a list of forwarders and adds the name of one.
LEMMA DisableType ==
    ASSUME TypeOK, NEW f \in Forwards, disableForwarder(GetName(f))
    PROVE  listed' \in Seq(Forwards) /\ disabled' \subseteq {GetName(g) : g \in Forwards}
<1>1. CASE UNCHANGED <<listed, disabled>>
  BY <1>1 DEF TypeOK
<1>2. ASSUME NEW i \in DOMAIN listed, listed' = RemoveAt(listed, i),
             disabled' = disabled \cup {GetName(f)}
      PROVE  listed' \in Seq(Forwards) /\ disabled' \subseteq {GetName(g) : g \in Forwards}
  <2>1. listed \in Seq(Forwards) /\ i \in 1 .. Len(listed)
    BY DEF TypeOK
  <2>2. RemoveAt(listed, i) \in Seq(Forwards)
    BY <2>1, RemoveAtShape
  <2> QED BY <1>2, <2>2 DEF TypeOK
<1> QED BY <1>1, <1>2 DEF disableForwarder

\* The types of the variables of each of the three loops.
StartTypes ==
    /\ given \in Seq(Forwards) /\ dns \in [Hosts -> SUBSET Resolved]
    /\ listed \in Seq(Forwards) /\ copy \in Seq(Forwards) /\ kept \in Seq(Forwards)
    /\ pass \in {"validate", "check", "group", "keep", "done"}
    /\ at \in 1 .. Len(copy) + 1
    /\ toKeep \in SUBSET Uris /\ twice \in BOOLEAN
    /\ disabled \subseteq {GetName(f) : f \in Forwards}

CountTypes ==
    /\ local \subseteq LocalPeers /\ left \subseteq local
    /\ cached \subseteq [ip : IPs, port : Ports] /\ rest \subseteq cached
    /\ seen \subseteq IPs \ {NoIp} /\ complete \in Nat /\ incomplete \in Nat

FilterTypes ==
    /\ peers \in Seq(Peers) /\ ask \in [requester : Peers, want : Nat, family : {0, 4, 6}]
    /\ next \in 1 .. Len(peers) + 1 /\ filtered \in Seq(Peers)

\* The type invariant is theirs together.
LEMMA TypeParts == TypeOK <=> StartTypes /\ CountTypes /\ FilterTypes
BY DEF TypeOK, StartTypes, CountTypes, FilterTypes

\* A loop that does not move keeps its types.
LEMMA StartTypesKept == StartTypes /\ UNCHANGED startVars => StartTypes'
BY DEF StartTypes, startVars

LEMMA CountTypesKept == CountTypes /\ UNCHANGED countVars => CountTypes'
BY DEF CountTypes, countVars

LEMMA FilterTypesKept == FilterTypes /\ UNCHANGED filterVars => FilterTypes'
BY DEF FilterTypes, filterVars

\* So does every step of NewForwarderManager.
LEMMA StartTypesStep == TypeOK /\ StartNext => StartTypes'
<1> SUFFICES ASSUME TypeOK, StartNext PROVE StartTypes'
  OBVIOUS
<1> StartTypes
  BY TypeParts
<1>1. CASE NextPass
  <2>1. given' = given /\ dns' = dns /\ disabled' = disabled /\ toKeep' = toKeep
        /\ twice' = twice /\ kept' = kept
    BY <1>1 DEF NextPass
  <2>2. listed' \in Seq(Forwards)
    BY <1>1 DEF NextPass, StartTypes
  <2>3. copy' \in Seq(Forwards) /\ at' \in 1 .. Len(copy') + 1
    BY <1>1, <2>2 DEF NextPass
  <2>4. pass' \in {"validate", "check", "group", "keep", "done"}
    BY <1>1 DEF NextPass, After
  <2> QED BY <2>1, <2>2, <2>3, <2>4 DEF StartTypes
<1>2. ASSUME NEW p, Round(p)
      PROVE  /\ UNCHANGED <<given, dns, pass, copy>>
             /\ at' \in 1 .. Len(copy') + 1 /\ copy[at] \in Forwards
  <2>1. copy \in Seq(Forwards) /\ at \in 1 .. Len(copy) + 1 /\ Len(copy) \in Nat
    BY DEF StartTypes
  <2>2. at <= Len(copy) /\ at' = at + 1 /\ UNCHANGED <<given, dns, pass, copy>>
    BY <1>2 DEF Round
  <2>3. at' \in 1 .. Len(copy) + 1 /\ at \in 1 .. Len(copy)
    BY <2>1, <2>2
  <2> QED BY <2>1, <2>2, <2>3
<1>3. ASSUME NEW bad \in BOOLEAN, NEW p, Round(p), DisableIf(bad)
      PROVE  StartTypes'
  <2>1. copy[at] \in Forwards /\ UNCHANGED <<given, dns, pass, copy>>
        /\ at' \in 1 .. Len(copy') + 1
    BY <1>2, <1>3
  <2>2. UNCHANGED <<toKeep, twice, kept>>
    BY <1>3 DEF DisableIf
  <2>3. listed' \in Seq(Forwards) /\ disabled' \subseteq {GetName(g) : g \in Forwards}
    <3>1. CASE disableForwarder(GetName(copy[at]))
      BY <2>1, <3>1, DisableType
    <3>2. CASE UNCHANGED <<listed, disabled>>
      BY <3>2 DEF StartTypes
    <3> QED BY <1>3, <3>1, <3>2 DEF DisableIf
  <2> QED BY <2>1, <2>2, <2>3 DEF StartTypes
<1>4. CASE GroupByDomain
  <2>1. copy[at] \in Forwards /\ UNCHANGED <<given, dns, pass, copy>>
        /\ at' \in 1 .. Len(copy') + 1
    BY <1>2, <1>4 DEF GroupByDomain
  <2>2. copy[at].uri \in Uris
    BY <2>1 DEF Forwards
  <2>3. toKeep' \in SUBSET Uris /\ twice' \in BOOLEAN
    BY <1>4, <2>2 DEF StartTypes, GroupByDomain
  <2>4. UNCHANGED <<listed, disabled, kept>>
    BY <1>4 DEF GroupByDomain
  <2> QED BY <2>1, <2>3, <2>4 DEF StartTypes
<1>5. CASE KeepBest
  <2>1. copy[at] \in Forwards /\ UNCHANGED <<given, dns, pass, copy>>
        /\ at' \in 1 .. Len(copy') + 1
    BY <1>2, <1>5 DEF KeepBest
  <2>2. kept' \in Seq(Forwards)
    BY <1>5, <2>1 DEF StartTypes, KeepBest
  <2>3. UNCHANGED <<listed, disabled, toKeep, twice>>
    BY <1>5 DEF KeepBest
  <2> QED BY <2>1, <2>2, <2>3 DEF StartTypes
<1>6. CASE validateAndRemoveInvalidForwarders
  BY <1>3, <1>6 DEF validateAndRemoveInvalidForwarders, Invalid
<1>7. CASE checkAndRemoveBlockedForwarders
  BY <1>3, <1>7 DEF checkAndRemoveBlockedForwarders, Blocked
<1> QED BY <1>1, <1>4, <1>5, <1>6, <1>7 DEF StartNext

\* And every step of the count.
LEMMA CountTypesStep == CountTypes /\ CountNext => CountTypes'
<1> SUFFICES ASSUME CountTypes, CountNext PROVE CountTypes'
  OBVIOUS
<1>1. ASSUME NEW ip \in IPs, NEW seeds \in BOOLEAN, CountPeer(ip, seeds)
      PROVE  seen' \subseteq IPs \ {NoIp} /\ complete' \in Nat /\ incomplete' \in Nat
  <2>1. seen \subseteq IPs \ {NoIp} /\ complete \in Nat /\ incomplete \in Nat
    BY DEF CountTypes
  <2>2. CASE ip = NoIp \/ ip \in seen
    BY <1>1, <2>1, <2>2 DEF CountPeer
  <2>3. CASE ~(ip = NoIp \/ ip \in seen)
    <3>1. /\ seen' = seen \cup {ip}
          /\ complete' \in {complete + 1, complete + 0}
          /\ incomplete' \in {incomplete + 1, incomplete + 0}
      BY <1>1, <2>3 DEF CountPeer
    <3> QED BY <2>1, <2>3, <3>1
  <2> QED BY <2>2, <2>3
<1>2. CASE CountLocal
  <2> PICK p \in left : left' = left \ {p} /\ CountPeer(p.ip, p.seeds)
    BY <1>2 DEF CountLocal
  <2>1. p.ip \in IPs /\ p.seeds \in BOOLEAN
    BY DEF CountTypes, LocalPeers
  <2>2. seen' \subseteq IPs \ {NoIp} /\ complete' \in Nat /\ incomplete' \in Nat
    BY <1>1, <2>1
  <2>3. UNCHANGED <<local, cached, rest>>
    BY <1>2 DEF CountLocal
  <2> QED BY <2>2, <2>3 DEF CountTypes
<1>3. CASE CountCached
  <2> PICK p \in rest : rest' = rest \ {p} /\ CountPeer(p.ip, TRUE)
    BY <1>3 DEF CountCached
  <2>1. p.ip \in IPs
    BY DEF CountTypes
  <2>2. seen' \subseteq IPs \ {NoIp} /\ complete' \in Nat /\ incomplete' \in Nat
    BY <1>1, <2>1
  <2>3. UNCHANGED <<local, cached, left>>
    BY <1>3 DEF CountCached
  <2> QED BY <2>2, <2>3 DEF CountTypes
<1> QED BY <1>2, <1>3 DEF CountNext

\* And every step of filterPeers.
LEMMA FilterTypesStep == FilterTypes /\ FilterPeer => FilterTypes'
<1> SUFFICES ASSUME FilterTypes, FilterPeer PROVE FilterTypes'
  OBVIOUS
<1>1. next <= Len(peers) /\ next' = next + 1 /\ peers' = peers /\ ask' = ask
  BY DEF FilterPeer, Looking
<1>2. peers \in Seq(Peers) /\ next \in 1 .. Len(peers) + 1 /\ Len(peers) \in Nat
  BY DEF FilterTypes
<1>3. next \in 1 .. Len(peers) /\ next' \in 1 .. Len(peers') + 1
  BY <1>1, <1>2
<1>4. peers[next] \in Peers
  BY <1>2, <1>3
<1>5. filtered' = filtered \/ filtered' = Append(filtered, peers[next])
  BY DEF FilterPeer
<1>6. filtered' \in Seq(Peers)
  <2>1. filtered \in Seq(Peers)
    BY DEF FilterTypes
  <2>2. Append(filtered, peers[next]) \in Seq(Peers)
    BY <1>4, <2>1
  <2> QED BY <1>5, <2>1, <2>2
<1> QED BY <1>1, <1>3, <1>6 DEF FilterTypes

\* Every step keeps the types: one loop moves and the others stand still.
LEMMA TypeStep == TypeOK /\ [Next]_vars => TypeOK'
<1> SUFFICES ASSUME TypeOK, [Next]_vars PROVE StartTypes' /\ CountTypes' /\ FilterTypes'
  BY TypeParts DEF TypeOK, StartTypes, CountTypes, FilterTypes
<1>1. StartTypes /\ CountTypes /\ FilterTypes
  BY TypeParts
<1>2. StartTypes'
  BY <1>1, StartTypesStep, StartTypesKept DEF Next, vars
<1>3. CountTypes'
  BY <1>1, CountTypesStep, CountTypesKept DEF Next, vars
<1>4. FilterTypes'
  BY <1>1, FilterTypesStep, FilterTypesKept DEF Next, vars
<1> QED BY <1>2, <1>3, <1>4

\* All variables of the loops keep their types.
THEOREM LoopTypes == Spec => []TypeOK
BY TypeInit, TypeStep, PTL DEF Spec
-----------------------------------------------------------------------------
(***************************************************************************)
(* Counting.                                                               *)
(***************************************************************************)

\* A peer that is counted as what it is keeps the split.
LEMMA CountPeerStep ==
    ASSUME TypeOK, CountInv, UNCHANGED <<local, cached>>,
           NEW ip \in IPs, NEW seeds \in BOOLEAN, CountPeer(ip, seeds),
           ip \in LocalHosts \cup CachedHosts \cup {NoIp},
           seeds /\ ip \in LocalHosts \ seen => \E p \in local : p.ip = ip /\ p.seeds,
           ~seeds => \E p \in local : p.ip = ip /\ ~p.seeds
    PROVE  /\ seen \subseteq seen' /\ ip \in seen' \cup {NoIp}
           /\ seen' \subseteq LocalHosts' \cup CachedHosts'
           /\ IsFiniteSet(seen')
           /\ \E C \in SUBSET seen' : Split(C)'
<1>1. LocalHosts' = LocalHosts /\ CachedHosts' = CachedHosts
  BY DEF LocalHosts, CachedHosts
<1>2. CASE ip = NoIp \/ ip \in seen
  <2>1. UNCHANGED <<seen, complete, incomplete>>
    BY <1>2 DEF CountPeer
  <2> QED BY <1>1, <1>2, <2>1 DEF CountInv, Split
<1>3. CASE ~(ip = NoIp \/ ip \in seen)
  <2>1. seen' = seen \cup {ip}
    BY <1>3 DEF CountPeer
  <2>2. IsFiniteSet(seen')
    BY <2>1, FS_AddElement DEF CountInv
  <2>3. PICK C \in SUBSET seen : Split(C)
    BY DEF CountInv
  <2>4. IsFiniteSet(C) /\ IsFiniteSet(seen \ C)
    <3>1. seen \ C \in SUBSET seen
      OBVIOUS
    <3> QED BY <3>1, FS_Subset DEF CountInv
  <2>5. CASE seeds
    <3>1. complete' = complete + 1 /\ incomplete' = incomplete
      BY <1>3, <2>5 DEF CountPeer, TypeOK
    <3>2. Cardinality(C \cup {ip}) = Cardinality(C) + 1
      BY <1>3, <2>4, FS_AddElement
    <3>3. seen' \ (C \cup {ip}) = seen \ C
      BY <1>3, <2>1
    <3>4. C \cup {ip} \in SUBSET seen'
      BY <2>1
    <3>5. Split(C \cup {ip})'
      BY <1>1, <1>3, <2>3, <2>5, <3>1, <3>2, <3>3 DEF Split
    <3> QED BY <1>1, <1>3, <2>1, <2>2, <3>4, <3>5 DEF CountInv
  <2>6. CASE ~seeds
    <3>1. complete' = complete /\ incomplete' = incomplete + 1
      BY <1>3, <2>6 DEF CountPeer, TypeOK
    <3>2. Cardinality((seen \ C) \cup {ip}) = Cardinality(seen \ C) + 1
      BY <1>3, <2>4, FS_AddElement
    <3>3. seen' \ C = (seen \ C) \cup {ip}
      BY <1>3, <2>1
    <3>4. C \in SUBSET seen'
      BY <2>1
    <3>5. Split(C)'
      BY <1>1, <1>3, <2>3, <2>6, <3>1, <3>2, <3>3 DEF Split
    <3> QED BY <1>1, <1>3, <2>1, <2>2, <3>4, <3>5 DEF CountInv
  <2> QED BY <2>5, <2>6
<1> QED BY <1>2, <1>3

\* Every visit keeps the invariant of the count.
LEMMA CountStep == TypeOK /\ CountInv /\ CountNext => CountInv'
<1> SUFFICES ASSUME TypeOK, CountInv, CountNext PROVE CountInv'
  OBVIOUS
<1>1. CASE CountLocal
  <2>1. PICK p \in left : left' = left \ {p} /\ CountPeer(p.ip, p.seeds)
    BY <1>1 DEF CountLocal
  <2>2. UNCHANGED <<local, cached, rest>>
    BY <1>1 DEF CountLocal
  <2>3. p \in local /\ p.ip \in IPs /\ p.seeds \in BOOLEAN
    BY DEF TypeOK, LocalPeers
  <2>4. /\ p.seeds => \E q \in local : q.ip = p.ip /\ q.seeds
        /\ ~p.seeds => \E q \in local : q.ip = p.ip /\ ~q.seeds
        /\ p.ip \in LocalHosts \cup CachedHosts \cup {NoIp}
    BY <2>3 DEF LocalHosts
  <2>5. /\ seen \subseteq seen' /\ p.ip \in seen' \cup {NoIp}
        /\ seen' \subseteq LocalHosts' \cup CachedHosts'
        /\ IsFiniteSet(seen')
        /\ \E C \in SUBSET seen' : Split(C)'
    BY <2>1, <2>2, <2>3, <2>4, CountPeerStep
  <2>6. \A q \in local' \ left' : q.ip \in seen' \cup {NoIp}
    BY <2>1, <2>2, <2>5 DEF CountInv
  <2>7. \A q \in cached' \ rest' : q.ip \in seen' \cup {NoIp}
    BY <2>2, <2>5 DEF CountInv
  <2> QED BY <2>5, <2>6, <2>7 DEF CountInv
<1>2. CASE CountCached
  <2>1. PICK p \in rest : rest' = rest \ {p} /\ CountPeer(p.ip, TRUE)
    BY <1>2 DEF CountCached
  <2>2. UNCHANGED <<local, cached, left>> /\ left = {}
    BY <1>2 DEF CountCached
  <2>3. p \in cached /\ p.ip \in IPs
    BY DEF TypeOK
  <2>4. /\ p.ip \notin LocalHosts \ seen
        /\ p.ip \in LocalHosts \cup CachedHosts \cup {NoIp}
    BY <2>2, <2>3 DEF LocalHosts, CachedHosts, CountInv
  <2>5. /\ seen \subseteq seen' /\ p.ip \in seen' \cup {NoIp}
        /\ seen' \subseteq LocalHosts' \cup CachedHosts'
        /\ IsFiniteSet(seen')
        /\ \E C \in SUBSET seen' : Split(C)'
    BY <2>1, <2>2, <2>3, <2>4, CountPeerStep
  <2>6. \A q \in local' \ left' : q.ip \in seen' \cup {NoIp}
    BY <2>2, <2>5 DEF CountInv
  <2>7. \A q \in cached' \ rest' : q.ip \in seen' \cup {NoIp}
    BY <2>1, <2>2, <2>5 DEF CountInv
  <2> QED BY <2>5, <2>6, <2>7 DEF CountInv
<1> QED BY <1>1, <1>2 DEF CountNext

\* After the last visit, all hosts were seen; none of which all local peers
\* leech is among those counted as seeders, and so on.
LEMMA CountDone == TypeOK /\ CountInv => CountsAreHosts
<1> SUFFICES ASSUME TypeOK, CountInv, Counted PROVE CountsAreHosts
  BY DEF CountsAreHosts
<1>1. seen = LocalHosts \cup CachedHosts
  BY DEF Counted, CountInv, LocalHosts, CachedHosts, TypeOK
<1>2. PICK C \in SUBSET seen : Split(C)
  BY DEF CountInv
<1>3. PICK I \in SUBSET seen : I = seen \ C
  OBVIOUS
<1>4. IsFiniteSet(C) /\ IsFiniteSet(I) /\ C \cap I = {} /\ C \cup I = seen
  BY <1>2, <1>3, FS_Subset DEF CountInv
<1>5. complete = Cardinality(C) /\ incomplete = Cardinality(I)
  BY <1>2, <1>3 DEF Split
<1>6. Cardinality(seen) = complete + incomplete
  <2>1. Cardinality(C \cap I) = 0
    BY <1>4, FS_EmptySet
  <2>2. Cardinality(C \cup I) = Cardinality(C) + Cardinality(I) - Cardinality(C \cap I)
    BY <1>4, FS_Union
  <2>3. Cardinality(C \cup I) = Cardinality(seen)
    BY <1>4, Zenon
  <2>4. complete \in Nat /\ incomplete \in Nat
    BY DEF TypeOK
  <2> QED BY <1>5, <2>1, <2>2, <2>3, <2>4
<1>7. Cardinality(Only(FALSE)) <= incomplete
  <2>1. Only(FALSE) \in SUBSET I
    BY <1>1, <1>2, <1>3 DEF Only, Split
  <2> QED BY <1>4, <1>5, <2>1, FS_Subset
<1>8. Cardinality(Only(TRUE) \cup (CachedHosts \ LocalHosts)) <= complete
  <2>1. \A ip \in I : ip \in LocalHosts /\ ip \notin Only(TRUE)
    <3> TAKE ip \in I
    <3>1. PICK p \in local : p.ip = ip /\ ~p.seeds
      BY <1>2, <1>3 DEF Split
    <3>2. ip # NoIp
      BY DEF TypeOK
    <3>3. ip \in LocalHosts
      BY <3>1, <3>2 DEF LocalHosts
    <3> QED BY <3>1, <3>3 DEF Only
  <2>2. Only(TRUE) \cup (CachedHosts \ LocalHosts) \in SUBSET C
    BY <1>1, <1>4, <2>1 DEF Only
  <2> QED BY <1>4, <1>5, <2>2, FS_Subset
<1> QED BY <1>1, <1>6, <1>7, <1>8 DEF CountsAreHosts
-----------------------------------------------------------------------------
(***************************************************************************)
(* Filtering.                                                              *)
(***************************************************************************)

\* The places to be taken before a place are finitely many.
LEMMA FirstsFinite ==
    ASSUME NEW n \in Nat
    PROVE  IsFiniteSet(Firsts(n)) /\ Cardinality(Firsts(n)) \in Nat
<1>1. Firsts(n) \in SUBSET (1 .. n - 1)
  BY DEF Firsts
<1>2. IsFiniteSet(1 .. n - 1)
  BY FS_Interval
<1>3. IsFiniteSet(Firsts(n))
  BY <1>1, <1>2, FS_Subset
<1> QED BY <1>3, FS_CardinalityType

\* One more place adds itself or nothing.
LEMMA FirstsGrow ==
    ASSUME NEW n \in Nat \ {0}
    PROVE  LET new == /\ Eligible(peers[n])
                      /\ \A j \in 1 .. n - 1 :
                            Eligible(peers[j]) => Address(peers[j]) # Address(peers[n])
           IN  /\ new => /\ Firsts(n + 1) = Firsts(n) \cup {n}
                         /\ Cardinality(Firsts(n + 1)) = Cardinality(Firsts(n)) + 1
               /\ ~new => Firsts(n + 1) = Firsts(n)
<1>1. ASSUME /\ Eligible(peers[n])
             /\ \A j \in 1 .. n - 1 :
                   Eligible(peers[j]) => Address(peers[j]) # Address(peers[n])
      PROVE  /\ Firsts(n + 1) = Firsts(n) \cup {n}
             /\ Cardinality(Firsts(n + 1)) = Cardinality(Firsts(n)) + 1
  <2>1. Firsts(n + 1) = Firsts(n) \cup {n}
    BY <1>1 DEF Firsts
  <2>2. n \notin Firsts(n)
    BY DEF Firsts
  <2> QED BY <2>1, <2>2, FirstsFinite, FS_AddElement
<1>2. ASSUME ~(/\ Eligible(peers[n])
               /\ \A j \in 1 .. n - 1 :
                     Eligible(peers[j]) => Address(peers[j]) # Address(peers[n]))
      PROVE  Firsts(n + 1) = Firsts(n)
  BY <1>2 DEF Firsts
<1> QED BY <1>1, <1>2

\* A later place to be taken has a higher rank than there are places before.
LEMMA LaterRank ==
    ASSUME NEW n \in Nat \ {0}, NEW i \in Nat, n <= i, NEW m \in Nat, i \in Firsts(m)
    PROVE  Cardinality(Firsts(n)) < Rank(i) /\ Rank(i) \in Nat
<1>1. Firsts(n) \cup {i} \in SUBSET Firsts(i + 1)
  BY DEF Firsts
<1>2. i \notin Firsts(n)
  BY DEF Firsts
<1>3. Cardinality(Firsts(n) \cup {i}) = Cardinality(Firsts(n)) + 1
  BY <1>2, FirstsFinite, FS_AddElement
<1>4. Cardinality(Firsts(n) \cup {i}) <= Cardinality(Firsts(i + 1))
  BY <1>1, FirstsFinite, FS_Subset
<1> QED BY <1>3, <1>4, FirstsFinite DEF Rank

\* Every peer looked at keeps the invariant of the filter.
LEMMA FilterStep == TypeOK /\ FilterInv /\ FilterPeer => FilterInv'
<1> SUFFICES ASSUME TypeOK, FilterInv, FilterPeer PROVE FilterInv'
  OBVIOUS
<1>1. /\ peers' = peers /\ ask' = ask /\ next' = next + 1
      /\ next \in Nat \ {0} /\ next <= Len(peers) /\ Len(filtered) < MaxPeers
      /\ filtered \in Seq(Peers) /\ peers[next] \in Peers /\ MaxPeers \in Nat
  BY AnswersAssumption DEF FilterPeer, Looking, TypeOK, MaxPeers
<1>2. MaxPeers' = MaxPeers /\ Firsts(next)' = Firsts(next + 1)
  BY <1>1 DEF MaxPeers, Firsts, Eligible
<1>3. \A i \in Nat : Rank(i)' = Rank(i)
  BY <1>1 DEF Rank, Firsts, Eligible
<1>4. Taken(Address(peers[next]))
      <=> \E j \in 1 .. next - 1 : /\ Eligible(peers[j])
                                   /\ Address(peers[j]) = Address(peers[next])
  <2>1. ASSUME NEW k \in DOMAIN filtered, Address(filtered[k]) = Address(peers[next])
        PROVE  \E j \in 1 .. next - 1 : /\ Eligible(peers[j])
                                        /\ Address(peers[j]) = Address(peers[next])
    <3>1. PICK i \in Firsts(next) : Rank(i) = k
      BY DEF FilterInv
    <3>2. filtered[k] = peers[i]
      BY <3>1 DEF FilterInv
    <3> QED BY <2>1, <3>2 DEF Firsts
  <2>2. ASSUME NEW j \in 1 .. next - 1, Eligible(peers[j]),
               Address(peers[j]) = Address(peers[next])
        PROVE  Taken(Address(peers[next]))
    BY <2>2 DEF FilterInv
  <2> QED BY <2>1, <2>2 DEF Taken
<1>5. CASE /\ Eligible(peers[next])
           /\ \A j \in 1 .. next - 1 :
                 Eligible(peers[j]) => Address(peers[j]) # Address(peers[next])
  <2>1. filtered' = Append(filtered, peers[next])
    BY <1>4, <1>5 DEF FilterPeer, Taken
  <2>2. /\ Firsts(next + 1) = Firsts(next) \cup {next}
        /\ Cardinality(Firsts(next + 1)) = Cardinality(Firsts(next)) + 1
    BY <1>1, <1>5, FirstsGrow
  <2>3. /\ Len(filtered') = Len(filtered) + 1
        /\ DOMAIN filtered' = 1 .. Len(filtered) + 1
        /\ \A k \in DOMAIN filtered : filtered'[k] = filtered[k]
        /\ filtered'[Len(filtered) + 1] = peers[next]
    BY <1>1, <2>1
  <2>4. Rank(next) = Len(filtered) + 1
    BY <2>2 DEF Rank, FilterInv
  <2>5. \A i \in Firsts(next) : i \in Nat /\ Rank(i) \in DOMAIN filtered
    BY DEF Firsts, FilterInv
  <2>6. \A i \in Firsts(next + 1) :
            /\ Rank(i) \in DOMAIN filtered' /\ filtered'[Rank(i)] = peers[i]
            /\ Rank(i)' = Rank(i)
    BY <1>1, <1>3, <2>2, <2>3, <2>4, <2>5 DEF FilterInv
  <2>7. \A k \in DOMAIN filtered' : \E i \in Firsts(next + 1) : Rank(i) = k
    <3> TAKE k \in DOMAIN filtered'
    <3>1. CASE k = Len(filtered) + 1
      BY <2>2, <2>4, <3>1
    <3>2. CASE k # Len(filtered) + 1
      <4>1. k \in DOMAIN filtered
        BY <1>1, <2>3, <3>2
      <4> QED BY <2>2, <4>1 DEF FilterInv
    <3> QED BY <3>1, <3>2
  <2>8. Len(filtered') = Cardinality(Firsts(next + 1)) /\ Len(filtered') <= MaxPeers
    BY <1>1, <2>2, <2>3 DEF FilterInv
  <2>9. \A j \in 1 .. next : Eligible(peers[j]) => Taken(Address(peers[j]))'
    <3> TAKE j \in 1 .. next
    <3>1. j = next => Taken(Address(peers[j]))'
      BY <1>1, <2>3 DEF Taken
    <3>2. Taken(Address(peers[j])) => Taken(Address(peers[j]))'
      BY <1>1, <2>3 DEF Taken
    <3>3. j = next \/ j \in 1 .. next - 1
      BY <1>1
    <3> QED BY <3>1, <3>2, <3>3 DEF FilterInv
  <2>10. \A j \in Nat : Eligible(peers[j])' = Eligible(peers[j])
    BY <1>1 DEF Eligible
  <2> QED BY <1>1, <1>2, <2>6, <2>7, <2>8, <2>9, <2>10 DEF FilterInv
<1>6. CASE ~(/\ Eligible(peers[next])
             /\ \A j \in 1 .. next - 1 :
                   Eligible(peers[j]) => Address(peers[j]) # Address(peers[next]))
  <2>1. filtered' = filtered
    BY <1>4, <1>6 DEF FilterPeer, Taken
  <2>2. Firsts(next + 1) = Firsts(next)
    BY <1>1, <1>6, FirstsGrow
  <2>3. \A i \in Firsts(next) : Rank(i)' = Rank(i)
    BY <1>1, <1>3 DEF Firsts
  <2>4. \A j \in 1 .. next : Eligible(peers[j]) => Taken(Address(peers[j]))
    <3> SUFFICES ASSUME NEW j \in 1 .. next, Eligible(peers[j]) PROVE Taken(Address(peers[j]))
      OBVIOUS
    <3>1. CASE j = next
      BY <1>4, <1>6, <3>1
    <3>2. CASE j # next
      BY <1>1, <3>2 DEF FilterInv
    <3> QED BY <3>1, <3>2
  <2>5. \A j \in 1 .. next : Eligible(peers[j])' => Taken(Address(peers[j]))'
    BY <1>1, <2>1, <2>4 DEF Eligible, Taken
  <2> QED BY <1>1, <1>2, <2>1, <2>2, <2>3, <2>5 DEF FilterInv
<1> QED BY <1>5, <1>6

\* When the loop ends, all places were looked at, or the ones left have ranks
\* above the number wanted.
LEMMA FilterDone == TypeOK /\ FilterInv => FilteredAsWanted
<1> SUFFICES ASSUME TypeOK, FilterInv, ~Looking PROVE FilteredAsWanted
  BY DEF FilteredAsWanted
<1>1. /\ next \in Nat \ {0} /\ next <= Len(peers) + 1 /\ Len(peers) \in Nat
      /\ filtered \in Seq(Peers) /\ MaxPeers \in Nat /\ Len(filtered) \in Nat
  BY AnswersAssumption DEF TypeOK, MaxPeers
<1>2. PICK first : first = Firsts(Len(peers) + 1)
  OBVIOUS
<1>3. Firsts(next) \subseteq first
  BY <1>1, <1>2 DEF Firsts
<1>4. ASSUME NEW i \in first, Rank(i) <= MaxPeers PROVE i \in Firsts(next)
  <2>1. i \in Nat /\ i <= Len(peers)
    BY <1>1, <1>2 DEF Firsts
  <2>2. CASE next > Len(peers)
    BY <1>1, <1>2, <2>1, <2>2 DEF Firsts
  <2>3. CASE next <= Len(peers)
    <3>1. Len(filtered) = MaxPeers
      BY <1>1, <2>3 DEF Looking, FilterInv
    <3>2. ~(next <= i)
      <4> SUFFICES ASSUME next <= i PROVE FALSE
        OBVIOUS
      <4>1. Cardinality(Firsts(next)) < Rank(i) /\ Rank(i) \in Nat
        BY <1>1, <1>2, <2>1, LaterRank
      <4> QED BY <1>1, <1>4, <3>1, <4>1 DEF FilterInv
    <3> QED BY <1>1, <1>2, <2>1, <3>2 DEF Firsts
  <2> QED BY <1>1, <2>2, <2>3
<1>5. DOMAIN filtered = 1 .. Len(filtered) /\ DOMAIN filtered \subseteq 1 .. MaxPeers
  BY <1>1 DEF FilterInv
<1>6. DOMAIN filtered = {Rank(i) : i \in first} \cap 1 .. MaxPeers
  <2>1. DOMAIN filtered \subseteq {Rank(i) : i \in first} \cap 1 .. MaxPeers
    BY <1>3, <1>5 DEF FilterInv
  <2>2. {Rank(i) : i \in first} \cap 1 .. MaxPeers \subseteq DOMAIN filtered
    BY <1>1, <1>4 DEF FilterInv
  <2> QED BY <2>1, <2>2
<1>7. \A i \in first : Rank(i) <= MaxPeers => filtered[Rank(i)] = peers[i]
  BY <1>4 DEF FilterInv
<1> QED BY <1>2, <1>6, <1>7 DEF FilteredAsWanted
-----------------------------------------------------------------------------
(***************************************************************************)
(* The passes that disable.                                                *)
(***************************************************************************)

\* Forwarders of one name are bad together.
Agreed(bad) ==
    \A i, j \in DOMAIN given :
        GetName(given[i]) = GetName(given[j]) => (given[i].uri \in bad <=> given[j].uri \in bad)

\* A pass begins with all of its list ahead.
LEMMA PassBegins ==
    ASSUME TypeOK, NEW B, listed = copy, at = 1
    PROVE  Passed(B)
BY DEF TypeOK, Passed, Behind, Ahead

\* A pass that has ended has left what is not bad.
LEMMA PassEnds ==
    ASSUME TypeOK, NEW B, Passed(B), at > Len(copy)
    PROVE  ToSet(listed) = {f \in ToSet(copy) : f.uri \notin B}
<1>1. /\ at = Len(copy) + 1 /\ Len(copy) \in Nat /\ Len(listed) \in Nat
      /\ DOMAIN copy = 1 .. Len(copy) /\ DOMAIN listed = 1 .. Len(listed)
  BY DEF TypeOK
<1>2. Behind = Len(listed) /\ 1 .. at - 1 = DOMAIN copy
  <2>1. Ahead = 0
    BY <1>1 DEF Ahead
  <2> QED BY <1>1, <2>1 DEF Behind
<1>3. \A i \in DOMAIN listed :
          listed[i].uri \notin B /\ \E j \in DOMAIN copy : listed[i] = copy[j]
  BY <1>1, <1>2 DEF Passed
<1>4. \A j \in DOMAIN copy : copy[j].uri \notin B => \E i \in DOMAIN listed : listed[i] = copy[j]
  BY <1>1, <1>2 DEF Passed
<1> QED BY <1>3, <1>4 DEF ToSet

\* So they are in both passes.
LEMMA NamesAgreed ==
    ASSUME TypeOK, NamesAgree
    PROVE  Agreed(InvalidUris) /\ Agreed(BlockedUris)
<1>1. \A i \in DOMAIN given : given[i].uri \in Uris
  <2> TAKE i \in DOMAIN given
  <2>1. given[i] \in Forwards
    BY DEF TypeOK
  <2> QED BY <2>1 DEF Forwards
<1> QED BY <1>1 DEF NamesAgree, Agreed, InvalidUris, BlockedUris

\* One round: an entry that is bad goes itself, not another of its name, for
\* the entries before it in the list are not bad and so have other names.
LEMMA PassRound ==
    ASSUME TypeOK, NEW B, Passed(B), Agreed(B), ToSet(copy) \subseteq ToSet(given),
           at <= Len(copy), at' = at + 1, copy' = copy, DisableIf(copy[at].uri \in B)
    PROVE  Passed(B)'
<1>1. /\ at \in 1 .. Len(copy) /\ Len(copy) \in Nat /\ Len(listed) \in Nat
      /\ DOMAIN copy = 1 .. Len(copy) /\ DOMAIN listed = 1 .. Len(listed)
      /\ listed \in Seq(Forwards)
  BY DEF TypeOK
<1>2. PICK k \in Nat : k = Behind
  BY <1>1 DEF Passed, Behind, Ahead
<1>3. Len(listed) = k + (Len(copy) + 1 - at)
  BY <1>1, <1>2 DEF Behind, Ahead
<1>4. /\ \A i \in 1 .. k : /\ listed[i].uri \notin B
                           /\ \E j \in 1 .. at - 1 : listed[i] = copy[j]
      /\ \A j \in at .. Len(copy) : listed[k + 1 + (j - at)] = copy[j]
      /\ \A j \in 1 .. at - 1 : copy[j].uri \notin B => \E i \in 1 .. k : listed[i] = copy[j]
  BY <1>2 DEF Passed
<1>5. k + 1 \in DOMAIN listed /\ listed[k + 1] = copy[at]
  BY <1>1, <1>3, <1>4
<1>6. 1 .. at' - 1 = 1 .. at
  BY <1>1
<1>7. CASE copy[at].uri \in B
  <2>1. \A i, j \in DOMAIN copy :
            GetName(copy[i]) = GetName(copy[j]) => (copy[i].uri \in B <=> copy[j].uri \in B)
    <3> TAKE i, j \in DOMAIN copy
    <3>1. PICK g \in DOMAIN given : copy[i] = given[g]
      BY DEF ToSet
    <3>2. PICK h \in DOMAIN given : copy[j] = given[h]
      BY DEF ToSet
    <3> QED BY <3>1, <3>2 DEF Agreed
  <2>2. ASSUME NEW i \in 1 .. k PROVE GetName(listed[i]) # GetName(copy[at])
    <3>1. listed[i].uri \notin B
      BY <1>4
    <3>2. PICK j \in 1 .. at - 1 : listed[i] = copy[j]
      BY <1>4
    <3>3. j \in DOMAIN copy /\ at \in DOMAIN copy
      BY <1>1
    <3> QED BY <1>7, <2>1, <3>1, <3>2, <3>3
  <2>3. PICK i \in DOMAIN listed : /\ GetName(listed[i]) = GetName(copy[at])
                                   /\ \A j \in 1 .. i - 1 : GetName(listed[j]) # GetName(copy[at])
                                   /\ listed' = RemoveAt(listed, i)
    BY <1>5, <1>7 DEF DisableIf, disableForwarder
  <2>4. i = k + 1
    <3>1. ~(i <= k)
      BY <1>1, <2>2, <2>3
    <3>2. ~(k + 1 <= i - 1)
      BY <1>1, <1>5, <2>3
    <3> QED BY <1>1, <3>1, <3>2
  <2>5. /\ Len(listed') = Len(listed) - 1
        /\ \A j \in 1 .. Len(listed) - 1 : listed'[j] = IF j < k + 1 THEN listed[j] ELSE listed[j + 1]
    BY <1>1, <2>3, <2>4, RemoveAtShape
  <2>6. Behind' = k
    BY <1>1, <1>3, <2>5 DEF Behind, Ahead
  <2>7. \A j \in 1 .. k : listed'[j] = listed[j]
    BY <1>1, <1>3, <2>5
  <2>8. \A j \in at + 1 .. Len(copy) : listed'[k + 1 + (j - (at + 1))] = copy[j]
    <3> TAKE j \in at + 1 .. Len(copy)
    <3>1. /\ k + 1 + (j - (at + 1)) \in 1 .. Len(listed) - 1
          /\ ~(k + 1 + (j - (at + 1)) < k + 1)
          /\ k + 1 + (j - (at + 1)) + 1 = k + 1 + (j - at)
          /\ j \in at .. Len(copy)
      BY <1>1, <1>3
    <3> QED BY <1>4, <2>5, <3>1
  <2>9. \A j \in 1 .. k : /\ listed'[j].uri \notin B
                          /\ \E l \in 1 .. at : listed'[j] = copy[l]
    BY <1>1, <1>4, <2>7
  <2>10. \A j \in 1 .. at : copy[j].uri \notin B => \E l \in 1 .. k : listed'[l] = copy[j]
    <3> SUFFICES ASSUME NEW j \in 1 .. at, copy[j].uri \notin B
                 PROVE  \E l \in 1 .. k : listed'[l] = copy[j]
      OBVIOUS
    <3>1. j \in 1 .. at - 1
      BY <1>1, <1>7
    <3> QED BY <1>4, <2>7, <3>1
  <2>11. Behind' >= 0
    BY <1>2, <2>6
  <2>12. \A l \in 1 .. Behind' : /\ listed'[l].uri \notin B
                                 /\ \E j \in 1 .. at' - 1 : listed'[l] = copy'[j]
    BY <1>6, <2>6, <2>9
  <2>13. \A j \in at' .. Len(copy') : listed'[Behind' + 1 + (j - at')] = copy'[j]
    BY <2>6, <2>8
  <2>14. \A j \in 1 .. at' - 1 :
            copy'[j].uri \notin B => \E l \in 1 .. Behind' : listed'[l] = copy'[j]
    BY <1>6, <2>6, <2>10
  <2> QED BY <2>11, <2>12, <2>13, <2>14 DEF Passed
<1>8. CASE copy[at].uri \notin B
  <2>1. listed' = listed
    BY <1>8 DEF DisableIf
  <2>2. Behind' = k + 1
    BY <1>1, <1>3, <2>1 DEF Behind, Ahead
  <2>3. \A j \in at + 1 .. Len(copy) : listed[k + 1 + 1 + (j - (at + 1))] = copy[j]
    <3> TAKE j \in at + 1 .. Len(copy)
    <3>1. k + 1 + 1 + (j - (at + 1)) = k + 1 + (j - at) /\ j \in at .. Len(copy)
      BY <1>1
    <3> QED BY <1>4, <3>1
  <2>4. \A j \in 1 .. k + 1 : /\ listed[j].uri \notin B
                              /\ \E i \in 1 .. at : listed[j] = copy[i]
    <3> TAKE j \in 1 .. k + 1
    <3>1. CASE j = k + 1
      BY <1>1, <1>5, <1>8, <3>1
    <3>2. CASE j # k + 1
      <4>1. j \in 1 .. k
        BY <3>2
      <4> QED BY <1>1, <1>4, <4>1
    <3> QED BY <3>1, <3>2
  <2>5. \A j \in 1 .. at : copy[j].uri \notin B => \E i \in 1 .. k + 1 : listed[i] = copy[j]
    <3> SUFFICES ASSUME NEW j \in 1 .. at, copy[j].uri \notin B
                 PROVE  \E i \in 1 .. k + 1 : listed[i] = copy[j]
      OBVIOUS
    <3>1. CASE j = at
      BY <1>5, <3>1
    <3>2. CASE j # at
      <4>1. j \in 1 .. at - 1
        BY <1>1, <3>2
      <4> QED BY <1>4, <4>1
    <3> QED BY <3>1, <3>2
  <2>6. Behind' >= 0
    BY <1>2, <2>2
  <2>7. \A i \in 1 .. Behind' : /\ listed'[i].uri \notin B
                                 /\ \E j \in 1 .. at' - 1 : listed'[i] = copy'[j]
    BY <1>6, <2>1, <2>2, <2>4
  <2>8. \A j \in at' .. Len(copy') : listed'[Behind' + 1 + (j - at')] = copy'[j]
    BY <2>1, <2>2, <2>3
  <2>9. \A j \in 1 .. at' - 1 :
            copy'[j].uri \notin B => \E i \in 1 .. Behind' : listed'[i] = copy'[j]
    BY <1>6, <2>1, <2>2, <2>5
  <2> QED BY <2>6, <2>7, <2>8, <2>9 DEF Passed
<1> QED BY <1>7, <1>8
-----------------------------------------------------------------------------
(***************************************************************************)
(* Duplicates.                                                             *)
(***************************************************************************)

\* Scores are numbers.
LEMMA ScoreNat ==
    ASSUME NEW u \in Uris
    PROVE  forwarderScore(u) \in Nat
<1>1. u.len \in Nat
  BY StartupAssumption
<1>2. /\ (IF u.scheme = "udp" THEN 1000 ELSE 0) \in Nat
      /\ (IF u.announce THEN 100 ELSE 0) \in Nat
      /\ (IF u.port = "6969" THEN 50 ELSE 0) \in Nat
      /\ (IF u.host.sub = "tracker" THEN 25 ELSE 0) \in Nat
  OBVIOUS
<1> QED BY <1>1, <1>2 DEF forwarderScore

\* Being of one domain is symmetric and transitive.
LEMMA DomainRelation ==
    ASSUME NEW u, NEW v, SameDomain(u, v)
    PROVE  SameDomain(v, u) /\ \A w : SameDomain(v, w) => SameDomain(u, w)
BY DEF SameDomain

\* One round of the grouping: a URI takes the place of one it exceeds in score,
\* or its domain has one already.
LEMMA GroupRound ==
    ASSUME TypeOK, Grouped(at), GroupByDomain
    PROVE  Grouped(at)'
<1>1. /\ at \in 1 .. Len(copy) /\ Len(copy) \in Nat /\ at' = at + 1 /\ copy' = copy
      /\ copy[at] \in Forwards
  BY DEF TypeOK, GroupByDomain, Round
<1>2. 1 .. at' - 1 = 1 .. at
  BY <1>1
<1>3. PICK u \in Uris : u = copy[at].uri
  BY <1>1 DEF Forwards
<1>4. PICK R \in SUBSET toKeep : R = {v \in toKeep : SameDomain(u, v)}
  OBVIOUS
<1>5. PICK better : better = \A v \in R : forwarderScore(u) > forwarderScore(v)
  OBVIOUS
<1>6. /\ toKeep' = IF u.parses /\ better THEN (toKeep \ R) \cup {u} ELSE toKeep
      /\ twice' = (twice \/ R # {})
  BY <1>3, <1>4, <1>5 DEF GroupByDomain
<1>7. \A i \in 1 .. at : i = at \/ i \in 1 .. at - 1
  BY <1>1
<1>8. \A v \in toKeep : v \in Uris /\ forwarderScore(v) \in Nat
  BY ScoreNat DEF TypeOK
<1>9. forwarderScore(u) \in Nat
  BY ScoreNat
<1>10. \A i \in 1 .. at - 1 : copy[i].uri \in Uris /\ forwarderScore(copy[i].uri) \in Nat
  <2> TAKE i \in 1 .. at - 1
  <2>1. copy[i] \in Forwards
    BY <1>1 DEF TypeOK
  <2>2. copy[i].uri \in Uris
    BY <2>1 DEF Forwards
  <2> QED BY <2>2, ScoreNat
<1>11. /\ \A v \in toKeep : v.parses /\ \E i \in 1 .. at - 1 : copy[i].uri = v
       /\ \A i \in 1 .. at - 1 : copy[i].uri.parses =>
             \E v \in toKeep : /\ SameDomain(copy[i].uri, v)
                               /\ forwarderScore(copy[i].uri) <= forwarderScore(v)
       /\ \A v, w \in toKeep : SameDomain(v, w) => v = w
       /\ ~twice => \A i, j \in 1 .. at - 1 : SameDomain(copy[i].uri, copy[j].uri) => i = j
  BY DEF Grouped
<1>12. \A v \in toKeep' : v.parses /\ \E i \in 1 .. at : copy[i].uri = v
  <2>1. \A v \in toKeep : v.parses /\ \E i \in 1 .. at : copy[i].uri = v
    BY <1>1, <1>11
  <2>2. u.parses => u.parses /\ \E i \in 1 .. at : copy[i].uri = u
    BY <1>1, <1>3
  <2> QED BY <1>6, <2>1, <2>2
<1>13. \A i \in 1 .. at : copy[i].uri.parses =>
          \E v \in toKeep' : /\ SameDomain(copy[i].uri, v)
                             /\ forwarderScore(copy[i].uri) <= forwarderScore(v)
  <2> SUFFICES ASSUME NEW i \in 1 .. at, copy[i].uri.parses
               PROVE  \E v \in toKeep' : /\ SameDomain(copy[i].uri, v)
                                         /\ forwarderScore(copy[i].uri) <= forwarderScore(v)
    OBVIOUS
  <2>1. CASE i = at
    <3>1. u.parses /\ copy[i].uri = u
      BY <1>3, <2>1
    <3>2. CASE better
      <4>1. u \in toKeep' /\ SameDomain(u, u)
        BY <1>6, <3>1, <3>2 DEF SameDomain
      <4> QED BY <1>9, <3>1, <4>1
    <3>3. CASE ~better
      <4>1. PICK v \in R : ~(forwarderScore(u) > forwarderScore(v))
        BY <1>5, <3>3
      <4>2. v \in toKeep' /\ SameDomain(u, v) /\ forwarderScore(u) <= forwarderScore(v)
        BY <1>4, <1>6, <1>8, <1>9, <3>3, <4>1
      <4> QED BY <3>1, <4>2
    <3> QED BY <3>2, <3>3
  <2>2. CASE i \in 1 .. at - 1
    <3>1. PICK v \in toKeep : /\ SameDomain(copy[i].uri, v)
                              /\ forwarderScore(copy[i].uri) <= forwarderScore(v)
      BY <1>11, <2>2
    <3>2. CASE v \in toKeep'
      BY <3>1, <3>2
    <3>3. CASE v \notin toKeep'
      <4>1. u.parses /\ better /\ v \in R /\ u \in toKeep'
        BY <1>6, <3>3
      <4>2. SameDomain(u, v) /\ forwarderScore(u) > forwarderScore(v)
        BY <1>4, <1>5, <4>1
      <4>3. SameDomain(copy[i].uri, u)
        BY <3>1, <4>2 DEF SameDomain
      <4>4. forwarderScore(copy[i].uri) <= forwarderScore(u)
        BY <1>8, <1>9, <1>10, <2>2, <3>1, <4>2
      <4> QED BY <4>1, <4>3, <4>4
    <3> QED BY <3>2, <3>3
  <2> QED BY <1>7, <2>1, <2>2
<1>14. \A v, w \in toKeep' : SameDomain(v, w) => v = w
  <2>1. \A v \in toKeep \ R : ~SameDomain(u, v) /\ ~SameDomain(v, u)
    BY <1>4 DEF SameDomain
  <2> QED BY <1>6, <1>11, <2>1
<1>15. ~twice' => \A i, j \in 1 .. at : SameDomain(copy[i].uri, copy[j].uri) => i = j
  <2> SUFFICES ASSUME ~twice', NEW i \in 1 .. at, NEW j \in 1 .. at,
                      SameDomain(copy[i].uri, copy[j].uri)
               PROVE  i = j
    OBVIOUS
  <2>1. ~twice /\ R = {}
    BY <1>6
  <2>2. ASSUME NEW l \in 1 .. at - 1, SameDomain(copy[l].uri, u) PROVE FALSE
    <3>1. copy[l].uri.parses
      BY <2>2 DEF SameDomain
    <3>2. PICK v \in toKeep : SameDomain(copy[l].uri, v)
      BY <1>11, <3>1
    <3>3. SameDomain(u, v)
      BY <2>2, <3>2 DEF SameDomain
    <3> QED BY <1>4, <2>1, <3>3
  <2>3. SameDomain(copy[j].uri, copy[i].uri)
    BY DomainRelation
  <2> QED BY <1>3, <1>7, <1>11, <2>1, <2>2, <2>3
<1> QED BY <1>1, <1>2, <1>12, <1>13, <1>14, <1>15 DEF Grouped

\* One round of the new list.
LEMMA KeepRound ==
    ASSUME TypeOK, Rebuilt(at), KeepBest
    PROVE  Rebuilt(at)'
<1>1. /\ at \in 1 .. Len(copy) /\ Len(copy) \in Nat /\ at' = at + 1 /\ copy' = copy
      /\ toKeep' = toKeep /\ copy[at] \in Forwards /\ kept \in Seq(Forwards)
      /\ DOMAIN copy = 1 .. Len(copy)
  BY DEF TypeOK, KeepBest, Round
<1>2. \A i \in 1 .. at' - 1 : i = at \/ i \in 1 .. at - 1
  BY <1>1
<1>3. copy[at] \in ToSet(copy)
  BY <1>1 DEF ToSet
<1>4. CASE copy[at].uri \in toKeep
  <2>1. kept' = Append(kept, copy[at])
    BY <1>4 DEF KeepBest
  <2>2. /\ DOMAIN kept = 1 .. Len(kept) /\ Len(kept) \in Nat
        /\ DOMAIN kept' = 1 .. Len(kept) + 1
        /\ \A k \in 1 .. Len(kept) : kept'[k] = kept[k]
        /\ kept'[Len(kept) + 1] = copy[at]
    BY <1>1, <2>1
  <2>3. \A k \in DOMAIN kept' : kept'[k].uri \in toKeep /\ kept'[k] \in ToSet(copy)
    <3> TAKE k \in DOMAIN kept'
    <3>1. k = Len(kept) + 1 \/ k \in 1 .. Len(kept)
      BY <2>2
    <3> QED BY <1>3, <1>4, <2>2, <3>1 DEF Rebuilt
  <2>4. ToSet(kept) \subseteq ToSet(kept') /\ copy[at] \in ToSet(kept')
    BY <2>2 DEF ToSet
  <2> QED BY <1>1, <1>2, <2>3, <2>4 DEF Rebuilt
<1>5. CASE copy[at].uri \notin toKeep
  <2>1. kept' = kept
    BY <1>5 DEF KeepBest
  <2> QED BY <1>1, <1>2, <1>5, <2>1 DEF Rebuilt
<1> QED BY <1>4, <1>5
-----------------------------------------------------------------------------
(***************************************************************************)
(* The passes together.                                                    *)
(***************************************************************************)

\* The entries of a list of forwarders have URIs.
LEMMA EntryUri ==
    ASSUME NEW list \in Seq(Forwards)
    PROVE  \A f \in ToSet(list) : f.uri \in Uris
<1> SUFFICES ASSUME NEW i \in DOMAIN list PROVE list[i].uri \in Uris
  BY DEF ToSet
<1>1. list[i] \in Forwards
  OBVIOUS
<1> QED BY <1>1 DEF Forwards

\* What the two passes that disable leave, as URIs of a domain, is what is
\* usable of it.
LEMMA LeftIsUsable ==
    ASSUME TypeOK, NEW d \in Domains,
           ToSet(listed) = {f \in ToSet(given) : f.uri \notin InvalidUris \cup BlockedUris}
    PROVE  OfDomain(listed, d) = {u \in OfDomain(given, d) : Usable(u)}
<1>1. \A f \in ToSet(given) : f.uri \in Uris
  BY EntryUri DEF TypeOK
<1>2. \A f \in ToSet(given) :
          f.uri.parses => (f \in ToSet(listed) <=> Usable(f.uri))
  BY <1>1 DEF Usable, InvalidUris, BlockedUris
<1> QED BY <1>2 DEF OfDomain, Usable

\* Without duplicates what is left of a domain is one URI or none.
LEMMA NoDuplicates ==
    ASSUME TypeOK, NEW d \in Domains, Grouped(Len(copy) + 1), ~twice, listed = copy,
           ToSet(copy) = {f \in ToSet(given) : f.uri \notin InvalidUris \cup BlockedUris}
    PROVE  \/ OfDomain(listed, d) = {} /\ BestUsable(d) = {}
           \/ \E u \in BestUsable(d) : OfDomain(listed, d) = {u}
<1>1. OfDomain(listed, d) = {u \in OfDomain(given, d) : Usable(u)}
  BY LeftIsUsable
<1>2. BestUsable(d) = {u \in OfDomain(listed, d) :
                          \A v \in OfDomain(listed, d) : forwarderScore(v) <= forwarderScore(u)}
  BY <1>1 DEF BestUsable
<1>3. \A u, v \in OfDomain(listed, d) : u = v
  <2> SUFFICES ASSUME NEW u \in OfDomain(listed, d), NEW v \in OfDomain(listed, d) PROVE u = v
    OBVIOUS
  <2>1. Len(copy) \in Nat /\ DOMAIN copy = 1 .. Len(copy) + 1 - 1
    BY DEF TypeOK
  <2>2. PICK i \in DOMAIN copy : copy[i].uri = u
    BY DEF OfDomain, ToSet
  <2>3. PICK j \in DOMAIN copy : copy[j].uri = v
    BY DEF OfDomain, ToSet
  <2>4. SameDomain(u, v)
    BY DEF OfDomain, SameDomain
  <2> QED BY <2>1, <2>2, <2>3, <2>4 DEF Grouped
<1>4. ASSUME NEW u \in OfDomain(listed, d) PROVE forwarderScore(u) <= forwarderScore(u)
  <2>1. u \in Uris
    BY EntryUri DEF OfDomain, TypeOK
  <2> QED BY <2>1, ScoreNat
<1>5. CASE OfDomain(listed, d) = {}
  BY <1>2, <1>5
<1>6. ASSUME NEW u \in OfDomain(listed, d)
      PROVE  u \in BestUsable(d) /\ OfDomain(listed, d) = {u}
  BY <1>2, <1>3, <1>4
<1> QED BY <1>5, <1>6

\* With duplicates the new list has the best URI of every domain.
LEMMA BestOfDuplicates ==
    ASSUME TypeOK, NEW d \in Domains, Grouped(Len(copy) + 1), Rebuilt(Len(copy) + 1),
           listed = copy,
           ToSet(copy) = {f \in ToSet(given) : f.uri \notin InvalidUris \cup BlockedUris}
    PROVE  \/ OfDomain(kept, d) = {} /\ BestUsable(d) = {}
           \/ \E u \in BestUsable(d) : OfDomain(kept, d) = {u}
<1>1. OfDomain(copy, d) = {u \in OfDomain(given, d) : Usable(u)}
  BY LeftIsUsable
<1>2. BestUsable(d) = {u \in OfDomain(copy, d) :
                          \A v \in OfDomain(copy, d) : forwarderScore(v) <= forwarderScore(u)}
  BY <1>1 DEF BestUsable
<1>3. Len(copy) \in Nat /\ DOMAIN copy = 1 .. Len(copy) + 1 - 1
  BY DEF TypeOK
<1>4. OfDomain(kept, d) = OfDomain(copy, d) \cap toKeep
  <2>1. ASSUME NEW u \in OfDomain(kept, d) PROVE u \in OfDomain(copy, d) \cap toKeep
    BY DEF OfDomain, ToSet, Rebuilt
  <2>2. ASSUME NEW u \in OfDomain(copy, d), u \in toKeep PROVE u \in OfDomain(kept, d)
    <3>1. PICK i \in DOMAIN copy : copy[i].uri = u
      BY DEF OfDomain, ToSet
    <3>2. copy[i] \in ToSet(kept)
      BY <1>3, <2>2, <3>1 DEF Rebuilt
    <3> QED BY <3>1, <3>2 DEF OfDomain
  <2> QED BY <2>1, <2>2
<1>5. ASSUME NEW v \in OfDomain(copy, d)
      PROVE  \E w \in OfDomain(copy, d) \cap toKeep : forwarderScore(v) <= forwarderScore(w)
  <2>1. PICK i \in DOMAIN copy : copy[i].uri = v
    BY DEF OfDomain, ToSet
  <2>2. v.parses /\ extractMainDomain(v.host) = d
    BY DEF OfDomain
  <2>3. PICK w \in toKeep : SameDomain(v, w) /\ forwarderScore(v) <= forwarderScore(w)
    BY <1>3, <2>1, <2>2 DEF Grouped
  <2>4. PICK j \in DOMAIN copy : copy[j].uri = w
    BY <1>3, <2>3 DEF Grouped
  <2>5. w \in OfDomain(copy, d)
    BY <2>2, <2>3, <2>4 DEF OfDomain, SameDomain, ToSet
  <2> QED BY <2>3, <2>5
<1>6. \A v, w \in OfDomain(copy, d) \cap toKeep : v = w
  BY DEF Grouped, OfDomain, SameDomain
<1>7. CASE OfDomain(copy, d) = {}
  BY <1>2, <1>4, <1>7
<1>8. CASE OfDomain(copy, d) # {}
  <2>1. PICK u \in OfDomain(copy, d) \cap toKeep : TRUE
    BY <1>5, <1>8
  <2>2. \A v \in OfDomain(copy, d) : forwarderScore(v) <= forwarderScore(u)
    BY <1>5, <1>6
  <2>3. u \in BestUsable(d) /\ OfDomain(kept, d) = {u}
    BY <1>2, <1>4, <1>6, <2>2
  <2> QED BY <2>3
<1> QED BY <1>7, <1>8

\* What the properties and the invariant read of dns does not change.
LEMMA SameAnswers ==
    ASSUME given' = given, dns' = dns
    PROVE  /\ InvalidUris' = InvalidUris /\ BlockedUris' = BlockedUris
           /\ NamesAgree' = NamesAgree
           /\ \A d : BestUsable(d)' = BestUsable(d)
BY DEF InvalidUris, BlockedUris, NamesAgree, BestUsable, OfDomain, Usable, Blocked,
       isBlockedByDNS

\* Every step of start-up keeps the invariant, and the last one establishes
\* the property.
LEMMA StartStep ==
    ASSUME TypeOK, TypeOK', NamesAgree, StartInv, StartNext
    PROVE  StartInv' /\ BestUsableKept'
<1>1. given' = given /\ dns' = dns /\ pass # "done"
  BY DEF StartNext, NextPass, validateAndRemoveInvalidForwarders,
         checkAndRemoveBlockedForwarders, GroupByDomain, KeepBest, Round
<1>2. PICK invalid : invalid = InvalidUris
  OBVIOUS
<1>3. PICK blocked : blocked = BlockedUris
  OBVIOUS
<1>4. InvalidUris' = invalid /\ BlockedUris' = blocked
  BY <1>1, <1>2, <1>3, SameAnswers
<1>5. CASE validateAndRemoveInvalidForwarders
  <2>1. /\ pass = "validate" /\ pass' = pass /\ at <= Len(copy) /\ at' = at + 1
        /\ copy' = copy /\ DisableIf(Invalid(copy[at].uri))
        /\ UNCHANGED <<toKeep, twice, kept>>
    BY <1>5 DEF validateAndRemoveInvalidForwarders, Round, DisableIf
  <2>2. copy[at] \in Forwards
    <3>1. copy \in Seq(Forwards) /\ at \in 1 .. Len(copy)
      BY <2>1 DEF TypeOK
    <3> QED BY <3>1
  <2>3. DisableIf(copy[at].uri \in invalid)
    BY <1>2, <2>1, <2>2 DEF DisableIf, InvalidUris, Forwards
  <2>4. Passed(invalid)'
    BY <1>2, <2>1, <2>3, NamesAgreed, PassRound DEF StartInv
  <2> QED BY <1>1, <1>4, <2>1, <2>4 DEF StartInv, BestUsableKept, Started
<1>6. CASE checkAndRemoveBlockedForwarders
  <2>1. /\ pass = "check" /\ pass' = pass /\ at <= Len(copy) /\ at' = at + 1
        /\ copy' = copy /\ DisableIf(Blocked(copy[at].uri))
        /\ UNCHANGED <<toKeep, twice, kept>>
    BY <1>6 DEF checkAndRemoveBlockedForwarders, Round, DisableIf
  <2>2. copy[at] \in Forwards
    <3>1. copy \in Seq(Forwards) /\ at \in 1 .. Len(copy)
      BY <2>1 DEF TypeOK
    <3> QED BY <3>1
  <2>3. DisableIf(copy[at].uri \in blocked)
    BY <1>3, <2>1, <2>2 DEF DisableIf, BlockedUris, Forwards
  <2>4. ToSet(copy) \subseteq ToSet(given)
    BY <2>1 DEF StartInv
  <2>5. Passed(blocked)'
    BY <1>3, <2>1, <2>3, <2>4, NamesAgreed, PassRound DEF StartInv
  <2> QED BY <1>1, <1>2, <1>4, <2>1, <2>5 DEF StartInv, BestUsableKept, Started
<1>7. CASE GroupByDomain
  <2>1. pass = "group" /\ pass' = pass /\ UNCHANGED <<copy, listed, kept>>
    BY <1>7 DEF GroupByDomain, Round
  <2>2. Grouped(at)'
    BY <1>7, <2>1, GroupRound DEF StartInv
  <2> QED BY <1>1, <1>2, <1>3, <1>4, <2>1, <2>2 DEF StartInv, BestUsableKept, Started
<1>8. CASE KeepBest
  <2>1. pass = "keep" /\ pass' = pass /\ UNCHANGED <<copy, listed, toKeep, twice>>
    BY <1>8 DEF KeepBest, Round
  <2>2. Rebuilt(at)'
    BY <1>8, <2>1, KeepRound DEF StartInv
  <2>3. (Grouped(Len(copy) + 1))'
    BY <2>1 DEF StartInv, Grouped
  <2> QED BY <1>1, <1>2, <1>3, <1>4, <2>1, <2>2, <2>3 DEF StartInv, BestUsableKept, Started
<1>9. CASE NextPass
  <2>1. at > Len(copy) /\ at' = 1 /\ copy' = listed' /\ UNCHANGED <<toKeep, twice, kept>>
    BY <1>9 DEF NextPass
  <2>2. at = Len(copy) + 1
    <3>1. Len(copy) \in Nat /\ at \in 1 .. Len(copy) + 1
      BY DEF TypeOK
    <3>2. at > Len(copy)
      BY <2>1
    <3> QED BY <3>1, <3>2
  <2>3. CASE pass = "validate"
    <3>1. pass' = "check" /\ listed' = listed
      BY <1>9, <2>3 DEF NextPass, After
    <3>2. ToSet(listed) = {f \in ToSet(given) : f.uri \notin invalid}
      BY <1>2, <2>1, <2>2, <2>3, PassEnds DEF StartInv
    <3>3. Passed(blocked)'
      BY <2>1 DEF TypeOK, Passed, Behind, Ahead
    <3> QED BY <1>1, <1>4, <2>1, <2>2, <2>3, <3>1, <3>2, <3>3
            DEF StartInv, BestUsableKept, Started, ToSet
  <2>4. CASE pass = "check"
    <3>1. pass' = "group" /\ listed' = listed
      BY <1>9, <2>4 DEF NextPass, After
    <3>2. ToSet(listed) = {f \in ToSet(copy) : f.uri \notin blocked}
      BY <1>3, <2>1, <2>2, <2>4, PassEnds DEF StartInv
    <3>3. ToSet(listed) = {f \in ToSet(given) : f.uri \notin invalid \cup blocked}
      BY <1>2, <2>4, <3>2 DEF StartInv
    <3>4. Grouped(at)'
      BY <2>1, <2>2, <2>4 DEF StartInv, Grouped
    <3> QED BY <1>1, <1>4, <2>1, <2>2, <2>4, <3>1, <3>3, <3>4
            DEF StartInv, BestUsableKept, Started, ToSet
  <2>5. CASE pass = "group" /\ twice
    <3>1. pass' = "keep" /\ listed' = listed
      BY <1>9, <2>5 DEF NextPass, After
    <3>2. listed = copy /\ copy' = copy
      BY <2>1, <2>2, <2>5, <3>1 DEF StartInv
    <3>3. (Grouped(Len(copy) + 1))'
      BY <2>1, <2>2, <2>5, <3>2 DEF StartInv, Grouped
    <3>4. Rebuilt(at)'
      BY <2>1, <2>2, <2>5 DEF StartInv, Rebuilt
    <3> QED BY <1>1, <1>2, <1>3, <1>4, <2>1, <2>2, <2>5, <3>1, <3>2, <3>3, <3>4
            DEF StartInv, BestUsableKept, Started
  <2>6. CASE pass = "group" /\ ~twice
    <3>1. pass' = "done" /\ listed' = listed
      BY <1>9, <2>6 DEF NextPass, After
    <3>2. \A d \in Domains :
              \/ OfDomain(listed, d) = {} /\ BestUsable(d) = {}
              \/ \E u \in BestUsable(d) : OfDomain(listed, d) = {u}
      BY <2>1, <2>2, <2>6, NoDuplicates DEF StartInv
    <3>3. \A d \in Domains : BestUsable(d)' = BestUsable(d) /\ OfDomain(listed, d)' = OfDomain(listed, d)
      BY <1>1, <3>1, SameAnswers DEF OfDomain
    <3> QED BY <3>1, <3>2, <3>3 DEF StartInv, BestUsableKept
  <2>7. CASE pass = "keep"
    <3>1. pass' = "done" /\ listed' = kept
      BY <1>9, <2>7 DEF NextPass, After
    <3>2. \A d \in Domains :
              \/ OfDomain(kept, d) = {} /\ BestUsable(d) = {}
              \/ \E u \in BestUsable(d) : OfDomain(kept, d) = {u}
      BY <2>1, <2>2, <2>7, BestOfDuplicates DEF StartInv
    <3>3. \A d \in Domains : BestUsable(d)' = BestUsable(d) /\ OfDomain(listed, d)' = OfDomain(kept, d)
      BY <1>1, <3>1, SameAnswers DEF OfDomain
    <3> QED BY <3>1, <3>2, <3>3 DEF StartInv, BestUsableKept
  <2> QED BY <1>1, <2>3, <2>4, <2>5, <2>6, <2>7 DEF TypeOK
<1> QED BY <1>5, <1>6, <1>7, <1>8, <1>9 DEF StartNext
-----------------------------------------------------------------------------
(***************************************************************************)
(* All loops.                                                              *)
(***************************************************************************)

\* Before its first round, a loop has computed nothing of its input.
LEMMA LoopInit == Init => LoopInv
<1> SUFFICES ASSUME Init PROVE LoopInv
  OBVIOUS
<1>1. TypeOK
  BY TypeInit
<1>2. CountInv
  <2>1. left = local /\ rest = cached /\ seen = {} /\ complete = 0 /\ incomplete = 0
    BY DEF Init, CountIdle, CountInit
  <2>2. Split({})
    BY <2>1, FS_EmptySet DEF Split
  <2> QED BY <2>1, <2>2, FS_EmptySet DEF CountInv
<1>3. FilterInv
  <2>1. next = 1 /\ filtered = <<>>
    BY DEF Init, FilterIdle, FilterInit
  <2>2. Firsts(1) = {}
    BY DEF Firsts
  <2>3. MaxPeers \in Nat
    BY <1>1, AnswersAssumption DEF MaxPeers, TypeOK
  <2> QED BY <2>1, <2>2, <2>3, FS_EmptySet DEF FilterInv
<1>4. /\ listed = given /\ copy = given /\ at = 1 /\ toKeep = {} /\ kept = <<>>
      /\ pass = IF given = <<>> THEN "done" ELSE "validate"
  BY DEF Init, StartIdle, StartInit
<1>5. ~twice
  BY DEF Init, StartIdle, StartInit
<1>6. StartInv
  <2>1. Passed(InvalidUris)
    BY <1>1, <1>4, PassBegins
  <2> QED BY <1>4, <1>5, <2>1 DEF StartInv
<1>7. BestUsableKept
  <2> SUFFICES ASSUME Started, NEW d \in Domains
               PROVE  OfDomain(listed, d) = {} /\ BestUsable(d) = {}
    BY DEF BestUsableKept
  <2>1. given = <<>>
    BY <1>4 DEF Started
  <2>2. ToSet(given) = {}
    BY <2>1 DEF ToSet
  <2> QED BY <1>4, <2>2 DEF OfDomain, BestUsable
<1> QED BY <1>2, <1>3, <1>6, <1>7 DEF LoopInv

\* Every step of one loop keeps its invariant and does not touch the others.
LEMMA LoopStep == TypeOK /\ TypeOK' /\ LoopInv /\ [Next]_vars => LoopInv'
<1> SUFFICES ASSUME TypeOK, TypeOK', LoopInv, [Next]_vars PROVE LoopInv'
  OBVIOUS
<1>1. ASSUME UNCHANGED countVars PROVE CountInv'
  BY <1>1 DEF LoopInv, CountInv, Split, LocalHosts, CachedHosts, countVars
<1>2. ASSUME UNCHANGED filterVars PROVE FilterInv'
  <2>1. UNCHANGED <<peers, ask, next, filtered>>
    BY <1>2 DEF filterVars
  <2>2. /\ MaxPeers' = MaxPeers /\ Firsts(next)' = Firsts(next)
        /\ \A i : Rank(i)' = Rank(i)
        /\ \A i : Eligible(peers[i])' = Eligible(peers[i])
        /\ \A a : Taken(a)' = Taken(a)
    BY <2>1 DEF MaxPeers, Firsts, Rank, Eligible, Taken
  <2> QED BY <2>1, <2>2 DEF LoopInv, FilterInv
<1>3. ASSUME UNCHANGED startVars PROVE (NamesAgree => StartInv)' /\ BestUsableKept'
  <2>1. /\ UNCHANGED <<given, dns, listed, pass, copy, at, toKeep, kept>>
        /\ twice' = twice
    BY <1>3 DEF startVars
  <2>2. /\ InvalidUris' = InvalidUris /\ BlockedUris' = BlockedUris
        /\ NamesAgree' = NamesAgree
        /\ \A d : BestUsable(d)' = BestUsable(d)
    BY <2>1, SameAnswers
  <2>3. \A B : Passed(B)' = Passed(B)
    BY <2>1 DEF Passed, Behind, Ahead
  <2>4. /\ Grouped(at)' = Grouped(at) /\ (Grouped(Len(copy) + 1))' = Grouped(Len(copy) + 1)
        /\ Rebuilt(at)' = Rebuilt(at)
    BY <2>1 DEF Grouped, Rebuilt
  <2>5. (NamesAgree => StartInv)'
    BY <2>1, <2>2, <2>3, <2>4 DEF LoopInv, StartInv
  <2>6. \A d : OfDomain(listed, d)' = OfDomain(listed, d)
    BY <2>1 DEF OfDomain
  <2>7. BestUsableKept'
    BY <2>1, <2>2, <2>6 DEF LoopInv, BestUsableKept, Started
  <2> QED BY <2>5, <2>7
<1>4. CASE StartNext /\ UNCHANGED <<countVars, filterVars>>
  <2>1. NamesAgree' = NamesAgree
    <3>1. given' = given /\ dns' = dns
      BY <1>4 DEF StartNext, NextPass, validateAndRemoveInvalidForwarders,
             checkAndRemoveBlockedForwarders, GroupByDomain, KeepBest, Round
    <3> QED BY <3>1, SameAnswers
  <2>2. CASE NamesAgree
    <3>1. StartInv' /\ BestUsableKept'
      BY <1>4, <2>2, StartStep DEF LoopInv
    <3> QED BY <1>1, <1>2, <1>4, <3>1 DEF LoopInv
  <2>3. CASE ~NamesAgree
    BY <1>1, <1>2, <1>4, <2>1, <2>3 DEF LoopInv, BestUsableKept
  <2> QED BY <2>2, <2>3
<1>5. CASE CountNext /\ UNCHANGED <<startVars, filterVars>>
  BY <1>2, <1>3, <1>5, CountStep DEF LoopInv
<1>6. CASE FilterPeer /\ UNCHANGED <<startVars, countVars>>
  BY <1>1, <1>3, <1>6, FilterStep DEF LoopInv
<1>7. CASE UNCHANGED vars
  BY <1>1, <1>2, <1>3, <1>7 DEF LoopInv, vars
<1> QED BY <1>4, <1>5, <1>6, <1>7 DEF Next

\* At every round each loop has computed what its invariant says.
THEOREM LoopInvariance == Spec => []LoopInv
<1>1. TypeOK /\ TypeOK' /\ LoopInv /\ [Next]_vars => LoopInv'
  BY LoopStep
<1> QED BY <1>1, LoopInit, LoopTypes, PTL DEF Spec

\* NewForwarderManager leaves one forwarder URI of the highest priority among
\* the usable ones of every main domain, for forwards files of every length
\* in which no bad forwarder has the name of a good one, whatever DNS says of their hosts.
THEOREM StartupKeepsBest == Spec => []BestUsableKept
<1>1. LoopInv => BestUsableKept
  BY DEF LoopInv
<1> QED BY <1>1, LoopInvariance, PTL

\* filterPeers gives the first peer of every eligible address, in order and up
\* to the number wanted, whatever peers were collected.
THEOREM FilterIsExact == Spec => []FilteredAsWanted
<1>1. TypeOK /\ LoopInv => FilteredAsWanted
  BY FilterDone DEF LoopInv
<1> QED BY <1>1, LoopTypes, LoopInvariance, PTL

\* Announce and scrape count every host once, in every order of the visits and
\* for any numbers of local and cached peers.
THEOREM CountIsOfHosts == Spec => []CountsAreHosts
<1>1. TypeOK /\ LoopInv => CountsAreHosts
  BY CountDone DEF LoopInv
<1> QED BY <1>1, LoopTypes, LoopInvariance, PTL
\* How far the hypothesis of StartupKeepsBest reaches: where names are hosts and
\* ports, as a forwards file of URIs yields, it fails only if a UDP forwarder
\* without a port shares its host with one of another scheme that has none
\* either.  http and udp trackers on one host and port are no exception to it.
THEOREM OnlyMissingPortsDisagree ==
    ASSUME TypeOK,
           \A i \in DOMAIN given : given[i].name = NoName /\ given[i].uri.parses,
           \A i, j \in DOMAIN given :
               given[i].uri.host = given[j].uri.host /\ given[i].uri.port = ""
                   /\ given[j].uri.port = "" => given[i].uri.scheme = given[j].uri.scheme
    PROVE  NamesAgree
<1> SUFFICES ASSUME NEW i \in DOMAIN given, NEW j \in DOMAIN given,
                    GetName(given[i]) = GetName(given[j])
             PROVE  /\ Invalid(given[i].uri) = Invalid(given[j].uri)
                    /\ Blocked(given[i].uri) = Blocked(given[j].uri)
  BY DEF NamesAgree
<1>1. /\ GetName(given[i]) = [host |-> given[i].uri.host, port |-> given[i].uri.port]
      /\ GetName(given[j]) = [host |-> given[j].uri.host, port |-> given[j].uri.port]
  BY DEF GetName
<1>2. given[i].uri.host = given[j].uri.host /\ given[i].uri.port = given[j].uri.port
  <2>1. ASSUME NEW g, NEW h, NEW p, NEW q, [host |-> g, port |-> p] = [host |-> h, port |-> q]
        PROVE  g = h /\ p = q
    <3>1. /\ [host |-> g, port |-> p].host = g /\ [host |-> g, port |-> p].port = p
          /\ [host |-> h, port |-> q].host = h /\ [host |-> h, port |-> q].port = q
      OBVIOUS
    <3> QED BY <2>1, <3>1, Zenon
  <2>2. [host |-> given[i].uri.host, port |-> given[i].uri.port]
            = [host |-> given[j].uri.host, port |-> given[j].uri.port]
    BY <1>1, Zenon
  <2> QED BY <2>1, <2>2, Zenon
<1>3. Invalid(given[i].uri) = Invalid(given[j].uri)
  BY <1>2 DEF Invalid
<1>4. Blocked(given[i].uri) = Blocked(given[j].uri)
  BY <1>2 DEF Blocked
<1> QED BY <1>3, <1>4
=============================================================================
