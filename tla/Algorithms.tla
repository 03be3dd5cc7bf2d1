------------------------------ MODULE Algorithms ------------------------------
(***************************************************************************)
(* The program's loops over lists and maps: start-up checks, counts and    *)
(* the choice of peers.  They share nothing, so a behaviour is one of them *)
(* run on one input while the others have nothing to do.                   *)
(***************************************************************************)
EXTENDS Startup, Answers, FiniteSets

CONSTANTS
    ForwardLists, Resolutions,  \* forwards files, and what DNS says of their hosts
    LocalSets, CachedSets,      \* what storage and cache have of a hash
    PeerLists, Requests         \* what filterPeers is called with

ASSUME InputsAssumption ==
    /\ ForwardLists \subseteq Seq(Forwards)
    /\ Resolutions \subseteq [Hosts -> SUBSET Resolved]
    /\ LocalSets \subseteq SUBSET LocalPeers
    /\ CachedSets \subseteq SUBSET [ip : IPs, port : Ports]
    /\ PeerLists \subseteq Seq(Peers)
    /\ Requests \subseteq [requester : Peers, want : Nat, family : {0, 4, 6}]
    /\ Resolutions # {} /\ Requests # {}

vars == <<startVars, countVars, filterVars>>

StartIdle == StartInit(<<>>, CHOOSE answers \in Resolutions : TRUE)
CountIdle == CountInit({}, {})
FilterIdle == FilterInit(<<>>, CHOOSE request \in Requests : TRUE)

Init ==
    \/ /\ \E list \in ForwardLists, answers \in Resolutions : StartInit(list, answers)
       /\ CountIdle /\ FilterIdle
    \/ /\ \E mine \in LocalSets, theirs \in CachedSets : CountInit(mine, theirs)
       /\ StartIdle /\ FilterIdle
    \/ /\ \E collected \in PeerLists, request \in Requests : FilterInit(collected, request)
       /\ StartIdle /\ CountIdle

Next ==
    \/ StartNext /\ UNCHANGED <<countVars, filterVars>>
    \/ CountNext /\ UNCHANGED <<startVars, filterVars>>
    \/ FilterPeer /\ UNCHANGED <<startVars, countVars>>

Spec == Init /\ [][Next]_vars

TypeOK ==
    /\ given \in Seq(Forwards) /\ dns \in [Hosts -> SUBSET Resolved]
    /\ listed \in Seq(Forwards) /\ copy \in Seq(Forwards) /\ kept \in Seq(Forwards)
    /\ pass \in {"validate", "check", "group", "keep", "done"}
    /\ at \in 1 .. Len(copy) + 1
    /\ toKeep \in SUBSET Uris /\ twice \in BOOLEAN
    /\ disabled \subseteq {GetName(f) : f \in Forwards}
    /\ local \subseteq LocalPeers /\ left \subseteq local
    /\ cached \subseteq [ip : IPs, port : Ports] /\ rest \subseteq cached
    /\ seen \subseteq IPs \ {NoIp} /\ complete \in Nat /\ incomplete \in Nat
    /\ peers \in Seq(Peers) /\ ask \in [requester : Peers, want : Nat, family : {0, 4, 6}]
    /\ next \in 1 .. Len(peers) + 1 /\ filtered \in Seq(Peers)
-----------------------------------------------------------------------------
\* As long as no bad forwarder has the name of a good one, the three passes of
\* NewForwarderManager leave, of every main domain, exactly one URI of the
\* highest priority among the usable ones: no invalid or blocked entry crowds
\* out a usable one of its domain, and no domain with a usable one is lost.
BestUsableKept ==
    Started /\ NamesAgree =>
        \A d \in Domains :
            \/ OfDomain(listed, d) = {} /\ BestUsable(d) = {}
            \/ \E u \in BestUsable(d) : OfDomain(listed, d) = {u}

\* The places of the peers before place n that filterPeers should take: the
\* first of every eligible address.
Firsts(n) ==
    {i \in 1 .. n - 1 : /\ Eligible(peers[i])
                        /\ \A j \in 1 .. i - 1 :
                              Eligible(peers[j]) => Address(peers[j]) # Address(peers[i])}

\* The rank of place i among them.
Rank(i) == Cardinality(Firsts(i + 1))

\* filterPeers gives the first peer of every eligible address, in order and up
\* to the number wanted, and no other: never the requester under its id or its
\* address, no address twice, and as many as there are if that is fewer.
FilteredAsWanted ==
    ~Looking =>
        LET first == Firsts(Len(peers) + 1)
        IN  /\ DOMAIN filtered = {Rank(i) : i \in first} \cap 1 .. MaxPeers
            /\ \A i \in first : Rank(i) <= MaxPeers => filtered[Rank(i)] = peers[i]

\* The hosts of local peers, of cached peers, and those of which all local peers
\* seed (s = TRUE) or leech.
LocalHosts == {p.ip : p \in local} \ {NoIp}
CachedHosts == {p.ip : p \in cached} \ {NoIp}
Only(s) == {ip \in LocalHosts : \A p \in local : p.ip = ip => p.seeds = s}

\* Announce and scrape count hosts, whatever order the peers are visited in:
\* every IP once, as a leecher if all local peers there leech, as a seeder if
\* all of them seed or it is known from the cache only.
CountsAreHosts ==
    Counted =>
        /\ complete + incomplete = Cardinality(LocalHosts \cup CachedHosts)
        /\ incomplete >= Cardinality(Only(FALSE))
        /\ complete >= Cardinality(Only(TRUE) \cup (CachedHosts \ LocalHosts))

\* The comment on validateAndRemoveInvalidForwarders: it "checks all forwarders
\* and removes those with invalid configuration".  It disables by name, which
\* another forwarder of the same host, listed first, may have too.
InvalidRemoved ==
    Started => \A i \in DOMAIN listed : ~Invalid(listed[i].uri)
=============================================================================
