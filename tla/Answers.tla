------------------------------- MODULE Answers -------------------------------
(***************************************************************************)
(* The counts and the peers that announce and scrape answers give          *)
(* (receiverAnnounce.go, scrape.go), one step per round of their loops.    *)
(***************************************************************************)
EXTENDS Naturals, Sequences

CONSTANTS
    DefaultNumWant,   \* tracker.DefaultNumWant
    IPs, V4, V6,      \* IPs of peers; those that net.ParseIP takes for IPv4, IPv6
    NoIp,             \* the empty IP
    Ports, Ids

ASSUME AnswersAssumption == DefaultNumWant \in Nat \ {0}

LocalPeers == [id : Ids, ip : IPs, seeds : BOOLEAN]
Peers == [id : Ids, ip : IPs, port : Ports]

VARIABLES
    local, cached,            \* the peers of a hash in storage and in the cache
    left, rest,               \* those not visited yet
    seen,                     \* seenIPs
    complete, incomplete,     \* seeders and leechers
    peers, ask,               \* the peers collected for an announce; who wants how many
    next, filtered            \* the next peer to look at, and those taken

countVars == <<local, cached, left, rest, seen, complete, incomplete>>
filterVars == <<peers, ask, next, filtered>>
-----------------------------------------------------------------------------
(***************************************************************************)
(* getPeersForResponse and getScrapeStats.                                 *)
(***************************************************************************)
CountInit(mine, theirs) ==
    /\ local = mine /\ left = mine
    /\ cached = theirs /\ rest = theirs
    /\ seen = {} /\ complete = 0 /\ incomplete = 0

\* A visited peer is counted unless its IP is empty or was seen already.
CountPeer(ip, seeds) ==
    IF ip = NoIp \/ ip \in seen THEN UNCHANGED <<seen, complete, incomplete>>
    ELSE /\ seen' = seen \cup {ip}
         /\ complete' = complete + (IF seeds THEN 1 ELSE 0)
         /\ incomplete' = incomplete + (IF seeds THEN 0 ELSE 1)

\* Go visits the map of local peers in any order.
CountLocal ==
    /\ \E p \in left : left' = left \ {p} /\ CountPeer(p.ip, p.seeds)
    /\ UNCHANGED <<local, cached, rest>>

\* A slip in the count: peers of the cache are counted without looking whether
\* their IP was seen.
CountCached_NoDedup ==
    /\ left = {}
    /\ \E p \in rest : rest' = rest \ {p} /\ seen' = seen \cup {p.ip}
    /\ complete' = complete + 1
    /\ UNCHANGED <<local, cached, left, incomplete>>

\* Then come the peers of the cache, which are taken for seeders.
CountCached ==
    /\ left = {}
    /\ \E p \in rest : rest' = rest \ {p} /\ CountPeer(p.ip, TRUE)
    /\ UNCHANGED <<local, cached, left>>

CountNext == CountLocal \/ CountCached

Counted == left = {} /\ rest = {}
-----------------------------------------------------------------------------
(***************************************************************************)
(* filterPeers.                                                            *)
(***************************************************************************)
FilterInit(collected, request) ==
    peers = collected /\ ask = request /\ next = 1 /\ filtered = <<>>

\* Neither the requester nor a peer of the other address family.
Eligible(p) ==
    /\ p.id # ask.requester.id
    /\ ~(p.ip = ask.requester.ip /\ p.port = ask.requester.port)
    /\ ask.family # 0 => p.ip \in (IF ask.family = 4 THEN V4 ELSE V6)

Address(p) == <<p.ip, p.port>>

MaxPeers == IF ask.want = 0 THEN DefaultNumWant ELSE ask.want

\* A slip in filterPeers: the limit is tested before the peer is added.
Looking_OneMore == next <= Len(peers) /\ Len(filtered) <= MaxPeers

\* The loop goes on until the peers are used up or there are enough.
Looking == next <= Len(peers) /\ Len(filtered) < MaxPeers

\* The next peer is taken unless there is one with its address.
FilterPeer ==
    /\ Looking
    /\ LET p == peers[next]
           exists == \E i \in DOMAIN filtered : Address(filtered[i]) = Address(p)
       IN  filtered' = IF Eligible(p) /\ ~exists THEN Append(filtered, p) ELSE filtered
    /\ next' = next + 1
    /\ UNCHANGED <<peers, ask>>
=============================================================================
