----------------------------- MODULE MCAlgorithms -----------------------------
(***************************************************************************)
(* Small inputs for Algorithms.                                            *)
(***************************************************************************)
EXTENDS Algorithms

CONSTANTS
    MaxForwards,   \* bound: configured forwarders
    MaxCollected   \* bound: peers collected for an answer

Uri(parses, scheme, domain, sub, port, announce, len) ==
    [parses |-> parses, scheme |-> scheme, host |-> [domain |-> domain, sub |-> sub],
     port |-> port, announce |-> announce, len |-> len]

\* Of one domain URIs of all kinds, two of them of equal score; of the other a
\* few; and one that does not parse.
MCUris ==
    LET d == CHOOSE x \in Domains : TRUE
        e == CHOOSE x \in Domains \ {d} : TRUE
    IN  {Uri(TRUE, s, d, sub, port, TRUE, 30) :
            s \in {"udp", "http"}, sub \in Subs, port \in {"", "6969"}}
        \cup {Uri(TRUE, "udp", d, "", "1337", FALSE, l) : l \in {30, 180}}
        \cup {Uri(TRUE, "udp", e, "", "1337", TRUE, 30), Uri(TRUE, "udp", e, "", "", TRUE, 25),
              Uri(TRUE, "http", e, "tracker", "", TRUE, 38)}
        \cup {Uri(FALSE, "http", d, "", "", FALSE, 0)}

\* Names are configured for URIs of the second domain.
MCForwardLists ==
    LET d == CHOOSE x \in Domains : TRUE
        some == [name : {NoName}, uri : Uris]
                \cup [name : Names, uri : {u \in Uris : u.host.domain # d}]
    IN  UNION {[1 .. n -> some] : n \in 1 .. MaxForwards}

\* Hosts resolve to public addresses, except that of each domain one has a
\* private or local one too and one is unknown to DNS.
MCResolutions ==
    {[h \in Hosts |-> CASE h.sub = bad -> {"public", IF bad = "" THEN "localhost" ELSE "private"}
                        [] h.sub = gone -> {}
                        [] OTHER -> {"public"}] : bad \in Subs, gone \in Subs}

\* Ids are keys of the map of local peers.
MCLocalSets ==
    {mine \in SUBSET LocalPeers : \A p, q \in mine : p.id = q.id => p = q}

MCCachedSets == SUBSET [ip : IPs, port : Ports]

\* The requester itself, as stored and under another address; others with and
\* without an id (compact answers carry none), one at the requester's address,
\* and one whose IP does not parse.
MCPeerLists ==
    LET some == {<<"me", "a", 1>>, <<"me", "b", 2>>, <<"", "a", 1>>, <<"", "a", 2>>,
                 <<"other", "a", 2>>, <<"other", "b", 2>>, <<"other", "", 2>>}
    IN  UNION {[1 .. n -> {[id |-> p[1], ip |-> p[2], port |-> p[3]] : p \in some}] :
                  n \in 1 .. MaxCollected}

MCRequests ==
    [requester : {[id |-> "me", ip |-> "a", port |-> 1]}, want : {0, 1, 3}, family : {0, 4, 6}]
=============================================================================
