------------------------------- MODULE Startup -------------------------------
(***************************************************************************)
(* What NewForwarderManager makes of the configured forwarders: those with *)
(* an invalid configuration go, then those that resolve to localhost or a  *)
(* private network, then all but the best one of every main domain.  Every *)
(* step is one round of one of its loops.                                  *)
(*                                                                         *)
(* Of a URI is kept what the code looks at: whether it parses, scheme,     *)
(* hostname, port, whether the path ends in /announce, and the length; two *)
(* URIs with equal fields are the same.  One that parses has a hostname,   *)
(* which is a main domain and what stands before it ("tracker" or not).    *)
(***************************************************************************)
EXTENDS Naturals, Sequences, SequencesExt

CONSTANTS
    Names, NoName,  \* configured names; none
    Uris,           \* URIs of forwarders
    Domains, Subs,  \* main domains, such as example.com; labels before them
    Resolved        \* what addresses are: "localhost", "private", "public"

Hosts == [domain : Domains, sub : Subs]

ASSUME StartupAssumption ==
    Uris \subseteq [parses : BOOLEAN, scheme : {"http", "udp"}, host : Hosts,
                    port : {"", "6969", "1337"}, announce : BOOLEAN, len : Nat]

Forwards == [name : Names \cup {NoName}, uri : Uris]

VARIABLES
    given,     \* cfg.Forwards
    dns,       \* the addresses each host resolves to; none if the lookup fails
    listed,    \* fm.Forwarders
    disabled,  \* the names in disabledForwarders
    pass,      \* the loop that is running
    copy, at,  \* the list it goes through, and where it is
    toKeep,    \* the best URI found so far of every domain
    twice,     \* some domain has more than one forwarder (removedCount > 0)
    kept       \* newForwarders

startVars == <<given, dns, listed, disabled, pass, copy, at, toKeep, twice, kept>>

\* GetName: the configured name, else u.Host, which has neither scheme nor
\* path; else the whole URI.
GetName(f) ==
    CASE f.name # NoName -> f.name
      [] f.name = NoName /\ f.uri.parses -> [host |-> f.uri.host, port |-> f.uri.port]
      [] OTHER -> f.uri

\* The last two labels of a hostname.
extractMainDomain(host) == host.domain

\* A UDP forwarder needs an explicit port.
Invalid(u) == u.parses /\ u.scheme = "udp" /\ u.port = ""

\* isBlockedIP: localhost and the private networks of RFC 1918.
isBlockedIP(ip) == ip \in {"localhost", "private"}

\* Any of the addresses; nothing is blocked when the lookup fails.  The code
\* looks a host up for each of its forwarders; it gets the same answer here.
isBlockedByDNS(host) == \E ip \in dns[host] : isBlockedIP(ip)

Blocked(u) == u.parses /\ isBlockedByDNS(u.host)

forwarderScore(u) ==
    IF ~u.parses THEN 0
    ELSE (IF u.scheme = "udp" THEN 1000 ELSE 0) + (IF u.announce THEN 100 ELSE 0)
         + (IF u.port = "6969" THEN 50 ELSE 0) + (IF u.host.sub = "tracker" THEN 25 ELSE 0)
         + u.len

SameDomain(u, v) ==
    u.parses /\ v.parses /\ extractMainDomain(u.host) = extractMainDomain(v.host)
-----------------------------------------------------------------------------
\* fm.Forwarders starts as the configured list; of an empty one every pass
\* returns at once.
StartInit(list, answers) ==
    /\ given = list /\ dns = answers
    /\ listed = list /\ disabled = {}
    /\ pass = IF list = <<>> THEN "done" ELSE "validate"
    /\ copy = list /\ at = 1
    /\ toKeep = {} /\ twice = FALSE /\ kept = <<>>

\* The loop that runs after p.
After(p) ==
    CASE p = "validate" -> "check"
      [] p = "check" -> "group"
      [] p = "group" -> IF twice THEN "keep" ELSE "done"
      [] OTHER -> "done"

\* A slip in NewForwarderManager: every check goes through the configured list.
NextPass_Stale ==
    /\ pass # "done" /\ at > Len(copy)
    /\ pass' = After(pass)
    /\ listed' = IF pass = "keep" THEN kept ELSE listed
    /\ copy' = given /\ at' = 1
    /\ UNCHANGED <<given, dns, disabled, toKeep, twice, kept>>

\* The end of a loop: the next one goes through what is listed then.  The last
\* one replaces the list.
NextPass ==
    /\ pass # "done" /\ at > Len(copy)
    /\ pass' = After(pass)
    /\ listed' = IF pass = "keep" THEN kept ELSE listed
    /\ copy' = listed' /\ at' = 1
    /\ UNCHANGED <<given, dns, disabled, toKeep, twice, kept>>

\* One round of the loop p.
Round(p) ==
    /\ pass = p /\ at <= Len(copy)
    /\ at' = at + 1
    /\ UNCHANGED <<given, dns, pass, copy>>

\* disableForwarder at start-up: the first forwarder of that name goes.
disableForwarder(name) ==
    \/ \E i \in DOMAIN listed :
          /\ GetName(listed[i]) = name
          /\ \A j \in 1 .. i - 1 : GetName(listed[j]) # name
          /\ listed' = RemoveAt(listed, i)
          /\ disabled' = disabled \cup {name}
    \/ /\ \A i \in DOMAIN listed : GetName(listed[i]) # name
       /\ UNCHANGED <<listed, disabled>>

\* A forwarder of the copy is disabled by name if it is bad.
DisableIf(bad) ==
    /\ \/ bad /\ disableForwarder(GetName(copy[at]))
       \/ ~bad /\ UNCHANGED <<listed, disabled>>
    /\ UNCHANGED <<toKeep, twice, kept>>

validateAndRemoveInvalidForwarders ==
    Round("validate") /\ DisableIf(Invalid(copy[at].uri))

checkAndRemoveBlockedForwarders ==
    Round("check") /\ DisableIf(Blocked(copy[at].uri))

\* removeDuplicateForwardersByDomain, the grouping: the first URI of the highest
\* score of every domain is to be kept.
GroupByDomain ==
    /\ Round("group")
    /\ LET u == copy[at].uri
           rivals == {v \in toKeep : SameDomain(u, v)}
           better == \A v \in rivals : forwarderScore(u) > forwarderScore(v)
       IN  /\ toKeep' = IF u.parses /\ better THEN (toKeep \ rivals) \cup {u} ELSE toKeep
           /\ twice' = (twice \/ rivals # {})
    /\ UNCHANGED <<listed, disabled, kept>>

\* removeDuplicateForwardersByDomain, the new list.
KeepBest ==
    /\ Round("keep")
    /\ kept' = IF copy[at].uri \in toKeep THEN Append(kept, copy[at]) ELSE kept
    /\ UNCHANGED <<listed, disabled, toKeep, twice>>

StartNext ==
    \/ NextPass
    \/ validateAndRemoveInvalidForwarders
    \/ checkAndRemoveBlockedForwarders
    \/ GroupByDomain
    \/ KeepBest

Started == pass = "done"
-----------------------------------------------------------------------------
\* Forwarders of one name are invalid together and blocked together.
NamesAgree ==
    \A i, j \in DOMAIN given :
        GetName(given[i]) = GetName(given[j]) =>
            /\ Invalid(given[i].uri) = Invalid(given[j].uri)
            /\ Blocked(given[i].uri) = Blocked(given[j].uri)

Usable(u) == u.parses /\ ~Invalid(u) /\ ~Blocked(u)

\* The URIs of domain d in a list.
OfDomain(list, d) ==
    {u \in {f.uri : f \in ToSet(list)} : u.parses /\ extractMainDomain(u.host) = d}

\* The usable URIs of domain d that no other usable one of it exceeds in score.
BestUsable(d) ==
    LET usable == {u \in OfDomain(given, d) : Usable(u)}
    IN  {u \in usable : \A v \in usable : forwarderScore(v) <= forwarderScore(u)}
=============================================================================
