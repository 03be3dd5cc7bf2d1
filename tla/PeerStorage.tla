----------------------------- MODULE PeerStorage -----------------------------
(***************************************************************************)
(* The in-memory peer registry (storage.go) and the upstream cache whose   *)
(* hash lifetime it owns (forwarderStorage.go).  Both maps change together *)
(* under Storage.requestsMu, so every operator below is one critical       *)
(* section of that mutex and the actors of Forwarding use it as one step.  *)
(*                                                                         *)
(* A peer session is the context.Context that Update creates when a peer   *)
(* (re)appears for a hash: the n-th context of that peer.  It is cancelled *)
(* exactly when it is removed from peerSessions, or when the storage has   *)
(* been closed (its parent context is cancelled).                          *)
(*                                                                         *)
(* Of a cache entry this module keeps whether it exists and whether its    *)
(* NextAnnounce lies in the future; the clock is modelled in Cooldown.     *)
(***************************************************************************)
EXTENDS ForwarderRegistry

CONSTANTS
    Hashes,      \* info hashes
    Peers,       \* peer ids
    MaxGen       \* bound: contexts created for one peer of one hash

ASSUME PeerStorageAssumption == MaxGen \in Nat \ {0}

VARIABLES
    requests,    \* Storage.Requests: the <<hash, peer>> pairs it holds
    sessions,    \* Storage.peerSessions: the contexts not yet cancelled
    gen,         \* contexts created so far, per hash and peer
    closed,      \* Storage.tasks.ctx is cancelled
    entries,     \* ForwarderStorage.Entries: the <<hash, forwarder>> pairs
    cooling      \* the entries whose NextAnnounce is after now

storageVars == <<requests, sessions, gen, closed, entries, cooling>>

Sessions == [hash : Hashes, peer : Peers, n : 1 .. MaxGen]

StorageTypeOK ==
    /\ requests \subseteq Hashes \X Peers
    /\ sessions \subseteq Sessions
    /\ gen \in [Hashes -> [Peers -> Nat]]
    /\ closed \in BOOLEAN
    /\ entries \subseteq Hashes \X Forwarders
    /\ cooling \subseteq entries

StorageInit ==
    /\ requests = {}
    /\ sessions = {}
    /\ gen = [h \in Hashes |-> [p \in Peers |-> 0]]
    /\ closed = FALSE
    /\ entries = {}
    /\ cooling = {}
-----------------------------------------------------------------------------
\* The peer ids stored for h.
PeersOf(h) == {p \in Peers : <<h, p>> \in requests}

\* The context peerSessions holds for a peer: none or one.
SessionsOf(h, p) == {s \in sessions : s.hash = h /\ s.peer = p}

\* ctx.Err() != nil
Ended(s) == s \notin sessions \/ closed

\* HasInfoHash: the map of a hash is deleted with its last entry.
HasInfoHash(h) == \E f \in Forwarders : <<h, f>> \in entries

\* The context Update returns: the stored one, else a new one.
SessionFor(h, p) ==
    IF SessionsOf(h, p) # {} THEN CHOOSE s \in SessionsOf(h, p) : TRUE
    ELSE [hash |-> h, peer |-> p, n |-> gen[h][p] + 1]

\* Storage.Update.  The bound MaxGen only limits new contexts.
Update(h, p) ==
    /\ SessionsOf(h, p) # {} \/ gen[h][p] < MaxGen
    /\ requests' = requests \cup {<<h, p>>}
    /\ sessions' = sessions \cup {SessionFor(h, p)}
    /\ gen' = IF SessionsOf(h, p) # {} THEN gen
              ELSE [gen EXCEPT ![h][p] = @ + 1]
    /\ UNCHANGED <<closed, entries, cooling>>

\* The hashes whose last peer goes when the pairs in S are deleted.
Emptied(S) == {h \in Hashes : PeersOf(h) # {} /\ \A p \in PeersOf(h) : <<h, p>> \in S}

\* ForwarderStorage.Cleanup of the hashes in H.
Cleanup(H) ==
    /\ entries' = {e \in entries : e[1] \notin H}
    /\ cooling' = {e \in cooling : e[1] \notin H}

\* deleteLocked for every pair in S; H are the hashes its caller cleans up
\* in the same critical section.
deleteLocked(S, H) ==
    /\ requests' = requests \ S
    /\ sessions' = {s \in sessions : <<s.hash, s.peer>> \notin S}
    /\ Cleanup(Emptied(S) \cup H)
    /\ UNCHANGED <<gen, closed>>

\* Storage.purgeExpired: any set of stored peers may have outlived Config.Age.
purgeExpired ==
    /\ ~closed
    /\ \E S \in SUBSET requests \ {{}} : deleteLocked(S, {})

\* Storage.Close cancels every session and keeps Requests.
Close ==
    /\ ~closed
    /\ closed' = TRUE
    /\ sessions' = {}
    /\ UNCHANGED <<requests, gen, entries, cooling>>

\* UpdatePeers and DeferAnnounce: both leave an entry that is cooling down.
Publish(h, f) ==
    /\ entries' = entries \cup {<<h, f>>}
    /\ cooling' = cooling \cup {<<h, f>>}
    /\ UNCHANGED <<requests, sessions, gen, closed>>

\* ForwarderStorage.Prune: expired payloads go with their entry unless the
\* entry is still cooling down.
Prune ==
    /\ \E E \in SUBSET (entries \ cooling) : entries' = entries \ E
    /\ UNCHANGED <<requests, sessions, gen, closed, cooling>>

\* Time passes: the NextAnnounce of an entry is reached.
CooldownElapses ==
    /\ \E e \in cooling : cooling' = cooling \ {e}
    /\ UNCHANGED <<requests, sessions, gen, closed, entries>>

\* disableForwarder drops every entry of the forwarder.
ForgetForwarder(f) ==
    /\ entries' = {e \in entries : e[2] # f}
    /\ cooling' = {e \in cooling : e[2] # f}
    /\ UNCHANGED <<requests, sessions, gen, closed>>
=============================================================================
