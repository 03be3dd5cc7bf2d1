--------------------------- MODULE AnnounceService ---------------------------
(***************************************************************************)
(* What forwarding promises, without queues, retries, markers of dead      *)
(* sessions or shutdown phases.  An announce for a key (hash, forwarder,   *)
(* peer) is claimed before it is worked on; a key has one claim at a time; *)
(* only an announce that is being worked on for a live session adds cached *)
(* upstream state, and only for its own hash; cached state goes with the   *)
(* last local peer of its hash.                                            *)
(*                                                                         *)
(* Jobs are the records [ses, fwd, id] of JobTable.                        *)
(***************************************************************************)
CONSTANTS Hashes, Peers

VARIABLES
    local,     \* <<hash, peer>> pairs that announce here
    live,      \* sessions that have not ended
    claimed,   \* jobs that hold the claim of their key
    working,   \* jobs being announced upstream
    cached     \* hashes with cached upstream state

vars == <<local, live, claimed, working, cached>>

Key(j) == <<j.ses.hash, j.fwd, j.ses.peer>>

HasPeer(h, L) == \E p \in Peers : <<h, p>> \in L

Init == local = {} /\ live = {} /\ claimed = {} /\ working = {} /\ cached = {}

\* A peer announces.  It keeps its session or gets one; once the storage is
\* closed the session it gets has already ended.
Join ==
    /\ \E h \in Hashes, p \in Peers :
          /\ local' = local \cup {<<h, p>>}
          /\ \/ live' = live
             \/ /\ \A s \in live : <<s.hash, s.peer>> # <<h, p>>
                /\ live \subseteq live'
                /\ \E s \in live' : live' \ live = {s} /\ <<s.hash, s.peer>> = <<h, p>>
    /\ UNCHANGED <<claimed, working, cached>>

\* Peers leave: their sessions end, and the state of a hash goes with its
\* last peer.
Leave ==
    /\ local' \subseteq local
    /\ live' = {s \in live : <<s.hash, s.peer>> \in local'}
    /\ cached' = {h \in cached : HasPeer(h, local')}
    /\ UNCHANGED <<claimed, working>>

\* The one claim of a key.
Claim ==
    /\ \E j \in claimed' :
          /\ j.ses \in live
          /\ \A m \in claimed : Key(m) # Key(j)
          /\ claimed' = claimed \cup {j}
    /\ UNCHANGED <<local, live, working, cached>>

\* A claimed announce of a live session starts.
Begin ==
    /\ \E j \in claimed : j.ses \in live /\ working' = working \cup {j}
    /\ UNCHANGED <<local, live, claimed, cached>>

\* It ends; a retry of it may take over the claim.
End ==
    /\ \E j \in working :
          /\ working' = working \ {j}
          /\ \/ UNCHANGED claimed
             \/ \E k \in claimed' : /\ k.ses = j.ses /\ k.fwd = j.fwd
                                    /\ claimed' = (claimed \ {j}) \cup {k}
    /\ UNCHANGED <<local, live, cached>>

\* Claims are given up, but not under an announce at work for a live session.
Release ==
    /\ claimed' \subseteq claimed
    /\ \A j \in working : j.ses \in live /\ j \in claimed => j \in claimed'
    /\ UNCHANGED <<local, live, working, cached>>

\* The answer to an announce at work, for a live session, is cached.
PublishAnswer ==
    /\ \E j \in working :
          /\ j.ses \in live
          /\ cached' = cached \cup {j.ses.hash}
          /\ working' \in {working, working \ {j}}
    /\ UNCHANGED <<local, live, claimed>>

\* Cached state is dropped: expiry, or a forwarder that is disabled.
Drop ==
    /\ cached' \subseteq cached
    /\ working' = working \/ \E j \in working : working' = working \ {j}
    /\ UNCHANGED <<local, live, claimed>>

\* The storage closes: every session ends, the peers stay listed.
Shutdown == live' = {} /\ UNCHANGED <<local, claimed, working, cached>>

Next ==
    \/ Join \/ Leave \/ Claim \/ Begin \/ End \/ Release \/ PublishAnswer \/ Drop
    \/ Shutdown

Spec == Init /\ [][Next]_vars
=============================================================================
