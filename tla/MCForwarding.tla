---------------------------- MODULE MCForwarding ----------------------------
(***************************************************************************)
(* Small instances of Forwarding for TLC.                                  *)
(***************************************************************************)
EXTENDS Forwarding, TLC

\* Goroutines and peers of one kind are interchangeable.
Symmetry == Permutations(Handlers) \cup Permutations(Workers) \cup Permutations(Peers)

\* Entries of a name: one, or two that share it, so that a disabled name may
\* still be listed.
OneEach == [f \in Forwarders |-> 1]
TwoEach == [f \in Forwarders |-> 2]
=============================================================================
