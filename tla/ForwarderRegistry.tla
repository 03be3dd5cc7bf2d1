-------------------------- MODULE ForwarderRegistry --------------------------
(***************************************************************************)
(* The upstream trackers ForwarderManager works with and what it has       *)
(* learned about them (forwarderManager.go): the active list, the disabled *)
(* and the suspended ones, and their consecutive failures.  Each map has a *)
(* mutex of its own; an operator below is one critical section.            *)
(***************************************************************************)
EXTENDS Naturals, FiniteSets

CONSTANTS
    Forwarders,     \* names of upstream trackers
    Configured,     \* how often NewForwarderManager leaves each of them in the list
    StartDisabled,  \* the names its checks have disabled
    FailThreshold   \* Config.ForwarderFailThreshold; 0 switches counting off

ASSUME RegistryAssumption ==
    /\ Configured \in [Forwarders -> Nat]
    /\ StartDisabled \subseteq Forwarders
    /\ FailThreshold \in Nat

VARIABLES
    listings,       \* fm.Forwarders: the number of entries of each name
    disabled,       \* fm.disabledForwarders
    suspended,      \* fm.suspendedForwarders, entries not yet past their end
    failCounts      \* fm.failCounts, 0 for an absent name

registryVars == <<listings, disabled, suspended, failCounts>>

RegistryTypeOK ==
    /\ listings \in [Forwarders -> Nat]
    /\ disabled \subseteq Forwarders
    /\ suspended \subseteq Forwarders
    /\ failCounts \in [Forwarders -> Nat]

\* Start-up disables by name, so a name that several configured forwarders
\* share may be disabled and still listed.
RegistryInit ==
    /\ listings = Configured
    /\ disabled = StartDisabled
    /\ suspended = {}
    /\ failCounts = [f \in Forwarders |-> 0]
-----------------------------------------------------------------------------
\* The forwarders that have an entry.
active == {f \in Forwarders : listings[f] > 0}

\* registerFailure up to its unlock; the caller disables at the threshold.
CountFailure(f) ==
    /\ failCounts' = IF FailThreshold = 0 THEN failCounts
                     ELSE [failCounts EXCEPT ![f] = @ + 1]
    /\ UNCHANGED <<listings, disabled, suspended>>

\* A slip in registerFailure: the comparison is strict.
AtThreshold_Strict(f) == FailThreshold > 0 /\ failCounts[f] + 1 > FailThreshold

\* count >= threshold on the count just read.
AtThreshold(f) == FailThreshold > 0 /\ failCounts[f] + 1 >= FailThreshold

\* resetFailure, and the first critical section of disableForwarder.
ForgetFailures(f) ==
    /\ failCounts' = [failCounts EXCEPT ![f] = 0]
    /\ UNCHANGED <<listings, disabled, suspended>>

\* disableForwarder under forwardersMu: only a listed forwarder is marked, and
\* the first entry of its name goes.
Delist(f) ==
    /\ \/ /\ f \in active
          /\ listings' = [listings EXCEPT ![f] = @ - 1]
          /\ disabled' = disabled \cup {f}
       \/ f \notin active /\ UNCHANGED <<listings, disabled>>
    /\ UNCHANGED <<suspended, failCounts>>

\* suspendForwarderWithReason.
Suspend(f) ==
    /\ suspended' = suspended \cup {f}
    /\ UNCHANGED <<listings, disabled, failCounts>>

\* Time passes: SuspendedUntil is over and getSuspendedUntil drops the entry.
SuspensionExpires ==
    /\ \E f \in suspended : suspended' = suspended \ {f}
    /\ UNCHANGED <<listings, disabled, failCounts>>

\* AddRuntimeForwarder under pendingMu: the name gets a clean slate.
ClearDisabled(f) ==
    /\ disabled' = disabled \ {f}
    /\ failCounts' = [failCounts EXCEPT ![f] = 0]
    /\ UNCHANGED <<listings, suspended>>

\* AddRuntimeForwarder under suspendedMu.
ClearSuspended(f) ==
    /\ suspended' = suspended \ {f}
    /\ UNCHANGED <<listings, disabled, failCounts>>

\* A slip in AddRuntimeForwarder: the name is not looked for again.
List_NoRecheck(f) ==
    /\ listings' = [listings EXCEPT ![f] = @ + 1]
    /\ UNCHANGED <<disabled, suspended, failCounts>>

\* AddRuntimeForwarder under forwardersMu: checked again, then appended.
List(f) ==
    /\ listings' = IF f \in active THEN listings ELSE [listings EXCEPT ![f] = @ + 1]
    /\ UNCHANGED <<disabled, suspended, failCounts>>
=============================================================================
