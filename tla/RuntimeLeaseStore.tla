------------------------- MODULE RuntimeLeaseStore -------------------------
(***************************************************************************)
(* The lease store of the process-bound runtime supervisor: one row per    *)
(* supervised endpoint in a SQLite database shared by the processes of a   *)
(* user, and one file lock (sentinel) per lease that its owner holds as    *)
(* long as it lives and has not given it up.  Every operation is one       *)
(* BEGIN IMMEDIATE transaction.  Source: runtime_supervisor_store.py and   *)
(* runtime_supervisor_contracts.py.                                        *)
(*                                                                         *)
(* An element of Leases is a lease id; ids are random 128-bit values in    *)
(* the code, and the model hands one out again only once nothing refers    *)
(* to it.  Row digests, receipt chains and evidence columns are left out.  *)
(***************************************************************************)
EXTENDS Integers, FiniteSets

CONSTANTS
    None,
    Leases,           \* lease ids
    Endpoints,        \* endpoint authorities: exact host and port
    MaxActiveLeases,  \* RuntimeSupervisorLeasePolicy.max_active_leases
    Faults            \* may SQLite, a clock or a sentinel probe fail

VARIABLES
    lease,     \* active_leases.state per lease id, "absent" without a row
    endpoint,  \* its endpoint_authority, None without a row
    handle     \* the owner's RuntimeSupervisorLeaseHandle

storeVars == <<lease, endpoint, handle>>

ASSUME LimitAssumption == MaxActiveLeases \in Nat \ {0}
ASSUME EndpointAssumption == None \notin Endpoints
ASSUME FaultAssumption == Faults \in BOOLEAN

ActiveStates == {"prepared", "starting", "ready", "stopping", "revoked",
                 "unknown_blocking"}

\* Fault: an unknown row can be stopped like a revoked one.
UnknownClearable(from) ==
    CASE from = "prepared" -> {"starting", "stopping", "stopped", "revoked",
                               "unknown_blocking"}
      [] from = "starting" -> {"ready", "stopping", "revoked", "unknown_blocking"}
      [] from = "ready" -> {"stopping", "revoked", "unknown_blocking"}
      [] from \in {"revoked", "unknown_blocking"} -> {"stopping", "unknown_blocking"}
      [] from = "stopping" -> {"stopped", "unknown_blocking"}
      [] OTHER -> {}

\* RUNTIME_SUPERVISOR_TRANSITIONS
Allowed(from) ==
    CASE from = "prepared" -> {"starting", "stopping", "stopped", "revoked",
                               "unknown_blocking"}
      [] from = "starting" -> {"ready", "stopping", "revoked", "unknown_blocking"}
      [] from = "ready" -> {"stopping", "revoked", "unknown_blocking"}
      [] from = "revoked" -> {"stopping", "unknown_blocking"}
      [] from = "stopping" -> {"stopped", "unknown_blocking"}
      [] from = "unknown_blocking" -> {"unknown_blocking"}
      [] OTHER -> {}

StoreTypeOK ==
    /\ lease \in [Leases -> ActiveStates \cup {"absent"}]
    /\ endpoint \in [Leases -> Endpoints \cup {None}]
    /\ handle \in [Leases -> {"none", "live", "released"}]

StoreInit ==
    /\ lease = [l \in Leases |-> "absent"]
    /\ endpoint = [l \in Leases |-> None]
    /\ handle = [l \in Leases |-> "none"]

Rows == {l \in Leases : lease[l] # "absent"}

-----------------------------------------------------------------------------
(***************************************************************************)
(* _probe_owner, a try-lock of the sentinel: "active" while the owner      *)
(* holds it, "dead" when it is free.  With faults the attempt may fail     *)
(* otherwise ("unknown"), and a dead owner may look active while another   *)
(* process, whose own transaction rolled back, still holds the probe lock. *)
(***************************************************************************)
ProbeOutcomes(l) ==
    {IF handle[l] = "live" THEN "active" ELSE "dead"}
        \cup (IF Faults THEN {"unknown"} ELSE {})
        \cup (IF Faults /\ handle[l] # "live" THEN {"active"} ELSE {})

Probed == {l \in Rows : lease[l] # "unknown_blocking"}

Probes == {p \in [Probed -> {"active", "dead", "unknown"}] :
               \A l \in Probed : p[l] \in ProbeOutcomes(l)}

\* Fault: the row of a dead owner is deleted instead of being marked.
ReapAbandoned(probe) ==
    [l \in Leases |-> IF l \in Probed /\ probe[l] # "active" THEN "absent" ELSE lease[l]]

\* Fault: the probe's outcome is written to the state column.
MarkOutcome(probe) ==
    [l \in Leases |-> IF l \in Probed /\ probe[l] # "active" THEN probe[l] ELSE lease[l]]

\* _mark_abandoned_rows: whatever is not provably owned is unknown from now on.
Marked(probe) ==
    [l \in Leases |-> IF l \in Probed /\ probe[l] # "active" THEN "unknown_blocking"
                      ELSE lease[l]]

\* Fault: the limit is compared with one lease too few.
LimitOvershot(scan) ==
    Cardinality({l \in Leases : scan[l] \notin {"absent", "unknown_blocking"}})
        > MaxActiveLeases

\* Unknown rows keep their endpoint but do not count.
LimitReached(scan) ==
    Cardinality({l \in Leases : scan[l] \notin {"absent", "unknown_blocking"}})
        >= MaxActiveLeases

EndpointTaken(e, scan) == \E l \in Leases : scan[l] # "absent" /\ endpoint[l] = e

Granted(e, scan) == ~LimitReached(scan) /\ ~EndpointTaken(e, scan)

FreshLease(l) == lease[l] = "absent" /\ handle[l] = "none"

(***************************************************************************)
(* acquire, committed: the marks are kept whatever the verdict, the row is *)
(* inserted only when the lease is granted.                                *)
(***************************************************************************)
CommitAcquire(l, e, scan) ==
    /\ FreshLease(l)
    /\ lease' = [scan EXCEPT ![l] = IF Granted(e, scan) THEN "prepared" ELSE @]
    /\ endpoint' = [endpoint EXCEPT ![l] = IF Granted(e, scan) THEN e ELSE @]

Acquire(l, e, probe) ==
    /\ CommitAcquire(l, e, Marked(probe))
    /\ handle' = [handle EXCEPT ![l] = IF Granted(e, Marked(probe)) THEN "live" ELSE @]

\* acquire interrupted between its commit and its return: the owner lock is dropped.
AcquireInterrupted(l, e, probe) ==
    /\ CommitAcquire(l, e, Marked(probe))
    /\ UNCHANGED handle

\* get, list_active and mark_abandoned_owners
MarkAbandoned(probe) ==
    /\ lease' = Marked(probe)
    /\ UNCHANGED <<endpoint, handle>>

\* _validate_handle, _authenticate and the transition table
CanTransition(l, to) ==
    /\ handle[l] = "live"
    /\ to \in Allowed(lease[l])

\* transition, committed: stopped deletes the row, stopped and unknown end ownership.
Transition(l, to) ==
    /\ CanTransition(l, to)
    /\ lease' = [lease EXCEPT ![l] = IF to = "stopped" THEN "absent" ELSE to]
    /\ endpoint' = [endpoint EXCEPT ![l] = IF to = "stopped" THEN None ELSE @]
    /\ handle' = [handle EXCEPT ![l] = IF to \in {"stopped", "unknown_blocking"}
                                       THEN "released" ELSE @]

\* transition raises: refused, or rolled back by a fault.
TransitionFails(l, to) ==
    /\ Faults \/ ~CanTransition(l, to)
    /\ UNCHANGED storeVars

\* release_owner gives up the sentinel and leaves the row as it is.
ReleaseOwner(l) ==
    /\ handle[l] = "live"
    /\ handle' = [handle EXCEPT ![l] = "released"]
    /\ UNCHANGED <<lease, endpoint>>

\* The owner's process ends: the handle is gone and the OS drops its lock.
OwnerExit(l) ==
    /\ handle[l] # "none"
    /\ handle' = [handle EXCEPT ![l] = "none"]
    /\ UNCHANGED <<lease, endpoint>>

-----------------------------------------------------------------------------
\* The store under arbitrary clients.
StoreNext ==
    \/ \E p \in Probes : MarkAbandoned(p)
    \/ \E l \in Leases :
         \/ \E e \in Endpoints, p \in Probes : Acquire(l, e, p)
         \/ \E e \in Endpoints, p \in Probes : AcquireInterrupted(l, e, p)
         \/ \E to \in ActiveStates \cup {"stopped"} : Transition(l, to)
         \/ ReleaseOwner(l)
         \/ OwnerExit(l)

StoreSpec == StoreInit /\ [][StoreNext]_storeVars

-----------------------------------------------------------------------------
(***************************************************************************)
(* No interleaving of acquisitions, marks, exits and transitions gives one *)
(* endpoint to two rows; the check inside acquire keeps the UNIQUE column  *)
(* endpoint_authority_sha256 from ever being violated by the INSERT.       *)
(***************************************************************************)
EndpointExclusive ==
    \A k, l \in Rows : endpoint[k] = endpoint[l] => k = l

(***************************************************************************)
(* At most max_active_leases rows are live.  Unknown rows do not count, so *)
(* the number of all rows is unbounded by the policy.                      *)
(***************************************************************************)
LiveLeaseLimit ==
    Cardinality({l \in Rows : lease[l] # "unknown_blocking"}) <= MaxActiveLeases

(***************************************************************************)
(* The store implements the registry: an endpoint is granted only when no  *)
(* row names it, and an unknown row never leaves.                          *)
(***************************************************************************)
Registry == INSTANCE EndpointRegistry WITH
    holders <- [e \in Endpoints |-> {l \in Rows : endpoint[l] = e}],
    blocked <- {e \in Endpoints :
                    \E l \in Rows : endpoint[l] = e /\ lease[l] = "unknown_blocking"}

ImplementsRegistry == Registry!Spec

(***************************************************************************)
(* A row leaves the table only through its living owner and only from      *)
(* "stopping", or from "prepared" when nothing was launched: no scan, exit *)
(* or foreign acquisition makes a started runtime's row vanish.            *)
(***************************************************************************)
RowsLeaveStopped ==
    [][\A l \in Leases :
          lease[l] # "absent" /\ lease'[l] = "absent"
            => lease[l] \in {"prepared", "stopping"} /\ handle[l] = "live"]_storeVars

\* What the rows of the store keep: endpoints are exclusive, live rows within the limit.
RowsSafe == EndpointExclusive /\ LiveLeaseLimit

\* Every step of the store is a step of the registry it implements.
StepOfRegistry == [Registry!Next]_(Registry!registryVars)

\* What the rows keep, and how they leave: only through their owner, and stopped.
RowSteps == []RowsSafe /\ RowsLeaveStopped
=============================================================================
