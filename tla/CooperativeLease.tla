-------------------------- MODULE CooperativeLease --------------------------
(***************************************************************************)
(* The cooperative resource lease store: one SQLite database shared by all *)
(* processes of a user, one row per active lease, and one OS file lock     *)
(* (sentinel) per lease that tells whether the lease's owner still lives.  *)
(* A store operation is one BEGIN IMMEDIATE transaction, so operations are *)
(* atomic with respect to each other; the sentinel locks are not part of   *)
(* the transaction.  Source: cooperative_resource_lease.py.                *)
(*                                                                         *)
(* An element of Leases is a lease id drawn by one acquisition.  Ids are   *)
(* random 128-bit values in the code; the model hands an id out again only *)
(* once nothing refers to it any more.                                     *)
(***************************************************************************)
EXTENDS LeaseAccounting

CONSTANTS
    Leases,           \* lease ids
    Cells,            \* passports with their profile's reserve
    Snapshots,        \* resource snapshots an admission may collect
    MaxActiveLeases,  \* CooperativeResourceLeasePolicy.max_active_leases
    ProbeFaults       \* may a sentinel probe fail for another reason than a held lock

VARIABLES
    rowState,    \* active_leases.state per lease id, "absent" without a row
    rowClaim,    \* the claim columns of the row, None without a row
    quarantine,  \* store_meta.quarantine_state = "unknown_blocking"
    sentinel,    \* who holds the lease's file lock
    handle       \* does a live process hold the CooperativeResourceLeaseHandle

store == <<rowState, rowClaim, quarantine>>
leaseVars == <<rowState, rowClaim, quarantine, sentinel, handle>>

RowStates == {"reserved", "delivery_armed", "unknown_blocking"}
DeliveryStatuses == {"not_attempted", "attempted_unknown", "response_received"}
Claims == {ClaimFromPreview(cell, snap) : cell \in Cells, snap \in Snapshots} \ {None}

ASSUME LimitAssumption == MaxActiveLeases \in Nat \ {0}
ASSUME ProbeAssumption == ProbeFaults \in BOOLEAN

LeaseTypeOK ==
    /\ rowState \in [Leases -> RowStates \cup {"absent"}]
    /\ rowClaim \in [Leases -> Claims \cup {None}]
    /\ quarantine \in BOOLEAN
    /\ sentinel \in [Leases -> {"free", "owner", "prober"}]
    /\ handle \in [Leases -> {"none", "live"}]

LeaseInit ==
    /\ rowState = [l \in Leases |-> "absent"]
    /\ rowClaim = [l \in Leases |-> None]
    /\ quarantine = FALSE
    /\ sentinel = [l \in Leases |-> "free"]
    /\ handle = [l \in Leases |-> "none"]

Active == {l \in Leases : rowState[l] # "absent"}

-----------------------------------------------------------------------------
(***************************************************************************)
(* _probe_owner: a non-blocking try-lock of the sentinel.  "dead" when the *)
(* lock was free, "active" when somebody holds it, and "unknown" when the  *)
(* attempt fails for another reason.                                       *)
(***************************************************************************)
ProbeOutcomes(l) == {IF sentinel[l] = "free" THEN "dead" ELSE "active"}
                        \cup (IF ProbeFaults THEN {"unknown"} ELSE {})

Probed == {l \in Leases : rowState[l] \in {"reserved", "delivery_armed"}}

Probes == {p \in [Probed -> {"dead", "active", "unknown"}] :
               \A l \in Probed : p[l] \in ProbeOutcomes(l)}

\* Fault: the scan deletes every row it cannot show to be owned.
ScanReapsAll(probe) ==
    [l \in Leases |-> IF l \in Probed /\ probe[l] # "active" THEN "absent" ELSE rowState[l]]

\* Fault: the scan stores the probe's outcome instead of the row's next state.
ScanStoresOutcome(probe) ==
    [l \in Leases |-> IF l \in Probed /\ probe[l] # "active" THEN probe[l] ELSE rowState[l]]

\* Fault: a dead owner's reservation is blocked like an armed one.
ScanBlocksAll(probe) ==
    [l \in Leases |-> IF l \in Probed /\ probe[l] # "active" THEN "unknown_blocking"
                      ELSE rowState[l]]

\* _active_rows: the state of each row once the scan has reaped and marked.
Scanned(probe) ==
    [l \in Leases |->
        IF l \notin Probed \/ probe[l] = "active" THEN rowState[l]
        ELSE IF probe[l] = "dead" /\ rowState[l] = "reserved" THEN "absent"
        ELSE "unknown_blocking"]

Remaining(scan) == {l \in Leases : scan[l] # "absent"}
Held(scan) == [l \in Remaining(scan) |-> rowClaim[l]]

\* Faults: one of the two sources of an unknown ownership is not consulted.
RowsUnknown(scan) == \E l \in Leases : scan[l] = "unknown_blocking"
DomainUnknown(scan) == quarantine

OwnershipUnknown(scan) ==
    quarantine \/ \E l \in Leases : scan[l] = "unknown_blocking"

\* The reason codes of evaluate_and_acquire that turn the status unknown_blocking ...
UnknownReasons(c, scan) ==
    {r \in {"lease_owner_unknown", "accelerator_identity_conflict",
            "resource_capacity_unknown"} :
        \/ r = "lease_owner_unknown" /\ OwnershipUnknown(scan)
        \/ r = "accelerator_identity_conflict" /\ IdentityConflict(Held(scan), c)
        \/ r = "resource_capacity_unknown"
             /\ \/ SystemAvailable(c.snapshot) = None
                \/ c.pool = "discrete" /\ AcceleratorAvailable(c, c.snapshot) = None}

\* Fault: the limit admits one lease too many.
LimitPassed(scan) == Cardinality(Remaining(scan)) > MaxActiveLeases

LimitReached(scan) == Cardinality(Remaining(scan)) >= MaxActiveLeases

\* ... and the ones that only deny.
DenyReasons(c, scan) ==
    LET system == SystemAvailable(c.snapshot)
        accel  == AcceleratorAvailable(c, c.snapshot)
        held   == Held(scan)
    IN {r \in {"active_lease_limit_reached", "system_capacity_insufficient",
               "accelerator_capacity_insufficient"} :
        \/ r = "active_lease_limit_reached"
             /\ LimitReached(scan)
        \/ r = "system_capacity_insufficient"
             /\ Exceeds(RequiredSystem(held, c), system)
        \/ r = "accelerator_capacity_insufficient"
             /\ Exceeds(RequiredAccelerator(held, c), accel)}

AdmissionStatus(c, scan) ==
    IF UnknownReasons(c, scan) # {} THEN "unknown_blocking"
    ELSE IF DenyReasons(c, scan) # {} THEN "denied"
    ELSE "acquired"

(***************************************************************************)
(* evaluate_and_acquire, committed.  The scan's reaping and marking is     *)
(* committed whatever the verdict; the row is inserted only when acquired. *)
(* The owner lock was taken before the transaction and is handed to the    *)
(* handle, or released again when there is none.                           *)
(***************************************************************************)
FreshId(l) == rowState[l] = "absent" /\ handle[l] = "none" /\ sentinel[l] = "free"

CommitAdmission(l, c, scan, status) ==
    /\ ValidEvidence(c, c.snapshot)
    /\ ~AccountingOverflows(Held(scan), c)
    /\ rowState' = [scan EXCEPT ![l] = IF status = "acquired" THEN "reserved" ELSE @]
    /\ rowClaim' = [k \in Leases |-> IF k = l /\ status = "acquired" THEN c
                                     ELSE IF scan[k] = "absent" THEN None
                                     ELSE rowClaim[k]]
    /\ UNCHANGED quarantine

EvaluateAndAcquire(l, c, probe) ==
    LET scan   == Scanned(probe)
        status == AdmissionStatus(c, scan)
    IN  /\ FreshId(l)
        /\ CommitAdmission(l, c, scan, status)
        /\ sentinel' = [sentinel EXCEPT ![l] = IF status = "acquired" THEN "owner" ELSE @]
        /\ handle' = [handle EXCEPT ![l] = IF status = "acquired" THEN "live" ELSE @]

(***************************************************************************)
(* evaluate_and_acquire, interrupted after its commit and before the       *)
(* handle is returned: the row is durable, the owner lock is dropped.      *)
(***************************************************************************)
AcquireThenInterrupted(l, c, probe) ==
    LET scan == Scanned(probe) IN
    /\ FreshId(l)
    /\ CommitAdmission(l, c, scan, AdmissionStatus(c, scan))
    /\ UNCHANGED <<sentinel, handle>>

(***************************************************************************)
(* evaluate_and_acquire, rolled back (evaluator error, invalid evidence,   *)
(* accounting overflow, invalid clock, SQLite error, interrupt).  The      *)
(* database is unchanged, but the locks of the dead owners that were       *)
(* probed stay held by the prober until its finally block runs, and look   *)
(* like living owners to everybody else meanwhile.                         *)
(***************************************************************************)
AcquireRolledBack(l, dead) ==
    /\ FreshId(l)
    /\ dead \subseteq {k \in Probed : sentinel[k] = "free"}
    /\ sentinel' = [k \in Leases |-> IF k \in dead THEN "prober" ELSE sentinel[k]]
    /\ UNCHANGED <<store, handle>>

ReleaseProbeLock(l) ==
    /\ sentinel[l] = "prober"
    /\ sentinel' = [sentinel EXCEPT ![l] = "free"]
    /\ UNCHANGED <<store, handle>>

\* arm_delivery; a refused transition changes nothing.
ArmApplies(l) == rowState[l] = "reserved"

ArmDelivery(l) ==
    /\ handle[l] = "live"
    /\ rowState' = IF ArmApplies(l) THEN [rowState EXCEPT ![l] = "delivery_armed"]
                   ELSE rowState
    /\ UNCHANGED <<rowClaim, quarantine, sentinel, handle>>

(***************************************************************************)
(* release: only a known delivery outcome deletes the row.                 *)
(***************************************************************************)
KnownOutcome(l, delivery) ==
    \/ rowState[l] = "reserved" /\ delivery = "not_attempted"
    \/ rowState[l] = "delivery_armed" /\ delivery = "response_received"

ReleaseStatus(l, delivery) ==
    CASE rowState[l] = "absent" /\ delivery = "attempted_unknown" -> "unknown_blocking"
      [] rowState[l] = "absent" /\ delivery # "attempted_unknown" -> "already_absent"
      [] rowState[l] # "absent" /\ delivery = "attempted_unknown" -> "unknown_blocking"
      [] rowState[l] = "unknown_blocking" /\ delivery # "attempted_unknown"
           -> "unknown_blocking"
      [] KnownOutcome(l, delivery) -> "released"
      [] OTHER -> "denied"

\* `cleaned`: the owner sentinel could be released after the row's deletion.
Release(l, delivery, cleaned) ==
    LET status == ReleaseStatus(l, delivery) IN
    /\ handle[l] = "live"
    /\ rowState' = [rowState EXCEPT ![l] =
                      IF status = "released" THEN "absent"
                      ELSE IF @ # "absent" /\ delivery = "attempted_unknown"
                      THEN "unknown_blocking" ELSE @]
    /\ rowClaim' = [rowClaim EXCEPT ![l] = IF status = "released" THEN None ELSE @]
    /\ quarantine' = (quarantine \/ (rowState[l] = "absent"
                                       /\ delivery = "attempted_unknown"))
    /\ sentinel' = [sentinel EXCEPT ![l] =
                      IF status \in {"released", "already_absent"} /\ cleaned
                      THEN "free" ELSE @]
    /\ UNCHANGED handle

\* The owner's process ends, however it ends: the OS drops its file lock.
OwnerExit(l) ==
    /\ handle[l] = "live"
    /\ handle' = [handle EXCEPT ![l] = "none"]
    /\ sentinel' = [sentinel EXCEPT ![l] = "free"]
    /\ UNCHANGED store

-----------------------------------------------------------------------------
(***************************************************************************)
(* The store under arbitrary clients: a handle's owner may call arm and    *)
(* release in any order, repeatedly and with any delivery status.          *)
(***************************************************************************)
LeaseNext ==
    \E l \in Leases :
        \/ \E c \in Claims, p \in Probes : EvaluateAndAcquire(l, c, p)
        \/ \E c \in Claims, p \in Probes : AcquireThenInterrupted(l, c, p)
        \/ \E dead \in SUBSET Leases : AcquireRolledBack(l, dead)
        \/ ReleaseProbeLock(l)
        \/ ArmDelivery(l)
        \/ \E d \in DeliveryStatuses, ok \in BOOLEAN : Release(l, d, ok)
        \/ OwnerExit(l)

LeaseSpec == LeaseInit /\ [][LeaseNext]_leaseVars

-----------------------------------------------------------------------------
\* Leases that hold memory of a discrete accelerator.
OnAccelerator == {l \in Active : rowClaim[l].accel > 0}

(***************************************************************************)
(* However admissions, reaps and changing snapshots interleave, the claims *)
(* recorded at one time never name two different discrete accelerators     *)
(* (evaluate_and_acquire refuses an identity conflict).                    *)
(***************************************************************************)
OneAccelerator ==
    \A k, l \in OnAccelerator : rowClaim[k].identity = rowClaim[l].identity

(***************************************************************************)
(* The number of rows never exceeds the policy's max_active_leases, also   *)
(* when rows of dead owners are marked unknown instead of being reaped.    *)
(***************************************************************************)
LeaseLimit == Cardinality(Active) <= MaxActiveLeases

(***************************************************************************)
(* A row whose delivery was armed disappears only through a release by the *)
(* living owner that holds its sentinel: no scan by another process, no    *)
(* crash and no rolled-back admission makes an armed claim vanish.         *)
(***************************************************************************)
ArmedRowFenced ==
    [][\A l \in Leases :
          rowState[l] = "delivery_armed" /\ rowState'[l] = "absent"
            => handle[l] = "live" /\ sentinel[l] = "owner"]_leaseVars

(***************************************************************************)
(* Whenever a claim is recorded, the machine its snapshot describes        *)
(* carries all recorded claims together, armed, reserved and unknown ones, *)
(* above the largest reserve any of them asks for, in system memory and on *)
(* the accelerator.  Stated on the rows after the step, so a row that is   *)
(* missed by the scan's totals, or reaped too early, shows.                *)
(***************************************************************************)
Total(field, S) == MapThenSumSet(LAMBDA l : rowClaim[l][field], S)
Reserve(S) == Max({rowClaim[l].reserve : l \in S})

AdmissionWithinCapacity ==
    [][\A l \in Leases :
          rowState[l] = "absent" /\ rowState'[l] = "reserved" =>
            LET snap == rowClaim'[l].snapshot IN
            /\ Total("system", Active)' + Reserve(Active)' <= snap.available
            /\ Total("system", Active)' + Reserve(Active)' <= snap.limit
            /\ rowClaim'[l].pool = "discrete" =>
                 Total("accel", OnAccelerator)' + Reserve(OnAccelerator)' <= snap.accel
      ]_leaseVars

(***************************************************************************)
(* The store implements the ledger: claims enter only in a clear domain    *)
(* and within its capacity, unknown outcomes stay for ever.                *)
(***************************************************************************)
Carries(h, c) ==
    /\ Cardinality(DOMAIN h) < MaxActiveLeases
    /\ ~IdentityConflict(h, c)
    /\ SystemAvailable(c.snapshot) # None
    /\ ~Exceeds(RequiredSystem(h, c), SystemAvailable(c.snapshot))
    /\ c.pool = "discrete" => /\ c.snapshot.accel # None
                              /\ ~Exceeds(RequiredAccelerator(h, c), c.snapshot.accel)

Ledger == INSTANCE LeaseLedger WITH
    held   <- rowClaim,
    frozen <- {l \in Leases : rowState[l] = "unknown_blocking"},
    closed <- quarantine

ImplementsLedger == Ledger!Spec

\* What the rows of the store keep: one accelerator, within the limit.
LeaseSafe == OneAccelerator /\ LeaseLimit

\* What the rows keep, and how they change: armed ones fenced, new ones within capacity.
LeaseSteps == []LeaseSafe /\ ArmedRowFenced /\ AdmissionWithinCapacity
=============================================================================
