--------------------------- MODULE LeaseAccounting ---------------------------
(***************************************************************************)
(* Pure part of the cooperative resource lease: how a claim is derived     *)
(* from a passport and a resource snapshot, and the byte accounting that   *)
(* an admission performs over the claims that are already recorded.        *)
(* Source: cooperative_resource_lease.py and its contracts module.         *)
(***************************************************************************)
EXTENDS Integers, FiniteSets, FiniteSetsExt

CONSTANTS
    None,             \* Python's None
    MaxSqliteInteger  \* MAX_SQLITE_INTEGER: totals above it are refused

(***************************************************************************)
(* _conservative_peak_resources: per resource, the larger of the estimate  *)
(* and the measurement, where a measurement applies only if it was taken   *)
(* for the same pool and placement.                                        *)
(***************************************************************************)
Larger(a, b) == IF a = None THEN b
                ELSE IF b = None THEN a
                ELSE IF a >= b THEN a ELSE b

MeasurementApplies(cell) ==
    /\ cell.measured.pool = cell.estimated.pool
    /\ cell.measured.placement = cell.estimated.placement

ConservativePeak(cell, name) ==
    LET measured == IF MeasurementApplies(cell) THEN cell.measured[name] ELSE None
    IN  IF cell.estimated.pool = None \/ cell.estimated.placement = None
        THEN None
        ELSE Larger(cell.estimated[name], measured)

(***************************************************************************)
(* cooperative_resource_claim_from_preview: the pool follows the           *)
(* candidate's memory pool and placement and must fit the snapshot's       *)
(* topology; None stands for the lease_claim_invalid error.                *)
(***************************************************************************)
PoolOf(cell, snap) ==
    LET e == cell.estimated IN
    CASE e.pool = "host" /\ e.placement = "cpu" -> "system"
      [] /\ e.pool = "unified" /\ e.placement = "integrated_accelerator"
         /\ snap.topology = "unified" /\ snap.kind = "integrated" -> "unified"
      [] /\ e.pool = "accelerator" /\ e.placement = "discrete_accelerator"
         /\ snap.topology = "dedicated" /\ snap.kind = "discrete"
         /\ snap.identity # None -> "discrete"
      [] OTHER -> None

\* CooperativeResourceClaim.__post_init__
ValidClaim(c) ==
    /\ c.pool \in {"system", "unified", "discrete"}
    /\ c.system \in Nat \ {0}
    /\ c.accel \in Nat
    /\ c.reserve \in Nat
    /\ c.pool # "discrete" => c.accel = 0 /\ c.identity = None
    /\ c.pool = "discrete" => c.accel # 0 /\ c.identity # None

ClaimFromPreview(cell, snap) ==
    LET pool == PoolOf(cell, snap)
        peakAccel == ConservativePeak(cell, "accel")
        claim == [pool     |-> pool,
                  system   |-> ConservativePeak(cell, IF pool = "unified"
                                                      THEN "unified" ELSE "host"),
                  accel    |-> IF pool = "discrete" /\ peakAccel # None
                               THEN peakAccel ELSE 0,
                  identity |-> IF pool = "discrete" THEN snap.identity ELSE None,
                  reserve  |-> cell.reserve,
                  snapshot |-> snap]
    IN  IF pool # None /\ claim.system # None /\ ValidClaim(claim)
        THEN claim ELSE None

\* _validate_evidence: the claim was made from this snapshot and its topology fits.
ValidEvidence(c, snap) ==
    /\ c.snapshot = snap
    /\ c.pool = "unified" => snap.topology = "unified" /\ snap.kind = "integrated"
    /\ c.pool = "discrete" => /\ snap.topology = "dedicated"
                              /\ snap.kind = "discrete"
                              /\ snap.identity = c.identity

-----------------------------------------------------------------------------
(***************************************************************************)
(* Accounting over `held`, a function from the active leases to their      *)
(* claims.                                                                 *)
(***************************************************************************)
\* _system_available
SystemAvailable(snap) ==
    IF snap.available = None \/ snap.limit = None THEN None
    ELSE IF snap.available <= snap.limit THEN snap.available ELSE snap.limit

AcceleratorAvailable(c, snap) == IF c.pool = "discrete" THEN snap.accel ELSE None

SystemTotal(held) == MapThenSumSet(LAMBDA l : held[l].system, DOMAIN held)

\* The rows that share the discrete accelerator of claim c.
SameAccelerator(held, c) ==
    {l \in DOMAIN held : /\ c.pool = "discrete"
                         /\ held[l].accel > 0
                         /\ held[l].identity = c.identity}

\* _accelerator_total, first component
AcceleratorTotal(held, c) ==
    MapThenSumSet(LAMBDA l : held[l].accel, SameAccelerator(held, c))

\* Fault: a smaller claim on another accelerator is not taken for a conflict.
ConflictIfLarger(held, c) ==
    /\ c.pool = "discrete"
    /\ \E l \in DOMAIN held : held[l].accel > c.accel /\ held[l].identity # c.identity

\* _accelerator_total, second component
IdentityConflict(held, c) ==
    /\ c.pool = "discrete"
    /\ \E l \in DOMAIN held : held[l].accel > 0 /\ held[l].identity # c.identity

\* Fault: the reserves of the claims already held are forgotten.
OwnReserveOnly(held, c) == c.reserve

\* applied_system_reserve and applied_accelerator_reserve of evaluate_and_acquire
SystemReserve(held, c) == Max({c.reserve} \cup {held[l].reserve : l \in DOMAIN held})

AcceleratorReserve(held, c) ==
    IF c.pool = "discrete"
    THEN Max({c.reserve} \cup {held[l].reserve : l \in SameAccelerator(held, c)})
    ELSE 0

RequiredSystem(held, c) == SystemTotal(held) + c.system + SystemReserve(held, c)

RequiredAccelerator(held, c) ==
    AcceleratorTotal(held, c) + c.accel + AcceleratorReserve(held, c)

\* A requirement above what is available; a capacity of None is not compared.
Exceeds(required, available) == available # None /\ required > available

\* _checked_sum: a total above the SQLite integer range raises lease_accounting_invalid.
AccountingOverflows(held, c) ==
    \/ RequiredSystem(held, c) > MaxSqliteInteger
    \/ RequiredAccelerator(held, c) > MaxSqliteInteger

=============================================================================
