-------------------------- MODULE BoundCellRunProofs --------------------------
(***************************************************************************)
(* Proofs about the lease store, for any set of lease ids, any cells and   *)
(* snapshots and any limit: LeaseInv is the inductive invariant. Then      *)
(* about the runs over it, for any number of processes, bindings and model *)
(* sets: every step of a run is a step of the lease store or leaves the    *)
(* store alone, so what is proved of the store holds here; RunInv adds     *)
(* what a process knows about its own row in each phase, and EvidenceInv   *)
(* what it has collected for its receipt.                                  *)
(* Last, about the inspection of a binding, whatever files there are and   *)
(* whatever other programs do to them: BindingInv.                         *)
(***************************************************************************)
EXTENDS BoundCellRun, BindingInspection, FiniteSetTheorems, SequenceTheorems, TLAPS

\* A lease id has a row exactly when it has a recorded claim.
RowHasClaim == \A l \in Leases : (rowState[l] = "absent") = (rowClaim[l] = None)

\* While a live process holds a handle whose row exists, it holds the sentinel.
LiveRowOwned ==
    \A l \in Leases : handle[l] = "live" /\ rowState[l] # "absent" => sentinel[l] = "owner"

LeaseInv ==
    /\ LeaseTypeOK
    /\ RowHasClaim
    /\ LiveRowOwned
    /\ OneAccelerator
    /\ IsFiniteSet(Active)
    /\ LeaseLimit

-----------------------------------------------------------------------------
\* Every claim an admission can be asked for satisfies the claim contract.
LEMMA ClaimsValid ==
    ASSUME NEW c \in Claims
    PROVE  c # None /\ ValidClaim(c)
<1>1. PICK cell \in Cells, snap \in Snapshots : c = ClaimFromPreview(cell, snap)
  BY DEF Claims
<1>2. c # None
  BY DEF Claims
<1>3. QED
  BY <1>1, <1>2 DEF ClaimFromPreview

\* The scan keeps or removes rows and never invents one.
LEMMA ScanTypes ==
    ASSUME LeaseTypeOK, NEW p \in Probes
    PROVE  /\ Scanned(p) \in [Leases -> RowStates \cup {"absent"}]
           /\ Remaining(Scanned(p)) \subseteq Active
<1> DEFINE s == Scanned(p)
<1>1. \A l \in Leases : s[l] \in RowStates \cup {"absent"}
  BY DEF Scanned, LeaseTypeOK, RowStates
<1>2. s \in [Leases -> RowStates \cup {"absent"}]
  BY <1>1 DEF Scanned
<1>3. \A l \in Leases : s[l] # "absent" => rowState[l] # "absent"
  BY DEF Scanned, Probed
<1>4. QED
  BY <1>2, <1>3 DEF Remaining, Active

\* What a scan can do to a row.
LEMMA ScanRow ==
    ASSUME LeaseTypeOK, NEW p \in Probes, NEW l \in Leases
    PROVE  /\ Scanned(p)[l] = "absent" =>
                \/ rowState[l] = "absent"
                \/ rowState[l] = "reserved" /\ sentinel[l] = "free"
           /\ Scanned(p)[l] # "absent" =>
                Scanned(p)[l] \in {rowState[l], "unknown_blocking"}
           /\ rowState[l] = "unknown_blocking" => Scanned(p)[l] = "unknown_blocking"
           /\ rowState[l] = "absent" => Scanned(p)[l] = "absent"
<1>1. l \in Probed => p[l] \in ProbeOutcomes(l)
  BY DEF Probes
<1>2. l \in Probed /\ p[l] = "dead" => sentinel[l] = "free"
  BY <1>1, Zenon DEF ProbeOutcomes
<1>3. QED
  BY <1>2 DEF Scanned, Probed, LeaseTypeOK, RowStates

\* What an acquired verdict says of the scanned rows.
LEMMA AcquiredMeans ==
    ASSUME NEW c, NEW scan, AdmissionStatus(c, scan) = "acquired"
    PROVE  /\ ~OwnershipUnknown(scan)
           /\ ~IdentityConflict(Held(scan), c)
           /\ SystemAvailable(c.snapshot) # None
           /\ c.pool = "discrete" => AcceleratorAvailable(c, c.snapshot) # None
           /\ ~(Cardinality(Remaining(scan)) >= MaxActiveLeases)
           /\ ~Exceeds(RequiredSystem(Held(scan), c), SystemAvailable(c.snapshot))
           /\ ~Exceeds(RequiredAccelerator(Held(scan), c),
                       AcceleratorAvailable(c, c.snapshot))
<1>1. UnknownReasons(c, scan) = {}
  BY DEF AdmissionStatus
<1>2. DenyReasons(c, scan) = {}
  BY <1>1 DEF AdmissionStatus
<1>3. ~OwnershipUnknown(scan)
  BY <1>1, Zenon DEF UnknownReasons
<1>4. ~IdentityConflict(Held(scan), c)
  BY <1>1, Zenon DEF UnknownReasons
<1>5. /\ SystemAvailable(c.snapshot) # None
      /\ c.pool = "discrete" => AcceleratorAvailable(c, c.snapshot) # None
  BY <1>1, Zenon DEF UnknownReasons
<1>6. ~(Cardinality(Remaining(scan)) >= MaxActiveLeases)
  BY <1>2, Zenon DEF DenyReasons, LimitReached
<1>7. ~Exceeds(RequiredSystem(Held(scan), c), SystemAvailable(c.snapshot))
  BY <1>2, Zenon DEF DenyReasons
<1>8. ~Exceeds(RequiredAccelerator(Held(scan), c), AcceleratorAvailable(c, c.snapshot))
  BY <1>2, Zenon DEF DenyReasons
<1>9. QED
  BY <1>3, <1>4, <1>5, <1>6, <1>7, <1>8

\* The database part of a committed admission preserves the row invariants.
LEMMA CommitPreserves ==
    ASSUME LeaseInv, NEW l \in Leases, NEW c \in Claims, NEW p \in Probes,
           FreshId(l),
           CommitAdmission(l, c, Scanned(p), AdmissionStatus(c, Scanned(p)))
    PROVE  /\ rowState' \in [Leases -> RowStates \cup {"absent"}]
           /\ rowClaim' \in [Leases -> Claims \cup {None}]
           /\ quarantine' = quarantine
           /\ RowHasClaim'
           /\ OneAccelerator'
           /\ IsFiniteSet(Active')
           /\ LeaseLimit'
<1> DEFINE s == Scanned(p)
           st == AdmissionStatus(c, s)
<1>1. c # None /\ ValidClaim(c)
  BY ClaimsValid
<1>2. /\ s \in [Leases -> RowStates \cup {"absent"}]
      /\ Remaining(s) \subseteq Active
  BY ScanTypes DEF LeaseInv
<1>3. s[l] = "absent"
  BY ScanRow DEF LeaseInv, FreshId
<1>4. /\ rowState' = [s EXCEPT ![l] = IF st = "acquired" THEN "reserved" ELSE @]
      /\ rowClaim' = [k \in Leases |-> IF k = l /\ st = "acquired" THEN c
                                       ELSE IF s[k] = "absent" THEN None
                                       ELSE rowClaim[k]]
      /\ quarantine' = quarantine
  BY DEF CommitAdmission
<1> HIDE DEF s, st
<1>5. rowState' \in [Leases -> RowStates \cup {"absent"}]
  BY <1>2, <1>4 DEF RowStates
<1>6. rowClaim' \in [Leases -> Claims \cup {None}]
  BY <1>4 DEF LeaseInv, LeaseTypeOK
<1>7. \A k \in Leases : k # l => rowState'[k] = s[k]
  BY <1>2, <1>4
<1>8. rowState'[l] = IF st = "acquired" THEN "reserved" ELSE "absent"
  BY <1>2, <1>3, <1>4
<1>9. \A k \in Leases : s[k] # "absent" => rowState[k] # "absent"
  BY <1>2 DEF Remaining, Active
<1>10. RowHasClaim'
  <2> SUFFICES ASSUME NEW k \in Leases
               PROVE  (rowState'[k] = "absent") = (rowClaim'[k] = None)
    BY DEF RowHasClaim
  <2>1. CASE k = l
    BY <2>1, <1>1, <1>3, <1>4, <1>8
  <2>2. CASE k # l
    BY <2>2, <1>4, <1>7, <1>9 DEF LeaseInv, RowHasClaim
  <2>3. QED
    BY <2>1, <2>2
<1>11. Active' \subseteq Remaining(s) \cup {l}
  BY <1>7 DEF Active, Remaining
<1>12. st # "acquired" => Active' \subseteq Remaining(s)
  BY <1>7, <1>8 DEF Active, Remaining
<1>13. IsFiniteSet(Remaining(s)) /\ Cardinality(Remaining(s)) <= Cardinality(Active)
  BY <1>2, FS_Subset DEF LeaseInv
<1>14. /\ IsFiniteSet(Remaining(s) \cup {l})
       /\ Cardinality(Remaining(s) \cup {l}) = Cardinality(Remaining(s)) + 1
  <2>1. l \notin Remaining(s)
    BY <1>3 DEF Remaining
  <2>2. QED
    BY <2>1, <1>13, FS_AddElement
<1>15. IsFiniteSet(Active')
  BY <1>11, <1>14, FS_Subset
<1>16. LeaseLimit'
  <2>1. CASE st = "acquired"
    <3>1. ~(Cardinality(Remaining(s)) >= MaxActiveLeases)
      BY <2>1, AcquiredMeans DEF st
    <3>2. Cardinality(Active') <= Cardinality(Remaining(s) \cup {l})
      BY <1>11, <1>14, FS_Subset
    <3>3. /\ Cardinality(Remaining(s)) \in Nat
          /\ Cardinality(Active') \in Nat
      BY <1>13, <1>15, FS_CardinalityType
    <3>4. QED
      BY <3>1, <3>2, <3>3, <1>14, LimitAssumption DEF LeaseLimit
  <2>2. CASE st # "acquired"
    <3>1. Cardinality(Active') <= Cardinality(Remaining(s))
      BY <2>2, <1>12, <1>13, FS_Subset
    <3>2. /\ Cardinality(Remaining(s)) \in Nat
          /\ Cardinality(Active') \in Nat
          /\ Cardinality(Active) \in Nat
      BY <1>13, <1>15, FS_CardinalityType DEF LeaseInv
    <3>3. QED
      BY <3>1, <3>2, <1>13, LimitAssumption DEF LeaseLimit, LeaseInv
  <2>3. QED
    BY <2>1, <2>2
<1>17. OneAccelerator'
  <2> SUFFICES ASSUME NEW j \in OnAccelerator', NEW k \in OnAccelerator'
               PROVE  rowClaim'[j].identity = rowClaim'[k].identity
    BY DEF OneAccelerator
  <2>1. /\ j \in Leases /\ k \in Leases
        /\ rowState'[j] # "absent" /\ rowState'[k] # "absent"
        /\ rowClaim'[j].accel > 0 /\ rowClaim'[k].accel > 0
    BY DEF OnAccelerator, Active
  <2>2. ASSUME NEW i \in Leases, i # l, rowState'[i] # "absent", rowClaim'[i].accel > 0
        PROVE  /\ i \in Remaining(s) /\ i \in OnAccelerator
               /\ rowClaim'[i] = rowClaim[i]
    BY <2>2, <1>4, <1>7, <1>9 DEF Remaining, OnAccelerator, Active
  <2>3. ASSUME NEW i \in Leases, i # l, rowState'[i] # "absent", rowClaim'[i].accel > 0,
               st = "acquired", c.accel > 0
        PROVE  rowClaim'[i].identity = c.identity
    <3>1. /\ i \in Remaining(s) /\ rowClaim'[i] = rowClaim[i]
      BY <2>2, <2>3
    <3>2. ~IdentityConflict(Held(s), c)
      BY <2>3, AcquiredMeans DEF st
    <3>3. c.pool = "discrete"
      BY <2>3, <1>1 DEF ValidClaim
    <3>4. DOMAIN Held(s) = Remaining(s) /\ Held(s)[i] = rowClaim[i]
      BY <3>1 DEF Held
    <3>5. QED
      BY <2>3, <3>1, <3>2, <3>3, <3>4 DEF IdentityConflict
  <2>4. rowState'[l] # "absent" => st = "acquired" /\ rowClaim'[l] = c
    BY <1>4, <1>8
  <2>5. CASE j # l /\ k # l
    BY <2>1, <2>2, <2>5 DEF LeaseInv, OneAccelerator
  <2>6. CASE j = l /\ k # l
    BY <2>1, <2>3, <2>4, <2>6
  <2>7. CASE j # l /\ k = l
    BY <2>1, <2>3, <2>4, <2>7
  <2>8. CASE j = l /\ k = l
    BY <2>8
  <2>9. QED
    BY <2>5, <2>6, <2>7, <2>8
<1>18. QED
  BY <1>4, <1>5, <1>6, <1>10, <1>15, <1>16, <1>17

-----------------------------------------------------------------------------
\* Steps that leave the rows alone preserve everything said about rows.
LEMMA RowsUnchanged ==
    ASSUME LeaseInv, UNCHANGED <<rowState, rowClaim>>
    PROVE  RowHasClaim' /\ OneAccelerator' /\ IsFiniteSet(Active') /\ LeaseLimit'
<1>1. Active' = Active
  BY DEF Active
<1>2. OnAccelerator' = OnAccelerator
  BY <1>1 DEF OnAccelerator
<1>3. QED
  BY <1>1, <1>2 DEF LeaseInv, RowHasClaim, OneAccelerator, LeaseLimit

\* A step that removes at most rows, and changes no claim of the others.
LEMMA RowsShrink ==
    ASSUME LeaseInv, NEW l \in Leases,
           rowState' \in [Leases -> RowStates \cup {"absent"}],
           \A k \in Leases : rowState'[k] # "absent" =>
                                rowState[k] # "absent" /\ rowClaim'[k] = rowClaim[k]
    PROVE  OneAccelerator' /\ IsFiniteSet(Active') /\ LeaseLimit'
<1>1. Active' \subseteq Active
  BY DEF Active
<1>2. IsFiniteSet(Active') /\ Cardinality(Active') <= Cardinality(Active)
  BY <1>1, FS_Subset DEF LeaseInv
<1>3. Cardinality(Active) \in Nat /\ Cardinality(Active') \in Nat
  BY <1>2, FS_CardinalityType DEF LeaseInv
<1>4. LeaseLimit'
  BY <1>2, <1>3, LimitAssumption DEF LeaseLimit, LeaseInv
<1>5. OnAccelerator' \subseteq OnAccelerator
        /\ \A k \in OnAccelerator' : rowClaim'[k] = rowClaim[k]
  BY DEF OnAccelerator, Active
<1>6. OneAccelerator'
  BY <1>5 DEF OneAccelerator, LeaseInv
<1>7. QED
  BY <1>2, <1>4, <1>6

\* What release does to its row.
LEMMA ReleaseRow ==
    ASSUME LeaseInv, NEW l \in Leases, NEW d \in DeliveryStatuses, NEW ok \in BOOLEAN,
           Release(l, d, ok)
    PROVE  /\ rowState' \in [Leases -> RowStates \cup {"absent"}]
           /\ rowClaim' \in [Leases -> Claims \cup {None}]
           /\ quarantine' \in BOOLEAN
           /\ \A k \in Leases : k # l => /\ rowState'[k] = rowState[k]
                                         /\ rowClaim'[k] = rowClaim[k]
           /\ \/ /\ rowState'[l] = "absent" /\ rowClaim'[l] = None
                 /\ \/ rowState[l] = "absent"
                    \/ KnownOutcome(l, d)
              \/ /\ rowState[l] # "absent" /\ rowClaim'[l] = rowClaim[l]
                 /\ rowState'[l] \in {rowState[l], "unknown_blocking"}
                 /\ sentinel'[l] = sentinel[l]
<1> DEFINE st == ReleaseStatus(l, d)
<1>1. /\ rowState \in [Leases -> RowStates \cup {"absent"}]
      /\ rowClaim \in [Leases -> Claims \cup {None}]
      /\ sentinel \in [Leases -> {"free", "owner", "prober"}]
      /\ quarantine \in BOOLEAN
      /\ (rowState[l] = "absent") = (rowClaim[l] = None)
  BY DEF LeaseInv, LeaseTypeOK, RowHasClaim
<1>2. /\ st = "released" => rowState[l] # "absent" /\ KnownOutcome(l, d)
      /\ st = "already_absent" => rowState[l] = "absent"
  BY <1>1 DEF ReleaseStatus, RowStates, DeliveryStatuses, KnownOutcome
<1>3. /\ rowState' = [rowState EXCEPT ![l] =
                        IF st = "released" THEN "absent"
                        ELSE IF @ # "absent" /\ d = "attempted_unknown"
                        THEN "unknown_blocking" ELSE @]
      /\ rowClaim' = [rowClaim EXCEPT ![l] = IF st = "released" THEN None ELSE @]
      /\ quarantine' = (quarantine \/ (rowState[l] = "absent" /\ d = "attempted_unknown"))
      /\ sentinel' = [sentinel EXCEPT ![l] =
                        IF st \in {"released", "already_absent"} /\ ok
                        THEN "free" ELSE @]
  BY DEF Release
<1> HIDE DEF st
<1>4. rowState' \in [Leases -> RowStates \cup {"absent"}]
  BY <1>1, <1>3 DEF RowStates
<1>5. rowClaim' \in [Leases -> Claims \cup {None}]
  BY <1>1, <1>3
<1>6. quarantine' \in BOOLEAN
  BY <1>1, <1>3
<1>7. \A k \in Leases : k # l => rowState'[k] = rowState[k] /\ rowClaim'[k] = rowClaim[k]
  BY <1>1, <1>3
<1>8. CASE st = "released"
  BY <1>8, <1>1, <1>2, <1>3, <1>4, <1>5, <1>6, <1>7
<1>9. CASE st # "released" /\ rowState[l] = "absent"
  BY <1>9, <1>1, <1>3, <1>4, <1>5, <1>6, <1>7
<1>10. CASE st # "released" /\ rowState[l] # "absent"
  BY <1>10, <1>1, <1>2, <1>3, <1>4, <1>5, <1>6, <1>7
<1>11. QED
  BY <1>8, <1>9, <1>10

LEMMA LeaseInvInit == LeaseInit => LeaseInv
<1> SUFFICES ASSUME LeaseInit PROVE LeaseInv
  OBVIOUS
<1>1. LeaseTypeOK
  BY DEF LeaseInit, LeaseTypeOK
<1>2. Active = {}
  BY DEF LeaseInit, Active
<1>3. RowHasClaim /\ LiveRowOwned
  BY DEF LeaseInit, RowHasClaim, LiveRowOwned
<1>4. OneAccelerator
  BY <1>2 DEF OneAccelerator, OnAccelerator
<1>5. IsFiniteSet(Active) /\ LeaseLimit
  BY <1>2, FS_EmptySet, LimitAssumption DEF LeaseLimit
<1>6. QED
  BY <1>1, <1>3, <1>4, <1>5 DEF LeaseInv

\* Every operation of the store preserves the invariant.
LEMMA LeaseInvStep == LeaseInv /\ [LeaseNext]_leaseVars => LeaseInv'
<1> SUFFICES ASSUME LeaseInv, [LeaseNext]_leaseVars PROVE LeaseInv'
  OBVIOUS
<1> USE DEF LeaseInv
<1>1. ASSUME NEW l \in Leases, NEW c \in Claims, NEW p \in Probes,
             EvaluateAndAcquire(l, c, p)
      PROVE  LeaseInv'
  <2> DEFINE st == AdmissionStatus(c, Scanned(p))
  <2>1. /\ FreshId(l)
        /\ CommitAdmission(l, c, Scanned(p), st)
        /\ sentinel' = [sentinel EXCEPT ![l] = IF st = "acquired" THEN "owner" ELSE @]
        /\ handle' = [handle EXCEPT ![l] = IF st = "acquired" THEN "live" ELSE @]
    BY <1>1 DEF EvaluateAndAcquire
  <2>2. /\ rowState' \in [Leases -> RowStates \cup {"absent"}]
        /\ rowClaim' \in [Leases -> Claims \cup {None}]
        /\ quarantine' = quarantine
        /\ RowHasClaim' /\ OneAccelerator' /\ IsFiniteSet(Active') /\ LeaseLimit'
    BY <2>1, CommitPreserves
  <2>3. \A k \in Leases : k # l /\ rowState'[k] # "absent" => rowState[k] # "absent"
    <3>1. \A k \in Leases : Scanned(p)[k] # "absent" => rowState[k] # "absent"
      BY ScanRow
    <3>2. Scanned(p) \in [Leases -> RowStates \cup {"absent"}]
      BY ScanTypes
    <3>3. \A k \in Leases : k # l => rowState'[k] = Scanned(p)[k]
      BY <2>1, <3>2 DEF CommitAdmission
    <3>4. QED
      BY <3>1, <3>3
  <2> HIDE DEF st
  <2>4. LeaseTypeOK'
    BY <2>1, <2>2 DEF LeaseTypeOK
  <2>5. LiveRowOwned'
    BY <2>1, <2>3 DEF LiveRowOwned, FreshId, LeaseTypeOK
  <2>6. QED
    BY <2>2, <2>4, <2>5
<1>2. ASSUME NEW l \in Leases, NEW c \in Claims, NEW p \in Probes,
             AcquireThenInterrupted(l, c, p)
      PROVE  LeaseInv'
  <2>1. /\ FreshId(l)
        /\ CommitAdmission(l, c, Scanned(p), AdmissionStatus(c, Scanned(p)))
        /\ UNCHANGED <<sentinel, handle>>
    BY <1>2 DEF AcquireThenInterrupted
  <2>2. /\ rowState' \in [Leases -> RowStates \cup {"absent"}]
        /\ rowClaim' \in [Leases -> Claims \cup {None}]
        /\ quarantine' = quarantine
        /\ RowHasClaim' /\ OneAccelerator' /\ IsFiniteSet(Active') /\ LeaseLimit'
    BY <2>1, CommitPreserves
  <2>3. \A k \in Leases : k # l /\ rowState'[k] # "absent" => rowState[k] # "absent"
    <3>1. \A k \in Leases : Scanned(p)[k] # "absent" => rowState[k] # "absent"
      BY ScanRow
    <3>2. Scanned(p) \in [Leases -> RowStates \cup {"absent"}]
      BY ScanTypes
    <3>3. \A k \in Leases : k # l => rowState'[k] = Scanned(p)[k]
      BY <2>1, <3>2 DEF CommitAdmission
    <3>4. QED
      BY <3>1, <3>3
  <2>4. LeaseTypeOK'
    BY <2>1, <2>2 DEF LeaseTypeOK
  <2>5. LiveRowOwned'
    BY <2>1, <2>3 DEF LiveRowOwned, FreshId, LeaseTypeOK
  <2>6. QED
    BY <2>2, <2>4, <2>5
<1>3. ASSUME NEW l \in Leases, NEW dead \in SUBSET Leases, AcquireRolledBack(l, dead)
      PROVE  LeaseInv'
  <2>1. UNCHANGED <<rowState, rowClaim>>
    BY <1>3 DEF AcquireRolledBack, store
  <2>2. LeaseTypeOK'
    BY <1>3 DEF AcquireRolledBack, store, LeaseTypeOK
  <2>3. LiveRowOwned'
    BY <1>3 DEF AcquireRolledBack, store, LiveRowOwned, LeaseTypeOK
  <2>4. QED
    BY <2>1, <2>2, <2>3, RowsUnchanged
<1>4. ASSUME NEW l \in Leases, ReleaseProbeLock(l)
      PROVE  LeaseInv'
  <2>1. UNCHANGED <<rowState, rowClaim>>
    BY <1>4 DEF ReleaseProbeLock, store
  <2>2. LeaseTypeOK'
    BY <1>4 DEF ReleaseProbeLock, store, LeaseTypeOK
  <2>3. LiveRowOwned'
    BY <1>4 DEF ReleaseProbeLock, store, LiveRowOwned, LeaseTypeOK
  <2>4. QED
    BY <2>1, <2>2, <2>3, RowsUnchanged
<1>5. ASSUME NEW l \in Leases, ArmDelivery(l)
      PROVE  LeaseInv'
  <2>1. /\ rowState' \in [Leases -> RowStates \cup {"absent"}]
        /\ UNCHANGED <<rowClaim, quarantine, sentinel, handle>>
        /\ \A k \in Leases : (rowState'[k] = "absent") = (rowState[k] = "absent")
    BY <1>5 DEF ArmDelivery, ArmApplies, LeaseTypeOK, RowStates
  <2>2. OneAccelerator' /\ IsFiniteSet(Active') /\ LeaseLimit'
    BY <2>1, RowsShrink
  <2>3. LeaseTypeOK' /\ RowHasClaim' /\ LiveRowOwned'
    BY <2>1 DEF LeaseTypeOK, RowHasClaim, LiveRowOwned
  <2>4. QED
    BY <2>2, <2>3
<1>6. ASSUME NEW l \in Leases, NEW d \in DeliveryStatuses, NEW ok \in BOOLEAN,
             Release(l, d, ok)
      PROVE  LeaseInv'
  <2>1. /\ rowState' \in [Leases -> RowStates \cup {"absent"}]
        /\ rowClaim' \in [Leases -> Claims \cup {None}]
        /\ quarantine' \in BOOLEAN
        /\ \A k \in Leases : k # l => rowState'[k] = rowState[k] /\ rowClaim'[k] = rowClaim[k]
        /\ \/ rowState'[l] = "absent" /\ rowClaim'[l] = None
           \/ /\ rowState[l] # "absent" /\ rowClaim'[l] = rowClaim[l]
              /\ rowState'[l] \in {rowState[l], "unknown_blocking"}
              /\ sentinel'[l] = sentinel[l]
    BY <1>6, ReleaseRow
  <2>2. OneAccelerator' /\ IsFiniteSet(Active') /\ LeaseLimit'
    BY <2>1, RowsShrink
  <2>3. /\ sentinel' \in [Leases -> {"free", "owner", "prober"}]
        /\ \A k \in Leases : k # l => sentinel'[k] = sentinel[k]
        /\ handle' = handle
    BY <1>6 DEF Release, LeaseTypeOK
  <2>4. LeaseTypeOK'
    BY <2>1, <2>3 DEF LeaseTypeOK
  <2>5. RowHasClaim'
    BY <2>1 DEF RowHasClaim
  <2>6. LiveRowOwned'
    BY <2>1, <2>3 DEF LiveRowOwned
  <2>7. QED
    BY <2>2, <2>4, <2>5, <2>6
<1>7. ASSUME NEW l \in Leases, OwnerExit(l)
      PROVE  LeaseInv'
  <2>1. UNCHANGED <<rowState, rowClaim>>
    BY <1>7 DEF OwnerExit, store
  <2>2. LeaseTypeOK'
    BY <1>7 DEF OwnerExit, store, LeaseTypeOK
  <2>3. LiveRowOwned'
    BY <1>7 DEF OwnerExit, store, LiveRowOwned, LeaseTypeOK
  <2>4. QED
    BY <2>1, <2>2, <2>3, RowsUnchanged
<1>8. CASE UNCHANGED leaseVars
  <2>1. UNCHANGED <<rowState, rowClaim, quarantine, sentinel, handle>>
    BY <1>8 DEF leaseVars
  <2>2. LeaseTypeOK' /\ LiveRowOwned'
    BY <2>1 DEF LeaseTypeOK, LiveRowOwned
  <2>3. QED
    BY <2>1, <2>2, RowsUnchanged
<1>9. QED
  BY <1>1, <1>2, <1>3, <1>4, <1>5, <1>6, <1>7, <1>8 DEF LeaseNext

\* The inductive invariant holds in every behaviour of the store.
THEOREM LeaseInvariant == LeaseSpec => []LeaseInv
BY LeaseInvInit, LeaseInvStep, PTL DEF LeaseSpec

\* Type correctness of the store.
THEOREM LeaseTypeCorrect == LeaseSpec => []LeaseTypeOK
<1>1. LeaseInv => LeaseTypeOK
  BY DEF LeaseInv
<1>2. QED
  BY <1>1, LeaseInvariant, PTL

\* The recorded claims never name two accelerators.
THEOREM OneAcceleratorAlways == LeaseSpec => []OneAccelerator
<1>1. LeaseInv => OneAccelerator
  BY DEF LeaseInv
<1>2. QED
  BY <1>1, LeaseInvariant, PTL

\* The number of rows stays within max_active_leases.
THEOREM LeaseLimitAlways == LeaseSpec => []LeaseLimit
<1>1. LeaseInv => LeaseLimit
  BY DEF LeaseInv
<1>2. QED
  BY <1>1, LeaseInvariant, PTL

\* Both at once, as the runs of the model checker state them.
THEOREM LeaseSafeAlways == LeaseSpec => []LeaseSafe
<1>1. LeaseInv => LeaseSafe
  BY DEF LeaseInv, LeaseSafe
<1>2. QED
  BY <1>1, LeaseInvariant, PTL

-----------------------------------------------------------------------------
\* A committed admission removes no armed row.
LEMMA CommitKeepsArmed ==
    ASSUME LeaseInv, NEW l \in Leases, NEW c \in Claims, NEW p \in Probes,
           FreshId(l),
           CommitAdmission(l, c, Scanned(p), AdmissionStatus(c, Scanned(p))),
           NEW k \in Leases, rowState[k] = "delivery_armed"
    PROVE  rowState'[k] # "absent"
<1>1. Scanned(p) \in [Leases -> RowStates \cup {"absent"}] /\ Scanned(p)[k] # "absent"
  BY ScanTypes, ScanRow DEF LeaseInv
<1>2. k # l
  BY DEF FreshId
<1>3. QED
  BY <1>1, <1>2 DEF CommitAdmission

\* An armed row is deleted only by its living owner.
THEOREM ArmedRowFencedAlways == LeaseSpec => ArmedRowFenced
<1> DEFINE Fence == \A l \in Leases :
                      rowState[l] = "delivery_armed" /\ rowState'[l] = "absent"
                        => handle[l] = "live" /\ sentinel[l] = "owner"
<1>1. LeaseInv /\ [LeaseNext]_leaseVars => [Fence]_leaseVars
  <2> SUFFICES ASSUME LeaseInv, LeaseNext, NEW k \in Leases,
                      rowState[k] = "delivery_armed", rowState'[k] = "absent"
               PROVE  handle[k] = "live" /\ sentinel[k] = "owner"
    OBVIOUS
  <2>1. ASSUME NEW l \in Leases, NEW c \in Claims, NEW p \in Probes,
               EvaluateAndAcquire(l, c, p) \/ AcquireThenInterrupted(l, c, p)
        PROVE  FALSE
    BY <2>1, CommitKeepsArmed DEF EvaluateAndAcquire, AcquireThenInterrupted
  <2>2. ASSUME NEW l \in Leases, NEW dead \in SUBSET Leases, AcquireRolledBack(l, dead)
        PROVE  FALSE
    BY <2>2 DEF AcquireRolledBack, store
  <2>3. ASSUME NEW l \in Leases, ReleaseProbeLock(l) \/ OwnerExit(l)
        PROVE  FALSE
    BY <2>3 DEF ReleaseProbeLock, OwnerExit, store
  <2>4. ASSUME NEW l \in Leases, ArmDelivery(l)
        PROVE  FALSE
    BY <2>4 DEF ArmDelivery, ArmApplies, LeaseInv, LeaseTypeOK
  <2>5. ASSUME NEW l \in Leases, NEW d \in DeliveryStatuses, NEW ok \in BOOLEAN,
               Release(l, d, ok)
        PROVE  handle[k] = "live" /\ sentinel[k] = "owner"
    <3>1. k = l
      BY <2>5, ReleaseRow
    <3>2. handle[k] = "live"
      BY <2>5, <3>1 DEF Release
    <3>3. QED
      BY <3>2 DEF LeaseInv, LiveRowOwned
  <2>6. QED
    BY <2>1, <2>2, <2>3, <2>4, <2>5 DEF LeaseNext
<1>2. QED
  BY <1>1, LeaseInvariant, PTL DEF LeaseSpec, ArmedRowFenced

-----------------------------------------------------------------------------
Frozen == {l \in Leases : rowState[l] = "unknown_blocking"}

\* The database part of an admission is a step of the ledger.
LEMMA CommitImplementsLedger ==
    ASSUME LeaseInv, NEW l \in Leases, NEW c \in Claims, NEW p \in Probes,
           FreshId(l),
           CommitAdmission(l, c, Scanned(p), AdmissionStatus(c, Scanned(p)))
    PROVE  Ledger!Next
<1> DEFINE s == Scanned(p)
           st == AdmissionStatus(c, s)
           gone == {k \in Leases : rowState[k] # "absent" /\ s[k] = "absent"}
           lost == {k \in Leases : s[k] = "unknown_blocking"}
<1>1. /\ rowState \in [Leases -> RowStates \cup {"absent"}]
      /\ rowClaim \in [Leases -> Claims \cup {None}]
      /\ \A k \in Leases : (rowState[k] = "absent") = (rowClaim[k] = None)
  BY DEF LeaseInv, LeaseTypeOK, RowHasClaim
<1>2. s \in [Leases -> RowStates \cup {"absent"}]
  BY ScanTypes DEF LeaseInv
<1>3. \A k \in Leases :
        /\ s[k] # "absent" => rowState[k] # "absent"
        /\ rowState[k] = "unknown_blocking" => s[k] = "unknown_blocking"
  BY ScanRow DEF LeaseInv
<1>4. s[l] = "absent" /\ rowState[l] = "absent"
  BY <1>3 DEF FreshId
<1>5. /\ rowState' = [s EXCEPT ![l] = IF st = "acquired" THEN "reserved" ELSE @]
      /\ rowClaim' = [k \in Leases |-> IF k = l /\ st = "acquired" THEN c
                                       ELSE IF s[k] = "absent" THEN None
                                       ELSE rowClaim[k]]
      /\ quarantine' = quarantine
  BY DEF CommitAdmission
<1>6. CASE st = "acquired"
  <2>1. /\ ~OwnershipUnknown(s)
        /\ ~IdentityConflict(Held(s), c)
        /\ SystemAvailable(c.snapshot) # None
        /\ c.pool = "discrete" => AcceleratorAvailable(c, c.snapshot) # None
        /\ ~(Cardinality(Remaining(s)) >= MaxActiveLeases)
        /\ ~Exceeds(RequiredSystem(Held(s), c), SystemAvailable(c.snapshot))
        /\ ~Exceeds(RequiredAccelerator(Held(s), c), AcceleratorAvailable(c, c.snapshot))
    BY <1>6, AcquiredMeans
  <2> HIDE DEF s, st
  <2>2. ~quarantine /\ \A k \in Leases : s[k] # "unknown_blocking"
    BY <2>1 DEF OwnershipUnknown
  <2>3. Frozen = {} /\ Frozen' = {}
    BY <2>2, <1>2, <1>3, <1>5, <1>6 DEF Frozen
  <2>4. Ledger!Holders(rowClaim) \ gone = Remaining(s)
    BY <1>1, <1>3 DEF Ledger!Holders, Remaining
  <2>5. [k \in Ledger!Holders(rowClaim) \ gone |-> rowClaim[k]] = Held(s)
    BY <2>4 DEF Held
  <2>6. Cardinality(DOMAIN Held(s)) < MaxActiveLeases
    <3>1. DOMAIN Held(s) = Remaining(s)
      BY DEF Held
    <3>2. IsFiniteSet(Remaining(s))
      BY ScanTypes, FS_Subset DEF LeaseInv, s
    <3>3. Cardinality(Remaining(s)) \in Nat
      BY <3>2, FS_CardinalityType
    <3>4. QED
      BY <2>1, <3>1, <3>3, LimitAssumption
  <2>7. Carries(Held(s), c)
    BY <2>1, <2>6 DEF Carries, AcceleratorAvailable
  <2>8. rowClaim' = [Ledger!Without(rowClaim, gone) EXCEPT ![l] = c]
    BY <1>1, <1>3, <1>5, <1>6 DEF Ledger!Without
  <2>9. l \notin Ledger!Holders(rowClaim)
    BY <1>1, <1>4 DEF Ledger!Holders
  <2>10. Ledger!Admit(l, c, gone)
    BY <2>2, <2>3, <2>5, <2>7, <2>8, <2>9, <1>5 DEF Ledger!Admit, Frozen
  <2>11. gone \in SUBSET Leases
    OBVIOUS
  <2>12. QED
    BY <2>10, <2>11 DEF Ledger!Next
<1>7. CASE st # "acquired"
  <2> HIDE DEF s, st
  <2>1. rowState' = s
    BY <1>2, <1>5, <1>7
  <2>2. rowClaim' = Ledger!Without(rowClaim, gone)
    BY <1>1, <1>3, <1>5, <1>7 DEF Ledger!Without
  <2>3. Frozen' = Frozen \cup lost /\ gone \cap (Frozen \cup lost) = {}
    BY <2>1, <1>3 DEF Frozen
  <2>4. lost \subseteq Ledger!Holders(rowClaim)
    BY <1>1, <1>3 DEF Ledger!Holders
  <2>5. PICK g \in SUBSET Leases, f \in SUBSET Leases : g = gone /\ f = lost
    OBVIOUS
  <2>6. Ledger!Review(g, f)
    BY <2>2, <2>3, <2>4, <2>5, <1>5 DEF Ledger!Review, Frozen
  <2>7. QED
    BY <2>6, Zenon DEF Ledger!Next
<1>8. QED
  BY <1>6, <1>7

LEMMA LedgerStep == LeaseInv /\ [LeaseNext]_leaseVars => [Ledger!Next]_(Ledger!ledgerVars)
<1> SUFFICES ASSUME LeaseInv, [LeaseNext]_leaseVars
             PROVE  Ledger!Next \/ UNCHANGED <<rowClaim, Frozen, quarantine>>
  BY DEF Ledger!ledgerVars, Frozen
<1>1. ASSUME NEW l \in Leases, NEW c \in Claims, NEW p \in Probes,
             EvaluateAndAcquire(l, c, p) \/ AcquireThenInterrupted(l, c, p)
      PROVE  Ledger!Next
  BY <1>1, CommitImplementsLedger DEF EvaluateAndAcquire, AcquireThenInterrupted
<1>2. ASSUME NEW l \in Leases, NEW dead \in SUBSET Leases, AcquireRolledBack(l, dead)
      PROVE  UNCHANGED <<rowClaim, Frozen, quarantine>>
  BY <1>2 DEF AcquireRolledBack, store, Frozen
<1>3. ASSUME NEW l \in Leases, ReleaseProbeLock(l) \/ OwnerExit(l)
      PROVE  UNCHANGED <<rowClaim, Frozen, quarantine>>
  BY <1>3 DEF ReleaseProbeLock, OwnerExit, store, Frozen
<1>4. ASSUME NEW l \in Leases, ArmDelivery(l)
      PROVE  UNCHANGED <<rowClaim, Frozen, quarantine>>
  BY <1>4 DEF ArmDelivery, ArmApplies, Frozen, LeaseInv, LeaseTypeOK
<1>5. ASSUME NEW l \in Leases, NEW d \in DeliveryStatuses, NEW ok \in BOOLEAN,
             Release(l, d, ok)
      PROVE  Ledger!Next \/ UNCHANGED <<rowClaim, Frozen, quarantine>>
  <2>1. /\ rowState \in [Leases -> RowStates \cup {"absent"}]
        /\ rowClaim \in [Leases -> Claims \cup {None}]
        /\ quarantine \in BOOLEAN
        /\ \A k \in Leases : (rowState[k] = "absent") = (rowClaim[k] = None)
    BY DEF LeaseInv, LeaseTypeOK, RowHasClaim
  <2>2. /\ rowState' \in [Leases -> RowStates \cup {"absent"}]
        /\ rowClaim' \in [Leases -> Claims \cup {None}]
        /\ \A k \in Leases : k # l => rowState'[k] = rowState[k] /\ rowClaim'[k] = rowClaim[k]
        /\ \/ /\ rowState'[l] = "absent" /\ rowClaim'[l] = None
              /\ rowState[l] = "absent" \/ KnownOutcome(l, d)
           \/ /\ rowState[l] # "absent" /\ rowClaim'[l] = rowClaim[l]
              /\ rowState'[l] \in {rowState[l], "unknown_blocking"}
    BY <1>5, ReleaseRow
  <2>3. quarantine' = (quarantine \/ (rowState[l] = "absent" /\ d = "attempted_unknown"))
    BY <1>5 DEF Release
  <2>4. CASE rowState[l] = "absent"
    <3>1. rowState' = rowState /\ rowClaim' = rowClaim
      BY <2>1, <2>2, <2>4 DEF KnownOutcome
    <3>2. quarantine' = quarantine \/ quarantine' = TRUE
      BY <2>1, <2>3
    <3>3. QED
      BY <3>1, <3>2 DEF Ledger!Next, Ledger!Close, Frozen
  <2>5. CASE rowState[l] # "absent" /\ rowState'[l] = "absent"
    <3>1. rowState[l] # "unknown_blocking"
      BY <2>2, <2>5 DEF KnownOutcome
    <3>2. rowClaim' = Ledger!Without(rowClaim, {l})
      BY <2>1, <2>2, <2>5 DEF Ledger!Without
    <3>3. Frozen' = Frozen /\ l \notin Frozen /\ quarantine' = quarantine
      BY <2>1, <2>2, <2>3, <2>5, <3>1 DEF Frozen
    <3>4. Ledger!Review({l}, {})
      BY <3>2, <3>3 DEF Ledger!Review, Frozen
    <3>5. {l} \in SUBSET Leases /\ {} \in SUBSET Leases
      OBVIOUS
    <3>6. QED
      BY <3>4, <3>5, Zenon DEF Ledger!Next
  <2>6. CASE rowState'[l] # "absent"
    <3>1. rowClaim' = rowClaim /\ quarantine' = quarantine
      BY <2>1, <2>2, <2>3, <2>6
    <3>2. CASE rowState'[l] = rowState[l]
      BY <3>1, <3>2, <2>2 DEF Frozen
    <3>3. CASE rowState'[l] = "unknown_blocking"
      <4>1. rowClaim' = Ledger!Without(rowClaim, {})
        BY <3>1, <2>1 DEF Ledger!Without
      <4>2. Frozen' = Frozen \cup {l}
        BY <3>3, <2>2 DEF Frozen
      <4>3. {l} \subseteq Ledger!Holders(rowClaim)
        BY <2>1, <2>2, <2>6 DEF Ledger!Holders
      <4>4. Ledger!Review({}, {l})
        BY <3>1, <4>1, <4>2, <4>3 DEF Ledger!Review, Frozen
      <4>5. {l} \in SUBSET Leases /\ {} \in SUBSET Leases
        OBVIOUS
      <4>6. QED
        BY <4>4, <4>5, Zenon DEF Ledger!Next
    <3>4. QED
      BY <2>2, <2>6, <3>2, <3>3
  <2>7. QED
    BY <2>4, <2>5, <2>6
<1>6. CASE UNCHANGED leaseVars
  BY <1>6 DEF leaseVars, Frozen
<1>7. QED
  BY <1>1, <1>2, <1>3, <1>4, <1>5, <1>6 DEF LeaseNext

\* The store implements the ledger.
THEOREM StoreImplementsLedger == LeaseSpec => ImplementsLedger
<1>1. LeaseInit => Ledger!Init
  BY DEF LeaseInit, Ledger!Init
<1>2. QED
  BY <1>1, LeaseInvariant, LedgerStep, PTL DEF LeaseSpec, ImplementsLedger, Ledger!Spec

-----------------------------------------------------------------------------
\* What process l and its row look like in each phase of the run.
PhaseOK(l) ==
    /\ request[l] = "running" => rowState[l] \in {"delivery_armed", "unknown_blocking"}
    /\ pc[l] \in {"resolve", "recheck", "admit"} =>
         request[l] = "none" /\ run[l].delivery = "not_attempted"
    /\ pc[l] \in {"probe", "arm"} =>
         /\ handle[l] = "live" /\ rowState[l] \in {"reserved", "unknown_blocking"}
         /\ request[l] = "none" /\ run[l].delivery = "not_attempted"
    /\ pc[l] = "post" =>
         /\ handle[l] = "live" /\ rowState[l] \in {"delivery_armed", "unknown_blocking"}
         /\ request[l] = "none"
    /\ pc[l] = "await" =>
         /\ handle[l] = "live" /\ rowState[l] \in {"delivery_armed", "unknown_blocking"}
         /\ run[l].delivery = "attempted_unknown"
    /\ pc[l] = "settle" =>
         /\ handle[l] = "live" /\ rowState[l] # "absent"
         /\ run[l].delivery = "not_attempted" => request[l] = "none"
         /\ run[l].delivery = "response_received" => request[l] = "done"
         /\ run[l].delivery = "attempted_unknown" =>
              rowState[l] \in {"delivery_armed", "unknown_blocking"}

PhaseInv == \A l \in Leases : PhaseOK(l)

RunInv == RunTypeOK /\ LeaseInv /\ PhaseInv /\ NeverQuarantined

(***************************************************************************)
(* What a process has collected in each phase, so that finish can build    *)
(* its receipt and envelope from there, whichever way the run ends.        *)
(***************************************************************************)
Untouched(r) ==
    /\ r.claim = FALSE /\ r.admission = None /\ r.transition = None /\ r.release = None
    /\ r.attempts = 0 /\ r.delivery = "not_attempted" /\ r.error = None /\ r.reasons = {}

Admitted(r) ==
    /\ r.claim = TRUE /\ r.binding # None /\ r.admission = "acquired"

Undelivered(r) ==
    /\ r.attempts = 0 /\ r.delivery = "not_attempted" /\ r.transition # "applied"

Delivered(r) ==
    /\ r.attempts = 1 /\ r.transition = "applied" /\ r.models # None
    /\ \/ r.delivery = "response_received"
       \/ r.delivery = "attempted_unknown" /\ "transport_failed" \in r.reasons

\* The release was receipted as expected, or its failure is recorded.
Discharged(r) ==
    \/ r.error \in {None, "lease_transition_failed"} /\ r.release \in ExpectedRelease(r.delivery)
    \/ /\ r.error = "lease_release_failed" /\ r.release # "released"
       /\ "adaptive_admission_blocked" \in r.reasons

EvidenceOK(l) ==
    LET r == run[l] IN
    /\ pc[l] \in {"resolve", "recheck", "admit"} => Untouched(r)
    /\ pc[l] \in {"recheck", "admit"} => r.binding # None
    /\ pc[l] \in {"probe", "arm", "post"} =>
         /\ Admitted(r) /\ r.attempts = 0 /\ r.delivery = "not_attempted"
         /\ r.release = None /\ r.error = None /\ r.reasons = {}
    /\ pc[l] \in {"probe", "arm"} => r.transition = None
    /\ pc[l] \in {"arm", "post"} => r.models # None
    /\ pc[l] = "post" => r.transition = "applied"
    /\ pc[l] = "await" =>
         /\ Admitted(r) /\ r.attempts = 1 /\ r.delivery = "attempted_unknown"
         /\ r.transition = "applied" /\ r.models # None
         /\ r.release = None /\ r.error = None
    /\ pc[l] = "settle" =>
         /\ Admitted(r) /\ r.release = None
         /\ \/ Undelivered(r) /\ r.reasons # {} /\ r.error \in {None, "lease_transition_failed"}
            \/ Delivered(r) /\ r.error = None
    /\ pc[l] \in {"reprobe", "reinspect"} =>
         /\ Admitted(r) /\ Delivered(r) /\ Discharged(r)
         /\ r.error # "lease_transition_failed"
         /\ r.delivery = "response_received" => request[l] = "done"
         /\ r.delivery = "response_received" /\ r.error = None => rowState[l] = "absent"
    /\ pc[l] = "done" =>
         /\ ReceiptContract(r) /\ LineageContract(r)
         /\ r.status = "blocked" => request[l] = "none"
         /\ r.status = "completed" => request[l] = "done" /\ rowState[l] = "absent"

EvidenceInv == \A l \in Leases : EvidenceOK(l)

-----------------------------------------------------------------------------
\* finish ends the run and keeps the delivery status.
LEMMA FinishTypes ==
    ASSUME RunTypeOK, NEW l \in Leases, NEW r \in RunRecords,
           NEW st \in {"blocked", "completed", "failed", "invalidated"}, Finish(l, r, st)
    PROVE  /\ pc' = [pc EXCEPT ![l] = "done"]
           /\ run' \in [Leases -> RunRecords]
           /\ \A k \in Leases : k # l => run'[k] = run[k]
<1>1. PICK ok \in BOOLEAN :
        LET reasons == r.reasons \cup (IF ok THEN {} ELSE {"clock_invalid"})
        IN  GoTo(l, "done", [r EXCEPT !.reasons = reasons,
                                      !.status = IF st = "completed" /\ reasons # {}
                                                 THEN "invalidated" ELSE st])
  BY Zenon DEF Finish
<1> DEFINE rs == r.reasons \cup (IF ok THEN {} ELSE {"clock_invalid"})
           fin == [r EXCEPT !.reasons = rs,
                            !.status = IF st = "completed" /\ rs # {}
                                       THEN "invalidated" ELSE st]
<1>2. GoTo(l, "done", fin)
  BY <1>1
<1>3. rs \subseteq ReasonCodes
  BY DEF RunRecords, ReasonCodes
<1> HIDE DEF rs
<1>4. fin \in RunRecords
  BY <1>3 DEF RunRecords
<1> HIDE DEF fin
<1>5. QED
  BY <1>2, <1>4 DEF GoTo, RunTypeOK

\* GoTo changes the phase and the locals of one process only.
LEMMA GoToTypes ==
    ASSUME RunTypeOK, NEW l \in Leases, NEW r \in RunRecords, NEW ph \in Phases,
           GoTo(l, ph, r)
    PROVE  /\ pc' \in [Leases -> Phases]
           /\ run' \in [Leases -> RunRecords]
           /\ pc'[l] = ph /\ run'[l] = r
           /\ \A k \in Leases : k # l => pc'[k] = pc[k] /\ run'[k] = run[k]
BY DEF GoTo, RunTypeOK

\* A blocked run ends; the other processes' locals stay.
LEMMA BlockedTypes ==
    ASSUME RunTypeOK, NEW l \in Leases, NEW r \in RunRecords, NEW why \in ReasonCodes,
           Blocked(l, r, why)
    PROVE  /\ pc' = [pc EXCEPT ![l] = "done"]
           /\ run' \in [Leases -> RunRecords]
           /\ \A k \in Leases : k # l => run'[k] = run[k]
<1> DEFINE b == [r EXCEPT !.reasons = @ \cup {why}]
<1>1. b \in RunRecords
  BY DEF RunRecords
<1>2. Finish(l, b, "blocked")
  BY DEF Blocked
<1> HIDE DEF b
<1>3. QED
  BY <1>1, <1>2, FinishTypes

\* What follows a settlement.
LEMMA SettledTypes ==
    ASSUME RunTypeOK, NEW l \in Leases, NEW r \in RunRecords, Settled(l, r)
    PROVE  /\ pc' \in [Leases -> Phases]
           /\ pc'[l] \in {"done", "reprobe"}
           /\ run' \in [Leases -> RunRecords]
           /\ \A k \in Leases : k # l => pc'[k] = pc[k] /\ run'[k] = run[k]
<1> DEFINE e == [r EXCEPT !.error = "lease_release_failed",
                          !.reasons = @ \cup {"adaptive_admission_blocked"}]
           s == IF r.release \in ExpectedRelease(r.delivery) THEN r ELSE e
<1>0. e \in RunRecords
  BY DEF RunRecords, LeaseErrors, ReasonCodes
<1>1. s \in RunRecords
  <2> HIDE DEF e
  <2> QED
    BY <1>0
<1>2. IF r.attempts = 0 THEN Finish(l, s, "blocked") ELSE GoTo(l, "reprobe", s)
  BY DEF Settled
<1> HIDE DEF s
<1>3. CASE r.attempts = 0
  <2>1. Finish(l, s, "blocked")
    BY <1>2, <1>3
  <2>2. /\ pc' = [pc EXCEPT ![l] = "done"]
        /\ run' \in [Leases -> RunRecords]
        /\ \A k \in Leases : k # l => run'[k] = run[k]
    BY <1>1, <2>1, FinishTypes
  <2>3. QED
    BY <2>2 DEF RunTypeOK, Phases
<1>4. CASE r.attempts # 0
  BY <1>1, <1>2, <1>4, GoToTypes DEF Phases
<1>5. QED
  BY <1>3, <1>4

\* The invariant of a process survives the steps of the others: its live row is
\* never reaped, an armed row never disappears.
LEMMA OthersUndisturbed ==
    ASSUME RunInv, NEW l \in Leases, NEW k \in Leases, k # l,
           pc'[k] = pc[k], run'[k] = run[k], request'[k] = request[k],
           handle'[k] = handle[k],
           \/ rowState'[k] = rowState[k]
           \/ rowState[k] # "absent" /\ rowState'[k] = "unknown_blocking"
           \/ rowState[k] = "reserved" /\ sentinel[k] = "free" /\ rowState'[k] = "absent"
    PROVE  PhaseOK(k)'
BY DEF RunInv, PhaseInv, PhaseOK, LeaseInv, LiveRowOwned

\* A committed admission as the other processes see it.
LEMMA AdmissionFrame ==
    ASSUME LeaseInv, NEW l \in Leases, NEW c \in Claims, NEW p \in Probes, FreshId(l),
           CommitAdmission(l, c, Scanned(p), AdmissionStatus(c, Scanned(p))),
           NEW k \in Leases, k # l
    PROVE  \/ rowState'[k] = rowState[k]
           \/ rowState[k] # "absent" /\ rowState'[k] = "unknown_blocking"
           \/ rowState[k] = "reserved" /\ sentinel[k] = "free" /\ rowState'[k] = "absent"
<1>1. Scanned(p) \in [Leases -> RowStates \cup {"absent"}]
  BY ScanTypes DEF LeaseInv
<1>2. rowState'[k] = Scanned(p)[k]
  BY <1>1 DEF CommitAdmission
<1>3. QED
  BY <1>2, ScanRow DEF LeaseInv

-----------------------------------------------------------------------------
\* The steps of a process and of its environment are store operations or stutter.
LEMMA RunStepIsLeaseStep == RunTypeOK /\ [RunNext]_runVars => [LeaseNext]_leaseVars
<1> SUFFICES ASSUME RunTypeOK, [RunNext]_runVars PROVE LeaseNext \/ UNCHANGED leaseVars
  OBVIOUS
<1>1. ASSUME NEW l \in Leases,
             \/ Begin(l) \/ ResolveTarget(l) \/ RecheckTarget(l) \/ ProbeModels(l)
             \/ PostTask(l) \/ ReceiveResponse(l) \/ DeliveryUnknown(l)
             \/ ReprobeModels(l) \/ ReinspectBinding(l) \/ ServerFinishes(l)
      PROVE  UNCHANGED leaseVars
  BY <1>1 DEF Begin, ResolveTarget, RecheckTarget, ProbeModels, PostTask,
     ReceiveResponse, DeliveryUnknown, ReprobeModels, ReinspectBinding, ServerFinishes
<1>2. ASSUME NEW l \in Leases, AdmitRun(l)
      PROVE  LeaseNext
  <2>1. \E c \in Claims, p \in Probes : EvaluateAndAcquire(l, c, p)
    BY <1>2, Zenon DEF AdmitRun
  <2>2. QED
    BY <2>1, Zenon DEF LeaseNext
<1>3. ASSUME NEW l \in Leases, AdmitInterrupted(l)
      PROVE  LeaseNext
  BY <1>3, Zenon DEF AdmitInterrupted, LeaseNext
<1>4. ASSUME NEW l \in Leases, AdmitFailed(l)
      PROVE  LeaseNext
  <2>1. \E dead \in SUBSET Leases : AcquireRolledBack(l, dead)
    BY <1>4, Zenon DEF AdmitFailed
  <2>2. QED
    BY <2>1, Zenon DEF LeaseNext
<1>5. ASSUME NEW l \in Leases, ArmRun(l) \/ ArmFailed(l)
      PROVE  LeaseNext \/ UNCHANGED leaseVars
  BY <1>5, Zenon DEF ArmRun, ArmFailed, LeaseNext
<1>6. ASSUME NEW l \in Leases, SettleLease(l) \/ SettleFailed(l)
      PROVE  LeaseNext \/ UNCHANGED leaseVars
  <2>1. \/ \E ok \in BOOLEAN : Release(l, run[l].delivery, ok)
        \/ UNCHANGED leaseVars
    BY <1>6, Zenon DEF SettleLease, SettleFailed
  <2>2. run[l].delivery \in DeliveryStatuses
    BY DEF RunTypeOK, RunRecords
  <2>3. QED
    BY <2>1, <2>2, Zenon DEF LeaseNext
<1>7. ASSUME NEW l \in Leases, Exit(l) \/ Crash(l)
      PROVE  LeaseNext \/ UNCHANGED leaseVars
  BY <1>7, Zenon DEF Exit, Crash, ProcessEnds, LeaseNext
<1>8. ASSUME NEW l \in Leases, DropProbeLock(l)
      PROVE  LeaseNext
  BY <1>8, Zenon DEF DropProbeLock, LeaseNext
<1>9. CASE WorldChanges
  BY <1>9 DEF WorldChanges
<1>10. CASE UNCHANGED runVars
  BY <1>10 DEF runVars
<1>11. QED
  BY <1>1, <1>2, <1>3, <1>4, <1>5, <1>6, <1>7, <1>8, <1>9, <1>10, Zenon DEF RunNext, RunStep

-----------------------------------------------------------------------------
\* Before any process runs, the invariant holds.
LEMMA RunInvInit == RunInit => RunInv
<1> SUFFICES ASSUME RunInit PROVE RunInv
  OBVIOUS
<1>1. LeaseInv
  BY LeaseInvInit DEF RunInit
<1>2. FreshRun \in RunRecords
  BY DEF FreshRun, RunRecords, DeliveryStatuses
<1>3. RunTypeOK
  BY <1>1, <1>2, WorldAssumption DEF RunInit, RunTypeOK, LeaseInv, Phases
<1>4. PhaseInv
  BY DEF RunInit, PhaseInv, PhaseOK
<1>5. NeverQuarantined
  BY DEF RunInit, LeaseInit, NeverQuarantined
<1>6. QED
  BY <1>1, <1>3, <1>4, <1>5 DEF RunInv

\* Phases in which the process did not yet touch the store, or no longer relies on it.
LEMMA QuietStep ==
    ASSUME RunInv, NEW l \in Leases,
           \/ Begin(l) \/ ResolveTarget(l) \/ RecheckTarget(l)
           \/ ReprobeModels(l) \/ ReinspectBinding(l)
    PROVE  RunTypeOK' /\ PhaseInv' /\ NeverQuarantined'
<1>1. /\ LeaseTypeOK /\ ~quarantine
      /\ RunTypeOK /\ run[l] \in RunRecords
      /\ binding \in Bindings
  BY DEF RunInv, RunTypeOK, NeverQuarantined
<1>2. UNCHANGED <<rowState, rowClaim, quarantine, sentinel, handle, binding, models>>
  BY DEF Begin, ResolveTarget, RecheckTarget, ReprobeModels, ReinspectBinding,
     leaseVars, worldVars
<1>3. /\ pc' \in [Leases -> Phases] /\ run' \in [Leases -> RunRecords]
      /\ \A k \in Leases : k # l => pc'[k] = pc[k] /\ run'[k] = run[k]
      /\ request' \in [Leases -> {"none", "running", "done"}]
      /\ \A k \in Leases : k # l => request'[k] = request[k]
      /\ \/ /\ pc'[l] \in {"resolve", "recheck", "admit"}
            /\ request'[l] = "none" /\ run'[l].delivery = "not_attempted"
         \/ pc'[l] \in {"done", "reinspect"} /\ request'[l] = request[l]
  <2>1. CASE Begin(l)
    <3>1. FreshRun \in RunRecords /\ FreshRun.delivery = "not_attempted"
      BY DEF FreshRun, RunRecords, DeliveryStatuses
    <3>2. GoTo(l, "resolve", FreshRun) /\ request' = [request EXCEPT ![l] = "none"]
      BY <2>1 DEF Begin
    <3>3. QED
      BY <3>1, <3>2, <1>1, GoToTypes DEF RunTypeOK, Phases
  <2>2. CASE ResolveTarget(l)
    <3> DEFINE r == [run[l] EXCEPT !.binding = binding]
               e == [run[l] EXCEPT !.binding = binding, !.error = "lease_store_failed"]
    <3>1. r \in RunRecords /\ r.delivery = run[l].delivery /\ e \in RunRecords
      BY <1>1 DEF RunRecords, LeaseErrors
    <3>2. /\ pc[l] = "resolve" /\ request' = request
          /\ \/ GoTo(l, "recheck", r)
             \/ Blocked(l, run[l], "precondition_failed")
             \/ Blocked(l, e, "adaptive_admission_blocked")
      BY <2>2 DEF ResolveTarget
    <3> HIDE DEF r, e
    <3>3. request[l] = "none" /\ run[l].delivery = "not_attempted"
      BY <3>2 DEF RunInv, PhaseInv, PhaseOK
    <3>4. CASE GoTo(l, "recheck", r)
      BY <3>1, <3>2, <3>3, <3>4, <1>1, GoToTypes DEF RunTypeOK, Phases
    <3>5. CASE Blocked(l, run[l], "precondition_failed")
                 \/ Blocked(l, e, "adaptive_admission_blocked")
      <4>1. /\ pc' = [pc EXCEPT ![l] = "done"]
            /\ run' \in [Leases -> RunRecords]
            /\ \A k \in Leases : k # l => run'[k] = run[k]
        BY <3>1, <3>5, <1>1, BlockedTypes DEF ReasonCodes
      <4>2. QED
        BY <4>1, <3>2, <1>1 DEF RunTypeOK, Phases
    <3>6. QED
      BY <3>2, <3>4, <3>5
  <2>3. CASE RecheckTarget(l)
    <3>1. /\ pc[l] = "recheck" /\ request' = request
          /\ GoTo(l, "admit", run[l]) \/ Blocked(l, run[l], "precondition_failed")
      BY <2>3 DEF RecheckTarget
    <3>2. request[l] = "none" /\ run[l].delivery = "not_attempted"
      BY <3>1 DEF RunInv, PhaseInv, PhaseOK
    <3>3. CASE GoTo(l, "admit", run[l])
      BY <3>1, <3>2, <3>3, <1>1, GoToTypes DEF RunTypeOK, Phases
    <3>4. CASE Blocked(l, run[l], "precondition_failed")
      <4>1. /\ pc' = [pc EXCEPT ![l] = "done"]
            /\ run' \in [Leases -> RunRecords]
            /\ \A k \in Leases : k # l => run'[k] = run[k]
        BY <3>4, <1>1, BlockedTypes DEF ReasonCodes
      <4>2. QED
        BY <4>1, <3>1, <1>1 DEF RunTypeOK, Phases
    <3>5. QED
      BY <3>1, <3>3, <3>4
  <2>4. CASE ReprobeModels(l)
    <3>1. PICK why \in {IF models = run[l].models THEN {} ELSE {"model_identity_changed"},
                        {"model_probe_failed"}} :
            GoTo(l, "reinspect", [run[l] EXCEPT !.reasons = @ \cup why])
      BY <2>4, Zenon DEF ReprobeModels
    <3> DEFINE r == [run[l] EXCEPT !.reasons = @ \cup why]
    <3>2. r \in RunRecords
      BY <1>1, <3>1 DEF RunRecords, ReasonCodes
    <3>3. GoTo(l, "reinspect", r) /\ request' = request
      BY <2>4, <3>1 DEF ReprobeModels
    <3> HIDE DEF r
    <3>4. QED
      BY <3>2, <3>3, <1>1, GoToTypes DEF RunTypeOK, Phases
  <2>5. CASE ReinspectBinding(l)
    <3>1. PICK unverified \in BOOLEAN :
            LET r == [run[l] EXCEPT !.reasons = @ \cup
                        (IF unverified \/ binding # run[l].binding
                         THEN {"binding_changed"} ELSE {})]
            IN  IF r.reasons \ {"transport_failed"} # {} THEN Finish(l, r, "invalidated")
                ELSE IF r.reasons # {} THEN Finish(l, r, "failed")
                ELSE Finish(l, r, "completed")
      BY <2>5, Zenon DEF ReinspectBinding
    <3> DEFINE r == [run[l] EXCEPT !.reasons = @ \cup
                        (IF unverified \/ binding # run[l].binding
                         THEN {"binding_changed"} ELSE {})]
    <3>2. r \in RunRecords
      BY <1>1, <3>1 DEF RunRecords, ReasonCodes
    <3>3. \/ Finish(l, r, "invalidated") \/ Finish(l, r, "failed")
          \/ Finish(l, r, "completed")
      BY <3>1
    <3>4. request' = request
      BY <2>5 DEF ReinspectBinding
    <3> HIDE DEF r
    <3>5. /\ pc' = [pc EXCEPT ![l] = "done"]
          /\ run' \in [Leases -> RunRecords]
          /\ \A k \in Leases : k # l => run'[k] = run[k]
      BY <3>2, <3>3, <1>1, FinishTypes
    <3>6. QED
      BY <3>4, <3>5, <1>1 DEF RunTypeOK, Phases
  <2>6. QED
    BY <2>1, <2>2, <2>3, <2>4, <2>5
<1>4. RunTypeOK'
  BY <1>1, <1>2, <1>3 DEF RunTypeOK, LeaseTypeOK
<1>5. ASSUME NEW k \in Leases PROVE PhaseOK(k)'
  <2>1. CASE k # l
    BY <2>1, <1>2, <1>3, OthersUndisturbed
  <2>2. CASE k = l
    BY <2>2, <1>2, <1>3 DEF RunInv, PhaseInv, PhaseOK
  <2>3. QED
    BY <2>1, <2>2
<1>6. QED
  BY <1>1, <1>2, <1>4, <1>5 DEF PhaseInv, NeverQuarantined

\* A process enters another phase and leaves the store and its request alone.
LEMMA LocalStep ==
    ASSUME RunInv, NEW l \in Leases, NEW r \in RunRecords,
           NEW ph \in {"arm", "settle"},
           GoTo(l, ph, r),
           UNCHANGED <<leaseVars, request, worldVars>>,
           handle[l] = "live",
           ph = "arm" => pc[l] = "probe" /\ r.delivery = "not_attempted",
           ph = "settle" =>
             /\ rowState[l] # "absent"
             /\ r.delivery = "not_attempted" => request[l] = "none"
             /\ r.delivery = "response_received" => request[l] = "done"
             /\ r.delivery = "attempted_unknown" =>
                  rowState[l] \in {"delivery_armed", "unknown_blocking"}
    PROVE  RunTypeOK' /\ PhaseInv' /\ NeverQuarantined'
<1>1. /\ pc' \in [Leases -> Phases] /\ run' \in [Leases -> RunRecords]
      /\ pc'[l] = ph /\ run'[l] = r
      /\ \A k \in Leases : k # l => pc'[k] = pc[k] /\ run'[k] = run[k]
  BY GoToTypes DEF RunInv, Phases
<1>2. UNCHANGED <<rowState, rowClaim, quarantine, sentinel, handle, binding, models, request>>
  BY DEF leaseVars, worldVars
<1>3. RunTypeOK'
  BY <1>1, <1>2 DEF RunInv, RunTypeOK, LeaseTypeOK
<1>4. ASSUME NEW k \in Leases PROVE PhaseOK(k)'
  <2>1. CASE k # l
    BY <2>1, <1>1, <1>2, OthersUndisturbed
  <2>2. CASE k = l
    BY <2>2, <1>1, <1>2 DEF RunInv, PhaseInv, PhaseOK
  <2>3. QED
    BY <2>1, <2>2
<1>5. QED
  BY <1>2, <1>3, <1>4 DEF RunInv, PhaseInv, NeverQuarantined

\* The model probe and the end of the wait for a response.
LEMMA WaitingSteps ==
    ASSUME RunInv, NEW l \in Leases,
           ProbeModels(l) \/ ReceiveResponse(l) \/ DeliveryUnknown(l)
    PROVE  RunTypeOK' /\ PhaseInv' /\ NeverQuarantined'
<1>1. run[l] \in RunRecords /\ models \in ModelSets /\ PhaseOK(l)
  BY DEF RunInv, RunTypeOK, PhaseInv
<1>2. UNCHANGED <<leaseVars, request, worldVars>>
  BY DEF ProbeModels, ReceiveResponse, DeliveryUnknown
<1>3. CASE ProbeModels(l)
  <2> DEFINE a == [run[l] EXCEPT !.models = models]
             f == [run[l] EXCEPT !.reasons = @ \cup {"model_probe_failed"}]
  <2>1. /\ a \in RunRecords /\ a.delivery = run[l].delivery
        /\ f \in RunRecords /\ f.delivery = run[l].delivery
    BY <1>1 DEF RunRecords, ReasonCodes
  <2>2. pc[l] = "probe" /\ (GoTo(l, "arm", a) \/ GoTo(l, "settle", f))
    BY <1>3 DEF ProbeModels
  <2> HIDE DEF a, f
  <2>3. QED
    BY <2>1, <2>2, <1>1, <1>2, LocalStep DEF PhaseOK
<1>4. CASE ReceiveResponse(l)
  <2>1. PICK bad \in SUBSET {"transport_failed"} :
          GoTo(l, "settle", [run[l] EXCEPT !.delivery = "response_received",
                                           !.reasons = @ \cup bad])
    BY <1>4, Zenon DEF ReceiveResponse
  <2> DEFINE r == [run[l] EXCEPT !.delivery = "response_received", !.reasons = @ \cup bad]
  <2>2. r \in RunRecords /\ r.delivery = "response_received"
    BY <1>1, <2>1 DEF RunRecords, ReasonCodes, DeliveryStatuses
  <2>3. GoTo(l, "settle", r) /\ pc[l] = "await" /\ request[l] = "done"
    BY <2>1, <1>4 DEF ReceiveResponse
  <2> HIDE DEF r
  <2>4. QED
    BY <2>2, <2>3, <1>1, <1>2, LocalStep DEF PhaseOK
<1>5. CASE DeliveryUnknown(l)
  <2> DEFINE r == [run[l] EXCEPT !.reasons = @ \cup {"transport_failed"}]
  <2>1. r \in RunRecords /\ r.delivery = run[l].delivery
    BY <1>1 DEF RunRecords, ReasonCodes
  <2>2. GoTo(l, "settle", r) /\ pc[l] = "await"
    BY <1>5 DEF DeliveryUnknown
  <2> HIDE DEF r
  <2>3. QED
    BY <2>1, <2>2, <1>1, <1>2, LocalStep DEF PhaseOK
<1>6. QED
  BY <1>3, <1>4, <1>5

\* The request is sent from an armed row.
LEMMA PostStep ==
    ASSUME RunInv, NEW l \in Leases, PostTask(l)
    PROVE  RunTypeOK' /\ PhaseInv' /\ NeverQuarantined'
<1> DEFINE r == [run[l] EXCEPT !.attempts = 1, !.delivery = "attempted_unknown"]
<1>1. run[l] \in RunRecords /\ PhaseOK(l)
  BY DEF RunInv, RunTypeOK, PhaseInv
<1>2. r \in RunRecords /\ r.delivery = "attempted_unknown"
  BY <1>1 DEF RunRecords, DeliveryStatuses
<1>3. pc[l] = "post" /\ GoTo(l, "await", r)
  BY DEF PostTask
<1> HIDE DEF r
<1>4. /\ pc' \in [Leases -> Phases] /\ run' \in [Leases -> RunRecords]
      /\ pc'[l] = "await" /\ run'[l] = r
      /\ \A k \in Leases : k # l => pc'[k] = pc[k] /\ run'[k] = run[k]
  BY <1>2, <1>3, GoToTypes DEF RunInv, Phases
<1>5. UNCHANGED <<rowState, rowClaim, quarantine, sentinel, handle, binding, models>>
  BY DEF PostTask, leaseVars, worldVars
<1>6. /\ request' \in [Leases -> {"none", "running", "done"}]
      /\ \A k \in Leases : k # l => request'[k] = request[k]
  BY DEF PostTask, RunInv, RunTypeOK
<1>7. RunTypeOK'
  BY <1>4, <1>5, <1>6 DEF RunInv, RunTypeOK, LeaseTypeOK
<1>8. ASSUME NEW k \in Leases PROVE PhaseOK(k)'
  <2>1. CASE k # l
    BY <2>1, <1>4, <1>5, <1>6, OthersUndisturbed
  <2>2. CASE k = l
    BY <2>2, <1>1, <1>2, <1>3, <1>4, <1>5 DEF PhaseOK
  <2>3. QED
    BY <2>1, <2>2
<1>9. QED
  BY <1>5, <1>7, <1>8 DEF RunInv, PhaseInv, NeverQuarantined

\* arm_delivery, applied, refused or raising.
LEMMA ArmSteps ==
    ASSUME RunInv, NEW l \in Leases, ArmRun(l) \/ ArmFailed(l)
    PROVE  RunTypeOK' /\ PhaseInv' /\ NeverQuarantined'
<1> DEFINE posted == [run[l] EXCEPT !.transition = "applied"]
           refused == NotArmed([run[l] EXCEPT !.transition = "refused"])
           failed == NotArmed(run[l])
<1>1. run[l] \in RunRecords /\ PhaseOK(l) /\ pc[l] = "arm" /\ ~quarantine
  BY DEF RunInv, RunTypeOK, PhaseInv, ArmRun, ArmFailed, NeverQuarantined
<1>2. /\ posted \in RunRecords /\ posted.delivery = run[l].delivery
      /\ refused \in RunRecords /\ refused.delivery = run[l].delivery
      /\ failed \in RunRecords /\ failed.delivery = run[l].delivery
  BY <1>1 DEF RunRecords, NotArmed, LeaseErrors, ReasonCodes
<1>3. \/ ArmDelivery(l) /\ ArmApplies(l) /\ GoTo(l, "post", posted)
      \/ ArmDelivery(l) /\ ~ArmApplies(l) /\ GoTo(l, "settle", refused)
      \/ (ArmDelivery(l) \/ UNCHANGED leaseVars) /\ GoTo(l, "settle", failed)
  BY DEF ArmRun, ArmFailed
<1>4. /\ UNCHANGED <<rowClaim, quarantine, sentinel, handle, binding, models, request>>
      /\ rowState' \in [Leases -> RowStates \cup {"absent"}]
      /\ \A k \in Leases : k # l => rowState'[k] = rowState[k]
      /\ rowState'[l] # "absent"
      /\ ArmDelivery(l) /\ ArmApplies(l) => rowState'[l] = "delivery_armed"
  BY <1>1 DEF ArmRun, ArmFailed, ArmDelivery, ArmApplies, leaseVars, worldVars, RunInv,
     RunTypeOK, LeaseTypeOK, RowStates, PhaseOK
<1> HIDE DEF posted, refused, failed
<1>5. /\ pc' \in [Leases -> Phases] /\ run' \in [Leases -> RunRecords]
      /\ run'[l].delivery = run[l].delivery
      /\ \/ pc'[l] = "settle"
         \/ pc'[l] = "post" /\ rowState'[l] = "delivery_armed"
      /\ \A k \in Leases : k # l => pc'[k] = pc[k] /\ run'[k] = run[k]
  BY <1>2, <1>3, <1>4, GoToTypes DEF RunInv, Phases
<1>6. RunTypeOK'
  BY <1>4, <1>5 DEF RunInv, RunTypeOK, LeaseTypeOK
<1>7. ASSUME NEW k \in Leases PROVE PhaseOK(k)'
  <2>1. CASE k # l
    BY <2>1, <1>4, <1>5, OthersUndisturbed
  <2>2. CASE k = l
    BY <2>2, <1>1, <1>4, <1>5 DEF PhaseOK
  <2>3. QED
    BY <2>1, <2>2
<1>8. QED
  BY <1>1, <1>4, <1>6, <1>7 DEF PhaseInv, NeverQuarantined

-----------------------------------------------------------------------------
\* A committed admission: the winner owns a reserved row, everybody else is blocked.
LEMMA AdmitCommitted ==
    ASSUME RunInv, NEW l \in Leases, AdmitRun(l) \/ AdmitInterrupted(l)
    PROVE  RunTypeOK' /\ PhaseInv' /\ NeverQuarantined'
<1>1. /\ run[l] \in RunRecords /\ PhaseOK(l) /\ pc[l] = "admit" /\ LeaseInv
      /\ RunTypeOK /\ ~quarantine
  BY DEF RunInv, RunTypeOK, PhaseInv, AdmitRun, AdmitInterrupted, NeverQuarantined
<1>2. PICK c \in Claims, p \in Probes :
        \/ /\ EvaluateAndAcquire(l, c, p)
           /\ IF AdmissionStatus(c, Scanned(p)) = "acquired"
              THEN GoTo(l, "probe", [run[l] EXCEPT !.claim = TRUE,
                                       !.admission = AdmissionStatus(c, Scanned(p))])
              ELSE Blocked(l, [run[l] EXCEPT !.claim = TRUE,
                                 !.admission = AdmissionStatus(c, Scanned(p))],
                           "adaptive_admission_blocked")
        \/ /\ AcquireThenInterrupted(l, c, p)
           /\ Blocked(l, [run[l] EXCEPT !.error = "lease_store_failed"],
                      "adaptive_admission_blocked")
  BY Zenon DEF AdmitRun, AdmitInterrupted
<1> DEFINE st == AdmissionStatus(c, Scanned(p))
           a == [run[l] EXCEPT !.claim = TRUE, !.admission = st]
           b == [run[l] EXCEPT !.error = "lease_store_failed"]
<1>3. st \in {"acquired", "denied", "unknown_blocking"}
  BY DEF AdmissionStatus
<1>4. /\ FreshId(l)
      /\ CommitAdmission(l, c, Scanned(p), st)
      /\ \/ /\ st = "acquired" /\ GoTo(l, "probe", a)
            /\ sentinel' = [sentinel EXCEPT ![l] = "owner"]
            /\ handle' = [handle EXCEPT ![l] = "live"]
         \/ /\ Blocked(l, a, "adaptive_admission_blocked")
            /\ UNCHANGED <<sentinel, handle>>
         \/ /\ Blocked(l, b, "adaptive_admission_blocked")
            /\ UNCHANGED <<sentinel, handle>>
  <2>1. \/ EvaluateAndAcquire(l, c, p) /\ st = "acquired" /\ GoTo(l, "probe", a)
        \/ EvaluateAndAcquire(l, c, p) /\ st # "acquired"
             /\ Blocked(l, a, "adaptive_admission_blocked")
        \/ AcquireThenInterrupted(l, c, p) /\ Blocked(l, b, "adaptive_admission_blocked")
    BY <1>2
  <2> HIDE DEF a, b
  <2>2. CASE EvaluateAndAcquire(l, c, p) /\ st = "acquired" /\ GoTo(l, "probe", a)
    BY <2>2 DEF EvaluateAndAcquire
  <2>3. CASE EvaluateAndAcquire(l, c, p) /\ st # "acquired"
                /\ Blocked(l, a, "adaptive_admission_blocked")
    BY <2>3, <1>1 DEF EvaluateAndAcquire, RunTypeOK, LeaseTypeOK
  <2>4. CASE AcquireThenInterrupted(l, c, p) /\ Blocked(l, b, "adaptive_admission_blocked")
    BY <2>4 DEF AcquireThenInterrupted
  <2>5. QED
    BY <2>1, <2>2, <2>3, <2>4
<1> HIDE DEF st
<1>5. /\ a \in RunRecords /\ a.delivery = run[l].delivery
      /\ b \in RunRecords
  BY <1>1, <1>3 DEF RunRecords, LeaseErrors
<1> HIDE DEF a, b
<1>6. UNCHANGED <<request, binding, models>>
  BY DEF AdmitRun, AdmitInterrupted, worldVars
<1>7. /\ pc' \in [Leases -> Phases] /\ run' \in [Leases -> RunRecords]
      /\ \A k \in Leases : k # l => pc'[k] = pc[k] /\ run'[k] = run[k]
      /\ \/ /\ st = "acquired" /\ pc'[l] = "probe"
            /\ run'[l].delivery = "not_attempted" /\ handle'[l] = "live"
         \/ pc'[l] = "done"
  <2>1. CASE GoTo(l, "probe", a) /\ st = "acquired"
                /\ handle' = [handle EXCEPT ![l] = "live"]
    BY <2>1, <1>1, <1>5, GoToTypes DEF Phases, PhaseOK, RunTypeOK, LeaseTypeOK
  <2>2. ASSUME NEW r \in RunRecords, Blocked(l, r, "adaptive_admission_blocked")
        PROVE  /\ pc' = [pc EXCEPT ![l] = "done"]
               /\ run' \in [Leases -> RunRecords]
               /\ \A k \in Leases : k # l => run'[k] = run[k]
    BY <2>2, <1>1, BlockedTypes DEF ReasonCodes
  <2>3. CASE Blocked(l, a, "adaptive_admission_blocked")
    BY <2>2, <2>3, <1>1, <1>5 DEF RunTypeOK, Phases
  <2>4. CASE Blocked(l, b, "adaptive_admission_blocked")
    BY <2>2, <2>4, <1>1, <1>5 DEF RunTypeOK, Phases
  <2>5. QED
    BY <1>4, <2>1, <2>3, <2>4
<1>8. /\ rowState' \in [Leases -> RowStates \cup {"absent"}]
      /\ rowClaim' \in [Leases -> Claims \cup {None}]
      /\ quarantine' = quarantine
  BY <1>1, <1>4, CommitPreserves DEF st
<1>9. /\ sentinel' \in [Leases -> {"free", "owner", "prober"}]
      /\ handle' \in [Leases -> {"none", "live"}]
      /\ \A k \in Leases : k # l => handle'[k] = handle[k]
  BY <1>1, <1>4 DEF RunTypeOK, LeaseTypeOK
<1>10. RunTypeOK'
  BY <1>1, <1>6, <1>7, <1>8, <1>9 DEF RunTypeOK, LeaseTypeOK
<1>11. st = "acquired" => rowState'[l] = "reserved"
  <2>1. Scanned(p) \in [Leases -> RowStates \cup {"absent"}]
    BY <1>1, ScanTypes DEF LeaseInv
  <2>2. QED
    BY <2>1, <1>4 DEF CommitAdmission
<1>12. ASSUME NEW k \in Leases PROVE PhaseOK(k)'
  <2>1. CASE k # l
    <3>1. \/ rowState'[k] = rowState[k]
          \/ rowState[k] # "absent" /\ rowState'[k] = "unknown_blocking"
          \/ rowState[k] = "reserved" /\ sentinel[k] = "free" /\ rowState'[k] = "absent"
      BY <2>1, <1>1, <1>4, AdmissionFrame DEF st
    <3>2. QED
      BY <2>1, <3>1, <1>6, <1>7, <1>9, OthersUndisturbed
  <2>2. CASE k = l
    <3>1. request'[l] = "none"
      BY <1>1, <1>6 DEF PhaseOK
    <3>2. QED
      BY <2>2, <3>1, <1>7, <1>11 DEF PhaseOK
  <2>3. QED
    BY <2>1, <2>2
<1>13. QED
  BY <1>1, <1>8, <1>10, <1>12 DEF PhaseInv, NeverQuarantined

\* A rolled-back admission: only locks of dead owners change hands.
LEMMA AdmitRolledBack ==
    ASSUME RunInv, NEW l \in Leases, AdmitFailed(l)
    PROVE  RunTypeOK' /\ PhaseInv' /\ NeverQuarantined'
<1>1. /\ run[l] \in RunRecords /\ PhaseOK(l) /\ pc[l] = "admit"
      /\ RunTypeOK /\ ~quarantine
  BY DEF RunInv, RunTypeOK, PhaseInv, AdmitFailed, NeverQuarantined
<1>2. PICK e \in {"adaptive_preview_blocked", "adaptive_preview_invalid",
                  "lease_store_failed"}, dead \in SUBSET Leases :
        /\ AcquireRolledBack(l, dead)
        /\ Blocked(l, [run[l] EXCEPT !.error = e],
                   IF e = "adaptive_preview_invalid" THEN "precondition_failed"
                   ELSE "adaptive_admission_blocked")
  BY Zenon DEF AdmitFailed
<1> DEFINE r == [run[l] EXCEPT !.error = e]
           why == IF e = "adaptive_preview_invalid" THEN "precondition_failed"
                  ELSE "adaptive_admission_blocked"
<1>3. r \in RunRecords /\ why \in ReasonCodes
  BY <1>1, <1>2 DEF RunRecords, LeaseErrors, ReasonCodes
<1>4. Blocked(l, r, why)
  BY <1>2
<1> HIDE DEF r, why
<1>5. /\ pc' = [pc EXCEPT ![l] = "done"]
      /\ run' \in [Leases -> RunRecords]
      /\ \A k \in Leases : k # l => run'[k] = run[k]
  BY <1>1, <1>3, <1>4, BlockedTypes
<1>6. /\ UNCHANGED <<rowState, rowClaim, quarantine, handle, request, binding, models>>
      /\ sentinel' \in [Leases -> {"free", "owner", "prober"}]
  BY <1>1, <1>2 DEF AcquireRolledBack, AdmitFailed, store, worldVars, RunTypeOK, LeaseTypeOK
<1>7. RunTypeOK'
  BY <1>1, <1>5, <1>6 DEF RunTypeOK, LeaseTypeOK, Phases
<1>8. ASSUME NEW k \in Leases PROVE PhaseOK(k)'
  <2>1. CASE k # l
    BY <2>1, <1>1, <1>5, <1>6, OthersUndisturbed DEF RunTypeOK
  <2>2. CASE k = l
    BY <2>2, <1>1, <1>5, <1>6 DEF PhaseOK, RunTypeOK
  <2>3. QED
    BY <2>1, <2>2
<1>9. QED
  BY <1>1, <1>6, <1>7, <1>8 DEF PhaseInv, NeverQuarantined

\* settle_lease: the row is there, so an ambiguous delivery never closes the domain,
\* and a request that may be running is never released.
LEMMA SettleSteps ==
    ASSUME RunInv, NEW l \in Leases, SettleLease(l) \/ SettleFailed(l)
    PROVE  RunTypeOK' /\ PhaseInv' /\ NeverQuarantined'
<1>1. /\ run[l] \in RunRecords /\ PhaseOK(l) /\ pc[l] = "settle" /\ LeaseInv
      /\ RunTypeOK /\ ~quarantine /\ rowState[l] # "absent"
      /\ run[l].delivery \in DeliveryStatuses
  BY DEF RunInv, RunTypeOK, PhaseInv, PhaseOK, SettleLease, SettleFailed,
     NeverQuarantined, RunRecords
<1> DEFINE d == run[l].delivery
           st == ReleaseStatus(l, d)
           settled(cleaned) == [run[l] EXCEPT !.release =
                                  IF st = "released" /\ ~cleaned
                                  THEN "released_cleanup_deferred" ELSE st]
<1>2. \/ \E ok \in BOOLEAN : Release(l, d, ok) /\ Settled(l, settled(ok))
      \/ (Release(l, d, FALSE) \/ UNCHANGED leaseVars) /\ Settled(l, run[l])
  BY Zenon DEF SettleLease, SettleFailed
<1>3. st \in ReleaseStatuses
  BY <1>1 DEF ReleaseStatus, ReleaseStatuses
<1>4. \A ok \in BOOLEAN : settled(ok) \in RunRecords
  <2> HIDE DEF st
  <2> QED
    BY <1>1, <1>3 DEF RunRecords, ReleaseStatuses
<1>5. PICK r \in RunRecords, ok \in BOOLEAN :
        Settled(l, r) /\ (Release(l, d, ok) \/ UNCHANGED leaseVars)
  <2> HIDE DEF settled, d
  <2> QED
    BY <1>1, <1>2, <1>4, Zenon
<1>6. /\ pc' \in [Leases -> Phases] /\ pc'[l] \in {"done", "reprobe"}
      /\ run' \in [Leases -> RunRecords]
      /\ \A k \in Leases : k # l => pc'[k] = pc[k] /\ run'[k] = run[k]
  BY <1>1, <1>5, SettledTypes
<1>7. UNCHANGED <<request, binding, models>>
  BY DEF SettleLease, SettleFailed, worldVars
<1>8. /\ rowState' \in [Leases -> RowStates \cup {"absent"}]
      /\ rowClaim' \in [Leases -> Claims \cup {None}]
      /\ sentinel' \in [Leases -> {"free", "owner", "prober"}]
      /\ handle' = handle
      /\ quarantine' = quarantine
      /\ \A k \in Leases : k # l => rowState'[k] = rowState[k]
      /\ \/ rowState'[l] \in {rowState[l], "unknown_blocking"}
         \/ KnownOutcome(l, d)
  <2>1. CASE Release(l, d, ok)
    <3>1. /\ rowState' \in [Leases -> RowStates \cup {"absent"}]
          /\ rowClaim' \in [Leases -> Claims \cup {None}]
          /\ \A k \in Leases : k # l => rowState'[k] = rowState[k]
          /\ \/ rowState'[l] \in {rowState[l], "unknown_blocking"}
             \/ KnownOutcome(l, d)
      BY <2>1, <1>1, ReleaseRow
    <3>2. /\ sentinel' \in [Leases -> {"free", "owner", "prober"}]
          /\ handle' = handle /\ quarantine' = quarantine
      BY <2>1, <1>1 DEF Release, RunTypeOK, LeaseTypeOK
    <3>3. QED
      BY <3>1, <3>2
  <2>2. CASE UNCHANGED leaseVars
    BY <2>2, <1>1 DEF leaseVars, RunTypeOK, LeaseTypeOK
  <2>3. QED
    BY <1>5, <2>1, <2>2
<1>9. RunTypeOK'
  BY <1>1, <1>6, <1>7, <1>8 DEF RunTypeOK, LeaseTypeOK
<1>10. ASSUME NEW k \in Leases PROVE PhaseOK(k)'
  <2>1. CASE k # l
    BY <2>1, <1>6, <1>7, <1>8, OthersUndisturbed
  <2>2. CASE k = l
    <3>1. KnownOutcome(l, d) => request[l] # "running"
      BY <1>1 DEF PhaseOK, KnownOutcome
    <3>2. QED
      BY <2>2, <3>1, <1>1, <1>6, <1>7, <1>8 DEF PhaseOK
  <2>3. QED
    BY <2>1, <2>2
<1>11. QED
  BY <1>1, <1>8, <1>9, <1>10 DEF PhaseInv, NeverQuarantined

\* A process ends or crashes, a prober drops its locks, the server finishes, the
\* world changes: no row changes.
LEMMA EnvironmentSteps ==
    ASSUME RunInv,
           \/ \E l \in Leases : Exit(l) \/ Crash(l) \/ DropProbeLock(l) \/ ServerFinishes(l)
           \/ WorldChanges \/ UNCHANGED runVars
    PROVE  RunTypeOK' /\ PhaseInv' /\ NeverQuarantined'
<1>1. RunTypeOK /\ ~quarantine
  BY DEF RunInv, NeverQuarantined
<1>2. UNCHANGED <<rowState, rowClaim, quarantine>>
  BY DEF Exit, Crash, ProcessEnds, OwnerExit, DropProbeLock, ReleaseProbeLock,
     ServerFinishes, WorldChanges, runVars, leaseVars, store
<1>3. ASSUME NEW l \in Leases, Exit(l) \/ Crash(l)
      PROVE  RunTypeOK' /\ PhaseInv'
  <2>1. FreshRun \in RunRecords
    BY DEF FreshRun, RunRecords, DeliveryStatuses
  <2>2. GoTo(l, "idle", FreshRun)
    BY <1>3 DEF Exit, Crash, ProcessEnds
  <2>3. /\ pc' \in [Leases -> Phases] /\ run' \in [Leases -> RunRecords]
        /\ pc'[l] = "idle"
        /\ \A k \in Leases : k # l => pc'[k] = pc[k] /\ run'[k] = run[k]
    BY <2>1, <2>2, <1>1, GoToTypes DEF Phases
  <2>4. /\ UNCHANGED <<request, binding, models>>
        /\ sentinel' \in [Leases -> {"free", "owner", "prober"}]
        /\ handle' \in [Leases -> {"none", "live"}]
        /\ \A k \in Leases : k # l => handle'[k] = handle[k]
    BY <1>1, <1>3 DEF Exit, Crash, ProcessEnds, OwnerExit, leaseVars, worldVars, RunTypeOK,
       LeaseTypeOK
  <2>5. RunTypeOK'
    BY <1>1, <1>2, <2>3, <2>4 DEF RunTypeOK, LeaseTypeOK
  <2>6. ASSUME NEW k \in Leases PROVE PhaseOK(k)'
    <3>1. CASE k # l
      BY <3>1, <1>2, <2>3, <2>4, OthersUndisturbed
    <3>2. CASE k = l
      BY <3>2, <1>2, <2>3, <2>4 DEF RunInv, PhaseInv, PhaseOK
    <3>3. QED
      BY <3>1, <3>2
  <2>7. QED
    BY <2>5, <2>6 DEF PhaseInv
<1>4. ASSUME NEW l \in Leases, ServerFinishes(l)
      PROVE  RunTypeOK' /\ PhaseInv'
  <2>1. /\ request[l] = "running" /\ request' = [request EXCEPT ![l] = "done"]
        /\ UNCHANGED <<pc, run, sentinel, handle, binding, models>>
    BY <1>4 DEF ServerFinishes, leaseVars, worldVars
  <2>2. RunTypeOK'
    BY <1>1, <1>2, <2>1 DEF RunTypeOK, LeaseTypeOK
  <2>3. ASSUME NEW k \in Leases PROVE PhaseOK(k)'
    BY <1>1, <1>2, <2>1 DEF RunInv, PhaseInv, PhaseOK, RunTypeOK
  <2>4. QED
    BY <2>2, <2>3 DEF PhaseInv
<1>5. ASSUME \/ \E l \in Leases : DropProbeLock(l)
             \/ WorldChanges \/ UNCHANGED runVars
      PROVE  RunTypeOK' /\ PhaseInv'
  <2>1. /\ UNCHANGED <<pc, run, request, handle>>
        /\ sentinel' \in [Leases -> {"free", "owner", "prober"}]
        /\ binding' \in Bindings /\ models' \in ModelSets
    BY <1>1, <1>5 DEF DropProbeLock, ReleaseProbeLock, WorldChanges, runVars, leaseVars,
       worldVars, RunTypeOK, LeaseTypeOK
  <2>2. RunTypeOK'
    BY <1>1, <1>2, <2>1 DEF RunTypeOK, LeaseTypeOK
  <2>3. PhaseInv'
    BY <1>2, <2>1 DEF RunInv, PhaseInv, PhaseOK
  <2>4. QED
    BY <2>2, <2>3
<1>6. RunTypeOK' /\ PhaseInv'
  BY <1>3, <1>4, <1>5
<1>7. QED
  BY <1>1, <1>2, <1>6 DEF NeverQuarantined

\* RunInv is inductive.
LEMMA RunInvStep == RunInv /\ [RunNext]_runVars => RunInv'
<1> SUFFICES ASSUME RunInv, [RunNext]_runVars PROVE RunInv'
  OBVIOUS
<1>1. LeaseInv'
  BY RunStepIsLeaseStep, LeaseInvStep DEF RunInv
<1>2. RunTypeOK' /\ PhaseInv' /\ NeverQuarantined'
  <2>1. ASSUME NEW l \in Leases, Begin(l) \/ RunStep(l) \/ Crash(l)
                                   \/ DropProbeLock(l) \/ ServerFinishes(l)
        PROVE  RunTypeOK' /\ PhaseInv' /\ NeverQuarantined'
    BY <2>1, QuietStep, WaitingSteps, PostStep, ArmSteps, AdmitCommitted, AdmitRolledBack,
       SettleSteps, EnvironmentSteps, Zenon DEF RunStep
  <2>2. QED
    BY <2>1, EnvironmentSteps, Zenon DEF RunNext
<1>3. QED
  BY <1>1, <1>2 DEF RunInv

\* A run records an abandoned inference as long as the server may work on it.
LEMMA AbandonedStep ==
    ASSUME RunInv, [RunNext]_runVars, NEW k \in Leases, NEW l \in Leases,
           rowState[k] = "absent", rowState'[k] = "reserved", request[l] = "running"
    PROVE  rowState'[l] = "delivery_armed" /\ sentinel[l] # "free"
<1>0. LeaseInv /\ rowState[l] \in {"delivery_armed", "unknown_blocking"} /\ LeaseTypeOK
  BY DEF RunInv, PhaseInv, PhaseOK, LeaseInv
<1>1. [LeaseNext]_leaseVars
  BY RunStepIsLeaseStep DEF RunInv
<1>2. PICK m \in Leases, c \in Claims, p \in Probes :
        FreshId(m) /\ CommitAdmission(m, c, Scanned(p), AdmissionStatus(c, Scanned(p)))
  <2>1. ASSUME NEW m \in Leases, AcquireRolledBack(m, {}) \/ ReleaseProbeLock(m)
                                   \/ ArmDelivery(m) \/ OwnerExit(m)
        PROVE  rowState'[k] # "reserved" \/ rowState[k] # "absent"
    BY <2>1, <1>0 DEF AcquireRolledBack, ReleaseProbeLock, ArmDelivery, ArmApplies, OwnerExit,
       store, LeaseTypeOK
  <2>2. ASSUME NEW m \in Leases, NEW dead \in SUBSET Leases, AcquireRolledBack(m, dead)
        PROVE  rowState'[k] # "reserved" \/ rowState[k] # "absent"
    BY <2>2 DEF AcquireRolledBack, store
  <2>3. ASSUME NEW m \in Leases, NEW d \in DeliveryStatuses, NEW ok \in BOOLEAN,
               Release(m, d, ok)
        PROVE  rowState'[k] # "reserved" \/ rowState[k] # "absent"
    BY <2>3, <1>0, ReleaseRow
  <2>4. ~UNCHANGED leaseVars
    BY DEF leaseVars
  <2>5. \E m \in Leases, c \in Claims, p \in Probes :
          EvaluateAndAcquire(m, c, p) \/ AcquireThenInterrupted(m, c, p)
    BY <1>1, <2>1, <2>2, <2>3, <2>4, Zenon DEF LeaseNext
  <2>6. QED
    BY <2>5, Zenon DEF EvaluateAndAcquire, AcquireThenInterrupted
<1>3. Scanned(p) \in [Leases -> RowStates \cup {"absent"}]
  BY <1>0, ScanTypes
<1>4. k = m /\ AdmissionStatus(c, Scanned(p)) = "acquired"
  <2>1. Scanned(p)[k] = "absent"
    BY <1>0, ScanRow
  <2>2. QED
    BY <1>2, <1>3, <2>1 DEF CommitAdmission
<1>5. Scanned(p)[l] # "unknown_blocking"
  BY <1>4, AcquiredMeans DEF OwnershipUnknown
<1>6. l # m
  BY <1>0, <1>2 DEF FreshId
<1>7. rowState'[l] = Scanned(p)[l]
  BY <1>2, <1>3, <1>6 DEF CommitAdmission
<1>8. l \in Probed /\ p[l] = "active" /\ rowState[l] = "delivery_armed"
  <2>1. rowState[l] = "delivery_armed"
    BY <1>0, <1>5, ScanRow
  <2>2. QED
    BY <2>1, <1>5 DEF Scanned, Probed
<1>9. sentinel[l] # "free"
  BY <1>8, Zenon DEF Probes, ProbeOutcomes
<1>10. QED
  BY <1>7, <1>8, <1>9 DEF Scanned

-----------------------------------------------------------------------------
\* GoTo writes the phase and the locals it is given, whatever they are.
LEMMA GoToExact ==
    ASSUME RunTypeOK, NEW l \in Leases, NEW ph, NEW r, GoTo(l, ph, r)
    PROVE  /\ pc'[l] = ph /\ run'[l] = r
           /\ \A k \in Leases : k # l => pc'[k] = pc[k] /\ run'[k] = run[k]
BY DEF GoTo, RunTypeOK

\* The evidence finish publishes of r.
FinishedAs(f, r, reasons, st) ==
    f = [r EXCEPT !.reasons = reasons,
                  !.status = IF st = "completed" /\ reasons # {} THEN "invalidated" ELSE st]

\* finish adds to the evidence at most the clock's reason code, and the status.
LEMMA FinishExact ==
    ASSUME RunTypeOK, NEW l \in Leases, NEW r \in RunRecords, NEW st, Finish(l, r, st)
    PROVE  /\ pc'[l] = "done"
           /\ \A k \in Leases : k # l => pc'[k] = pc[k] /\ run'[k] = run[k]
           /\ \E reasons : r.reasons \subseteq reasons /\ FinishedAs(run'[l], r, reasons, st)
<1>1. PICK ok \in BOOLEAN :
        LET reasons == r.reasons \cup (IF ok THEN {} ELSE {"clock_invalid"})
        IN  GoTo(l, "done", [r EXCEPT !.reasons = reasons,
                                      !.status = IF st = "completed" /\ reasons # {}
                                                 THEN "invalidated" ELSE st])
  BY Zenon DEF Finish
<1> DEFINE rs == r.reasons \cup (IF ok THEN {} ELSE {"clock_invalid"})
           fin == [r EXCEPT !.reasons = rs,
                            !.status = IF st = "completed" /\ rs # {}
                                       THEN "invalidated" ELSE st]
<1>2. GoTo(l, "done", fin) /\ r.reasons \subseteq rs
  BY <1>1
<1> HIDE DEF rs
<1> HIDE DEF fin
<1>3. /\ pc'[l] = "done" /\ run'[l] = fin
      /\ \A k \in Leases : k # l => pc'[k] = pc[k] /\ run'[k] = run[k]
  BY <1>2, GoToExact
<1>4. FinishedAs(run'[l], r, rs, st)
  BY <1>3 DEF fin, FinishedAs
<1>5. QED
  BY <1>2, <1>3, <1>4, Zenon

\* The evidence of a run that ends before its request was sent.
Blockable(r) ==
    /\ r.attempts = 0 /\ r.delivery = "not_attempted"
    /\ \/ /\ r.claim = FALSE /\ r.admission = None /\ r.transition = None /\ r.release = None
          /\ r.error \in {"adaptive_preview_blocked", "adaptive_preview_invalid",
                          "lease_store_failed", None}
       \/ /\ r.claim = TRUE /\ r.admission \in {"denied", "unknown_blocking"}
          /\ r.transition = None /\ r.release = None /\ r.error = None
          /\ "adaptive_admission_blocked" \in r.reasons
       \/ Admitted(r) /\ Undelivered(r) /\ Discharged(r)

\* LineageContract by the case of its lease that applies.
EarlyErrors == {"adaptive_preview_blocked", "adaptive_preview_invalid", "lease_store_failed"}

LEMMA LineageUnclaimed ==
    ASSUME NEW r, r.claim = FALSE,
           r.admission = None, r.transition = None, r.release = None,
           r.status = "blocked", r.attempts = 0, r.delivery = "not_attempted",
           r.error \in EarlyErrors \cup {None}
    PROVE  LineageContract(r)
BY DEF LineageContract, EarlyErrors

LEMMA LineageRefused ==
    ASSUME NEW r, r.claim = TRUE, r.admission \in {"denied", "unknown_blocking"},
           r.transition = None, r.release = None, r.status = "blocked", r.attempts = 0,
           r.delivery = "not_attempted", r.error = None,
           "adaptive_admission_blocked" \in r.reasons
    PROVE  LineageContract(r)
<1>1. r.admission # None /\ r.admission # "acquired"
  BY EvidenceAssumption
<1>2. QED
  BY <1>1 DEF LineageContract

LEMMA LineageAcquired ==
    ASSUME NEW r, r.claim = TRUE, r.admission = "acquired", r.error \notin EarlyErrors,
           r.attempts = 1 <=> r.transition = "applied",
           r.error = None => r.release # None,
           r.error = "lease_transition_failed" => r.attempts = 0,
           IF r.error = "lease_release_failed" THEN r.release # "released"
           ELSE \/ r.release \in {None, "released", "released_cleanup_deferred"}
                \/ r.release = "unknown_blocking" /\ r.delivery = "attempted_unknown"
    PROVE  LineageContract(r)
<1>1. r.admission # None /\ r.admission \notin {"denied", "unknown_blocking"}
  BY EvidenceAssumption
<1>2. QED
  BY <1>1 DEF LineageContract, EarlyErrors

\* The settled evidence of an acquired lease.
LEMMA LineageSettled ==
    ASSUME NEW r \in RunRecords, Admitted(r), Discharged(r),
           \/ Undelivered(r)
           \/ Delivered(r) /\ r.error # "lease_transition_failed"
    PROVE  LineageContract(r)
<1>1. r.claim = TRUE /\ r.admission = "acquired"
  BY DEF Admitted
<1>2. r.attempts = 1 <=> r.transition = "applied"
  BY DEF Undelivered, Delivered
<1>3. /\ r.error \notin EarlyErrors
      /\ r.error = None => r.release # None
      /\ r.error = "lease_release_failed" => r.release # "released"
      /\ r.error # "lease_release_failed" =>
           \/ r.release \in {None, "released", "released_cleanup_deferred"}
           \/ r.release = "unknown_blocking" /\ r.delivery = "attempted_unknown"
  BY EvidenceAssumption DEF Discharged, ExpectedRelease, EarlyErrors, LeaseErrors, ReleaseStatuses
<1>4. r.error = "lease_transition_failed" => r.attempts = 0
  BY DEF Undelivered, Delivered
<1>5. QED
  BY <1>1, <1>2, <1>3, <1>4, LineageAcquired

\* A receipt and an envelope can be built of it.
LEMMA BlockedReported ==
    ASSUME RunTypeOK, NEW l \in Leases, NEW r \in RunRecords, Finish(l, r, "blocked"),
           Blockable(r), r.reasons # {}, request'[l] = "none"
    PROVE  EvidenceOK(l)'
<1>1. PICK reasons : r.reasons \subseteq reasons /\ FinishedAs(run'[l], r, reasons, "blocked")
  BY FinishExact
<1> DEFINE f == [r EXCEPT !.reasons = reasons, !.status = "blocked"]
<1>2. /\ f.status = "blocked" /\ f.reasons = reasons /\ f.attempts = r.attempts
      /\ f.delivery = r.delivery /\ f.claim = r.claim /\ f.admission = r.admission
      /\ f.transition = r.transition /\ f.release = r.release /\ f.error = r.error
      /\ f.binding = r.binding
  BY DEF RunRecords
<1>3. run'[l] = f /\ pc'[l] = "done"
  BY <1>1, FinishExact DEF FinishedAs
<1>4. f.reasons # {} /\ r.reasons \subseteq f.reasons
  BY <1>1, <1>2
<1>5. f \in RunRecords
  BY <1>3, FinishTypes
<1> HIDE DEF f
<1>6. ReceiptContract(f)
  BY <1>2, <1>4 DEF ReceiptContract, Blockable
<1>7. LineageContract(f)
  <2>1. CASE r.claim = FALSE
    <3>1. /\ r.admission = None /\ r.transition = None /\ r.release = None
          /\ r.attempts = 0 /\ r.delivery = "not_attempted"
          /\ r.error \in EarlyErrors \cup {None}
      BY <2>1 DEF Blockable, Admitted, EarlyErrors
    <3>2. QED
      BY <1>2, <2>1, <3>1, LineageUnclaimed
  <2>2. CASE r.claim = TRUE /\ r.admission \in {"denied", "unknown_blocking"}
    <3>1. /\ r.transition = None /\ r.release = None /\ r.error = None
          /\ r.attempts = 0 /\ r.delivery = "not_attempted"
          /\ "adaptive_admission_blocked" \in r.reasons
      BY <2>2 DEF Blockable, Admitted
    <3>2. QED
      BY <1>2, <1>4, <2>2, <3>1, LineageRefused
  <2>3. CASE Admitted(r) /\ Undelivered(r) /\ Discharged(r)
    <3>1. Admitted(f) /\ Undelivered(f) /\ Discharged(f)
      BY <1>2, <1>4, <2>3 DEF Admitted, Undelivered, Discharged
    <3>2. QED
      BY <1>5, <3>1, LineageSettled
  <2>4. QED
    BY <2>1, <2>2, <2>3 DEF Blockable
<1>8. QED
  BY <1>2, <1>3, <1>6, <1>7 DEF EvidenceOK

LEMMA BlockedWith ==
    ASSUME RunTypeOK, NEW l \in Leases, NEW r \in RunRecords, NEW why \in ReasonCodes,
           Blocked(l, r, why), request'[l] = "none",
           Blockable([r EXCEPT !.reasons = @ \cup {why}])
    PROVE  EvidenceOK(l)'
<1> DEFINE b == [r EXCEPT !.reasons = @ \cup {why}]
<1>1. b \in RunRecords /\ b.reasons # {}
  BY DEF RunRecords
<1>2. Finish(l, b, "blocked") /\ Blockable(b)
  BY DEF Blocked
<1> HIDE DEF b
<1>3. QED
  BY <1>1, <1>2, BlockedReported

\* The verdict of a run whose request was sent.
LEMMA VerdictReported ==
    ASSUME RunTypeOK, NEW l \in Leases, NEW r \in RunRecords,
           NEW st \in {"completed", "failed", "invalidated"}, Finish(l, r, st),
           Admitted(r), Delivered(r), Discharged(r), r.error # "lease_transition_failed",
           st # "completed" => r.reasons # {},
           r.delivery = "response_received" => request'[l] = "done",
           r.delivery = "response_received" /\ r.error = None => rowState'[l] = "absent"
    PROVE  EvidenceOK(l)'
<1>1. PICK reasons : r.reasons \subseteq reasons /\ FinishedAs(run'[l], r, reasons, st)
  BY FinishExact
<1> DEFINE v == IF st = "completed" /\ reasons # {} THEN "invalidated" ELSE st
           f == [r EXCEPT !.reasons = reasons, !.status = v]
<1>2. v \in {"completed", "failed", "invalidated"} /\ (v = "completed" <=> reasons = {})
  BY <1>1
<1>3. run'[l] = f /\ pc'[l] = "done"
  BY <1>1, FinishExact DEF FinishedAs
<1> HIDE DEF v
<1>4. /\ f.status = v /\ f.reasons = reasons /\ f.attempts = r.attempts
      /\ f.delivery = r.delivery /\ f.claim = r.claim /\ f.admission = r.admission
      /\ f.transition = r.transition /\ f.release = r.release /\ f.error = r.error
      /\ f.binding = r.binding /\ f.models = r.models
  BY DEF RunRecords
<1>5. f \in RunRecords
  BY <1>3, FinishTypes
<1> HIDE DEF f
<1>6. Admitted(f) /\ Delivered(f) /\ Discharged(f) /\ f.error # "lease_transition_failed"
  BY <1>1, <1>4 DEF Admitted, Delivered, Discharged
<1>7. ReceiptContract(f)
  BY <1>2, <1>4, <1>6 DEF ReceiptContract, Admitted, Delivered
<1>8. LineageContract(f)
  BY <1>5, <1>6, LineageSettled
<1>9. f.status = "completed" => request'[l] = "done" /\ rowState'[l] = "absent"
  BY <1>1, <1>2, <1>4 DEF Delivered, Discharged
<1>10. QED
  BY <1>2, <1>4, <1>3, <1>7, <1>8, <1>9 DEF EvidenceOK

-----------------------------------------------------------------------------
\* The steps before the admission, and the admission's failures.
LEMMA EarlyEvidence ==
    ASSUME RunInv, EvidenceInv, NEW l \in Leases,
           Begin(l) \/ ResolveTarget(l) \/ RecheckTarget(l) \/ AdmitFailed(l)
    PROVE  EvidenceOK(l)'
<1>1. RunTypeOK /\ run[l] \in RunRecords /\ binding \in Bindings /\ EvidenceOK(l)
  BY DEF RunInv, RunTypeOK, EvidenceInv
<1>2. CASE Begin(l)
  <2>1. pc'[l] = "resolve" /\ run'[l] = FreshRun
    BY <1>1, <1>2, GoToExact DEF Begin
  <2>2. Untouched(FreshRun)
    BY DEF Untouched, FreshRun
  <2>3. QED
    BY <2>1, <2>2 DEF EvidenceOK
<1>3. ASSUME pc[l] \in {"resolve", "recheck", "admit"}, request' = request
      PROVE  Untouched(run[l]) /\ request'[l] = "none"
  BY <1>1, <1>3 DEF EvidenceOK, RunInv, PhaseInv, PhaseOK
<1>4. CASE ResolveTarget(l)
  <2> DEFINE r == [run[l] EXCEPT !.binding = binding]
             e == [run[l] EXCEPT !.binding = binding, !.error = "lease_store_failed"]
  <2>1. Untouched(run[l]) /\ request'[l] = "none"
    BY <1>3, <1>4 DEF ResolveTarget
  <2>2. /\ r \in RunRecords /\ e \in RunRecords
        /\ Untouched(r) /\ r.binding # None
    BY <1>1, <2>1, WorldAssumption DEF RunRecords, LeaseErrors, Untouched
  <2>3. /\ Blockable([run[l] EXCEPT !.reasons = @ \cup {"precondition_failed"}])
        /\ Blockable([e EXCEPT !.reasons = @ \cup {"adaptive_admission_blocked"}])
    BY <1>1, <2>1 DEF RunRecords, Untouched, Blockable
  <2>4. \/ GoTo(l, "recheck", r)
        \/ Blocked(l, run[l], "precondition_failed")
        \/ Blocked(l, e, "adaptive_admission_blocked")
    BY <1>4 DEF ResolveTarget
  <2> HIDE DEF r, e
  <2>5. CASE GoTo(l, "recheck", r)
    <3>1. pc'[l] = "recheck" /\ run'[l] = r
      BY <1>1, <2>5, GoToExact
    <3>2. QED
      BY <2>2, <3>1 DEF EvidenceOK
  <2>6. QED
    BY <1>1, <2>1, <2>2, <2>3, <2>4, <2>5, BlockedWith DEF ReasonCodes
<1>5. CASE RecheckTarget(l)
  <2>1. Untouched(run[l]) /\ request'[l] = "none" /\ run[l].binding # None
    BY <1>1, <1>3, <1>5 DEF RecheckTarget, EvidenceOK
  <2>2. Blockable([run[l] EXCEPT !.reasons = @ \cup {"precondition_failed"}])
    BY <1>1, <2>1 DEF RunRecords, Untouched, Blockable
  <2>3. CASE GoTo(l, "admit", run[l])
    <3>1. pc'[l] = "admit" /\ run'[l] = run[l]
      BY <1>1, <2>3, GoToExact
    <3>2. QED
      BY <2>1, <3>1 DEF EvidenceOK
  <2>4. QED
    BY <1>1, <1>5, <2>1, <2>2, <2>3, BlockedWith DEF RecheckTarget, ReasonCodes
<1>6. CASE AdmitFailed(l)
  <2>1. PICK e \in {"adaptive_preview_blocked", "adaptive_preview_invalid",
                    "lease_store_failed"}, dead \in SUBSET Leases :
          Blocked(l, [run[l] EXCEPT !.error = e],
                  IF e = "adaptive_preview_invalid" THEN "precondition_failed"
                  ELSE "adaptive_admission_blocked")
    BY <1>6, Zenon DEF AdmitFailed
  <2> DEFINE r == [run[l] EXCEPT !.error = e]
             why == IF e = "adaptive_preview_invalid" THEN "precondition_failed"
                    ELSE "adaptive_admission_blocked"
  <2>2. Untouched(run[l]) /\ request'[l] = "none"
    BY <1>3, <1>6 DEF AdmitFailed
  <2>3. why \in ReasonCodes /\ Blocked(l, r, why)
    BY <2>1 DEF ReasonCodes
  <2> HIDE DEF why
  <2>4. r \in RunRecords /\ Blockable([r EXCEPT !.reasons = @ \cup {why}])
    BY <1>1, <2>1, <2>2 DEF RunRecords, LeaseErrors, Untouched, Blockable
  <2> HIDE DEF r
  <2>5. QED
    BY <1>1, <2>2, <2>3, <2>4, BlockedWith
<1>7. QED
  BY <1>2, <1>4, <1>5, <1>6

\* An admission that was committed: acquired, refused, or lost to an interrupt.
LEMMA AdmissionEvidence ==
    ASSUME RunInv, EvidenceInv, NEW l \in Leases, AdmitRun(l) \/ AdmitInterrupted(l)
    PROVE  EvidenceOK(l)'
<1>1. /\ RunTypeOK /\ run[l] \in RunRecords /\ Untouched(run[l]) /\ run[l].binding # None
      /\ request'[l] = "none"
  BY DEF RunInv, RunTypeOK, EvidenceInv, EvidenceOK, AdmitRun, AdmitInterrupted, PhaseInv,
     PhaseOK
<1>2. PICK c \in Claims, p \in Probes :
        \/ IF AdmissionStatus(c, Scanned(p)) = "acquired"
           THEN GoTo(l, "probe", [run[l] EXCEPT !.claim = TRUE,
                                    !.admission = AdmissionStatus(c, Scanned(p))])
           ELSE Blocked(l, [run[l] EXCEPT !.claim = TRUE,
                              !.admission = AdmissionStatus(c, Scanned(p))],
                        "adaptive_admission_blocked")
        \/ Blocked(l, [run[l] EXCEPT !.error = "lease_store_failed"],
                   "adaptive_admission_blocked")
  BY Zenon DEF AdmitRun, AdmitInterrupted
<1> DEFINE st == AdmissionStatus(c, Scanned(p))
           a == [run[l] EXCEPT !.claim = TRUE, !.admission = st]
           b == [run[l] EXCEPT !.error = "lease_store_failed"]
<1>3. st \in {"acquired", "denied", "unknown_blocking"}
  BY DEF AdmissionStatus
<1>4. \/ st = "acquired" /\ GoTo(l, "probe", a)
      \/ st # "acquired" /\ Blocked(l, a, "adaptive_admission_blocked")
      \/ Blocked(l, b, "adaptive_admission_blocked")
  BY <1>2
<1> HIDE DEF st
<1>5. a \in RunRecords /\ b \in RunRecords
  BY <1>1, <1>3 DEF RunRecords, LeaseErrors
<1>6. /\ st # "acquired" => Blockable([a EXCEPT !.reasons = @ \cup {"adaptive_admission_blocked"}])
      /\ Blockable([b EXCEPT !.reasons = @ \cup {"adaptive_admission_blocked"}])
  BY <1>1, <1>3 DEF RunRecords, Untouched, Blockable
<1>7. CASE st = "acquired" /\ GoTo(l, "probe", a)
  <2>1. /\ Admitted(a) /\ a.attempts = 0 /\ a.delivery = "not_attempted"
        /\ a.release = None /\ a.error = None /\ a.reasons = {} /\ a.transition = None
    BY <1>1, <1>7 DEF RunRecords, Untouched, Admitted
  <2> HIDE DEF a
  <2>2. pc'[l] = "probe" /\ run'[l] = a
    BY <1>1, <1>7, GoToExact
  <2>3. QED
    BY <2>1, <2>2 DEF EvidenceOK
<1> HIDE DEF a, b
<1>8. QED
  BY <1>1, <1>4, <1>5, <1>6, <1>7, BlockedWith DEF ReasonCodes

\* From the model probe to the end of the wait for the answer.
LEMMA DeliveryEvidence ==
    ASSUME RunInv, EvidenceInv, NEW l \in Leases,
           \/ ProbeModels(l) \/ ArmRun(l) \/ ArmFailed(l) \/ PostTask(l)
           \/ ReceiveResponse(l) \/ DeliveryUnknown(l)
    PROVE  EvidenceOK(l)'
<1>1. RunTypeOK /\ run[l] \in RunRecords /\ models \in ModelSets /\ EvidenceOK(l)
  BY DEF RunInv, RunTypeOK, EvidenceInv
<1>2. CASE ProbeModels(l)
  <2> DEFINE a == [run[l] EXCEPT !.models = models]
             f == [run[l] EXCEPT !.reasons = @ \cup {"model_probe_failed"}]
  <2>1. /\ Admitted(run[l]) /\ run[l].attempts = 0 /\ run[l].delivery = "not_attempted"
        /\ run[l].release = None /\ run[l].error = None /\ run[l].reasons = {}
        /\ run[l].transition = None
    BY <1>1, <1>2 DEF ProbeModels, EvidenceOK
  <2>2. /\ Admitted(a) /\ a.attempts = 0 /\ a.delivery = "not_attempted"
        /\ a.release = None /\ a.error = None /\ a.reasons = {} /\ a.transition = None
        /\ a.models # None
    BY <1>1, <2>1, WorldAssumption DEF RunRecords, Admitted
  <2>3. /\ Admitted(f) /\ Undelivered(f) /\ f.release = None /\ f.error = None /\ f.reasons # {}
    BY <1>1, <2>1, EvidenceAssumption DEF RunRecords, Admitted, Undelivered
  <2>4. GoTo(l, "arm", a) \/ GoTo(l, "settle", f)
    BY <1>2 DEF ProbeModels
  <2> HIDE DEF a, f
  <2>5. \/ pc'[l] = "arm" /\ run'[l] = a
        \/ pc'[l] = "settle" /\ run'[l] = f
    BY <1>1, <2>4, GoToExact
  <2>6. QED
    BY <2>2, <2>3, <2>5 DEF EvidenceOK
<1>3. CASE ArmRun(l) \/ ArmFailed(l)
  <2> DEFINE posted == [run[l] EXCEPT !.transition = "applied"]
             refused == NotArmed([run[l] EXCEPT !.transition = "refused"])
             failed == NotArmed(run[l])
  <2>1. /\ Admitted(run[l]) /\ run[l].attempts = 0 /\ run[l].delivery = "not_attempted"
        /\ run[l].release = None /\ run[l].error = None /\ run[l].reasons = {}
        /\ run[l].transition = None /\ run[l].models # None
    BY <1>1, <1>3 DEF ArmRun, ArmFailed, EvidenceOK
  <2>2. /\ Admitted(posted) /\ posted.attempts = 0 /\ posted.delivery = "not_attempted"
        /\ posted.release = None /\ posted.error = None /\ posted.reasons = {}
        /\ posted.transition = "applied" /\ posted.models # None
    BY <1>1, <2>1 DEF RunRecords, Admitted
  <2>3. /\ Admitted(refused) /\ Undelivered(refused) /\ refused.release = None
        /\ refused.error = "lease_transition_failed" /\ refused.reasons # {}
    BY <1>1, <2>1 DEF RunRecords, Admitted, Undelivered, NotArmed
  <2>4. /\ Admitted(failed) /\ Undelivered(failed) /\ failed.release = None
        /\ failed.error = "lease_transition_failed" /\ failed.reasons # {}
    BY <1>1, <2>1, EvidenceAssumption DEF RunRecords, Admitted, Undelivered, NotArmed
  <2>5. GoTo(l, "post", posted) \/ GoTo(l, "settle", refused) \/ GoTo(l, "settle", failed)
    BY <1>3 DEF ArmRun, ArmFailed
  <2> HIDE DEF posted, refused, failed
  <2>6. \/ pc'[l] = "post" /\ run'[l] = posted
        \/ pc'[l] = "settle" /\ run'[l] \in {refused, failed}
    BY <1>1, <2>5, GoToExact
  <2>7. QED
    BY <2>2, <2>3, <2>4, <2>6 DEF EvidenceOK
<1>4. CASE PostTask(l)
  <2> DEFINE r == [run[l] EXCEPT !.attempts = 1, !.delivery = "attempted_unknown"]
  <2>1. /\ Admitted(run[l]) /\ run[l].release = None /\ run[l].error = None
        /\ run[l].transition = "applied" /\ run[l].models # None
    BY <1>1, <1>4 DEF PostTask, EvidenceOK
  <2>2. /\ Admitted(r) /\ r.attempts = 1 /\ r.delivery = "attempted_unknown"
        /\ r.transition = "applied" /\ r.models # None /\ r.release = None /\ r.error = None
    BY <1>1, <2>1 DEF RunRecords, Admitted
  <2>3. GoTo(l, "await", r)
    BY <1>4 DEF PostTask
  <2> HIDE DEF r
  <2>4. pc'[l] = "await" /\ run'[l] = r
    BY <1>1, <2>3, GoToExact
  <2>5. QED
    BY <2>2, <2>4 DEF EvidenceOK
<1>5. CASE ReceiveResponse(l) \/ DeliveryUnknown(l)
  <2>1. /\ Admitted(run[l]) /\ run[l].attempts = 1 /\ run[l].delivery = "attempted_unknown"
        /\ run[l].transition = "applied" /\ run[l].models # None
        /\ run[l].release = None /\ run[l].error = None
    BY <1>1, <1>5 DEF ReceiveResponse, DeliveryUnknown, EvidenceOK
  <2>2. ASSUME NEW r, pc'[l] = "settle", run'[l] = r, Admitted(r), Delivered(r),
               r.release = None, r.error = None
        PROVE  EvidenceOK(l)'
    BY <2>2 DEF EvidenceOK
  <2>3. CASE ReceiveResponse(l)
    <3>1. PICK bad \in SUBSET {"transport_failed"} :
            GoTo(l, "settle", [run[l] EXCEPT !.delivery = "response_received",
                                             !.reasons = @ \cup bad])
      BY <2>3, Zenon DEF ReceiveResponse
    <3> DEFINE r == [run[l] EXCEPT !.delivery = "response_received", !.reasons = @ \cup bad]
    <3>2. Admitted(r) /\ Delivered(r) /\ r.release = None /\ r.error = None
      BY <1>1, <2>1 DEF RunRecords, Admitted, Delivered
    <3>3. GoTo(l, "settle", r)
      BY <3>1
    <3> HIDE DEF r
    <3>4. pc'[l] = "settle" /\ run'[l] = r
      BY <1>1, <3>3, GoToExact
    <3>5. QED
      BY <2>2, <3>2, <3>4
  <2>4. CASE DeliveryUnknown(l)
    <3> DEFINE r == [run[l] EXCEPT !.reasons = @ \cup {"transport_failed"}]
    <3>1. Admitted(r) /\ Delivered(r) /\ r.release = None /\ r.error = None
      BY <1>1, <2>1 DEF RunRecords, Admitted, Delivered
    <3>2. GoTo(l, "settle", r)
      BY <2>4 DEF DeliveryUnknown
    <3> HIDE DEF r
    <3>3. pc'[l] = "settle" /\ run'[l] = r
      BY <1>1, <3>2, GoToExact
    <3>4. QED
      BY <2>2, <3>1, <3>3
  <2>5. QED
    BY <1>5, <2>3, <2>4
<1>6. QED
  BY <1>2, <1>3, <1>4, <1>5

\* settle_lease: what the receipt says of the release is what the store did.
LEMMA SettleEvidence ==
    ASSUME RunInv, EvidenceInv, NEW l \in Leases, SettleLease(l) \/ SettleFailed(l)
    PROVE  EvidenceOK(l)'
<1> DEFINE d == run[l].delivery
           st == ReleaseStatus(l, d)
           settled(cleaned) == [run[l] EXCEPT !.release =
                                  IF st = "released" /\ ~cleaned
                                  THEN "released_cleanup_deferred" ELSE st]
<1>1. /\ RunTypeOK /\ run[l] \in RunRecords /\ request' = request /\ pc[l] = "settle"
      /\ d \in DeliveryStatuses /\ rowState \in [Leases -> RowStates \cup {"absent"}]
      /\ PhaseOK(l)
      /\ Admitted(run[l]) /\ run[l].release = None
      /\ \/ /\ Undelivered(run[l]) /\ run[l].reasons # {}
            /\ run[l].error \in {None, "lease_transition_failed"}
         \/ Delivered(run[l]) /\ run[l].error = None
  BY DEF RunInv, RunTypeOK, LeaseTypeOK, EvidenceInv, EvidenceOK, SettleLease, SettleFailed,
     PhaseInv, RunRecords
<1>2. /\ st \in ReleaseStatuses
      /\ st # "released_cleanup_deferred"
      /\ d = "attempted_unknown" => st # "released"
  <2>1. st \in {"released", "already_absent", "denied", "unknown_blocking"}
    BY <1>1 DEF ReleaseStatus
  <2>2. st = "released" => KnownOutcome(l, d)
    BY <1>1 DEF ReleaseStatus
  <2> HIDE DEF st
  <2>3. QED
    BY <2>1, <2>2 DEF ReleaseStatuses, KnownOutcome
<1>3. \A ok \in BOOLEAN : Release(l, d, ok) /\ st = "released" => rowState'[l] = "absent"
  BY <1>1 DEF Release
<1> HIDE DEF st
<1>4. PICK r \in RunRecords :
        /\ Settled(l, r)
        /\ \E x : r = [run[l] EXCEPT !.release = x]
        /\ r.release \in {"released", "released_cleanup_deferred"} => rowState'[l] = "absent"
        /\ d = "attempted_unknown" => r.release # "released"
  <2>1. CASE SettleLease(l)
    <3>1. PICK ok \in BOOLEAN : Release(l, d, ok) /\ Settled(l, settled(ok))
      BY <2>1, Zenon DEF SettleLease, st
    <3> DEFINE x == IF st = "released" /\ ~ok THEN "released_cleanup_deferred" ELSE st
               r == [run[l] EXCEPT !.release = x]
    <3>2. /\ x \in ReleaseStatuses
          /\ x \in {"released", "released_cleanup_deferred"} => st = "released"
          /\ d = "attempted_unknown" => x # "released"
      BY <1>2 DEF ReleaseStatuses
    <3>3. Settled(l, r)
      BY <3>1
    <3> HIDE DEF x
    <3>4. r \in RunRecords /\ r.release = x
      BY <1>1, <3>2 DEF RunRecords
    <3>5. r = [run[l] EXCEPT !.release = x]
      OBVIOUS
    <3> HIDE DEF r, settled, d
    <3>6. QED
      BY <1>3, <3>1, <3>2, <3>3, <3>4, <3>5
  <2>2. CASE SettleFailed(l)
    <3>1. Settled(l, run[l])
      BY <2>2 DEF SettleFailed
    <3>2. run[l] = [run[l] EXCEPT !.release = None]
      BY <1>1 DEF RunRecords
    <3>3. run[l].release \notin {"released", "released_cleanup_deferred"}
      BY <1>1, EvidenceAssumption DEF ReleaseStatuses
    <3> HIDE DEF d, settled
    <3>4. QED
      BY <1>1, <3>1, <3>2, <3>3
  <2>3. QED
    BY <2>1, <2>2
<1> HIDE DEF settled
<1>5. /\ r.claim = run[l].claim /\ r.binding = run[l].binding /\ r.models = run[l].models
      /\ r.attempts = run[l].attempts /\ r.delivery = run[l].delivery
      /\ r.admission = run[l].admission /\ r.transition = run[l].transition
      /\ r.error = run[l].error /\ r.reasons = run[l].reasons
  BY <1>1, <1>4 DEF RunRecords
<1> DEFINE e == [r EXCEPT !.error = "lease_release_failed",
                          !.reasons = @ \cup {"adaptive_admission_blocked"}]
           s == IF r.release \in ExpectedRelease(r.delivery) THEN r ELSE e
<1>6. /\ e \in RunRecords /\ e.error = "lease_release_failed" /\ e.release = r.release
      /\ e.reasons = r.reasons \cup {"adaptive_admission_blocked"}
      /\ e.claim = r.claim /\ e.binding = r.binding /\ e.models = r.models
      /\ e.attempts = r.attempts /\ e.delivery = r.delivery
      /\ e.admission = r.admission /\ e.transition = r.transition
  BY DEF RunRecords, LeaseErrors, ReasonCodes
<1>7. IF r.attempts = 0 THEN Finish(l, s, "blocked") ELSE GoTo(l, "reprobe", s)
  BY <1>4 DEF Settled
<1> HIDE DEF e
<1>8. /\ s \in RunRecords
      /\ s.claim = r.claim /\ s.binding = r.binding /\ s.models = r.models
      /\ s.attempts = r.attempts /\ s.delivery = r.delivery
      /\ s.admission = r.admission /\ s.transition = r.transition /\ s.release = r.release
      /\ r.reasons \subseteq s.reasons
      /\ \/ s.error = r.error /\ s.release \in ExpectedRelease(s.delivery)
         \/ /\ s.error = "lease_release_failed" /\ "adaptive_admission_blocked" \in s.reasons
            /\ s.release \notin ExpectedRelease(s.delivery)
  BY <1>6
<1> HIDE DEF s
<1>9. s.release \notin ExpectedRelease(s.delivery) => s.release # "released"
  BY <1>1, <1>4, <1>5, <1>8 DEF ExpectedRelease, DeliveryStatuses
<1>10. Admitted(s) /\ Discharged(s)
  BY <1>1, <1>5, <1>8, <1>9 DEF Admitted, Discharged, Delivered
<1>11. CASE r.attempts = 0
  <2>1. Undelivered(s) /\ s.reasons # {} /\ d = "not_attempted"
    BY <1>1, <1>5, <1>8, <1>11 DEF Undelivered, Delivered
  <2>2. Blockable(s)
    BY <1>10, <2>1 DEF Blockable, Undelivered
  <2>3. request'[l] = "none"
    BY <1>1, <2>1 DEF PhaseOK
  <2>4. QED
    BY <1>1, <1>7, <1>8, <1>11, <2>1, <2>2, <2>3, BlockedReported
<1>12. CASE r.attempts # 0
  <2>1. Delivered(s) /\ run[l].error = None
    BY <1>1, <1>5, <1>8, <1>12 DEF Undelivered, Delivered
  <2>2. s.error # "lease_transition_failed"
    BY <1>5, <1>8, <2>1, EvidenceAssumption DEF LeaseErrors
  <2>3. s.delivery = "response_received" => request'[l] = "done"
    BY <1>1, <1>5, <1>8 DEF PhaseOK
  <2>4. s.delivery = "response_received" /\ s.error = None => rowState'[l] = "absent"
    BY <1>4, <1>8, EvidenceAssumption DEF ExpectedRelease, LeaseErrors
  <2>5. pc'[l] = "reprobe" /\ run'[l] = s
    BY <1>1, <1>7, <1>12, GoToExact
  <2>6. QED
    BY <1>10, <2>1, <2>2, <2>3, <2>4, <2>5 DEF EvidenceOK
<1>13. QED
  BY <1>11, <1>12

\* The checks after the delivery add reason codes, and the verdict follows from these.
LEMMA VerdictEvidence ==
    ASSUME RunInv, EvidenceInv, NEW l \in Leases, ReprobeModels(l) \/ ReinspectBinding(l)
    PROVE  EvidenceOK(l)'
<1>1. /\ RunTypeOK /\ run[l] \in RunRecords /\ request' = request /\ rowState' = rowState
      /\ Admitted(run[l]) /\ Delivered(run[l]) /\ Discharged(run[l])
      /\ run[l].error # "lease_transition_failed"
      /\ run[l].delivery = "response_received" => request[l] = "done"
      /\ run[l].delivery = "response_received" /\ run[l].error = None => rowState[l] = "absent"
  BY DEF RunInv, RunTypeOK, EvidenceInv, EvidenceOK, ReprobeModels, ReinspectBinding, leaseVars
<1>2. ASSUME NEW why \in SUBSET ReasonCodes, NEW r, r = [run[l] EXCEPT !.reasons = @ \cup why]
      PROVE  /\ r \in RunRecords
             /\ Admitted(r) /\ Delivered(r) /\ Discharged(r)
             /\ r.error = run[l].error /\ r.delivery = run[l].delivery
  BY <1>1, <1>2 DEF RunRecords, Admitted, Delivered, Discharged
<1>3. CASE ReprobeModels(l)
  <2>1. PICK why \in {IF models = run[l].models THEN {} ELSE {"model_identity_changed"},
                      {"model_probe_failed"}} :
          GoTo(l, "reinspect", [run[l] EXCEPT !.reasons = @ \cup why])
    BY <1>3, Zenon DEF ReprobeModels
  <2> DEFINE r == [run[l] EXCEPT !.reasons = @ \cup why]
  <2>2. why \in SUBSET ReasonCodes
    BY <2>1 DEF ReasonCodes
  <2>3. /\ Admitted(r) /\ Delivered(r) /\ Discharged(r)
        /\ r.error = run[l].error /\ r.delivery = run[l].delivery
    BY <1>2, <2>2
  <2>4. GoTo(l, "reinspect", r)
    BY <2>1
  <2> HIDE DEF r
  <2>5. pc'[l] = "reinspect" /\ run'[l] = r
    BY <1>1, <2>4, GoToExact
  <2>6. QED
    BY <1>1, <2>3, <2>5 DEF EvidenceOK
<1>4. CASE ReinspectBinding(l)
  <2>1. PICK unverified \in BOOLEAN :
          LET r == [run[l] EXCEPT !.reasons = @ \cup
                      (IF unverified \/ binding # run[l].binding
                       THEN {"binding_changed"} ELSE {})]
          IN  IF r.reasons \ {"transport_failed"} # {} THEN Finish(l, r, "invalidated")
              ELSE IF r.reasons # {} THEN Finish(l, r, "failed")
              ELSE Finish(l, r, "completed")
    BY <1>4, Zenon DEF ReinspectBinding
  <2> DEFINE why == IF unverified \/ binding # run[l].binding THEN {"binding_changed"} ELSE {}
             r == [run[l] EXCEPT !.reasons = @ \cup why]
  <2>2. why \in SUBSET ReasonCodes
    BY DEF ReasonCodes
  <2>3. \/ r.reasons # {} /\ Finish(l, r, "invalidated")
        \/ r.reasons # {} /\ Finish(l, r, "failed")
        \/ Finish(l, r, "completed")
    BY <2>1
  <2> HIDE DEF why
  <2>4. /\ r \in RunRecords /\ Admitted(r) /\ Delivered(r) /\ Discharged(r)
        /\ r.error = run[l].error /\ r.delivery = run[l].delivery
    BY <1>2, <2>2
  <2> HIDE DEF r
  <2>5. QED
    BY <1>1, <2>3, <2>4, VerdictReported
<1>5. QED
  BY <1>3, <1>4

-----------------------------------------------------------------------------
\* A step of one process leaves the evidence of the others, and creates no row for them.
LEMMA EvidenceFrame ==
    ASSUME RunInv, NEW l \in Leases,
           Begin(l) \/ RunStep(l) \/ Crash(l) \/ DropProbeLock(l) \/ ServerFinishes(l),
           NEW k \in Leases, k # l
    PROVE  /\ pc'[k] = pc[k] /\ run'[k] = run[k] /\ request'[k] = request[k]
           /\ rowState[k] = "absent" => rowState'[k] = "absent"
<1>1. RunTypeOK /\ LeaseInv /\ run[l] \in RunRecords
  BY DEF RunInv, RunTypeOK
<1>2. request'[k] = request[k]
  BY <1>1 DEF Begin, RunStep, ResolveTarget, RecheckTarget, AdmitRun, AdmitInterrupted,
     AdmitFailed, ProbeModels, ArmRun, ArmFailed, PostTask, ReceiveResponse, DeliveryUnknown,
     SettleLease, SettleFailed, ReprobeModels, ReinspectBinding, Exit, Crash, ProcessEnds,
     DropProbeLock, ServerFinishes, RunTypeOK
<1>3. \/ UNCHANGED <<pc, run>>
      \/ \E ph, r : GoTo(l, ph, r)
  <2>1. ASSUME NEW r, NEW st, Finish(l, r, st) PROVE \E ph, x : GoTo(l, ph, x)
    BY <2>1, Zenon DEF Finish
  <2>2. ASSUME NEW r, NEW why, Blocked(l, r, why) PROVE \E ph, x : GoTo(l, ph, x)
    BY <2>1, <2>2, Zenon DEF Blocked
  <2>3. ASSUME NEW r, Settled(l, r) PROVE \E ph, x : GoTo(l, ph, x)
    BY <2>1, <2>3, Zenon DEF Settled
  <2>4. CASE Begin(l) \/ ResolveTarget(l) \/ RecheckTarget(l) \/ ProbeModels(l)
    BY <2>2, <2>4, Zenon DEF Begin, ResolveTarget, RecheckTarget, ProbeModels
  <2>5. CASE AdmitRun(l) \/ AdmitInterrupted(l) \/ AdmitFailed(l)
    BY <2>2, <2>5, Zenon DEF AdmitRun, AdmitInterrupted, AdmitFailed
  <2>6. CASE ArmRun(l) \/ ArmFailed(l) \/ PostTask(l) \/ ReceiveResponse(l) \/ DeliveryUnknown(l)
    BY <2>6, Zenon DEF ArmRun, ArmFailed, PostTask, ReceiveResponse, DeliveryUnknown
  <2>7. CASE SettleLease(l) \/ SettleFailed(l)
    BY <2>3, <2>7, Zenon DEF SettleLease, SettleFailed
  <2>8. CASE ReprobeModels(l) \/ ReinspectBinding(l)
    BY <2>1, <2>8, Zenon DEF ReprobeModels, ReinspectBinding
  <2>9. CASE Exit(l) \/ Crash(l)
    BY <2>9, Zenon DEF Exit, Crash, ProcessEnds
  <2>10. CASE DropProbeLock(l) \/ ServerFinishes(l)
    BY <2>10 DEF DropProbeLock, ServerFinishes
  <2>11. QED
    BY <2>4, <2>5, <2>6, <2>7, <2>8, <2>9, <2>10, Zenon DEF RunStep
<1>4. pc'[k] = pc[k] /\ run'[k] = run[k]
  BY <1>1, <1>3, GoToExact
<1>5. rowState[k] = "absent" => rowState'[k] = "absent"
  <2>1. CASE AdmitRun(l) \/ AdmitInterrupted(l)
    <3>1. PICK c \in Claims, p \in Probes :
            FreshId(l) /\ CommitAdmission(l, c, Scanned(p), AdmissionStatus(c, Scanned(p)))
      BY <2>1, Zenon DEF AdmitRun, AdmitInterrupted, EvaluateAndAcquire, AcquireThenInterrupted
    <3>2. QED
      BY <1>1, <3>1, AdmissionFrame
  <2>2. CASE UNCHANGED leaseVars
    BY <2>2 DEF leaseVars
  <2>3. CASE ArmRun(l) \/ ArmFailed(l)
    BY <1>1, <2>2, <2>3 DEF ArmRun, ArmFailed, ArmDelivery, RunTypeOK, LeaseTypeOK
  <2>4. CASE SettleLease(l) \/ SettleFailed(l)
    <3>1. (\E ok \in BOOLEAN : Release(l, run[l].delivery, ok)) \/ UNCHANGED leaseVars
      BY <2>4, Zenon DEF SettleLease, SettleFailed
    <3>2. run[l].delivery \in DeliveryStatuses
      BY <1>1 DEF RunRecords
    <3>3. QED
      BY <1>1, <2>2, <3>1, <3>2, ReleaseRow
  <2>5. CASE AdmitFailed(l) \/ Exit(l) \/ Crash(l) \/ DropProbeLock(l)
    BY <2>5 DEF AdmitFailed, AcquireRolledBack, Exit, Crash, ProcessEnds, OwnerExit,
       DropProbeLock, ReleaseProbeLock, store, leaseVars
  <2>6. QED
    BY <2>1, <2>2, <2>3, <2>4, <2>5
       DEF Begin, RunStep, ResolveTarget, RecheckTarget, ProbeModels, PostTask,
           ReceiveResponse, DeliveryUnknown, ReprobeModels, ReinspectBinding, ServerFinishes
<1>6. QED
  BY <1>2, <1>4, <1>5

\* A process at rest has no evidence, and nothing its environment does disturbs any.
LEMMA RestingEvidence ==
    ASSUME RunInv, EvidenceInv, NEW l \in Leases,
           Exit(l) \/ Crash(l) \/ DropProbeLock(l) \/ ServerFinishes(l)
    PROVE  EvidenceOK(l)'
<1>1. RunTypeOK /\ EvidenceOK(l)
  BY DEF RunInv, EvidenceInv
<1>2. CASE Exit(l) \/ Crash(l)
  <2>1. pc'[l] = "idle"
    BY <1>1, <1>2, GoToExact DEF Exit, Crash, ProcessEnds
  <2>2. QED
    BY <2>1 DEF EvidenceOK
<1>3. CASE DropProbeLock(l)
  BY <1>1, <1>3 DEF DropProbeLock, ReleaseProbeLock, store, EvidenceOK
<1>4. CASE ServerFinishes(l)
  <2>1. request[l] = "running" /\ request'[l] = "done" /\ UNCHANGED <<rowState, pc, run>>
    BY <1>1, <1>4 DEF ServerFinishes, leaseVars, RunTypeOK
  <2>2. QED
    BY <1>1, <2>1 DEF EvidenceOK
<1>5. QED
  BY <1>2, <1>3, <1>4

LEMMA EvidenceStep == RunInv /\ EvidenceInv /\ [RunNext]_runVars => EvidenceInv'
<1> SUFFICES ASSUME RunInv, EvidenceInv, [RunNext]_runVars PROVE EvidenceInv'
  OBVIOUS
<1>1. ASSUME NEW l \in Leases,
             Begin(l) \/ RunStep(l) \/ Crash(l) \/ DropProbeLock(l) \/ ServerFinishes(l)
      PROVE  EvidenceInv'
  <2>1. EvidenceOK(l)'
    BY <1>1, EarlyEvidence, AdmissionEvidence, DeliveryEvidence, SettleEvidence,
       VerdictEvidence, RestingEvidence, Zenon DEF RunStep
  <2>2. ASSUME NEW k \in Leases, k # l PROVE EvidenceOK(k)'
    <3>1. /\ pc'[k] = pc[k] /\ run'[k] = run[k] /\ request'[k] = request[k]
          /\ rowState[k] = "absent" => rowState'[k] = "absent"
      BY <1>1, <2>2, EvidenceFrame
    <3>2. QED
      BY <3>1 DEF EvidenceInv, EvidenceOK
  <2>3. QED
    BY <2>1, <2>2 DEF EvidenceInv
<1>2. CASE WorldChanges \/ UNCHANGED runVars
  <2>1. UNCHANGED <<rowState, pc, run, request>>
    BY <1>2 DEF WorldChanges, runVars, leaseVars
  <2>2. QED
    BY <2>1 DEF EvidenceInv, EvidenceOK
<1>3. QED
  BY <1>1, <1>2 DEF RunNext

\* Without probe faults, no scan and no settlement blocks a reservation.
LEMMA UndeliveredStep ==
    ASSUME RunInv, [RunNext]_runVars, ProbeFaults = FALSE, NEW l \in Leases,
           rowState[l] = "reserved"
    PROVE  rowState'[l] # "unknown_blocking"
<1>1. RunTypeOK /\ LeaseInv /\ LeaseTypeOK
  BY DEF RunInv, RunTypeOK
<1>2. ASSUME NEW m \in Leases, NEW c \in Claims, NEW p \in Probes, FreshId(m),
             CommitAdmission(m, c, Scanned(p), AdmissionStatus(c, Scanned(p)))
      PROVE  rowState'[l] # "unknown_blocking"
  <2>1. Scanned(p) \in [Leases -> RowStates \cup {"absent"}]
    BY <1>1, ScanTypes
  <2>2. l \in Probed /\ p[l] \in {"dead", "active"}
    <3>1. l \in Probed
      BY DEF Probed
    <3>2. p[l] \in ProbeOutcomes(l)
      BY <3>1 DEF Probes
    <3>3. QED
      BY <3>1, <3>2 DEF ProbeOutcomes
  <2>3. Scanned(p)[l] \in {"reserved", "absent"}
    BY <2>2 DEF Scanned
  <2>4. QED
    BY <1>2, <2>1, <2>3 DEF CommitAdmission
<1>3. ASSUME NEW m \in Leases, SettleLease(m) \/ SettleFailed(m)
      PROVE  rowState'[l] # "unknown_blocking"
  <2>1. (\E ok \in BOOLEAN : Release(m, run[m].delivery, ok)) \/ UNCHANGED leaseVars
    BY <1>3, Zenon DEF SettleLease, SettleFailed
  <2>2. m = l => run[m].delivery # "attempted_unknown"
    BY <1>3 DEF SettleLease, SettleFailed, RunInv, PhaseInv, PhaseOK
  <2>3. QED
    BY <1>1, <2>1, <2>2 DEF Release, leaseVars, LeaseTypeOK
<1>4. ASSUME NEW m \in Leases, AdmitRun(m) \/ AdmitInterrupted(m)
      PROVE  rowState'[l] # "unknown_blocking"
  <2>1. PICK c \in Claims, p \in Probes :
          FreshId(m) /\ CommitAdmission(m, c, Scanned(p), AdmissionStatus(c, Scanned(p)))
    BY <1>4, Zenon DEF AdmitRun, AdmitInterrupted, EvaluateAndAcquire, AcquireThenInterrupted
  <2>2. QED
    BY <1>2, <2>1
<1>5. ASSUME NEW m \in Leases, ArmRun(m) \/ ArmFailed(m)
      PROVE  rowState'[l] # "unknown_blocking"
  BY <1>1, <1>5 DEF ArmRun, ArmFailed, ArmDelivery, leaseVars, LeaseTypeOK
<1>6. CASE UNCHANGED rowState
  BY <1>6
<1>7. ASSUME NEW m \in Leases,
             AdmitFailed(m) \/ Exit(m) \/ Crash(m) \/ DropProbeLock(m)
      PROVE  UNCHANGED rowState
  BY <1>7 DEF AdmitFailed, AcquireRolledBack, Exit, Crash, ProcessEnds, OwnerExit,
     DropProbeLock, ReleaseProbeLock, store, leaseVars
<1>8. QED
  BY <1>3, <1>4, <1>5, <1>6, <1>7
     DEF RunNext, RunStep, Begin, ResolveTarget, RecheckTarget, ProbeModels, PostTask,
         ReceiveResponse, DeliveryUnknown, ReprobeModels, ReinspectBinding, ServerFinishes,
         WorldChanges, runVars, leaseVars

-----------------------------------------------------------------------------
\* RunInv holds in every reachable state of any number of concurrent runs.
THEOREM RunInvariant == RunSpec => []RunInv
<1>1. RunInit => RunInv
  BY RunInvInit
<1>2. RunInv /\ [RunNext]_runVars => RunInv'
  BY RunInvStep
<1>3. QED
  BY <1>1, <1>2, PTL DEF RunSpec

(***************************************************************************)
(* Whatever interleaving of run_bound_cell processes, crashes and scans,   *)
(* the locals, rows, locks and requests keep their types.                  *)
(***************************************************************************)
THEOREM RunTypeCorrect == RunSpec => []RunTypeOK
<1>1. RunInv => RunTypeOK
  BY DEF RunInv
<1>2. QED
  BY <1>1, RunInvariant, PTL

(***************************************************************************)
(* An inference that may still be running at the model server is always    *)
(* covered by a fenced row, for any number of processes: run_bound_cell    *)
(* arms before it posts and settle_lease releases only known outcomes.     *)
(***************************************************************************)
THEOREM InferenceAlwaysCovered == RunSpec => []InferenceCovered
<1>1. RunInv => InferenceCovered
  BY DEF RunInv, PhaseInv, PhaseOK, InferenceCovered
<1>2. QED
  BY <1>1, RunInvariant, PTL

(***************************************************************************)
(* run_bound_cell never drives release into _quarantine_domain: whenever   *)
(* it settles, its row exists.                                             *)
(***************************************************************************)
THEOREM NeverQuarantinedAlways == RunSpec => []NeverQuarantined
<1>1. RunInv => NeverQuarantined
  BY DEF RunInv
<1>2. QED
  BY <1>1, RunInvariant, PTL

(***************************************************************************)
(* What run_bound_cell promises of the model server: an inference that may *)
(* be running is always known to the store, and the domain is never closed *)
(* to get there.                                                           *)
(***************************************************************************)
THEOREM RunCoveredAlways == RunSpec => []RunCovered
<1>1. InferenceCovered /\ NeverQuarantined => RunCovered
  BY DEF RunCovered
<1>2. QED
  BY <1>1, InferenceAlwaysCovered, NeverQuarantinedAlways, PTL

(***************************************************************************)
(* While an inference may be running, evaluate_and_acquire admits another  *)
(* process only if the inference's owner still holds its sentinel; an      *)
(* abandoned inference blocks every later admission.                       *)
(***************************************************************************)
THEOREM AbandonedInferenceAlwaysBlocks == RunSpec => AbandonedInferenceBlocks
<1>1. RunInv /\ [RunNext]_runVars =>
        [\A k, l \in Leases :
            /\ rowState[k] = "absent" /\ rowState'[k] = "reserved"
            /\ request[l] = "running"
            => rowState'[l] = "delivery_armed" /\ sentinel[l] # "free"]_runVars
  BY AbandonedStep, Zenon
<1>2. QED
  BY <1>1, RunInvariant, PTL DEF RunSpec, AbandonedInferenceBlocks

(***************************************************************************)
(* Runs use the lease store only through its operations: every behaviour   *)
(* of concurrent runs is one of the store, so the store's theorems (one    *)
(* accelerator, the lease limit, fenced armed rows, the ledger) hold of    *)
(* runs as well.                                                           *)
(***************************************************************************)
THEOREM RunsUseTheStore == RunSpec => LeaseSpec
<1>1. RunInit => LeaseInit
  BY DEF RunInit
<1>2. RunInv /\ [RunNext]_runVars => [LeaseNext]_leaseVars
  BY RunStepIsLeaseStep DEF RunInv
<1>3. QED
  BY <1>1, <1>2, RunInvariant, PTL DEF RunSpec, LeaseSpec

(***************************************************************************)
(* Wherever any of the concurrent runs ends, finish can build the receipt  *)
(* and the envelope that the contracts demand, and what they report is     *)
(* true: blocked means the server never got the task, completed means it   *)
(* answered and the lease is gone.                                         *)
(***************************************************************************)
THEOREM RunReportedAlways == RunSpec => []RunReported
<1>1. RunInit => EvidenceInv
  BY DEF RunInit, EvidenceInv, EvidenceOK
<1>2. RunInv /\ EvidenceInv /\ [RunNext]_runVars => EvidenceInv'
  BY EvidenceStep
<1>3. EvidenceInv => RunReported
  BY DEF EvidenceInv, EvidenceOK, RunReported, EnvelopeConstructible, OutcomeIsTrue, Active
<1>4. QED
  BY <1>1, <1>2, <1>3, RunInvariant, PTL DEF RunSpec

(***************************************************************************)
(* When sentinel probes do not fail, a reservation that was never armed is *)
(* never marked unknown_blocking, whoever crashes or scans: a run that     *)
(* delivered nothing never blocks the others for good.                     *)
(***************************************************************************)
THEOREM UndeliveredNeverBlocksAlways ==
    ProbeFaults = FALSE => (RunSpec => [][UndeliveredNeverBlocks]_runVars)
<1> SUFFICES ASSUME ProbeFaults = FALSE PROVE RunSpec => [][UndeliveredNeverBlocks]_runVars
  OBVIOUS
<1>1. RunInv /\ [RunNext]_runVars => [UndeliveredNeverBlocks]_runVars
  BY UndeliveredStep DEF UndeliveredNeverBlocks
<1>2. QED
  BY <1>1, RunInvariant, PTL DEF RunSpec

-----------------------------------------------------------------------------
(* The inspection of a binding                                             *)

Inodes == {Inode[p] : p \in Paths}
SetOfComponents == {Components[1], Components[2]}

\* What the proof asks of the files there may be: a directory is no file, the
\* configuration and the runtime's files are not in the model's directory and
\* are there from the start, and what is added is added to that directory.
BindingHypotheses ==
    /\ IsFiniteSet(Paths) /\ Paths \cap Dirs = {}
    /\ {Config} \cup SetOfComponents \subseteq Paths
    /\ Extra \subseteq Paths /\ \A p \in Extra : InModel(p)

\* The operations of the work list on one file, and those that lead to its being read.
FileOps == {"file", "open", "read", "fstat", "restat"}
Visits == {"file", "open", "restat", "enter"}
Below(d) == IF d = "model" THEN {"a", "sub", "x", "b", "y"} ELSE {"b", "y"}

WorkOps ==
    [op : FileOps \cup {"recheck"}, path : Paths]
    \cup [op : {"enter", "leave"}, path : Dirs]
    \cup [op : {"begin", "tree", "walked"}, path : {ModelRoot} \cup SetOfComponents]

\* What may come after an operation: a tree is begun, its files are read or the
\* directory is walked and every file looked at again, and it is ended.
Follows(a, b) ==
    /\ a.op = "begin" => b.op = "enter" \/ (b.op = "file" /\ b.path \in SetOfComponents)
    /\ a.op = "read" => b.op = "fstat" /\ b.path = a.path
    /\ a.op = "fstat" => b.op = "restat" /\ b.path = a.path
    /\ a.op \in {"file", "open", "restat"} =>
         IF a.path \in SetOfComponents THEN b.op = "tree"
         ELSE b.op \in {"file", "enter", "leave"} /\ (b.op = "file" => b.path \notin SetOfComponents)
    /\ a.op \in {"enter", "leave"} =>
         b.op \in {"file", "enter", "leave", "walked"} /\ (b.op = "file" => b.path \notin SetOfComponents)
    /\ a.op = "walked" => b.op = "tree"
    /\ a.op = "recheck" => b.op \in {"recheck", "tree"}

\* Two operations that lead to different files, in different places.
Apart(a, b) ==
    a.op \in Visits /\ b.op \in Visits =>
      a.path # b.path /\ (a.op = "enter" => b.path \notin Below(a.path))

\* The work list: in order, each file once, and what is looked at again comes
\* when the walk is over.
WorkSound(w) ==
    /\ w \in Seq(WorkOps)
    /\ \A i \in 1..Len(w) : w[i].op # "tree" => i < Len(w) /\ Follows(w[i], w[i + 1])
    /\ \A i \in 1..Len(w) : w[i].op = "tree" /\ i < Len(w) => w[i + 1].op = "begin"
    /\ \A i, j \in 1..Len(w) : i # j => Apart(w[i], w[j])
    /\ \A i, j \in 1..Len(w) : i <= j /\ w[j].op = "recheck" => w[i].op = "recheck"

BindingTypeOK ==
    /\ DOMAIN disk = {"inode", "dir", "names", "root", "changes"}
    /\ disk.inode \in [Inodes -> [data : {Whole(0), Whole(1)}, stamp : Nat]]
    /\ disk.names \subseteq Paths \cup {"sub"}
    /\ \A p \in Paths : InModel(p) \/ p \in disk.names
    /\ DOMAIN insp = {"pc", "resolving", "work", "file", "plan", "now", "root", "entries", "hashed",
                      "walked", "visited", "trees", "status"}
    /\ DOMAIN insp.file = {"path", "seen", "halves"}

\* A file that still has the stamp it was looked at with was not touched since:
\* it is where it was and holds this.
FileUntouched(p, seen, data) ==
    /\ p \in Paths /\ seen \in Nat /\ seen <= Stamp(p)
    /\ Stamp(p) = seen => p \in disk.names /\ data = Data(p)

\* The same of a file that is being read.
Reading(f) ==
    /\ f.path \in Paths /\ f.seen \in Nat /\ f.seen <= Stamp(f.path)
    /\ f.halves \in Seq({0, 1}) /\ Len(f.halves) <= 2
    /\ Stamp(f.path) = f.seen =>
         f.path \in disk.names /\ \A i \in 1..Len(f.halves) : f.halves[i] = Data(f.path)[i]

Head1 == insp.work[1]

FileSound ==
    /\ insp.pc = "reading" => Reading(insp.file) /\ insp.file.path = Config
    /\ insp.work # <<>> /\ Head1.op \in FileOps \ {"file"} =>
         /\ Reading(insp.file) /\ insp.file.path = Head1.path
         /\ Head1.op = "open" => insp.file.halves = <<>>
         /\ Head1.op = "read" => Len(insp.file.halves) < 2
         /\ Head1.op \in {"fstat", "restat"} => Len(insp.file.halves) = 2

\* An inode that was hashed, and holds that yet if it has the stamp it had.
HashedSound(h) ==
    /\ h.inode \in Inodes /\ h.data \in Seq({0, 1}) /\ Len(h.data) = 2
    /\ h.seen \in Nat /\ h.seen <= disk.inode[h.inode].stamp
    /\ disk.inode[h.inode].stamp = h.seen => h.data = disk.inode[h.inode].data

\* The files of the tree that is being hashed.
EntriesSound ==
    /\ \A h \in insp.hashed : HashedSound(h)
    /\ \A e \in insp.entries : FileUntouched(e.path, e.seen, e.data)
    /\ \A e, f \in insp.entries : e.path = f.path => e = f
    /\ \A e \in insp.entries : \A i \in 1..Len(insp.work) : insp.work[i].op \in Visits =>
          /\ e.path # insp.work[i].path
          /\ insp.work[i].op = "enter" => e.path \notin Below(insp.work[i].path)
    /\ insp.work # <<>> /\ (Head1.op = "begin" \/ (Head1.op \in FileOps /\ Head1.path \in SetOfComponents)) =>
         insp.entries = {}

\* At the moment m the file had what its entry says.
HeldAt(e, m) == e.path \in DOMAIN m /\ m[e.path] = e.data

\* From when the walk is over there is one moment at which every file held what
\* was hashed, unless a second look that is still to come finds it touched.
Together ==
    insp.work # <<>> /\ Head1.op \in {"recheck", "tree"} =>
      \E m \in moments : \A e \in insp.entries :
         \/ HeldAt(e, m)
         \/ /\ \E i \in 1..Len(insp.work) : insp.work[i] = [op |-> "recheck", path |-> e.path]
            /\ Stamp(e.path) = e.seen => HeldAt(e, m)

PlansSound ==
    /\ insp.pc # "hash" => insp.work = <<>>
    /\ insp.resolving => insp.status = "verified"
    /\ insp.pc \in {"hash", "roots", "output", "bundle"} => ~insp.resolving
    /\ insp.pc \in {"compare", "resolved"} => insp.resolving
    /\ insp.pc \notin {"hash", "refused", "bundle", "published"} /\ ~insp.resolving => insp.entries = {}
    /\ insp.pc \in {"catalog", "scope", "endpoint", "modelpath", "command", "compare"} =>
         insp.now[1] = insp.now[2]
    /\ launch # <<>> => insp.pc = "resolved"

BindingInv ==
    /\ BindingTypeOK
    /\ WorkSound(insp.work)
    /\ FileSound
    /\ EntriesSound
    /\ Together
    /\ insp.work # <<>> /\ Head1.op # "begin" => Contents \in moments
    /\ PlansSound
    /\ IdentityHeldTogether
    /\ LaunchIsInspected

\* What is left of a sound work list once its first operation is done is sound.
LEMMA WorkTail ==
    ASSUME NEW w, WorkSound(w), w # <<>>
    PROVE  /\ WorkSound(Tail(w)) /\ w[1] \in WorkOps /\ Len(w) \in Nat \ {0}
           /\ Len(Tail(w)) = Len(w) - 1 /\ \A i \in 1..Len(Tail(w)) : Tail(w)[i] = w[i + 1]
<1>1. /\ w \in Seq(WorkOps) /\ Tail(w) \in Seq(WorkOps) /\ Len(w) \in Nat \ {0}
      /\ Len(Tail(w)) = Len(w) - 1 /\ \A i \in 1..Len(Tail(w)) : Tail(w)[i] = w[i + 1]
  BY HeadTailProperties, EmptySeq DEF WorkSound
<1>2. w[1] \in WorkOps
  BY <1>1, ElementOfSeq
<1> DEFINE t == Tail(w)
<1>3. \A i \in 1..Len(t) : i + 1 \in 1..Len(w) /\ t[i] = w[i + 1]
  BY <1>1
<1>4. \A i \in 1..Len(t) : t[i].op # "tree" => i < Len(t) /\ Follows(t[i], t[i + 1])
  BY <1>1, <1>3 DEF WorkSound
<1>5. \A i \in 1..Len(t) : t[i].op = "tree" /\ i < Len(t) => t[i + 1].op = "begin"
  BY <1>1, <1>3 DEF WorkSound
<1>6. \A i, j \in 1..Len(t) : i # j => Apart(t[i], t[j])
  BY <1>1, <1>3 DEF WorkSound
<1>7. \A i, j \in 1..Len(t) : i <= j /\ t[j].op = "recheck" => t[i].op = "recheck"
  BY <1>1, <1>3 DEF WorkSound
<1> QED BY <1>1, <1>2, <1>4, <1>5, <1>6, <1>7 DEF WorkSound

\* Operations put before a sound work list, that may come there, make a sound one.
LEMMA WorkJoin ==
    ASSUME NEW u \in Seq(WorkOps), NEW v, WorkSound(v), v # <<>>,
           \A i \in 1..Len(u) : u[i].op # "tree" => Follows(u[i], IF i < Len(u) THEN u[i + 1] ELSE v[1]),
           \A i \in 1..Len(u) : u[i].op = "tree" => (IF i < Len(u) THEN u[i + 1] ELSE v[1]).op = "begin",
           \A i, j \in 1..Len(u) : i # j => Apart(u[i], u[j]),
           \A i \in 1..Len(u) : \A j \in 1..Len(v) : Apart(u[i], v[j]) /\ Apart(v[j], u[i]),
           \A i, j \in 1..Len(u) : i <= j /\ u[j].op = "recheck" => u[i].op = "recheck",
           \A i \in 1..Len(u) : v[1].op = "recheck" => u[i].op = "recheck"
    PROVE  WorkSound(u \o v) /\ Len(u \o v) = Len(u) + Len(v)
           /\ \A i \in 1..Len(u) + Len(v) : (u \o v)[i] = IF i <= Len(u) THEN u[i] ELSE v[i - Len(u)]
<1> DEFINE w == u \o v
           m == Len(u)
           n == Len(v)
<1>1. v \in Seq(WorkOps) /\ m \in Nat /\ n \in Nat \ {0}
  BY LenProperties, EmptySeq DEF WorkSound
<1>2. w \in Seq(WorkOps) /\ Len(w) = m + n
      /\ \A i \in 1..m + n : w[i] = IF i <= m THEN u[i] ELSE v[i - m]
  BY <1>1, ConcatProperties
<1>3. /\ \A i \in 1..m + n : i <= m => i \in 1..m /\ w[i] = u[i]
      /\ \A i \in 1..m + n : ~(i <= m) => i - m \in 1..n /\ w[i] = v[i - m]
      /\ \A i \in 1..m : w[i] = u[i]
      /\ \A i \in 1..n : w[i + m] = v[i]
  BY <1>1, <1>2
<1> HIDE DEF w, m, n
<1>4. \A i \in 1..m + n : w[i].op # "tree" => i < m + n /\ Follows(w[i], w[i + 1])
  <2> SUFFICES ASSUME NEW i \in 1..m + n, w[i].op # "tree"
               PROVE  i < m + n /\ Follows(w[i], w[i + 1])
    OBVIOUS
  <2>1. CASE i < m
    <3>0. i \in 1..m /\ i + 1 \in 1..m
      BY <1>1, <2>1
    <3>1. i \in 1..m /\ w[i] = u[i] /\ w[i + 1] = u[i + 1]
      BY <1>3, <3>0
    <3>2. Follows(u[i], u[i + 1])
      BY <3>1, <2>1 DEF m
    <3> QED BY <1>1, <2>1, <3>1, <3>2
  <2>2. CASE i = m
    <3>1. w[i + 1] = v[1] /\ w[i] = u[i] /\ i < m + n /\ i \in 1..m
      BY <1>1, <1>3, <2>2
    <3> QED BY <3>1, <2>2 DEF m
  <2>3. CASE i > m
    <3>1. i - m \in 1..n /\ w[i] = v[i - m] /\ (i < m + n => w[i + 1] = v[(i - m) + 1])
      BY <1>1, <1>3, <2>3
    <3>2. i - m < n /\ Follows(v[i - m], v[(i - m) + 1])
      BY <3>1 DEF WorkSound, n
    <3> QED BY <1>1, <3>1, <3>2
  <2> QED BY <1>1, <2>1, <2>2, <2>3
<1>5. \A i \in 1..m + n : w[i].op = "tree" /\ i < m + n => w[i + 1].op = "begin"
  <2> SUFFICES ASSUME NEW i \in 1..m + n, w[i].op = "tree", i < m + n
               PROVE  w[i + 1].op = "begin"
    OBVIOUS
  <2>1. CASE i < m
    <3>0. i \in 1..m /\ i + 1 \in 1..m
      BY <1>1, <2>1
    <3>1. i \in 1..m /\ w[i] = u[i] /\ w[i + 1] = u[i + 1]
      BY <1>3, <3>0
    <3> QED BY <3>1, <2>1 DEF m
  <2>2. CASE i = m
    <3>1. w[i + 1] = v[1] /\ w[i] = u[i] /\ i < m + n /\ i \in 1..m
      BY <1>1, <1>3, <2>2
    <3> QED BY <3>1, <2>2 DEF m
  <2>3. CASE i > m
    <3>0. i + 1 \in 1..m + n /\ ~(i + 1 <= m) /\ (i + 1) - m = (i - m) + 1 /\ i - m < n /\ ~(i <= m)
      BY <1>1, <2>3
    <3>1. i - m \in 1..n /\ w[i] = v[i - m] /\ w[i + 1] = v[(i - m) + 1] /\ i - m < n
      BY <1>3, <3>0
    <3>2. v[i - m].op = "tree" => v[(i - m) + 1].op = "begin"
      BY <3>1 DEF WorkSound, n
    <3> QED BY <3>1, <3>2
  <2> QED BY <1>1, <2>1, <2>2, <2>3
<1>6. \A i, j \in 1..m + n : i # j => Apart(w[i], w[j])
  <2> SUFFICES ASSUME NEW i \in 1..m + n, NEW j \in 1..m + n, i # j
               PROVE  Apart(w[i], w[j])
    OBVIOUS
  <2>1. CASE i <= m /\ j <= m
    BY <1>3, <2>1 DEF m
  <2>2. CASE i <= m /\ ~(j <= m)
    BY <1>3, <2>2 DEF m, n
  <2>3. CASE ~(i <= m) /\ j <= m
    BY <1>3, <2>3 DEF m, n
  <2>4. CASE ~(i <= m) /\ ~(j <= m)
    <3>1. i - m \in 1..n /\ j - m \in 1..n /\ i - m # j - m /\ w[i] = v[i - m] /\ w[j] = v[j - m]
      BY <1>1, <1>3, <2>4
    <3> QED BY <3>1 DEF WorkSound, n
  <2> QED BY <2>1, <2>2, <2>3, <2>4
<1>7. \A i, j \in 1..m + n : i <= j /\ w[j].op = "recheck" => w[i].op = "recheck"
  <2> SUFFICES ASSUME NEW i \in 1..m + n, NEW j \in 1..m + n, i <= j, w[j].op = "recheck"
               PROVE  w[i].op = "recheck"
    OBVIOUS
  <2>1. CASE i <= m /\ j <= m
    BY <1>3, <2>1 DEF m
  <2>2. CASE i <= m /\ ~(j <= m)
    <3>1. j - m \in 1..n /\ w[j] = v[j - m] /\ 1 \in 1..n /\ 1 <= j - m
      BY <1>1, <1>3, <2>2
    <3>2. v[1].op = "recheck"
      BY <3>1 DEF WorkSound, n
    <3> QED BY <1>3, <2>2, <3>2 DEF m
  <2>3. CASE ~(i <= m)
    <3>0. ~(j <= m) /\ i - m <= j - m
      BY <1>1, <2>3
    <3>1. i - m \in 1..n /\ j - m \in 1..n /\ i - m <= j - m /\ w[i] = v[i - m] /\ w[j] = v[j - m]
      BY <1>3, <2>3, <3>0
    <3> QED BY <3>1 DEF WorkSound, n
  <2> QED BY <2>1, <2>2, <2>3
<1>8. WorkSound(w)
  BY <1>2, <1>4, <1>5, <1>6, <1>7 DEF WorkSound
<1> QED BY <1>2, <1>8 DEF w, m, n

Fields == {"pc", "resolving", "work", "file", "plan", "now", "root", "entries", "hashed",
           "walked", "visited", "trees", "status"}

\* A sequence that has a length is not the empty one.
LEMMA NotEmpty ==
    ASSUME NEW s, Len(s) > 0
    PROVE  s # <<>>
<1>1. Len(<<>>) = 0
  BY EmptySeq
<1> SUFFICES ASSUME s = <<>>
             PROVE  FALSE
  OBVIOUS
<1>2. Len(s) = 0
  BY <1>1, Zenon
<1> QED BY <1>2

\* After any operation but the end of a tree there is another, which may follow it.
LEMMA AfterHead ==
    ASSUME NEW w, WorkSound(w), w # <<>>, w[1].op # "tree"
    PROVE  Tail(w) # <<>> /\ Len(w) > 1 /\ Tail(w)[1] = w[2] /\ Follows(w[1], w[2]) /\ 2 \in 1..Len(w)
<1>1. /\ Len(w) \in Nat \ {0} /\ Len(Tail(w)) = Len(w) - 1 /\ WorkSound(Tail(w))
      /\ \A i \in 1..Len(Tail(w)) : Tail(w)[i] = w[i + 1]
  BY WorkTail
<1>2. 1 \in 1..Len(w) /\ 1 < Len(w) /\ Follows(w[1], w[1 + 1])
  BY <1>1 DEF WorkSound
<1>3. Len(Tail(w)) > 0 /\ 1 \in 1..Len(Tail(w))
  BY <1>1, <1>2
<1>4. Tail(w) # <<>>
  BY <1>3, NotEmpty
<1> QED BY <1>1, <1>2, <1>3, <1>4

\* What is still to be visited was to be visited before.
Covered(v, w) ==
    \A i \in 1..Len(v) : v[i].op \in Visits =>
       \E j \in 1..Len(w) : /\ w[j].op \in Visits /\ w[j].path = v[i].path
                            /\ v[i].op = "enter" => w[j].op = "enter"

\* Nothing is visited by the rest of a work list that the list did not visit.
LEMMA TailCovered ==
    ASSUME NEW w, WorkSound(w), w # <<>>
    PROVE  Covered(Tail(w), w)
<1>1. /\ Len(w) \in Nat \ {0} /\ Len(Tail(w)) = Len(w) - 1
      /\ \A i \in 1..Len(Tail(w)) : Tail(w)[i] = w[i + 1] /\ i + 1 \in 1..Len(w)
  BY WorkTail
<1> QED BY <1>1 DEF Covered

\* A sequence of two halves is the pair of them.
LEMMA TwoHalves ==
    \A s \in Seq({0, 1}) : Len(s) = 2 => s = <<s[1], s[2]>>
<1> SUFFICES ASSUME NEW s \in Seq({0, 1}), Len(s) = 2
             PROVE  s = <<s[1], s[2]>>
  OBVIOUS
<1>1. s[1] \in {0, 1} /\ s[2] \in {0, 1}
  BY ElementOfSeq
<1>2. <<s[1], s[2]>> \in Seq({0, 1}) /\ Len(<<s[1], s[2]>>) = 2
  BY <1>1
<1>3. \A i \in 1..Len(s) : s[i] = <<s[1], s[2]>>[i]
  OBVIOUS
<1> QED BY <1>2, <1>3, SeqEqual

\* A file's operation is replaced by what its being opened leads to.
LEMMA WorkReplace ==
    ASSUME NEW w, WorkSound(w), w # <<>>, w[1].op \in {"file", "open"},
           NEW u \in Seq(WorkOps), Len(u) \in {1, 3},
           \A i \in 1..Len(u) : u[i].path = w[1].path,
           \A i \in 1..Len(u) : u[i].op = IF i = Len(u) THEN u[i].op ELSE IF i = 1 THEN "read" ELSE "fstat",
           u[Len(u)].op = "restat" \/ (Len(u) = 1 /\ u[Len(u)].op = "open")
    PROVE  /\ WorkSound(u \o Tail(w)) /\ Covered(u \o Tail(w), w)
           /\ u \o Tail(w) # <<>> /\ (u \o Tail(w))[1] = u[1]
<1> DEFINE t == Tail(w)
<1>1. /\ WorkSound(t) /\ w[1] \in WorkOps /\ Len(w) \in Nat \ {0} /\ 1 \in 1..Len(w)
      /\ Len(t) = Len(w) - 1 /\ \A i \in 1..Len(t) : t[i] = w[i + 1] /\ i + 1 \in 1..Len(w) /\ 1 # i + 1
  BY WorkTail
<1>2. t # <<>> /\ t[1] = w[2] /\ Follows(w[1], t[1]) /\ Len(w) > 1
  BY AfterHead
<1> HIDE DEF t
<1>3. \A i \in 1..Len(u) : u[i].op # "tree" => Follows(u[i], IF i < Len(u) THEN u[i + 1] ELSE t[1])
  <2>1. CASE Len(u) = 1
    BY <2>1, <1>2 DEF Follows
  <2>2. CASE Len(u) = 3
    <3>1. u[1].op = "read" /\ u[2].op = "fstat" /\ u[3].op = "restat"
          /\ u[1].path = w[1].path /\ u[2].path = w[1].path /\ u[3].path = w[1].path
      BY <2>2
    <3>2. Follows(u[1], u[2]) /\ Follows(u[2], u[3])
      BY <3>1 DEF Follows
    <3>3. Follows(u[3], t[1])
      BY <1>2, <3>1 DEF Follows
    <3>4. \A i \in 1..Len(u) : i = 1 \/ i = 2 \/ i = 3
      BY <2>2
    <3>5. /\ u[1 + 1] = u[2] /\ u[2 + 1] = u[3] /\ 1 < Len(u) /\ 2 < Len(u) /\ ~(3 < Len(u))
      BY <2>2
    <3> QED BY <3>2, <3>3, <3>4, <3>5
  <2> QED BY <2>1, <2>2
<1>4. \A i \in 1..Len(u) : u[i].op \in {"read", "fstat", "open", "restat"} /\ (u[i].op \in Visits => i = Len(u))
  BY DEF Visits
<1>5. \A i, j \in 1..Len(u) : i # j => Apart(u[i], u[j])
  BY <1>4 DEF Apart
<1>6. \A j \in 1..Len(t) : Apart(w[1], t[j]) /\ Apart(t[j], w[1])
  <2>1. \A k \in 1..Len(w) : k # 1 => Apart(w[1], w[k]) /\ Apart(w[k], w[1])
    BY <1>1 DEF WorkSound
  <2> QED BY <2>1, <1>1
<1>7. \A i \in 1..Len(u) : \A j \in 1..Len(t) : Apart(u[i], t[j]) /\ Apart(t[j], u[i])
  BY <1>4, <1>6 DEF Apart, Visits
<1>8. t[1].op # "recheck"
  <2>1. 2 \in 1..Len(w) /\ 1 <= 2
    BY <1>1, <1>2
  <2> QED BY <2>1, <1>1, <1>2 DEF WorkSound
<1>8a. /\ \A i \in 1..Len(u) : u[i].op = "tree" => (IF i < Len(u) THEN u[i + 1] ELSE t[1]).op = "begin"
       /\ \A i, j \in 1..Len(u) : i <= j /\ u[j].op = "recheck" => u[i].op = "recheck"
       /\ \A i \in 1..Len(u) : t[1].op = "recheck" => u[i].op = "recheck"
  BY <1>4, <1>8
<1>9. WorkSound(u \o t) /\ Len(u \o t) = Len(u) + Len(t)
      /\ \A i \in 1..Len(u) + Len(t) : (u \o t)[i] = IF i <= Len(u) THEN u[i] ELSE t[i - Len(u)]
  BY <1>1, <1>2, <1>3, <1>5, <1>7, <1>8a, WorkJoin
<1>10. Covered(u \o t, w)
  <2> SUFFICES ASSUME NEW i \in 1..Len(u) + Len(t), (u \o t)[i].op \in Visits
               PROVE  \E j \in 1..Len(w) : /\ w[j].op \in Visits /\ w[j].path = (u \o t)[i].path
                                           /\ (u \o t)[i].op = "enter" => w[j].op = "enter"
    BY <1>9 DEF Covered
  <2>1. CASE i <= Len(u)
    <3>1. i \in 1..Len(u) /\ (u \o t)[i] = u[i]
      BY <1>9, <2>1
    <3> QED BY <3>1, <1>1, <1>4 DEF Visits
  <2>2. CASE ~(i <= Len(u))
    <3>1. i - Len(u) \in 1..Len(t) /\ (u \o t)[i] = t[i - Len(u)]
      BY <1>1, <1>9, <2>2
    <3>2. (i - Len(u)) + 1 \in 1..Len(w) /\ (u \o t)[i] = w[(i - Len(u)) + 1]
      BY <3>1, <1>1
    <3> QED BY <3>2
  <2> QED BY <2>1, <2>2
<1>11. u \o t # <<>> /\ (u \o t)[1] = u[1]
  <2>0. Len(t) \in Nat
    BY <1>1, LenProperties DEF WorkSound
  <2> DEFINE m == Len(u)
             n == Len(t)
  <2>a. m \in {1, 3} /\ n \in Nat
    BY <2>0
  <2> HIDE DEF m, n
  <2>b. 1 \in 1..m + n /\ 1 <= m /\ m + n > 0
    BY <2>a
  <2>1. 1 \in 1..Len(u) + Len(t) /\ 1 <= Len(u) /\ Len(u) + Len(t) > 0
    BY <2>b DEF m, n
  <2>2. Len(u \o t) > 0
    BY <2>1, <1>9, Zenon
  <2>3. (u \o t)[1] = u[1]
    BY <2>1, <1>9
  <2> QED BY <2>2, <2>3, NotEmpty
<1> QED BY <1>9, <1>10, <1>11 DEF t

\* The same, when one operation takes the place of another.
LEMMA ReplaceOne ==
    ASSUME NEW w, WorkSound(w), w # <<>>, w[1].op \in {"file", "open"},
           NEW o \in WorkOps, o.path = w[1].path, o.op \in {"open", "restat"}
    PROVE  /\ WorkSound(<<o>> \o Tail(w)) /\ Covered(<<o>> \o Tail(w), w)
           /\ <<o>> \o Tail(w) # <<>> /\ (<<o>> \o Tail(w))[1] = o
<1> DEFINE u == <<o>>
<1>1. u \in Seq(WorkOps) /\ Len(u) = 1 /\ u[1] = o
  OBVIOUS
<1> HIDE DEF u
<1>2. \A i \in 1..Len(u) : i = 1
  BY <1>1
<1>3. \A i \in 1..Len(u) : u[i].path = w[1].path
  BY <1>1, <1>2
<1>4. \A i \in 1..Len(u) : u[i].op = IF i = Len(u) THEN u[i].op ELSE IF i = 1 THEN "read" ELSE "fstat"
  BY <1>1, <1>2
<1>5. (u[Len(u)].op = "restat" \/ (Len(u) = 1 /\ u[Len(u)].op = "open")) /\ Len(u) \in {1, 3}
  BY <1>1
<1>6. /\ WorkSound(u \o Tail(w)) /\ Covered(u \o Tail(w), w)
      /\ u \o Tail(w) # <<>> /\ (u \o Tail(w))[1] = u[1]
  BY <1>1, <1>3, <1>4, <1>5, WorkReplace
<1> QED BY <1>1, <1>6 DEF u

\* The stamp of a file, which is no directory.
LEMMA StampOf ==
    ASSUME BindingHypotheses, NEW p \in Paths
    PROVE  Stamp(p) = disk.inode[Inode[p]].stamp /\ Inode[p] \in Inodes
BY DEF BindingHypotheses, Stamp, Inodes

\* A step of the inspection while it hashes keeps what the invariant says of the rest.
LEMMA HashStep ==
    ASSUME BindingInv, insp.pc = "hash", insp.work # <<>>, UNCHANGED <<disk, launch>>,
           (insp.work[1].op # "begin" /\ moments' = moments) \/ moments' = {Contents},
           DOMAIN insp' = Fields, DOMAIN insp'.file = {"path", "seen", "halves"}, insp'.pc = "hash",
           insp'.resolving = insp.resolving, insp'.status = insp.status,
           WorkSound(insp'.work), FileSound', EntriesSound', Together', IdentityHeldTogether'
    PROVE  BindingInv'
<1>1. disk' = disk /\ launch' = launch
  OBVIOUS
<1>2. BindingTypeOK'
  BY <1>1 DEF BindingInv, BindingTypeOK, Fields
<1>3. Contents \in moments' /\ Contents' = Contents
  <2>1. Contents' = Contents
    BY <1>1 DEF Contents, Data
  <2>2. insp.work[1].op # "begin" => Contents \in moments
    BY DEF BindingInv, Head1
  <2> QED BY <2>1, <2>2
<1>4. launch = <<>> /\ PlansSound'
  BY <1>1 DEF BindingInv, PlansSound
<1>5. LaunchIsInspected'
  BY <1>1, <1>4 DEF LaunchIsInspected
<1>6. Contents' \in moments'
  BY <1>1, <1>3
<1> QED BY <1>2, <1>4, <1>5, <1>6 DEF BindingInv

\* The entries are as sound as they were when nothing more is to be visited.
LEMMA SameEntries ==
    ASSUME BindingInv, disk' = disk, insp'.entries = insp.entries,
           \A h \in insp'.hashed : HashedSound(h),
           Covered(insp'.work, insp.work),
           insp'.work # <<>> /\ (insp'.work[1].op = "begin"
                                 \/ (insp'.work[1].op \in FileOps /\ insp'.work[1].path \in SetOfComponents))
             => insp.entries = {}
    PROVE  EntriesSound'
<1>1. EntriesSound
  BY DEF BindingInv
<1>2. \A e \in insp.entries : \A i \in 1..Len(insp'.work) : insp'.work[i].op \in Visits =>
          /\ e.path # insp'.work[i].path
          /\ insp'.work[i].op = "enter" => e.path \notin Below(insp'.work[i].path)
  BY <1>1 DEF EntriesSound, Covered
<1>3. \A e \in insp.entries : FileUntouched(e.path, e.seen, e.data)'
  BY <1>1 DEF EntriesSound, FileUntouched, Stamp, Data
<1>4. \A h \in insp'.hashed : HashedSound(h)'
  BY DEF HashedSound
<1> QED BY <1>1, <1>2, <1>3, <1>4 DEF EntriesSound, Head1

\* A step of the inspection after which there is nothing to hash.
LEMMA PlainStep ==
    ASSUME BindingInv, UNCHANGED <<disk, moments>>,
           DOMAIN insp' = Fields, DOMAIN insp'.file = {"path", "seen", "halves"}, insp'.work = <<>>,
           insp'.entries = insp.entries, insp'.hashed = insp.hashed, insp'.trees = insp.trees,
           insp'.pc = "reading" => Reading(insp'.file) /\ insp'.file.path = Config,
           PlansSound', LaunchIsInspected'
    PROVE  BindingInv'
<1>1. disk' = disk /\ moments' = moments
  OBVIOUS
<1>2. BindingTypeOK'
  BY <1>1 DEF BindingInv, BindingTypeOK, Fields
<1>3. WorkSound(insp'.work) /\ Len(insp'.work) = 0
  <2>1. <<>> \in Seq(WorkOps) /\ Len(<<>>) = 0
    BY EmptySeq
  <2> QED BY <2>1 DEF WorkSound
<1>4. FileSound'
  BY <1>1 DEF FileSound, Reading, Stamp, Data
<1>5. EntriesSound'
  <2>1. Covered(insp'.work, insp.work)
    BY <1>3 DEF Covered
  <2>2. \A h \in insp'.hashed : HashedSound(h)
    BY DEF BindingInv, EntriesSound
  <2> QED BY <1>1, <2>1, <2>2, SameEntries
<1>6. Together' /\ IdentityHeldTogether'
  BY DEF BindingInv, Together, IdentityHeldTogether
<1> QED BY <1>2, <1>3, <1>4, <1>5, <1>6 DEF BindingInv

\* A refusal drops the work list and resolves nothing.
LEMMA RefuseKeeps ==
    ASSUME BindingInv, Refuse, insp.pc # "resolved"
    PROVE  BindingInv'
<1>1. insp' = [insp EXCEPT !.pc = "refused", !.work = <<>>, !.file = NoFile] /\ UNCHANGED <<disk, moments, launch>>
  BY DEF Refuse, Go
<1>2. DOMAIN insp = Fields
  BY DEF BindingInv, BindingTypeOK, Fields
<1>3. /\ DOMAIN insp' = Fields /\ insp'.pc = "refused" /\ insp'.work = <<>> /\ insp'.file = NoFile
      /\ insp'.resolving = insp.resolving /\ insp'.status = insp.status /\ insp'.plan = insp.plan
      /\ insp'.entries = insp.entries /\ insp'.hashed = insp.hashed /\ insp'.trees = insp.trees
  BY <1>1, <1>2 DEF Fields
<1>4. launch' = <<>> /\ launch = <<>>
  BY <1>1 DEF BindingInv, PlansSound
<1>5. PlansSound' /\ LaunchIsInspected'
  BY <1>3, <1>4 DEF BindingInv, PlansSound, LaunchIsInspected
<1>6. DOMAIN insp'.file = {"path", "seen", "halves"}
  BY <1>3 DEF NoFile
<1> QED BY <1>1, <1>3, <1>5, <1>6, PlainStep

Later == {"catalog", "scope", "endpoint", "modelpath", "command"}

\* A step that only goes on with the next part of the inspection.
LEMMA GoKeeps ==
    ASSUME BindingInv, NEW next, insp' = [insp EXCEPT !.pc = next], UNCHANGED <<disk, moments, launch>>,
           insp.pc \notin {"hash", "resolved", "refused", "published"}, next \notin {"hash", "reading", "resolved"},
           insp.pc = "bundle" => next = "published",
           next \in {"roots", "output", "bundle"} => ~insp.resolving,
           next = "compare" => insp.resolving,
           next \in Later \cup {"compare"} => insp.pc \in Later
    PROVE  BindingInv'
<1>2. DOMAIN insp = Fields
  BY DEF BindingInv, BindingTypeOK, Fields
<1>3. /\ DOMAIN insp' = Fields /\ insp'.pc = next /\ insp'.work = insp.work /\ insp'.file = insp.file
      /\ insp'.resolving = insp.resolving /\ insp'.status = insp.status /\ insp'.plan = insp.plan
      /\ insp'.entries = insp.entries /\ insp'.hashed = insp.hashed /\ insp'.trees = insp.trees
      /\ insp'.now = insp.now
  BY <1>2 DEF Fields
<1>4. launch' = <<>> /\ launch = <<>> /\ insp.work = <<>>
  BY DEF BindingInv, PlansSound
<1>5. PlansSound' /\ LaunchIsInspected'
  BY <1>3, <1>4 DEF BindingInv, PlansSound, LaunchIsInspected, Later
<1>6. DOMAIN insp'.file = {"path", "seen", "halves"}
  BY <1>3 DEF BindingInv, BindingTypeOK
<1> QED BY <1>3, <1>4, <1>5, <1>6, PlainStep

\* A check goes on or refuses.
LEMMA CheckKeeps ==
    ASSUME BindingInv, NEW at, NEW next, Check(at, next),
           at \notin {"hash", "resolved", "refused", "bundle", "published"},
           next \notin {"hash", "reading", "resolved", "compare"},
           next \in {"roots", "output", "bundle"} => ~insp.resolving,
           next \in Later => at \in Later
    PROVE  BindingInv'
<1>1. insp.pc = at /\ (Refuse \/ (insp' = [insp EXCEPT !.pc = next] /\ UNCHANGED <<disk, moments, launch>>))
  BY DEF Check, Go
<1> QED BY <1>1, RefuseKeeps, GoKeeps

\* The configuration is a file that nobody removes.
LEMMA ConfigurationPlace ==
    ASSUME BindingInv, BindingHypotheses
    PROVE  Config \in Paths /\ Config \in disk.names /\ Stamp(Config) \in Nat
<1>1. Config \in Paths /\ ~InModel(Config)
  BY DEF BindingHypotheses, Config, InModel, Listing, Dirs
<1>2. Config \in disk.names
  BY <1>1 DEF BindingInv, BindingTypeOK
<1>3. Stamp(Config) = disk.inode[Inode[Config]].stamp /\ Inode[Config] \in Inodes
  BY <1>1, StampOf
<1> QED BY <1>1, <1>2, <1>3 DEF BindingInv, BindingTypeOK

LEMMA LoadConfigKeeps ==
    ASSUME BindingInv, BindingHypotheses, LoadConfig
    PROVE  BindingInv'
<1>1. CASE Refuse
  BY <1>1, RefuseKeeps DEF LoadConfig
<1>2. CASE ~Refuse
  <2>1. /\ insp' = [insp EXCEPT !.pc = "reading",
                      !.file = [path |-> Config, seen |-> Stamp(Config), halves |-> <<>>]]
        /\ UNCHANGED <<disk, moments, launch>> /\ insp.pc = "config"
    BY <1>2 DEF LoadConfig, Go
  <2>2. DOMAIN insp = Fields
    BY DEF BindingInv, BindingTypeOK, Fields
  <2>3. PICK f : f = [path |-> Config, seen |-> Stamp(Config), halves |-> <<>>]
    OBVIOUS
  <2>4. /\ DOMAIN insp' = Fields /\ insp'.pc = "reading" /\ insp'.work = insp.work /\ insp'.file = f
        /\ insp'.resolving = insp.resolving /\ insp'.status = insp.status /\ insp'.plan = insp.plan
        /\ insp'.entries = insp.entries /\ insp'.hashed = insp.hashed /\ insp'.trees = insp.trees
    BY <2>1, <2>2, <2>3 DEF Fields
  <2>5. DOMAIN f = {"path", "seen", "halves"} /\ f.path = Config /\ f.seen = Stamp(Config) /\ f.halves = <<>>
    BY <2>3
  <2>6. <<>> \in Seq({0, 1}) /\ Len(<<>>) = 0
    BY EmptySeq
  <2>7. Reading(f)
    BY <2>5, <2>6, ConfigurationPlace DEF Reading
  <2>8. launch' = <<>> /\ launch = <<>> /\ insp.work = <<>>
    BY <2>1 DEF BindingInv, PlansSound
  <2>9. PlansSound' /\ LaunchIsInspected'
    BY <2>4, <2>8, <2>1 DEF BindingInv, PlansSound, LaunchIsInspected
  <2> QED BY <2>1, <2>4, <2>5, <2>7, <2>8, <2>9, PlainStep
<1> QED BY <1>1, <1>2

\* A file's data are two halves, 0 or 1.
LEMMA DataHalves ==
    ASSUME BindingInv, NEW p \in Paths
    PROVE  /\ Data(p) \in Seq({0, 1}) /\ Len(Data(p)) = 2 /\ Data(p)[1] = Data(p)[2]
           /\ \A i \in 1..2 : Data(p)[i] \in {0, 1}
<1>1. Data(p) \in {<<0, 0>>, <<1, 1>>}
  BY DEF BindingInv, BindingTypeOK, Data, Inodes, Whole
<1> QED BY <1>1

\* One more half is read.
LEMMA HalfRead ==
    ASSUME BindingInv, NEW f, NEW g, Reading(f), Len(f.halves) < 2,
           g.path = f.path, g.seen = f.seen, g.halves = Append(f.halves, Data(f.path)[Len(f.halves) + 1])
    PROVE  Reading(g) /\ Len(g.halves) = Len(f.halves) + 1
<1> DEFINE n == Len(f.halves)
           b == Data(f.path)[n + 1]
<1>0. f.halves \in Seq({0, 1}) /\ f.path \in Paths
  BY DEF Reading
<1>1. f.halves \in Seq({0, 1}) /\ n \in 0..1 /\ f.path \in Paths
  <2>1. n \in Nat /\ n < 2
    BY <1>0, LenProperties
  <2> HIDE DEF n
  <2>2. n \in 0..1
    BY <2>1
  <2> QED BY <1>0, <2>2
<1>2. b \in {0, 1}
  BY <1>1, DataHalves
<1>3. /\ g.halves \in Seq({0, 1}) /\ Len(g.halves) = n + 1
      /\ \A i \in 1..n + 1 : g.halves[i] = IF i <= n THEN f.halves[i] ELSE b
  BY <1>1, <1>2, AppendProperties
<1>4. Stamp(f.path) = f.seen => \A i \in 1..n + 1 : g.halves[i] = Data(f.path)[i]
  BY <1>1, <1>3 DEF Reading
<1> QED BY <1>1, <1>3, <1>4 DEF Reading

\* All of a file that was not touched was read.
LEMMA AllRead ==
    ASSUME BindingInv, NEW f, Reading(f), Len(f.halves) = 2, Stamp(f.path) = f.seen
    PROVE  f.halves = Data(f.path) /\ f.path \in disk.names
<1>1. f.halves \in Seq({0, 1}) /\ f.path \in Paths /\ \A i \in 1..2 : f.halves[i] = Data(f.path)[i]
  BY DEF Reading
<1>2. Data(f.path) \in Seq({0, 1}) /\ Len(Data(f.path)) = 2
  BY <1>1, DataHalves
<1>3. f.halves = Data(f.path)
  BY <1>1, <1>2, SeqEqual
<1> QED BY <1>3 DEF Reading

\* _read_bounded: one more chunk of the configuration.
LEMMA ReadConfigKeeps ==
    ASSUME BindingInv, ReadConfig
    PROVE  BindingInv'
<1> DEFINE halves == insp.file.halves
           h == Append(halves, Data(Config)[Len(halves) + 1])
<1>1. insp' = [insp EXCEPT !.file.halves = h] /\ UNCHANGED <<disk, moments, launch>>
      /\ insp.pc = "reading" /\ Len(halves) < 2
  BY DEF ReadConfig, Go
<1>2. DOMAIN insp = Fields /\ DOMAIN insp.file = {"path", "seen", "halves"}
  BY DEF BindingInv, BindingTypeOK, Fields
<1> HIDE DEF h
<1>3. PICK f : f = [insp.file EXCEPT !.halves = h]
  OBVIOUS
<1>4. insp' = [insp EXCEPT !.file = f]
  BY <1>1, <1>3
<1>5. /\ DOMAIN insp' = Fields /\ insp'.pc = "reading" /\ insp'.work = insp.work /\ insp'.file = f
      /\ insp'.resolving = insp.resolving /\ insp'.status = insp.status /\ insp'.plan = insp.plan
      /\ insp'.entries = insp.entries /\ insp'.hashed = insp.hashed /\ insp'.trees = insp.trees
  BY <1>1, <1>4, <1>2 DEF Fields
<1>6. DOMAIN f = {"path", "seen", "halves"} /\ f.path = insp.file.path /\ f.seen = insp.file.seen /\ f.halves = h
  BY <1>3, <1>2
<1>7. Reading(insp.file) /\ insp.file.path = Config
  BY <1>1 DEF BindingInv, FileSound
<1>8. Reading(f)
  BY <1>1, <1>6, <1>7, HalfRead DEF h
<1>9. launch' = <<>> /\ launch = <<>> /\ insp.work = <<>>
  BY <1>1 DEF BindingInv, PlansSound
<1>10. PlansSound' /\ LaunchIsInspected'
  BY <1>5, <1>9, <1>1 DEF BindingInv, PlansSound, LaunchIsInspected
<1> QED BY <1>1, <1>5, <1>6, <1>7, <1>8, <1>9, <1>10, PlainStep

\* The configuration's stamp is compared after its last chunk: what was read is no mixture.
LEMMA ConfigReadKeeps ==
    ASSUME BindingInv, ConfigRead
    PROVE  BindingInv'
<1>0. insp.pc = "reading" /\ Len(insp.file.halves) = 2
  BY DEF ConfigRead
<1>1. CASE ~Stable(Config, insp.file.seen)
  BY <1>0, <1>1, RefuseKeeps DEF ConfigRead
<1>2. CASE Stable(Config, insp.file.seen)
  <2>1. /\ insp' = [insp EXCEPT !.pc = "catalog", !.file = NoFile, !.now = insp.file.halves,
                      !.plan = IF insp.resolving THEN @ ELSE insp.file.halves]
        /\ UNCHANGED <<disk, moments, launch>>
    BY <1>0, <1>2 DEF ConfigRead, Go
  <2>2. DOMAIN insp = Fields
    BY DEF BindingInv, BindingTypeOK, Fields
  <2>4. /\ DOMAIN insp' = Fields /\ insp'.pc = "catalog" /\ insp'.work = insp.work /\ insp'.file = NoFile
        /\ insp'.resolving = insp.resolving /\ insp'.status = insp.status /\ insp'.now = insp.file.halves
        /\ insp'.entries = insp.entries /\ insp'.hashed = insp.hashed /\ insp'.trees = insp.trees
    BY <2>1, <2>2 DEF Fields
  <2>5. Reading(insp.file) /\ insp.file.path = Config
    BY <1>0 DEF BindingInv, FileSound
  <2>6. insp.file.halves = Data(Config) /\ Config \in Paths
    BY <1>0, <1>2, <2>5, AllRead DEF Stable, Reading
  <2>7. insp'.now[1] = insp'.now[2]
    BY <2>4, <2>6, DataHalves
  <2>8. launch' = <<>> /\ launch = <<>> /\ insp.work = <<>>
    BY <1>0, <2>1 DEF BindingInv, PlansSound
  <2>9. PlansSound' /\ LaunchIsInspected'
    BY <1>0, <2>4, <2>7, <2>8, <2>1 DEF BindingInv, PlansSound, LaunchIsInspected
  <2>10. DOMAIN insp'.file = {"path", "seen", "halves"}
    BY <2>4 DEF NoFile
  <2> QED BY <2>1, <2>4, <2>8, <2>9, <2>10, PlainStep
<1> QED BY <1>1, <1>2

\* The roots' capture, the conclusion of the hashing, the publication and the launch.
LEMMA OutsideHashing ==
    ASSUME BindingInv, CaptureRoots \/ Conclude \/ ResolveLaunch \/ PublishBundle \/ ResolvedLaunch
    PROVE  BindingInv'
<1>0. DOMAIN insp = Fields /\ DOMAIN insp.file = {"path", "seen", "halves"}
  BY DEF BindingInv, BindingTypeOK, Fields
<1>1. CASE CaptureRoots
  <2>1. insp.pc = "roots"
    BY <1>1 DEF CaptureRoots
  <2>2. CASE ~Refuse
    <3>1. insp' = [insp EXCEPT !.pc = "output", !.root = disk.root] /\ UNCHANGED <<disk, moments, launch>>
      BY <1>1, <2>2 DEF CaptureRoots, Go
    <3>2. /\ DOMAIN insp' = Fields /\ insp'.pc = "output" /\ insp'.work = insp.work /\ insp'.file = insp.file
          /\ insp'.resolving = insp.resolving /\ insp'.status = insp.status /\ insp'.plan = insp.plan
          /\ insp'.entries = insp.entries /\ insp'.hashed = insp.hashed /\ insp'.trees = insp.trees
      BY <3>1, <1>0 DEF Fields
    <3>3. launch' = <<>> /\ launch = <<>> /\ insp.work = <<>> /\ ~insp.resolving
      BY <2>1, <3>1 DEF BindingInv, PlansSound
    <3>4. PlansSound' /\ LaunchIsInspected'
      BY <2>1, <3>2, <3>3 DEF BindingInv, PlansSound, LaunchIsInspected
    <3> QED BY <3>1, <3>2, <3>3, <3>4, <1>0, PlainStep
  <2> QED BY <2>1, <2>2, RefuseKeeps
<1>2. CASE Conclude
  <2>1. insp.pc = "hash" /\ insp.work = <<>>
    BY <1>2 DEF Conclude
  <2>2. CASE ~Refuse
    <3>1. insp' = [insp EXCEPT !.pc = "bundle", !.status = ReceiptStatus] /\ UNCHANGED <<disk, moments, launch>>
      BY <1>2, <2>2 DEF Conclude, Go
    <3>2. /\ DOMAIN insp' = Fields /\ insp'.pc = "bundle" /\ insp'.work = insp.work /\ insp'.file = insp.file
          /\ insp'.resolving = insp.resolving /\ insp'.plan = insp.plan
          /\ insp'.entries = insp.entries /\ insp'.hashed = insp.hashed /\ insp'.trees = insp.trees
      BY <3>1, <1>0 DEF Fields
    <3>3. launch' = <<>> /\ launch = <<>> /\ ~insp.resolving
      BY <2>1, <3>1 DEF BindingInv, PlansSound
    <3>4. PlansSound' /\ LaunchIsInspected'
      BY <2>1, <3>2, <3>3 DEF BindingInv, PlansSound, LaunchIsInspected
    <3> QED BY <2>1, <3>1, <3>2, <3>3, <3>4, <1>0, PlainStep
  <2> QED BY <2>1, <2>2, RefuseKeeps
<1>3. CASE ResolveLaunch
  <2>1. insp.pc = "bundle"
    BY <1>3 DEF ResolveLaunch
  <2>2. CASE ~Refuse
    <3>1. insp' = [insp EXCEPT !.pc = "request", !.resolving = TRUE] /\ UNCHANGED <<disk, moments, launch>>
          /\ insp.status = "verified"
      BY <1>3, <2>2 DEF ResolveLaunch, Go
    <3>2. /\ DOMAIN insp' = Fields /\ insp'.pc = "request" /\ insp'.work = insp.work /\ insp'.file = insp.file
          /\ insp'.resolving = TRUE /\ insp'.plan = insp.plan /\ insp'.status = insp.status
          /\ insp'.entries = insp.entries /\ insp'.hashed = insp.hashed /\ insp'.trees = insp.trees
      BY <3>1, <1>0 DEF Fields
    <3>3. launch' = <<>> /\ launch = <<>> /\ insp.work = <<>>
      BY <2>1, <3>1 DEF BindingInv, PlansSound
    <3>4. PlansSound' /\ LaunchIsInspected'
      BY <3>1, <3>2, <3>3 DEF BindingInv, PlansSound, LaunchIsInspected
    <3> QED BY <3>1, <3>2, <3>3, <3>4, <1>0, PlainStep
  <2> QED BY <2>1, <2>2, RefuseKeeps
<1>4. CASE PublishBundle
  <2>1. /\ insp.pc = "bundle"
        /\ Refuse \/ (insp' = [insp EXCEPT !.pc = "published"] /\ UNCHANGED <<disk, moments, launch>>)
    BY <1>4 DEF PublishBundle, Go
  <2> QED BY <2>1, RefuseKeeps, GoKeeps DEF Later
<1>5. CASE ResolvedLaunch
  <2>1. insp.pc = "compare"
    BY <1>5 DEF ResolvedLaunch
  <2>2. CASE ~Refuse
    <3>1. /\ insp' = [insp EXCEPT !.pc = "resolved"] /\ UNCHANGED <<disk, moments>>
          /\ launch' = insp.now /\ insp.plan = insp.now
      BY <1>5, <2>2 DEF ResolvedLaunch, SamePlan
    <3>2. /\ DOMAIN insp' = Fields /\ insp'.pc = "resolved" /\ insp'.work = insp.work /\ insp'.file = insp.file
          /\ insp'.resolving = insp.resolving /\ insp'.plan = insp.plan /\ insp'.status = insp.status
          /\ insp'.entries = insp.entries /\ insp'.hashed = insp.hashed /\ insp'.trees = insp.trees
      BY <3>1, <1>0 DEF Fields
    <3>3. insp.work = <<>> /\ insp.resolving /\ insp.status = "verified" /\ insp.now[1] = insp.now[2]
      BY <2>1 DEF BindingInv, PlansSound
    <3>4. PlansSound' /\ LaunchIsInspected'
      BY <3>1, <3>2, <3>3 DEF BindingInv, PlansSound, LaunchIsInspected
    <3> QED BY <3>1, <3>2, <3>3, <3>4, <1>0, PlainStep
  <2> QED BY <2>1, <2>2, RefuseKeeps
<1> QED BY <1>1, <1>2, <1>3, <1>4, <1>5

LEMMA FileStep ==
    ASSUME disk' = disk, insp'.pc = "hash",
           insp'.work # <<>> /\ insp'.work[1].op \in FileOps \ {"file"} =>
             /\ Reading(insp'.file) /\ insp'.file.path = insp'.work[1].path
             /\ insp'.work[1].op = "open" => insp'.file.halves = <<>>
             /\ insp'.work[1].op = "read" => Len(insp'.file.halves) < 2
             /\ insp'.work[1].op \in {"fstat", "restat"} => Len(insp'.file.halves) = 2
    PROVE  FileSound'
<1>1. Reading(insp'.file) => Reading(insp.file)'
  BY DEF Reading, Stamp, Data
<1> QED BY <1>1 DEF FileSound, Head1

\* What a step that hashes begins from.
LEMMA HashingFacts ==
    ASSUME BindingInv, insp.work # <<>>
    PROVE  /\ WorkSound(insp.work) /\ insp.work[1] \in WorkOps
           /\ DOMAIN insp = Fields /\ DOMAIN insp.file = {"path", "seen", "halves"}
           /\ insp.work[1].op \in FileOps \cup {"recheck"} => insp.work[1].path \in Paths
           /\ insp.work[1].op \in {"enter", "leave"} => insp.work[1].path \in Dirs
           /\ \A h \in insp.hashed : HashedSound(h)
<1>1. WorkSound(insp.work)
  BY DEF BindingInv
<1>2. insp.work[1] \in WorkOps
  BY <1>1, WorkTail
<1>3. insp.work[1].op \in FileOps \cup {"recheck"} => insp.work[1].path \in Paths
  BY <1>2 DEF WorkOps, FileOps
<1>4. insp.work[1].op \in {"enter", "leave"} => insp.work[1].path \in Dirs
  BY <1>2 DEF WorkOps, FileOps
<1> QED BY <1>1, <1>2, <1>3, <1>4 DEF BindingInv, BindingTypeOK, Fields, EntriesSound

\* An operation on a file, and the list of it alone.
LEMMA OneFileOp ==
    ASSUME NEW op \in FileOps, NEW p \in Paths
    PROVE  LET o == [op |-> op, path |-> p] IN
             /\ o \in WorkOps /\ <<o>> \in Seq(WorkOps) /\ Len(<<o>>) = 1 /\ <<o>>[1] = o
             /\ o.op = op /\ o.path = p
<1> DEFINE o == [op |-> op, path |-> p]
<1>1. o \in WorkOps
  BY DEF WorkOps
<1>2. o.op = op /\ o.path = p
  OBVIOUS
<1> HIDE DEF o
<1>3. <<o>> \in Seq(WorkOps) /\ Len(<<o>>) = 1 /\ <<o>>[1] = o
  BY <1>1
<1> QED BY <1>1, <1>2, <1>3 DEF o

\* _stat_child: the file is looked at and is to be opened.
LEMMA ObserveKeeps ==
    ASSUME BindingInv, BindingHypotheses, Observe
    PROVE  BindingInv'
<1> DEFINE p == insp.work[1].path
           o == [op |-> "open", path |-> p]
           w == <<o>> \o Tail(insp.work)
<1>1. insp.pc = "hash" /\ insp.work # <<>> /\ insp.work[1].op = "file"
  BY DEF Observe, Doing
<1>2. /\ WorkSound(insp.work) /\ p \in Paths /\ DOMAIN insp = Fields
      /\ \A h \in insp.hashed : HashedSound(h)
  BY <1>1, HashingFacts DEF FileOps
<1>3. CASE p \notin disk.names
  BY <1>1, <1>3, RefuseKeeps DEF Observe
<1>4. CASE p \in disk.names
  <2>1. PICK f : f = [path |-> p, seen |-> Stamp(p), halves |-> <<>>]
    OBVIOUS
  <2>2. insp' = [insp EXCEPT !.file = f, !.work = w] /\ UNCHANGED <<disk, moments, launch>>
    BY <1>1, <1>4, <2>1 DEF Observe, Doing, Go, Next1
  <2>3. o \in WorkOps /\ <<o>> \in Seq(WorkOps) /\ Len(<<o>>) = 1 /\ <<o>>[1] = o /\ o.op = "open" /\ o.path = p
    BY <1>2, OneFileOp DEF FileOps
  <2> HIDE DEF o
  <2>5. WorkSound(w) /\ Covered(w, insp.work) /\ w # <<>> /\ w[1] = o
    BY <1>1, <1>2, <2>3, ReplaceOne
  <2> HIDE DEF w
  <2>6. /\ DOMAIN insp' = Fields /\ insp'.pc = "hash" /\ insp'.work = w /\ insp'.file = f
        /\ insp'.resolving = insp.resolving /\ insp'.status = insp.status
        /\ insp'.entries = insp.entries /\ insp'.hashed = insp.hashed /\ insp'.trees = insp.trees
    BY <1>1, <1>2, <2>2 DEF Fields
  <2>7. DOMAIN f = {"path", "seen", "halves"} /\ f.path = p /\ f.seen = Stamp(p) /\ f.halves = <<>>
    BY <2>1
  <2>8. Reading(f)
    <3>1. <<>> \in Seq({0, 1}) /\ Len(<<>>) = 0
      BY EmptySeq
    <3>2. Stamp(p) \in Nat
      BY <1>2, StampOf DEF BindingInv, BindingTypeOK
    <3> QED BY <1>2, <1>4, <2>7, <3>1, <3>2 DEF Reading
  <2>9. FileSound'
    BY <2>2, <2>3, <2>5, <2>6, <2>7, <2>8, FileStep
  <2>10. EntriesSound'
    <3>1. p \in SetOfComponents => insp.entries = {}
      BY <1>1 DEF BindingInv, EntriesSound, Head1, FileOps
    <3> QED BY <1>2, <2>2, <2>3, <2>5, <2>6, <3>1, SameEntries
  <2>11. Together' /\ IdentityHeldTogether'
    BY <2>3, <2>5, <2>6 DEF Together, Head1, BindingInv, IdentityHeldTogether
  <2> QED BY <1>1, <2>2, <2>5, <2>6, <2>7, <2>9, <2>10, <2>11, HashStep
<1> QED BY <1>3, <1>4

\* A file is opened to be read, or is a link to an inode that was hashed and holds that yet.
LEMMA OpenFileKeeps ==
    ASSUME BindingInv, BindingHypotheses, OpenFile
    PROVE  BindingInv'
<1> DEFINE p == insp.file.path
           w == insp.work
           a == [op |-> "read", path |-> p]
           b == [op |-> "fstat", path |-> p]
           c == [op |-> "restat", path |-> p]
<1>1. insp.pc = "hash" /\ insp.work # <<>> /\ insp.work[1].op = "open"
  BY DEF OpenFile, Doing
<1>2. /\ WorkSound(w) /\ w[1].path \in Paths /\ DOMAIN insp = Fields
      /\ DOMAIN insp.file = {"path", "seen", "halves"} /\ \A h \in insp.hashed : HashedSound(h)
  BY <1>1, HashingFacts DEF FileOps
<1>3. Reading(insp.file) /\ p = w[1].path /\ insp.file.halves = <<>> /\ p \in Paths
  BY <1>1, <1>2 DEF BindingInv, FileSound, Head1, FileOps
<1>4. p \in SetOfComponents => insp.entries = {}
  BY <1>1, <1>3 DEF BindingInv, EntriesSound, Head1, FileOps
<1>5. /\ a \in WorkOps /\ b \in WorkOps /\ c \in WorkOps /\ <<c>> \in Seq(WorkOps)
      /\ Len(<<c>>) = 1 /\ <<c>>[1] = c
      /\ a.op = "read" /\ b.op = "fstat" /\ c.op = "restat" /\ a.path = p /\ b.path = p /\ c.path = p
  BY <1>3, OneFileOp DEF FileOps
<1> HIDE DEF a, b, c
<1>6. CASE Refuse
  BY <1>1, <1>6, RefuseKeeps
<1>7. CASE ~Refuse /\ Cached(p) = {}
  <2> DEFINE u == <<a, b, c>>
             v == u \o Tail(w)
  <2>1. insp' = [insp EXCEPT !.work = v] /\ UNCHANGED <<disk, moments, launch>>
    BY <1>1, <1>3, <1>7 DEF OpenFile, Go, Next1, a, b, c
  <2>2. u \in Seq(WorkOps) /\ Len(u) = 3 /\ u[1] = a /\ u[2] = b /\ u[3] = c
    BY <1>5
  <2> HIDE DEF u
  <2>3. /\ \A i \in 1..Len(u) : u[i].path = w[1].path
        /\ \A i \in 1..Len(u) : u[i].op = IF i = Len(u) THEN u[i].op ELSE IF i = 1 THEN "read" ELSE "fstat"
        /\ u[Len(u)].op = "restat"
    <3>1. \A i \in 1..Len(u) : i = 1 \/ i = 2 \/ i = 3
      BY <2>2
    <3> QED BY <3>1, <2>2, <1>3, <1>5
  <2>4. WorkSound(v) /\ Covered(v, w) /\ v # <<>> /\ v[1] = a
    BY <1>1, <1>2, <2>2, <2>3, WorkReplace
  <2> HIDE DEF v
  <2>5. /\ DOMAIN insp' = Fields /\ insp'.pc = "hash" /\ insp'.work = v /\ insp'.file = insp.file
        /\ insp'.resolving = insp.resolving /\ insp'.status = insp.status
        /\ insp'.entries = insp.entries /\ insp'.hashed = insp.hashed /\ insp'.trees = insp.trees
    BY <1>1, <1>2, <2>1 DEF Fields
  <2>6. FileSound'
    <3>1. Len(<<>>) = 0
      BY EmptySeq
    <3> QED BY <1>3, <1>5, <2>1, <2>4, <2>5, <3>1, FileStep
  <2>7. EntriesSound'
    BY <1>2, <1>4, <1>5, <2>1, <2>4, <2>5, SameEntries
  <2>8. Together' /\ IdentityHeldTogether'
    BY <1>5, <2>4, <2>5 DEF Together, Head1, BindingInv, IdentityHeldTogether
  <2> QED BY <1>1, <1>2, <2>1, <2>4, <2>5, <2>6, <2>7, <2>8, HashStep
<1>8. CASE ~Refuse /\ Cached(p) # {}
  <2> DEFINE v == <<c>> \o Tail(w)
  <2>1. PICK h \in Cached(p) : /\ insp' = [insp EXCEPT !.file.halves = h.data, !.work = v]
                               /\ UNCHANGED <<disk, moments, launch>> /\ h.seen = insp.file.seen
    <3>1. (CHOOSE h \in Cached(p) : TRUE) \in Cached(p)
      BY <1>8
    <3> QED BY <1>1, <1>3, <1>8, <3>1 DEF OpenFile, Go, Next1, c
  <2>2. PICK f : f = [insp.file EXCEPT !.halves = h.data]
    OBVIOUS
  <2>3. insp' = [insp EXCEPT !.file = f, !.work = v]
    BY <2>1, <2>2
  <2>5. WorkSound(v) /\ Covered(v, w) /\ v # <<>> /\ v[1] = c
    BY <1>1, <1>2, <1>3, <1>5, ReplaceOne
  <2> HIDE DEF v
  <2>6. /\ DOMAIN insp' = Fields /\ insp'.pc = "hash" /\ insp'.work = v /\ insp'.file = f
        /\ insp'.resolving = insp.resolving /\ insp'.status = insp.status
        /\ insp'.entries = insp.entries /\ insp'.hashed = insp.hashed /\ insp'.trees = insp.trees
    BY <1>1, <1>2, <2>3 DEF Fields
  <2>7. /\ DOMAIN f = {"path", "seen", "halves"} /\ f.path = p /\ f.seen = insp.file.seen
        /\ f.halves = h.data
    BY <1>2, <2>2
  <2>8. HashedSound(h) /\ h.inode = Inode[p]
    BY <1>2 DEF Cached
  <2>9. Reading(f) /\ Len(f.halves) = 2
    <3>1. Stamp(p) = disk.inode[h.inode].stamp /\ Data(p) = disk.inode[h.inode].data
      BY <1>3, <2>8, StampOf DEF Data
    <3>2. h.data \in Seq({0, 1}) /\ Len(h.data) = 2 /\ (Stamp(p) = h.seen => h.data = Data(p))
      BY <2>8, <3>1 DEF HashedSound
    <3> QED BY <1>3, <2>1, <2>7, <3>2 DEF Reading
  <2>10. FileSound'
    BY <1>5, <2>1, <2>5, <2>6, <2>7, <2>9, FileStep
  <2>11. EntriesSound'
    BY <1>2, <1>4, <1>5, <2>1, <2>5, <2>6, SameEntries
  <2>12. Together' /\ IdentityHeldTogether'
    BY <1>5, <2>5, <2>6 DEF Together, Head1, BindingInv, IdentityHeldTogether
  <2> QED BY <1>1, <2>1, <2>5, <2>6, <2>7, <2>10, <2>11, <2>12, HashStep
<1> QED BY <1>6, <1>7, <1>8

\* A step that is done with an operation on a file, and goes on with the next one.
LEMMA FileOpDone ==
    ASSUME BindingInv, insp.pc = "hash", insp.work # <<>>, insp.work[1].op \in {"read", "fstat"},
           UNCHANGED <<disk, moments, launch>>, NEW f,
           DOMAIN insp' = Fields, DOMAIN f = {"path", "seen", "halves"}, insp'.pc = "hash",
           insp'.work = Tail(insp.work), insp'.file = f,
           insp'.resolving = insp.resolving, insp'.status = insp.status,
           insp'.entries = insp.entries, insp'.trees = insp.trees,
           \A h \in insp'.hashed : HashedSound(h),
           Reading(f), f.path = insp.work[1].path, Len(f.halves) = 2
    PROVE  BindingInv'
<1> DEFINE w == insp.work
           t == Tail(w)
<1>1. WorkSound(w) /\ WorkSound(t) /\ Covered(t, w)
  BY HashingFacts, WorkTail, TailCovered
<1>2. t # <<>> /\ t[1].op \in {"fstat", "restat"} /\ t[1].path = w[1].path
  BY <1>1, AfterHead DEF Follows
<1>3. w[1].path \in SetOfComponents => insp.entries = {}
  BY DEF BindingInv, EntriesSound, Head1, FileOps
<1> HIDE DEF t
<1>4. FileSound'
  BY <1>2, FileStep DEF t
<1>5. EntriesSound'
  BY <1>1, <1>2, <1>3, SameEntries DEF t
<1>6. Together' /\ IdentityHeldTogether'
  BY <1>2 DEF Together, Head1, BindingInv, IdentityHeldTogether, t
<1> QED BY <1>1, <1>4, <1>5, <1>6, HashStep DEF t

\* A chunk is read: it is what the inode holds, if it still has the stamp.
LEMMA ReadChunkKeeps ==
    ASSUME BindingInv, ReadChunk
    PROVE  BindingInv'
<1> DEFINE w == insp.work
           n == Len(insp.file.halves)
           b == disk.inode[Inode[insp.file.path]].data[n + 1]
           hs == Append(insp.file.halves, b)
<1>1. insp.pc = "hash" /\ insp.work # <<>> /\ insp.work[1].op = "read"
  BY DEF ReadChunk, Doing
<1>2. /\ WorkSound(w) /\ DOMAIN insp = Fields
      /\ DOMAIN insp.file = {"path", "seen", "halves"} /\ \A h \in insp.hashed : HashedSound(h)
  BY <1>1, HashingFacts
<1>3. Reading(insp.file) /\ insp.file.path = w[1].path /\ n < 2
  BY <1>1 DEF BindingInv, FileSound, Head1, FileOps
<1>4. PICK f : f = [insp.file EXCEPT !.halves = hs]
  OBVIOUS
<1>5. /\ DOMAIN f = {"path", "seen", "halves"} /\ f.path = insp.file.path /\ f.seen = insp.file.seen
      /\ f.halves = hs
  BY <1>2, <1>4
<1>6. Reading(f) /\ Len(f.halves) = n + 1
  <2>1. b = Data(insp.file.path)[n + 1]
    BY DEF Data
  <2> QED BY <1>3, <1>5, <2>1, HalfRead
<1>7. CASE Len(hs) = 2
  <2>1. insp' = [insp EXCEPT !.file = f, !.work = Tail(w)] /\ UNCHANGED <<disk, moments, launch>>
    BY <1>1, <1>4, <1>7 DEF ReadChunk, Done, Go, Next1
  <2>2. /\ DOMAIN insp' = Fields /\ insp'.pc = "hash" /\ insp'.work = Tail(w) /\ insp'.file = f
        /\ insp'.resolving = insp.resolving /\ insp'.status = insp.status
        /\ insp'.entries = insp.entries /\ insp'.hashed = insp.hashed /\ insp'.trees = insp.trees
    BY <1>1, <1>2, <2>1 DEF Fields
  <2> QED BY <1>1, <1>2, <1>3, <1>5, <1>6, <1>7, <2>1, <2>2, FileOpDone
<1>8. CASE Len(hs) # 2
  <2>1. insp' = [insp EXCEPT !.file = f] /\ UNCHANGED <<disk, moments, launch>>
    BY <1>1, <1>4, <1>8 DEF ReadChunk, Done, Go, Next1
  <2>2. /\ DOMAIN insp' = Fields /\ insp'.pc = "hash" /\ insp'.work = w /\ insp'.file = f
        /\ insp'.resolving = insp.resolving /\ insp'.status = insp.status
        /\ insp'.entries = insp.entries /\ insp'.hashed = insp.hashed /\ insp'.trees = insp.trees
    BY <1>1, <1>2, <2>1 DEF Fields
  <2>3. Len(f.halves) < 2
    <3>1. n + 1 # 2 /\ n < 2 /\ n \in Nat
      BY <1>3, <1>5, <1>6, <1>8, LenProperties DEF Reading
    <3> QED BY <1>6, <3>1
  <2>4. FileSound'
    BY <1>1, <1>3, <1>5, <1>6, <2>1, <2>2, <2>3, FileStep
  <2>5. EntriesSound'
    <3>1. Covered(w, w)
      BY DEF Covered
    <3>2. w[1].path \in SetOfComponents => insp.entries = {}
      BY <1>1 DEF BindingInv, EntriesSound, Head1, FileOps
    <3> QED BY <1>1, <1>2, <2>1, <2>2, <3>1, <3>2, SameEntries
  <2>6. Together' /\ IdentityHeldTogether'
    BY <1>1, <2>2 DEF Together, Head1, BindingInv, IdentityHeldTogether
  <2> QED BY <1>1, <1>2, <1>5, <2>1, <2>2, <2>4, <2>5, <2>6, HashStep
<1> QED BY <1>7, <1>8

\* The descriptor is compared after the last chunk: the inode is as it was hashed.
LEMMA AfterHashKeeps ==
    ASSUME BindingInv, BindingHypotheses, AfterHash
    PROVE  BindingInv'
<1> DEFINE w == insp.work
           p == insp.file.path
<1>1. insp.pc = "hash" /\ insp.work # <<>> /\ insp.work[1].op = "fstat"
  BY DEF AfterHash, Doing
<1>2. /\ WorkSound(w) /\ DOMAIN insp = Fields
      /\ DOMAIN insp.file = {"path", "seen", "halves"} /\ \A h \in insp.hashed : HashedSound(h)
  BY <1>1, HashingFacts
<1>3. Reading(insp.file) /\ p = w[1].path /\ Len(insp.file.halves) = 2 /\ p \in Paths
  BY <1>1 DEF BindingInv, FileSound, Head1, FileOps, Reading
<1>4. CASE Refuse
  BY <1>1, <1>4, RefuseKeeps
<1>5. CASE ~Refuse
  <2>1. PICK k : k = [inode |-> Inode[p], data |-> insp.file.halves, seen |-> insp.file.seen]
    OBVIOUS
  <2>2. /\ insp' = [insp EXCEPT !.hashed = insp.hashed \cup {k}, !.work = Tail(w)]
        /\ UNCHANGED <<disk, moments, launch>> /\ disk.inode[Inode[p]].stamp = insp.file.seen
    BY <1>1, <1>5, <2>1 DEF AfterHash, Done, Go, Next1
  <2>3. /\ DOMAIN insp' = Fields /\ insp'.pc = "hash" /\ insp'.work = Tail(w) /\ insp'.file = insp.file
        /\ insp'.resolving = insp.resolving /\ insp'.status = insp.status
        /\ insp'.entries = insp.entries /\ insp'.hashed = insp.hashed \cup {k} /\ insp'.trees = insp.trees
    BY <1>1, <1>2, <2>2 DEF Fields
  <2>4. HashedSound(k)
    <3>1. k.inode = Inode[p] /\ k.data = insp.file.halves /\ k.seen = insp.file.seen
      BY <2>1
    <3>2. Stamp(p) = disk.inode[Inode[p]].stamp /\ Inode[p] \in Inodes
      BY <1>3, StampOf
    <3>3. insp.file.halves = Data(p) /\ Data(p) = disk.inode[Inode[p]].data
      BY <1>3, <2>2, <3>2, AllRead DEF Data
    <3> QED BY <1>3, <2>2, <3>1, <3>2, <3>3 DEF HashedSound, Reading
  <2>5. \A h \in insp'.hashed : HashedSound(h)
    BY <1>2, <2>3, <2>4
  <2> QED BY <1>1, <1>2, <1>3, <2>2, <2>3, <2>5, FileOpDone
<1> QED BY <1>4, <1>5

\* The name is compared: the file is an entry, which it was not before.
LEMMA AfterFileKeeps ==
    ASSUME BindingInv, BindingHypotheses, AfterFile
    PROVE  BindingInv'
<1> DEFINE w == insp.work
           p == insp.file.path
           t == Tail(w)
<1>1. insp.pc = "hash" /\ insp.work # <<>> /\ insp.work[1].op = "restat"
  BY DEF AfterFile, Doing
<1>2. /\ WorkSound(w) /\ DOMAIN insp = Fields
      /\ DOMAIN insp.file = {"path", "seen", "halves"} /\ \A h \in insp.hashed : HashedSound(h)
  BY <1>1, HashingFacts
<1>3. Reading(insp.file) /\ p = w[1].path /\ Len(insp.file.halves) = 2 /\ p \in Paths
  BY <1>1 DEF BindingInv, FileSound, Head1, FileOps, Reading
<1>4. CASE Refuse
  BY <1>1, <1>4, RefuseKeeps
<1>5. CASE ~Refuse
  <2>1. PICK e : e = [path |-> p, data |-> insp.file.halves, seen |-> insp.file.seen]
    OBVIOUS
  <2>2. /\ insp' = [insp EXCEPT !.file = NoFile, !.work = t, !.entries = insp.entries \cup {e}]
        /\ UNCHANGED <<disk, moments, launch>> /\ Stamp(p) = insp.file.seen
    BY <1>1, <1>5, <2>1 DEF AfterFile, Done, Go, Next1, Stable
  <2>3. /\ DOMAIN insp' = Fields /\ insp'.pc = "hash" /\ insp'.work = t /\ insp'.file = NoFile
        /\ insp'.resolving = insp.resolving /\ insp'.status = insp.status
        /\ insp'.entries = insp.entries \cup {e} /\ insp'.hashed = insp.hashed /\ insp'.trees = insp.trees
    BY <1>1, <1>2, <2>2 DEF Fields
  <2>4. DOMAIN insp'.file = {"path", "seen", "halves"}
    BY <2>3 DEF NoFile
  <2>5. e.path = p /\ e.data = Data(p) /\ e.seen = insp.file.seen /\ p \in disk.names
    BY <1>3, <2>1, <2>2, AllRead
  <2>6. /\ WorkSound(t) /\ Covered(t, w) /\ Len(w) \in Nat \ {0} /\ Len(t) = Len(w) - 1
        /\ \A i \in 1..Len(t) : t[i] = w[i + 1] /\ i + 1 \in 1..Len(w) /\ 1 # i + 1
    BY <1>1, <1>2, WorkTail, TailCovered
  <2>7. t # <<>> /\ t[1] = w[2] /\ Follows(w[1], w[2])
    BY <1>1, <1>2, AfterHead
  <2>8. /\ t[1].op \in {"tree", "file", "enter", "leave"}
        /\ t[1].op = "tree" => p \in SetOfComponents
        /\ t[1].op = "file" => t[1].path \notin SetOfComponents
    BY <1>1, <1>3, <2>7 DEF Follows
  <2>9. /\ p \in SetOfComponents => insp.entries = {}
        /\ \A f \in insp.entries : FileUntouched(f.path, f.seen, f.data) /\ f.path # p
        /\ \A f, g \in insp.entries : f.path = g.path => f = g
    <3>1. 1 \in 1..Len(w)
      BY <2>6
    <3> QED BY <1>1, <1>3, <3>1 DEF BindingInv, EntriesSound, Head1, FileOps, Visits
  <2>10. \A i \in 1..Len(t) : t[i].op \in Visits =>
            p # t[i].path /\ (t[i].op = "enter" => p \notin Below(t[i].path))
    <3>a. WorkSound(w)
      BY <1>2
    <3>b. \A j, k \in 1..Len(w) : j # k => Apart(w[j], w[k])
      BY <3>a, Zenon DEF WorkSound
    <3>c. 1 \in 1..Len(w)
      BY <2>6
    <3>1. 1 \in 1..Len(w) /\ \A k \in 1..Len(w) : k # 1 => Apart(w[1], w[k]) /\ Apart(w[k], w[1])
      BY <3>b, <3>c
    <3>2. \A i \in 1..Len(t) : Apart(w[1], t[i]) /\ Apart(t[i], w[1])
      BY <2>6, <3>1
    <3> QED BY <1>1, <1>3, <3>2 DEF Apart, Visits
  <2>11. \A f \in insp.entries : \A i \in 1..Len(t) : t[i].op \in Visits =>
            f.path # t[i].path /\ (t[i].op = "enter" => f.path \notin Below(t[i].path))
    <3>1. EntriesSound
      BY DEF BindingInv
    <3> QED BY <2>6, <3>1 DEF EntriesSound, Covered
  <2>12. FileUntouched(p, e.seen, e.data)
    BY <1>3, <2>2, <2>5 DEF FileUntouched, Reading
  <2> HIDE DEF t
  <2>13. FileSound'
    BY <2>2, <2>3, <2>8, FileStep DEF FileOps
  <2>14. EntriesSound'
    <3>1. \A h \in insp'.hashed : HashedSound(h)'
      BY <1>2, <2>2, <2>3 DEF HashedSound
    <3>2. \A f \in insp'.entries : FileUntouched(f.path, f.seen, f.data)'
      BY <2>2, <2>3, <2>5, <2>9, <2>12 DEF FileUntouched, Stamp, Data
    <3>3. \A f, g \in insp'.entries : f.path = g.path => f = g
      BY <2>3, <2>5, <2>9
    <3>4. \A f \in insp'.entries : \A i \in 1..Len(insp'.work) : insp'.work[i].op \in Visits =>
            f.path # insp'.work[i].path /\ (insp'.work[i].op = "enter" => f.path \notin Below(insp'.work[i].path))
      BY <2>3, <2>5, <2>10, <2>11
    <3>5. ~(insp'.work[1].op = "begin" \/ (insp'.work[1].op \in FileOps /\ insp'.work[1].path \in SetOfComponents))
      BY <2>3, <2>8 DEF FileOps
    <3> QED BY <3>1, <3>2, <3>3, <3>4, <3>5 DEF EntriesSound, Head1
  <2>15. Together'
    <3> SUFFICES ASSUME t[1].op = "tree"
                 PROVE  \E m \in moments' : \A f \in insp'.entries : HeldAt(f, m)
      BY <2>3, <2>8 DEF Together, Head1, HeldAt
    <3>1. insp'.entries = {e} /\ Contents \in moments'
      BY <1>1, <2>2, <2>3, <2>8, <2>9 DEF BindingInv, Head1
    <3>2. HeldAt(e, Contents)
      BY <1>3, <2>5 DEF HeldAt, Contents
    <3> QED BY <3>1, <3>2
  <2>16. IdentityHeldTogether'
    BY <2>3 DEF BindingInv, IdentityHeldTogether
  <2> QED BY <1>1, <2>2, <2>3, <2>4, <2>6, <2>13, <2>14, <2>15, <2>16, HashStep
<1> QED BY <1>4, <1>5

\* A directory is left.
LEMMA LeaveDirectoryKeeps ==
    ASSUME BindingInv, LeaveDirectory
    PROVE  BindingInv'
<1> DEFINE w == insp.work
           t == Tail(w)
<1>1. insp.pc = "hash" /\ insp.work # <<>> /\ insp.work[1].op = "leave"
  BY DEF LeaveDirectory, Doing
<1>2. /\ WorkSound(w) /\ DOMAIN insp = Fields
      /\ DOMAIN insp.file = {"path", "seen", "halves"} /\ \A h \in insp.hashed : HashedSound(h)
  BY <1>1, HashingFacts
<1>3. CASE Refuse
  BY <1>1, <1>3, RefuseKeeps
<1>4. CASE ~Refuse
  <2>1. insp' = [insp EXCEPT !.work = t] /\ UNCHANGED <<disk, moments, launch>>
    BY <1>1, <1>4 DEF LeaveDirectory, Done, Go, Next1
  <2>2. /\ DOMAIN insp' = Fields /\ insp'.pc = "hash" /\ insp'.work = t /\ insp'.file = insp.file
        /\ insp'.resolving = insp.resolving /\ insp'.status = insp.status
        /\ insp'.entries = insp.entries /\ insp'.hashed = insp.hashed /\ insp'.trees = insp.trees
    BY <1>1, <1>2, <2>1 DEF Fields
  <2>3. WorkSound(t) /\ Covered(t, w) /\ t # <<>> /\ t[1] = w[2] /\ Follows(w[1], w[2])
    BY <1>1, <1>2, WorkTail, TailCovered, AfterHead
  <2>4. t[1].op \in {"file", "enter", "leave", "walked"} /\ (t[1].op = "file" => t[1].path \notin SetOfComponents)
    BY <1>1, <2>3 DEF Follows
  <2> HIDE DEF t
  <2>5. FileSound'
    BY <2>1, <2>2, <2>4, FileStep DEF FileOps
  <2>6. EntriesSound'
    BY <1>2, <2>1, <2>2, <2>3, <2>4, SameEntries DEF FileOps
  <2>7. Together' /\ IdentityHeldTogether'
    BY <2>2, <2>4 DEF Together, Head1, BindingInv, IdentityHeldTogether
  <2> QED BY <1>1, <1>2, <2>1, <2>2, <2>3, <2>5, <2>6, <2>7, HashStep
<1> QED BY <1>3, <1>4

\* A second look finds the file untouched: it held its bytes at the moment that is sought.
LEMMA RecheckFileKeeps ==
    ASSUME BindingInv, RecheckFile
    PROVE  BindingInv'
<1> DEFINE w == insp.work
           t == Tail(w)
           e == CHOOSE x \in insp.entries : x.path = insp.work[1].path
<1>1. insp.pc = "hash" /\ insp.work # <<>> /\ insp.work[1].op = "recheck"
  BY DEF RecheckFile, Doing
<1>2. /\ WorkSound(w) /\ DOMAIN insp = Fields
      /\ DOMAIN insp.file = {"path", "seen", "halves"} /\ \A h \in insp.hashed : HashedSound(h)
  BY <1>1, HashingFacts
<1>3. CASE Refuse
  BY <1>1, <1>3, RefuseKeeps
<1>4. CASE ~Refuse
  <2>1. insp' = [insp EXCEPT !.work = t] /\ UNCHANGED <<disk, moments, launch>> /\ Stamp(e.path) = e.seen
    BY <1>1, <1>4 DEF RecheckFile, Done, Go, Next1, Stable
  <2>2. /\ DOMAIN insp' = Fields /\ insp'.pc = "hash" /\ insp'.work = t /\ insp'.file = insp.file
        /\ insp'.resolving = insp.resolving /\ insp'.status = insp.status
        /\ insp'.entries = insp.entries /\ insp'.hashed = insp.hashed /\ insp'.trees = insp.trees
    BY <1>1, <1>2, <2>1 DEF Fields
  <2>3. /\ WorkSound(t) /\ Covered(t, w) /\ t # <<>> /\ t[1] = w[2] /\ Follows(w[1], w[2])
        /\ Len(w) \in Nat \ {0} /\ Len(t) = Len(w) - 1 /\ \A i \in 1..Len(t) : t[i] = w[i + 1]
    BY <1>1, <1>2, WorkTail, TailCovered, AfterHead
  <2>4. t[1].op \in {"recheck", "tree"}
    BY <1>1, <2>3 DEF Follows
  <2>5. \A f \in insp.entries : f.path = w[1].path => Stamp(f.path) = f.seen
    <3> SUFFICES ASSUME NEW f \in insp.entries, f.path = w[1].path
                 PROVE  Stamp(f.path) = f.seen
      OBVIOUS
    <3>1. e \in insp.entries /\ e.path = w[1].path
      OBVIOUS
    <3>2. \A x, y \in insp.entries : x.path = y.path => x = y
      BY DEF BindingInv, EntriesSound
    <3> HIDE DEF e
    <3>3. e = f
      BY <3>1, <3>2
    <3> QED BY <3>3, <2>1
  <2> HIDE DEF t, e
  <2>6. FileSound'
    BY <2>1, <2>2, <2>4, FileStep DEF FileOps
  <2>7. EntriesSound'
    BY <1>2, <2>1, <2>2, <2>3, <2>4, SameEntries DEF FileOps
  <2>8. Together'
    <3>1. PICK m \in moments : \A f \in insp.entries :
             \/ HeldAt(f, m)
             \/ /\ \E i \in 1..Len(w) : w[i] = [op |-> "recheck", path |-> f.path]
                /\ Stamp(f.path) = f.seen => HeldAt(f, m)
      BY <1>1 DEF BindingInv, Together, Head1
    <3>2. ASSUME NEW f \in insp.entries, ~HeldAt(f, m)
          PROVE  /\ \E i \in 1..Len(t) : t[i] = [op |-> "recheck", path |-> f.path]
                 /\ Stamp(f.path) = f.seen => HeldAt(f, m)
      <4>1. PICK i \in 1..Len(w) : w[i] = [op |-> "recheck", path |-> f.path]
        BY <3>1, <3>2
      <4>2. Stamp(f.path) # f.seen
        BY <3>1, <3>2
      <4>3. i # 1
        <5>1. CASE i = 1
          <6>1. w[1].path = f.path
            BY <4>1, <5>1
          <6> QED BY <6>1, <4>2, <2>5
        <5> QED BY <5>1
      <4>4. i - 1 \in 1..Len(t) /\ (i - 1) + 1 = i
        BY <4>3, <2>3
      <4>5. t[i - 1] = w[i]
        BY <4>4, <2>3
      <4> QED BY <4>1, <4>2, <4>4, <4>5
    <3>3. \A f \in insp.entries : (Stamp(f.path) = f.seen)' <=> (Stamp(f.path) = f.seen)
      BY <2>1 DEF Stamp
    <3> QED BY <2>1, <2>2, <2>4, <3>2, <3>3 DEF Together, Head1, Stamp
  <2>9. IdentityHeldTogether'
    BY <2>2 DEF BindingInv, IdentityHeldTogether
  <2> QED BY <1>1, <1>2, <2>1, <2>2, <2>3, <2>6, <2>7, <2>8, <2>9, HashStep
<1> QED BY <1>3, <1>4

\* A tree ends when no second look is to come: its files held their bytes together.
LEMMA EndTreeKeeps ==
    ASSUME BindingInv, EndTree
    PROVE  BindingInv'
<1> DEFINE w == insp.work
           t == Tail(w)
<1>1. insp.pc = "hash" /\ insp.work # <<>> /\ insp.work[1].op = "tree"
  BY DEF EndTree, Doing
<1>2. /\ WorkSound(w) /\ DOMAIN insp = Fields /\ DOMAIN insp.file = {"path", "seen", "halves"}
  BY <1>1, HashingFacts
<1>3. CASE Refuse
  BY <1>1, <1>3, RefuseKeeps
<1>4. CASE ~Refuse
  <2>1. PICK k : k = [name |-> w[1].path, entries |-> insp.entries, at |-> moments]
    OBVIOUS
  <2>2. /\ insp' = [insp EXCEPT !.entries = {}, !.hashed = {}, !.walked = {},
                      !.trees = insp.trees \cup {k}, !.work = t]
        /\ UNCHANGED <<disk, moments, launch>>
    BY <1>1, <1>4, <2>1 DEF EndTree, Done, Go, Next1
  <2>3. /\ DOMAIN insp' = Fields /\ insp'.pc = "hash" /\ insp'.work = t /\ insp'.file = insp.file
        /\ insp'.resolving = insp.resolving /\ insp'.status = insp.status
        /\ insp'.entries = {} /\ insp'.hashed = {} /\ insp'.trees = insp.trees \cup {k}
    BY <1>1, <1>2, <2>2 DEF Fields
  <2>4. /\ WorkSound(t) /\ Len(w) \in Nat \ {0} /\ Len(t) = Len(w) - 1
        /\ \A i \in 1..Len(t) : t[i] = w[i + 1]
    BY <1>1, <1>2, WorkTail
  <2>5. t # <<>> => t[1].op = "begin"
    <3> SUFFICES ASSUME t # <<>>
                 PROVE  t[1].op = "begin"
      OBVIOUS
    <3>1. Len(t) \in Nat \ {0}
      BY <2>4, EmptySeq DEF WorkSound
    <3>2. 1 \in 1..Len(w) /\ 1 < Len(w) /\ t[1] = w[1 + 1]
      BY <3>1, <2>4
    <3> QED BY <1>1, <1>2, <3>2 DEF WorkSound
  <2>6. \E m \in moments : \A f \in insp.entries : HeldAt(f, m)
    <3>1. PICK m \in moments : \A f \in insp.entries :
             HeldAt(f, m) \/ \E i \in 1..Len(w) : w[i] = [op |-> "recheck", path |-> f.path]
      BY <1>1 DEF BindingInv, Together, Head1
    <3>2. \A i \in 1..Len(w) : w[i].op # "recheck"
      BY <1>1, <1>2, <2>4 DEF WorkSound
    <3>3. ASSUME NEW f \in insp.entries
          PROVE  HeldAt(f, m)
      <4>1. CASE \E i \in 1..Len(w) : w[i] = [op |-> "recheck", path |-> f.path]
        <5>1. PICK i \in 1..Len(w) : w[i] = [op |-> "recheck", path |-> f.path]
          BY <4>1
        <5>2. w[i].op = "recheck"
          BY <5>1
        <5> QED BY <3>2, <5>2
      <4> QED BY <3>1, <4>1
    <3> QED BY <3>3
  <2> HIDE DEF t
  <2>7. FileSound'
    BY <2>2, <2>3, <2>5, FileStep DEF FileOps
  <2>8. EntriesSound'
    BY <2>3 DEF EntriesSound
  <2>9. Together'
    BY <2>3, <2>5 DEF Together, Head1
  <2>10. IdentityHeldTogether'
    <3>1. k.entries = insp.entries /\ k.at = moments
      BY <2>1
    <3> QED BY <2>3, <2>6, <3>1 DEF BindingInv, IdentityHeldTogether, HeldAt
  <2> QED BY <1>1, <1>2, <2>2, <2>3, <2>4, <2>7, <2>8, <2>9, <2>10, HashStep
<1> QED BY <1>3, <1>4

LEMMA BeginTreeKeeps ==
    ASSUME BindingInv, BeginTree
    PROVE  BindingInv'
<1> DEFINE w == insp.work
           t == Tail(w)
<1>1. insp.pc = "hash" /\ insp.work # <<>> /\ insp.work[1].op = "begin"
  BY DEF BeginTree, Doing
<1>2. /\ WorkSound(w) /\ DOMAIN insp = Fields
      /\ DOMAIN insp.file = {"path", "seen", "halves"} /\ \A h \in insp.hashed : HashedSound(h)
  BY <1>1, HashingFacts
<1>3. insp' = [insp EXCEPT !.work = t, !.visited = 0] /\ UNCHANGED <<disk, launch>> /\ moments' = {Contents}
  BY DEF BeginTree
<1>4. /\ DOMAIN insp' = Fields /\ insp'.pc = "hash" /\ insp'.work = t /\ insp'.file = insp.file
      /\ insp'.resolving = insp.resolving /\ insp'.status = insp.status
      /\ insp'.entries = insp.entries /\ insp'.hashed = insp.hashed /\ insp'.trees = insp.trees
  BY <1>1, <1>2, <1>3 DEF Fields
<1>5. WorkSound(t) /\ Covered(t, w) /\ t # <<>> /\ t[1] = w[2] /\ Follows(w[1], w[2])
  BY <1>1, <1>2, WorkTail, TailCovered, AfterHead
<1>6. t[1].op \in {"file", "enter"} /\ insp.entries = {}
  BY <1>1, <1>5 DEF Follows, BindingInv, EntriesSound, Head1
<1> HIDE DEF t
<1>7. FileSound'
  BY <1>3, <1>4, <1>6, FileStep DEF FileOps
<1>8. EntriesSound'
  BY <1>2, <1>3, <1>4, <1>5, <1>6, SameEntries
<1>9. Together' /\ IdentityHeldTogether'
  BY <1>4, <1>6 DEF Together, Head1, BindingInv, IdentityHeldTogether
<1> QED BY <1>1, <1>2, <1>3, <1>4, <1>5, <1>7, <1>8, <1>9, HashStep

\* A finite set in a sequence: each element once.
LEMMA SetInSequence ==
    ASSUME NEW S, IsFiniteSet(S)
    PROVE  LET s == SetToSeq(S) IN
             /\ s \in Seq(S) /\ DOMAIN s = 1..Len(s) /\ Len(s) \in Nat
             /\ \A i, j \in 1..Len(s) : i # j => s[i] # s[j]
             /\ \A x \in S : \E i \in 1..Len(s) : s[i] = x
<1> DEFINE s == SetToSeq(S)
           n == Cardinality(S)
<1>1. n \in Nat /\ ExistsBijection(1..n, S)
  BY FS_CardinalityType
<1>2. \E f \in [1..n -> S] : IsInjective(f)
  BY <1>1 DEF ExistsBijection, Bijection, Injection
<1>3. s \in [1..n -> S] /\ IsInjective(s)
  BY <1>2 DEF SetToSeq
<1> HIDE DEF s
<1>4. s \in Seq(S)
  BY <1>1, <1>3, SeqDef
<1>5. Len(s) \in Nat /\ DOMAIN s = 1..Len(s) /\ DOMAIN s = 1..n
  BY <1>3, <1>4, LenProperties
<1>6. s \in Injection(1..n, S) /\ IsFiniteSet(1..n) /\ Cardinality(1..n) = n
  BY <1>1, <1>3, FS_Interval DEF Injection
<1>7. s \in Surjection(1..n, S)
  BY <1>6, FS_Injection
<1>8. \A x \in S : \E i \in 1..Len(s) : s[i] = x
  BY <1>5, <1>7 DEF Surjection
<1>9. \A i, j \in 1..Len(s) : i # j => s[i] # s[j]
  BY <1>3, <1>5 DEF IsInjective
<1> QED BY <1>4, <1>5, <1>8, <1>9 DEF s

\* A sequence of operations, one for each element of a sequence.
LEMMA OpsOfNames ==
    ASSUME NEW n \in Nat, NEW u \in [1..n -> WorkOps]
    PROVE  u \in Seq(WorkOps) /\ Len(u) = n
<1>1. u \in Seq(WorkOps)
  BY SeqDef
<1>2. Len(u) \in Nat /\ DOMAIN u = 1..Len(u) /\ DOMAIN u = 1..n
  BY <1>1, LenProperties
<1>3. Len(u) = n
  BY <1>2
<1> QED BY <1>1, <1>3

\* The walk is over: the moment that is sought is now, unless a second look says otherwise.
LEMMA BeginRecheckKeeps ==
    ASSUME BindingInv, BindingHypotheses, BeginRecheck
    PROVE  BindingInv'
<1> DEFINE w == insp.work
           t == Tail(w)
           S == {e.path : e \in insp.entries}
           files == SetToSeq(S)
           u == [i \in DOMAIN files |-> [op |-> "recheck", path |-> files[i]]]
           v == u \o t
<1>1. insp.pc = "hash" /\ insp.work # <<>> /\ insp.work[1].op = "walked"
  BY DEF BeginRecheck, Doing
<1>2. /\ WorkSound(w) /\ DOMAIN insp = Fields
      /\ DOMAIN insp.file = {"path", "seen", "halves"} /\ \A h \in insp.hashed : HashedSound(h)
  BY <1>1, HashingFacts
<1>3. insp' = [insp EXCEPT !.work = v] /\ UNCHANGED <<disk, moments, launch>>
  BY <1>1 DEF BeginRecheck, Go, Next1
<1>4. S \subseteq Paths /\ IsFiniteSet(S)
  <2>1. S \subseteq Paths
    BY DEF BindingInv, EntriesSound, FileUntouched
  <2> QED BY <2>1, FS_Subset DEF BindingHypotheses
<1>5. /\ files \in Seq(S) /\ DOMAIN files = 1..Len(files) /\ Len(files) \in Nat
      /\ \A x \in S : \E i \in 1..Len(files) : files[i] = x
  BY <1>4, SetInSequence
<1> HIDE DEF S, files
<1>6. \A i \in 1..Len(files) : files[i] \in Paths
  BY <1>4, <1>5, ElementOfSeq
<1>7. /\ u \in Seq(WorkOps) /\ Len(u) = Len(files)
      /\ \A i \in 1..Len(files) : u[i] = [op |-> "recheck", path |-> files[i]] /\ u[i].op = "recheck"
  <2>1. u \in [1..Len(files) -> WorkOps]
    BY <1>5, <1>6 DEF WorkOps
  <2>2. \A i \in 1..Len(files) : u[i] = [op |-> "recheck", path |-> files[i]] /\ u[i].op = "recheck"
    BY <1>5
  <2> HIDE DEF u
  <2> QED BY <1>5, <2>1, <2>2, OpsOfNames
<1> HIDE DEF u
<1>8. /\ WorkSound(t) /\ Covered(t, w) /\ t # <<>> /\ t[1] = w[2] /\ Follows(w[1], w[2]) /\ Len(t) \in Nat
  <2>1. Len(w) > 1 /\ Len(w) \in Nat /\ Len(t) = Len(w) - 1
    BY <1>1, <1>2, WorkTail, AfterHead
  <2> QED BY <1>1, <1>2, <2>1, WorkTail, TailCovered, AfterHead
<1>9. t[1].op = "tree"
  BY <1>1, <1>8 DEF Follows
<1>10. /\ \A i \in 1..Len(u) : u[i].op = "recheck"
       /\ \A i \in 1..Len(u) : u[i].op # "tree" => Follows(u[i], IF i < Len(u) THEN u[i + 1] ELSE t[1])
  <2>1. \A i \in 1..Len(u) : u[i].op = "recheck"
    BY <1>7
  <2>2. \A i \in 1..Len(u) : (IF i < Len(u) THEN u[i + 1] ELSE t[1]).op \in {"recheck", "tree"}
    <3> SUFFICES ASSUME NEW i \in 1..Len(u)
                 PROVE  (IF i < Len(u) THEN u[i + 1] ELSE t[1]).op \in {"recheck", "tree"}
      OBVIOUS
    <3>1. CASE i < Len(u)
      <4>1. i + 1 \in 1..Len(u)
        BY <1>5, <1>7, <3>1
      <4> QED BY <2>1, <3>1, <4>1
    <3>2. CASE ~(i < Len(u))
      BY <1>9, <3>2
    <3> QED BY <3>1, <3>2
  <2> QED BY <2>1, <2>2 DEF Follows
<1>11. WorkSound(v) /\ Len(v) = Len(u) + Len(t)
       /\ \A i \in 1..Len(u) + Len(t) : v[i] = IF i <= Len(u) THEN u[i] ELSE t[i - Len(u)]
  <2>1. /\ \A i \in 1..Len(u) : u[i].op = "tree" => (IF i < Len(u) THEN u[i + 1] ELSE t[1]).op = "begin"
        /\ \A i, j \in 1..Len(u) : i <= j /\ u[j].op = "recheck" => u[i].op = "recheck"
        /\ \A i \in 1..Len(u) : t[1].op = "recheck" => u[i].op = "recheck"
    BY <1>10
  <2>2. /\ \A i, j \in 1..Len(u) : i # j => Apart(u[i], u[j])
        /\ \A i \in 1..Len(u) : \A j \in 1..Len(t) : Apart(u[i], t[j]) /\ Apart(t[j], u[i])
    BY <1>10 DEF Apart, Visits
  <2> HIDE DEF t
  <2>3. u \in Seq(WorkOps) /\ WorkSound(t) /\ t # <<>>
    BY <1>7, <1>8
  <2>4. \A i \in 1..Len(u) : u[i].op # "tree" => Follows(u[i], IF i < Len(u) THEN u[i + 1] ELSE t[1])
    BY <1>10
  <2> QED BY <2>1, <2>2, <2>3, <2>4, WorkJoin
<1> HIDE DEF t, v
<1>12. v[1].op \in {"recheck", "tree"}
  <2>1. CASE Len(u) = 0
    <3>1. 1 \in 1..Len(u) + Len(t) /\ ~(1 <= Len(u)) /\ 1 - Len(u) = 1
      <4>1. Len(t) > 0
        BY <1>8, EmptySeq DEF WorkSound
      <4> QED BY <1>8, <2>1, <4>1
    <3> QED BY <1>9, <1>11, <3>1
  <2>2. CASE Len(u) # 0
    <3>1. 1 \in 1..Len(u) + Len(t) /\ 1 <= Len(u) /\ 1 \in 1..Len(u)
      BY <1>5, <1>7, <1>8, <2>2
    <3> QED BY <1>10, <1>11, <3>1
  <2> QED BY <2>1, <2>2
<1>13. Covered(v, w)
  <2> SUFFICES ASSUME NEW i \in 1..Len(u) + Len(t), v[i].op \in Visits
               PROVE  \E j \in 1..Len(w) : /\ w[j].op \in Visits /\ w[j].path = v[i].path
                                           /\ v[i].op = "enter" => w[j].op = "enter"
    BY <1>11 DEF Covered
  <2>1. ~(i <= Len(u))
    BY <1>5, <1>7, <1>8, <1>10, <1>11 DEF Visits
  <2>2. i - Len(u) \in 1..Len(t) /\ v[i] = t[i - Len(u)]
    BY <1>5, <1>7, <1>8, <1>11, <2>1
  <2> QED BY <1>8, <2>2 DEF Covered
<1>14. /\ DOMAIN insp' = Fields /\ insp'.pc = "hash" /\ insp'.work = v /\ insp'.file = insp.file
       /\ insp'.resolving = insp.resolving /\ insp'.status = insp.status
       /\ insp'.entries = insp.entries /\ insp'.hashed = insp.hashed /\ insp'.trees = insp.trees
  BY <1>1, <1>2, <1>3 DEF Fields
<1>15. FileSound'
  BY <1>3, <1>12, <1>14, FileStep DEF FileOps
<1>16. EntriesSound'
  BY <1>2, <1>3, <1>12, <1>13, <1>14, SameEntries DEF FileOps
<1>17. Together'
  <2>1. Contents \in moments'
    BY <1>1, <1>3 DEF BindingInv, Head1
  <2>2. ASSUME NEW f \in insp.entries
        PROVE  /\ \E i \in 1..Len(v) : v[i] = [op |-> "recheck", path |-> f.path]
               /\ Stamp(f.path) = f.seen => HeldAt(f, Contents)
    <3>1. f.path \in S
      BY DEF S
    <3>2. PICK i \in 1..Len(files) : files[i] = f.path
      BY <1>5, <3>1
    <3>3. i \in 1..Len(u) + Len(t) /\ i <= Len(u) /\ i \in 1..Len(u)
      BY <1>5, <1>7, <1>8
    <3>4. v[i] = [op |-> "recheck", path |-> f.path]
      BY <1>7, <1>11, <3>2, <3>3
    <3>5. Stamp(f.path) = f.seen => HeldAt(f, Contents)
      BY DEF BindingInv, EntriesSound, FileUntouched, HeldAt, Contents
    <3> QED BY <1>11, <3>3, <3>4, <3>5
  <2>3. \A f \in insp.entries : Stamp(f.path)' = Stamp(f.path)
    BY <1>3 DEF Stamp
  <2> QED BY <1>14, <2>1, <2>2, <2>3 DEF Together, Head1
<1>18. IdentityHeldTogether'
  BY <1>14 DEF BindingInv, IdentityHeldTogether
<1> QED BY <1>1, <1>2, <1>3, <1>11, <1>14, <1>15, <1>16, <1>17, <1>18, HashStep

LEMMA EnterDirectoryKeeps ==
    ASSUME BindingInv, BindingHypotheses, EnterDirectory
    PROVE  BindingInv'
<1> DEFINE w == insp.work
           t == Tail(w)
           d == insp.work[1].path
           S == Listing(d) \cap disk.names
           names == SetToSeq(S)
           n == Len(names)
           ops == [i \in DOMAIN names |->
                     [op |-> IF names[i] \in Dirs THEN "enter" ELSE "file", path |-> names[i]]]
           l == [op |-> "leave", path |-> d]
           u == ops \o <<l>>
           v == u \o t
<1>1. insp.pc = "hash" /\ insp.work # <<>> /\ insp.work[1].op = "enter"
  BY DEF EnterDirectory, Doing
<1>2. /\ WorkSound(w) /\ DOMAIN insp = Fields /\ d \in Dirs
      /\ DOMAIN insp.file = {"path", "seen", "halves"} /\ \A h \in insp.hashed : HashedSound(h)
  BY <1>1, HashingFacts
<1>3. CASE Refuse
  BY <1>1, <1>3, RefuseKeeps
<1>4. CASE ~Refuse
  <2>0. PICK visited, walked : /\ insp' = [insp EXCEPT !.visited = visited, !.walked = walked, !.work = v]
                               /\ UNCHANGED <<disk, moments, launch>>
    <3>1. Go([insp EXCEPT !.visited = @ + Len(ops), !.walked = @ \cup {[path |-> d, seen |-> Stamp(d)]},
                          !.work = v])
      BY <1>4, SMTT(30) DEF EnterDirectory, Next1, Names
    <3> HIDE DEF v, ops, d
    <3> QED BY <3>1 DEF Go
  <2>1. /\ names \in Seq(S) /\ DOMAIN names = 1..n /\ n \in Nat
        /\ \A i, j \in 1..n : i # j => names[i] # names[j]
    <3>1. S \subseteq {"a", "sub", "x", "b", "y"} /\ IsFiniteSet({"a", "sub", "x", "b", "y"})
      <4>1. IsFiniteSet({} \cup {"a"} \cup {"sub"} \cup {"x"} \cup {"b"} \cup {"y"})
        BY FS_EmptySet, FS_AddElement
      <4>2. {} \cup {"a"} \cup {"sub"} \cup {"x"} \cup {"b"} \cup {"y"} = {"a", "sub", "x", "b", "y"}
        OBVIOUS
      <4> QED BY <4>1, <4>2 DEF Listing
    <3>2. IsFiniteSet(S)
      BY <3>1, FS_Subset
    <3> QED BY <3>2, SetInSequence
  <2> HIDE DEF names, n
  <2>2. \A i \in 1..n : names[i] \in Listing(d) /\ names[i] \in Paths \cup {"sub"}
    <3>1. \A i \in 1..Len(names) : names[i] \in S
      BY <2>1, ElementOfSeq
    <3> QED BY <3>1 DEF n, BindingInv, BindingTypeOK
  <2>3. \A i \in 1..n : IF names[i] = "sub" THEN names[i] \in Dirs
                        ELSE names[i] \in Paths \ Dirs /\ names[i] \notin SetOfComponents
    BY <1>2, <2>2 DEF BindingHypotheses, Dirs, Listing, SetOfComponents, Components
  <2>4. /\ \A i \in 1..n : /\ ops[i] \in WorkOps /\ ops[i].path = names[i]
                           /\ ops[i].op = IF names[i] = "sub" THEN "enter" ELSE "file"
        /\ ops \in [1..n -> WorkOps]
    <3>1. \A i \in 1..n : /\ ops[i].path = names[i] /\ ops[i].op = IF names[i] = "sub" THEN "enter" ELSE "file"
                          /\ ops[i] = [op |-> ops[i].op, path |-> names[i]]
      BY <2>1, <2>3
    <3>2. \A i \in 1..n : ops[i] \in WorkOps
      <4> SUFFICES ASSUME NEW i \in 1..n
                   PROVE  ops[i] \in WorkOps
        OBVIOUS
      <4> HIDE DEF ops
      <4>1. CASE names[i] = "sub"
        <5>1. ops[i] = [op |-> "enter", path |-> names[i]] /\ names[i] \in Dirs
          BY <2>3, <3>1, <4>1
        <5> QED BY <5>1 DEF WorkOps
      <4>2. CASE names[i] # "sub"
        <5>1. ops[i] = [op |-> "file", path |-> names[i]] /\ names[i] \in Paths
          BY <2>3, <3>1, <4>2
        <5> QED BY <5>1 DEF WorkOps, FileOps
      <4> QED BY <4>1, <4>2
    <3>3. DOMAIN ops = 1..n /\ ops = [i \in DOMAIN ops |-> ops[i]]
      BY <2>1
    <3> HIDE DEF ops
    <3> QED BY <3>1, <3>2, <3>3
  <2> HIDE DEF ops
  <2>5. ops \in Seq(WorkOps) /\ Len(ops) = n
    BY <2>1, <2>4, OpsOfNames
  <2>6. l \in WorkOps /\ l.op = "leave" /\ l.path = d
    BY <1>2 DEF WorkOps
  <2> HIDE DEF l
  <2>7. /\ u \in Seq(WorkOps) /\ Len(u) = n + 1
        /\ \A i \in 1..n + 1 : u[i] = IF i <= n THEN ops[i] ELSE l
    <3>1. <<l>> \in Seq(WorkOps) /\ Len(<<l>>) = 1 /\ <<l>>[1] = l
      BY <2>6
    <3> HIDE DEF l
    <3>2. /\ u \in Seq(WorkOps) /\ Len(u) = n + 1
          /\ \A i \in 1..n + 1 : u[i] = IF i <= n THEN ops[i] ELSE <<l>>[i - n]
      BY <2>5, <3>1, ConcatProperties
    <3>3. \A i \in 1..n + 1 : ~(i <= n) => i - n = 1
      BY <2>1
    <3> QED BY <3>1, <3>2, <3>3
  <2> HIDE DEF u
  <2>8. /\ \A i \in 1..n : /\ u[i].path = names[i] /\ u[i].path \in Listing(d)
                           /\ u[i].op = IF names[i] = "sub" THEN "enter" ELSE "file"
                           /\ u[i].op = "file" => u[i].path \notin SetOfComponents
        /\ u[n + 1].op = "leave"
        /\ \A i \in 1..Len(u) : i \in 1..n \/ i = n + 1
    <3>1. \A i \in 1..n : i \in 1..n + 1 /\ i <= n
      BY <2>1
    <3>2. n + 1 \in 1..n + 1 /\ ~(n + 1 <= n) /\ \A i \in 1..n + 1 : i \in 1..n \/ i = n + 1
      BY <2>1
    <3> QED BY <2>2, <2>3, <2>4, <2>6, <2>7, <3>1, <3>2
  <2>9. /\ WorkSound(t) /\ Covered(t, w) /\ t # <<>> /\ t[1] = w[2] /\ Follows(w[1], w[2])
        /\ Len(w) \in Nat \ {0} /\ Len(t) = Len(w) - 1 /\ Len(t) \in Nat
        /\ \A i \in 1..Len(t) : t[i] = w[i + 1] /\ i + 1 \in 1..Len(w) /\ 1 # i + 1
    <3>1. Len(w) \in Nat \ {0} /\ Len(t) = Len(w) - 1 /\ Len(t) \in Nat
      BY <1>1, <1>2, WorkTail, AfterHead
    <3> QED BY <1>1, <1>2, <3>1, WorkTail, TailCovered, AfterHead
  <2> HIDE DEF t
  <2>10. t[1].op \in {"file", "enter", "leave", "walked"} /\ (t[1].op = "file" => t[1].path \notin SetOfComponents)
    BY <1>1, <2>9 DEF Follows
  <2>11. \A i \in 1..Len(u) : /\ Follows(u[i], IF i < Len(u) THEN u[i + 1] ELSE t[1])
                              /\ u[i].op \in {"file", "enter", "leave"}
                              /\ (u[i].op = "file" => u[i].path \notin SetOfComponents)
    <3>1. \A i \in 1..Len(u) : u[i].op \in {"file", "enter", "leave"}
                               /\ (u[i].op = "file" => u[i].path \notin SetOfComponents)
      BY <2>8
    <3>2. \A i \in 1..Len(u) : LET b == IF i < Len(u) THEN u[i + 1] ELSE t[1] IN
              b.op \in {"file", "enter", "leave", "walked"} /\ (b.op = "file" => b.path \notin SetOfComponents)
      <4> SUFFICES ASSUME NEW i \in 1..Len(u)
                   PROVE  LET b == IF i < Len(u) THEN u[i + 1] ELSE t[1] IN
                            /\ b.op \in {"file", "enter", "leave", "walked"}
                            /\ b.op = "file" => b.path \notin SetOfComponents
        OBVIOUS
      <4>1. CASE i < Len(u)
        <5>1. i + 1 \in 1..Len(u)
          BY <2>1, <2>7, <4>1
        <5> QED BY <3>1, <4>1, <5>1
      <4>2. CASE ~(i < Len(u))
        BY <2>10, <4>2
      <4> QED BY <4>1, <4>2
    <3>3. \A i \in 1..Len(u) : Follows(u[i], IF i < Len(u) THEN u[i + 1] ELSE t[1])
      <4> SUFFICES ASSUME NEW i \in 1..Len(u)
                   PROVE  Follows(u[i], IF i < Len(u) THEN u[i + 1] ELSE t[1])
        OBVIOUS
      <4> DEFINE b == IF i < Len(u) THEN u[i + 1] ELSE t[1]
      <4>1. b.op \in {"file", "enter", "leave", "walked"} /\ (b.op = "file" => b.path \notin SetOfComponents)
        BY <3>2
      <4>2. u[i].op \in {"file", "enter", "leave"} /\ (u[i].op = "file" => u[i].path \notin SetOfComponents)
        BY <3>1
      <4>3. u[i].op = "file" => b.op # "walked"
        <5> SUFFICES ASSUME u[i].op = "file"
                     PROVE  b.op # "walked"
          OBVIOUS
        <5>1. i \in 1..n /\ i < Len(u) /\ i + 1 \in 1..Len(u)
          BY <2>1, <2>7, <2>8
        <5> QED BY <3>1, <5>1
      <4> HIDE DEF b
      <4>4. Follows(u[i], b)
        BY <4>1, <4>2, <4>3 DEF Follows
      <4> QED BY <4>4 DEF b
    <3> QED BY <3>1, <3>3
  <2>12. \A j \in 1..Len(t) : t[j].op \in Visits => t[j].op # "enter" /\ t[j].path \notin Below(d) /\ t[j].path # d
    <3> SUFFICES ASSUME NEW j \in 1..Len(t), t[j].op \in Visits
                 PROVE  t[j].op # "enter" /\ t[j].path \notin Below(d) /\ t[j].path # d
      OBVIOUS
    <3>1. 1 \in 1..Len(w) /\ j + 1 \in 1..Len(w) /\ 1 # j + 1 /\ t[j] = w[j + 1]
      BY <2>9
    <3>2. Apart(w[1], t[j]) /\ Apart(t[j], w[1])
      BY <1>2, <3>1 DEF WorkSound
    <3>3. t[j].path \notin Below(d) /\ t[j].path # d /\ (t[j].op = "enter" => d \notin Below(t[j].path))
      BY <1>1, <3>2 DEF Apart, Visits
    <3>4. t[j] \in WorkOps
      BY <2>9, ElementOfSeq DEF WorkSound
    <3>5. t[j].op = "enter" => t[j].path \in Dirs
      BY <3>4 DEF WorkOps, FileOps
    <3> QED BY <1>2, <3>3, <3>5 DEF Dirs, Below
  <2>13. /\ \A i, j \in 1..Len(u) : i # j => Apart(u[i], u[j])
         /\ \A i \in 1..Len(u) : \A j \in 1..Len(t) : Apart(u[i], t[j]) /\ Apart(t[j], u[i])
    <3>1. \A i \in 1..Len(u) : u[i].op \in Visits => i \in 1..n
      BY <2>8 DEF Visits
    <3>2. \A i \in 1..Len(u) : u[i].op \in Visits =>
             u[i].path \in Below(d) /\ (u[i].op = "enter" => u[i].path = "sub" /\ d = "model")
      BY <1>2, <2>8, <3>1 DEF Below, Listing, Dirs
    <3>3. ASSUME NEW i \in 1..Len(u), NEW j \in 1..Len(u), i # j
          PROVE  Apart(u[i], u[j])
      <4> SUFFICES ASSUME u[i].op \in Visits, u[j].op \in Visits
                   PROVE  u[i].path # u[j].path /\ (u[i].op = "enter" => u[j].path \notin Below(u[i].path))
        BY DEF Apart
      <4>1. u[i].path # u[j].path /\ u[j].path \in Listing(d)
        BY <2>1, <2>8, <3>1, <3>3
      <4> QED BY <3>2, <4>1 DEF Below, Listing
    <3>4. ASSUME NEW i \in 1..Len(u), NEW j \in 1..Len(t)
          PROVE  Apart(u[i], t[j]) /\ Apart(t[j], u[i])
      <4> SUFFICES ASSUME u[i].op \in Visits, t[j].op \in Visits
                   PROVE  /\ u[i].path # t[j].path /\ t[j].op # "enter"
                          /\ u[i].op = "enter" => t[j].path \notin Below(u[i].path)
        BY DEF Apart
      <4>1. u[i].path \in Below(d) /\ (u[i].op = "enter" => u[i].path = "sub" /\ d = "model")
        BY <3>2
      <4>2. t[j].op # "enter" /\ t[j].path \notin Below(d)
        BY <2>12
      <4> QED BY <4>1, <4>2 DEF Below
    <3> QED BY <3>3, <3>4
  <2>14. WorkSound(v) /\ Len(v) = Len(u) + Len(t)
         /\ \A i \in 1..Len(u) + Len(t) : v[i] = IF i <= Len(u) THEN u[i] ELSE t[i - Len(u)]
    <3>1. /\ \A i \in 1..Len(u) : u[i].op = "tree" => (IF i < Len(u) THEN u[i + 1] ELSE t[1]).op = "begin"
          /\ \A i, j \in 1..Len(u) : i <= j /\ u[j].op = "recheck" => u[i].op = "recheck"
          /\ \A i \in 1..Len(u) : t[1].op = "recheck" => u[i].op = "recheck"
      BY <2>10, <2>11
    <3>2. \A i \in 1..Len(u) : u[i].op # "tree" => Follows(u[i], IF i < Len(u) THEN u[i + 1] ELSE t[1])
      BY <2>11
    <3>3. u \in Seq(WorkOps) /\ WorkSound(t) /\ t # <<>>
      BY <2>7, <2>9
    <3> QED BY <2>13, <3>1, <3>2, <3>3, WorkJoin
  <2> HIDE DEF v
  <2>15. v[1].op \in {"file", "enter", "leave"} /\ (v[1].op = "file" => v[1].path \notin SetOfComponents)
    <3>1. 1 \in 1..Len(u) + Len(t) /\ 1 <= Len(u) /\ 1 \in 1..Len(u)
      <4> DEFINE m == Len(u)
                 k == Len(t)
      <4>1. m = n + 1 /\ n \in Nat /\ k \in Nat
        BY <2>1, <2>7, <2>9
      <4> HIDE DEF m, k
      <4>2. 1 \in 1..m + k /\ 1 <= m /\ 1 \in 1..m
        BY <4>1
      <4> QED BY <4>2 DEF m, k
    <3> QED BY <2>11, <2>14, <3>1
  <2>16. /\ DOMAIN insp' = Fields /\ insp'.pc = "hash" /\ insp'.work = v /\ insp'.file = insp.file
         /\ insp'.resolving = insp.resolving /\ insp'.status = insp.status
         /\ insp'.entries = insp.entries /\ insp'.hashed = insp.hashed /\ insp'.trees = insp.trees
    BY <1>1, <1>2, <2>0 DEF Fields
  <2>17. FileSound'
    BY <2>0, <2>15, <2>16, FileStep DEF FileOps
  <2>18. \A e \in insp.entries : \A i \in 1..Len(v) : v[i].op \in Visits =>
            e.path # v[i].path /\ (v[i].op = "enter" => e.path \notin Below(v[i].path))
    <3> SUFFICES ASSUME NEW e \in insp.entries, NEW i \in 1..Len(u) + Len(t), v[i].op \in Visits
                 PROVE  e.path # v[i].path /\ (v[i].op = "enter" => e.path \notin Below(v[i].path))
      BY <2>14
    <3>1. e.path \notin Below(d) /\ \A k \in 1..Len(w) : w[k].op \in Visits => e.path # w[k].path
      <4>1. 1 \in 1..Len(w)
        BY <2>9
      <4> QED BY <1>1, <4>1 DEF BindingInv, EntriesSound, Visits
    <3>2. CASE i <= Len(u)
      <4>1. i \in 1..Len(u) /\ v[i] = u[i]
        BY <2>1, <2>7, <2>14, <3>2
      <4>2. i \in 1..n /\ v[i].path \in Listing(d) /\ (v[i].op = "enter" => v[i].path = "sub")
        BY <2>8, <4>1 DEF Visits
      <4> QED BY <1>2, <3>1, <4>2 DEF Below, Listing, Dirs
    <3>3. CASE ~(i <= Len(u))
      <4>1. i - Len(u) \in 1..Len(t) /\ v[i] = t[i - Len(u)]
        <5> DEFINE m == Len(u)
                   k == Len(t)
        <5>1. m = n + 1 /\ n \in Nat /\ k \in Nat /\ i \in 1..m + k /\ ~(i <= m)
          BY <2>1, <2>7, <2>9, <3>3
        <5> HIDE DEF m, k
        <5>2. i - m \in 1..k
          BY <5>1
        <5>3. i - Len(u) \in 1..Len(t)
          BY <5>2 DEF m, k
        <5> QED BY <2>14, <3>3, <5>3
      <4>2. v[i].op # "enter"
        BY <2>12, <4>1
      <4>3. (i - Len(u)) + 1 \in 1..Len(w) /\ v[i] = w[(i - Len(u)) + 1]
        BY <2>9, <4>1
      <4> QED BY <3>1, <4>2, <4>3
    <3> QED BY <3>2, <3>3
  <2>19. EntriesSound'
    <3>1. EntriesSound
      BY DEF BindingInv
    <3>2. \A h \in insp'.hashed : HashedSound(h)'
      BY <1>2, <2>0, <2>16 DEF HashedSound
    <3>3. \A f \in insp'.entries : FileUntouched(f.path, f.seen, f.data)'
      BY <2>0, <2>16, <3>1 DEF EntriesSound, FileUntouched, Stamp, Data
    <3>4. \A f, g \in insp'.entries : f.path = g.path => f = g
      BY <2>16, <3>1 DEF EntriesSound
    <3>5. ~(insp'.work[1].op = "begin" \/ (insp'.work[1].op \in FileOps /\ insp'.work[1].path \in SetOfComponents))
      BY <2>15, <2>16 DEF FileOps
    <3> QED BY <2>16, <2>18, <3>2, <3>3, <3>4, <3>5 DEF EntriesSound, Head1
  <2>20. Together' /\ IdentityHeldTogether'
    BY <2>15, <2>16 DEF Together, Head1, BindingInv, IdentityHeldTogether
  <2> QED BY <1>1, <1>2, <2>0, <2>14, <2>16, <2>17, <2>19, <2>20, HashStep
<1> QED BY <1>3, <1>4

\* The operations of a work list that lead to a file.
Visiting(w, S) == \A j \in 1..Len(w) : w[j].op \in Visits => w[j] \in S

\* A file's tree is put before the trees that are to be hashed after it.
LEMMA FileTreeBefore ==
    ASSUME NEW x \in Seq(WorkOps), Len(x) = 3, x[1].op = "begin", x[2].op = "file", x[3].op = "tree",
           x[2].path \in SetOfComponents,
           NEW v, WorkSound(v), v # <<>>, v[1].op = "begin", NEW S, Visiting(v, S),
           \A o \in S : o.path # x[2].path /\ x[2].path \notin Below(o.path)
    PROVE  WorkSound(x \o v) /\ x \o v # <<>> /\ (x \o v)[1] = x[1] /\ Visiting(x \o v, S \cup {x[2]})
<1> DEFINE b == x[1]
           f == x[2]
           e == x[3]
           p == f.path
<1>1. /\ x \in Seq(WorkOps) /\ Len(x) = 3 /\ x[1] = b /\ x[2] = f /\ x[3] = e
      /\ b.op = "begin" /\ f.op = "file" /\ e.op = "tree" /\ f.path = p /\ p \in SetOfComponents
  OBVIOUS
<1>2. \A i \in 1..Len(x) : i \in {1, 2, 3}
  BY <1>1
<1>3. \A i \in 1..Len(x) : x[i].op # "tree" => Follows(x[i], IF i < Len(x) THEN x[i + 1] ELSE v[1])
  <2>1. Follows(b, f) /\ Follows(f, e)
    BY <1>1 DEF Follows
  <2>2. x[1 + 1] = f /\ x[2 + 1] = e
    BY <1>1
  <2>3. 1 < Len(x) /\ 2 < Len(x)
    BY <1>1
  <2> QED BY <1>1, <1>2, <2>1, <2>2, <2>3
<1>4. \A i \in 1..Len(x) : x[i].op = "tree" => (IF i < Len(x) THEN x[i + 1] ELSE v[1]).op = "begin"
  <2>1. \A i \in 1..Len(x) : x[i].op = "tree" => i = 3
    BY <1>1, <1>2
  <2>2. ~(3 < Len(x))
    BY <1>1
  <2> QED BY <2>1, <2>2
<1>5. \A i \in 1..Len(x) : x[i].op \in Visits => i = 2
  BY <1>1, <1>2 DEF Visits
<1>55. \A j \in 1..Len(v) : v[j].op \in Visits => v[j].path # p /\ p \notin Below(v[j].path)
  BY DEF Visiting
<1>6. \A i, j \in 1..Len(x) : i # j => Apart(x[i], x[j])
  BY <1>5 DEF Apart
<1>66. \A i \in 1..Len(x) : \A j \in 1..Len(v) : Apart(x[i], v[j]) /\ Apart(v[j], x[i])
  BY <1>1, <1>5, <1>55 DEF Apart
<1>7. \A i, j \in 1..Len(x) : i <= j /\ x[j].op = "recheck" => x[i].op = "recheck"
  BY <1>1, <1>2
<1>77. \A i \in 1..Len(x) : v[1].op = "recheck" => x[i].op = "recheck"
  BY <1>1, <1>2
<1>8. WorkSound(x \o v) /\ Len(x \o v) = Len(x) + Len(v)
      /\ \A i \in 1..Len(x) + Len(v) : (x \o v)[i] = IF i <= Len(x) THEN x[i] ELSE v[i - Len(x)]
  BY <1>3, <1>4, <1>6, <1>66, <1>7, <1>77, WorkJoin
<1>9. Len(v) \in Nat
  BY LenProperties DEF WorkSound
<1> DEFINE y == x \o v
           m == Len(v)
<1> HIDE DEF y, m
<1>10. /\ Len(y) = 3 + m /\ m \in Nat /\ WorkSound(y)
       /\ \A i \in 1..3 + m : y[i] = IF i <= 3 THEN x[i] ELSE v[i - 3]
  BY <1>1, <1>8, <1>9 DEF y, m
<1>11. y[1] = b /\ Len(y) > 0
  <2>1. 1 \in 1..3 + m /\ 1 <= 3
    BY <1>10
  <2> QED BY <1>1, <1>10, <2>1
<1>12. y # <<>>
  BY <1>11, NotEmpty
<1>13. ASSUME NEW j \in 1..Len(y), y[j].op \in Visits
       PROVE  y[j] \in S \cup {f}
  <2>1. CASE j <= 3
    <3>1. j \in 1..3 /\ y[j] = x[j]
      BY <1>10, <2>1
    <3> QED BY <1>1, <1>5, <1>13, <3>1
  <2>2. CASE ~(j <= 3)
    <3>1. j - 3 \in 1..m /\ y[j] = v[j - 3]
      BY <1>10, <2>2
    <3> QED BY <1>13, <3>1 DEF m, Visiting
  <2> QED BY <2>1, <2>2
<1> QED BY <1>10, <1>11, <1>12, <1>13 DEF y, Visiting

\* The work list that the inspection begins with: two files, then the model's directory.
LEMMA WorkBegins ==
    ASSUME BindingHypotheses
    PROVE  WorkSound(Work) /\ Work # <<>> /\ Work[1].op = "begin"
<1> DEFINE c == Components[1]
           h == Components[2]
           b1 == [op |-> "begin", path |-> c]
           f1 == [op |-> "file", path |-> c]
           e1 == [op |-> "tree", path |-> c]
           b2 == [op |-> "begin", path |-> h]
           f2 == [op |-> "file", path |-> h]
           e2 == [op |-> "tree", path |-> h]
           b3 == [op |-> "begin", path |-> ModelRoot]
           d3 == [op |-> "enter", path |-> ModelRoot]
           w3 == [op |-> "walked", path |-> ModelRoot]
           e3 == [op |-> "tree", path |-> ModelRoot]
           s == <<b3, d3, w3, e3>>
           t == <<b2, f2, e2>>
           u == <<b1, f1, e1>>
<1>1. Work = (u \o t) \o s
  BY DEF Work, FileTree, DirectoryTree
<1>2. /\ c \in SetOfComponents /\ h \in SetOfComponents /\ c # h /\ c \in Paths /\ h \in Paths
      /\ c \notin Below(ModelRoot) /\ h \notin Below(ModelRoot) /\ c # ModelRoot /\ h # ModelRoot
      /\ ModelRoot \in Dirs
  BY DEF BindingHypotheses, SetOfComponents, Components, Below, ModelRoot, Dirs
<1> HIDE DEF c, h
<1>3. /\ \A o \in {b1, f1, e1, b2, f2, e2, b3, d3, w3, e3} : o \in WorkOps
      /\ \A o \in {b1, b2, b3} : o.op = "begin"
      /\ \A o \in {e1, e2, e3} : o.op = "tree"
      /\ f1.op = "file" /\ f2.op = "file" /\ d3.op = "enter" /\ w3.op = "walked"
      /\ f1.path = c /\ f2.path = h /\ d3.path = ModelRoot
  BY <1>2 DEF WorkOps, FileOps
<1> HIDE DEF b1, f1, e1, b2, f2, e2, b3, d3, w3, e3
<1>4. /\ s \in Seq(WorkOps) /\ Len(s) = 4 /\ s[1] = b3 /\ s[2] = d3 /\ s[3] = w3 /\ s[4] = e3
      /\ t \in Seq(WorkOps) /\ Len(t) = 3 /\ t[1] = b2 /\ t[2] = f2 /\ t[3] = e2
      /\ u \in Seq(WorkOps) /\ Len(u) = 3 /\ u[1] = b1 /\ u[2] = f1 /\ u[3] = e1
  BY <1>3
<1> HIDE DEF s, t, u
<1>5. /\ \A i \in 1..Len(s) : i \in {1, 2, 3, 4}
      /\ \A i \in 1..Len(t) : i \in {1, 2, 3}
      /\ \A i \in 1..Len(u) : i \in {1, 2, 3}
  BY <1>4
<1>6. WorkSound(s) /\ s # <<>>
  <2>1. \A i \in 1..Len(s) : s[i].op # "tree" => i < Len(s) /\ Follows(s[i], s[i + 1])
    <3>1. Follows(b3, d3) /\ Follows(d3, w3) /\ Follows(w3, e3)
      BY <1>3 DEF Follows
    <3>2. s[1 + 1] = d3 /\ s[2 + 1] = w3 /\ s[3 + 1] = e3
      BY <1>4
    <3> QED BY <1>3, <1>4, <1>5, <3>1, <3>2
  <2>2. \A i \in 1..Len(s) : s[i].op = "tree" => i = 4
    BY <1>3, <1>4, <1>5
  <2>3. \A i \in 1..Len(s) : s[i].op \in Visits => i = 2
    BY <1>3, <1>4, <1>5 DEF Visits
  <2>4. \A i, j \in 1..Len(s) : i # j => Apart(s[i], s[j])
    BY <2>3 DEF Apart
  <2>5. \A i \in 1..Len(s) : s[i].op # "recheck"
    BY <1>3, <1>4, <1>5
  <2>6. s # <<>>
    BY <1>4, NotEmpty
  <2> QED BY <1>4, <2>1, <2>2, <2>4, <2>5, <2>6 DEF WorkSound
<1>8. Visiting(s, {d3})
  BY <1>3, <1>4, <1>5 DEF Visits, Visiting
<1>9. WorkSound(t \o s) /\ t \o s # <<>> /\ (t \o s)[1] = b2 /\ Visiting(t \o s, {d3} \cup {f2})
  <2>1. /\ t \in Seq(WorkOps) /\ Len(t) = 3 /\ t[1].op = "begin" /\ t[2].op = "file" /\ t[3].op = "tree"
        /\ t[2].path \in SetOfComponents /\ WorkSound(s) /\ s # <<>> /\ s[1].op = "begin"
    BY <1>2, <1>3, <1>4, <1>6
  <2>2. \A o \in {d3} : o.path # t[2].path /\ t[2].path \notin Below(o.path)
    BY <1>2, <1>3, <1>4
  <2>3. WorkSound(t \o s) /\ t \o s # <<>> /\ (t \o s)[1] = t[1] /\ Visiting(t \o s, {d3} \cup {t[2]})
    BY <1>8, <2>1, <2>2, FileTreeBefore
  <2> QED BY <1>4, <2>3
<1>10. WorkSound(u \o (t \o s)) /\ u \o (t \o s) # <<>> /\ (u \o (t \o s))[1] = b1
  <2> DEFINE v == t \o s
             S == {d3} \cup {f2}
  <2>1. \A o \in S : o.path # u[2].path /\ u[2].path \notin Below(o.path)
    <3>1. c \notin Below(h)
      BY DEF Below, c, h, Components
    <3> QED BY <1>2, <1>3, <1>4, <3>1
  <2> HIDE DEF v, S
  <2>2. /\ u \in Seq(WorkOps) /\ Len(u) = 3 /\ u[1].op = "begin" /\ u[2].op = "file" /\ u[3].op = "tree"
        /\ u[2].path \in SetOfComponents /\ WorkSound(v) /\ v # <<>> /\ v[1].op = "begin"
    BY <1>2, <1>3, <1>4, <1>9 DEF v
  <2>3. Visiting(v, S)
    BY <1>9 DEF v, S
  <2>4. WorkSound(u \o v) /\ u \o v # <<>> /\ (u \o v)[1] = u[1]
    BY <2>1, <2>2, <2>3, FileTreeBefore
  <2> QED BY <1>4, <2>4 DEF v
<1>11. (u \o t) \o s = u \o (t \o s)
  <2>1. u \in Seq(WorkOps) /\ t \in Seq(WorkOps) /\ s \in Seq(WorkOps)
    BY <1>4
  <2> QED BY <2>1, ConcatAssociative, SMTT(30)
<1>12. Work = u \o (t \o s)
  BY <1>1, <1>11 DEF s, t, u, b1, f1, e1, b2, f2, e2, b3, d3, w3, e3, c, h
<1> QED BY <1>3, <1>10, <1>12

\* The command is selected: the hashing begins, or the launch is compared.
LEMMA SelectCommandKeeps ==
    ASSUME BindingInv, BindingHypotheses, SelectCommand
    PROVE  BindingInv'
<1>1. insp.pc = "command"
  BY DEF SelectCommand
<1>2. DOMAIN insp = Fields /\ DOMAIN insp.file = {"path", "seen", "halves"}
  BY DEF BindingInv, BindingTypeOK, Fields
<1>3. CASE Refuse
  BY <1>1, <1>3, RefuseKeeps
<1>4. CASE insp.resolving /\ Go([insp EXCEPT !.pc = "compare"])
  <2>1. PICK next : next = "compare"
    OBVIOUS
  <2>2. insp' = [insp EXCEPT !.pc = next] /\ UNCHANGED <<disk, moments, launch>> /\ insp.resolving
    BY <1>4, <2>1 DEF Go
  <2> QED BY <1>1, <2>1, <2>2, GoKeeps DEF Later
<1>5. CASE ~insp.resolving /\ Go([insp EXCEPT !.pc = "hash", !.work = Work])
  <2>1. PICK w : w = Work
    OBVIOUS
  <2>2. /\ insp' = [insp EXCEPT !.pc = "hash", !.work = w] /\ disk' = disk /\ moments' = moments
        /\ launch' = launch /\ ~insp.resolving
    BY <1>5, <2>1 DEF Go
  <2>3. WorkSound(w) /\ w # <<>> /\ w[1].op = "begin"
    BY <2>1, WorkBegins
  <2>4. /\ DOMAIN insp' = Fields /\ insp'.pc = "hash" /\ insp'.work = w /\ insp'.file = insp.file
        /\ insp'.resolving = insp.resolving /\ insp'.status = insp.status /\ insp'.plan = insp.plan
        /\ insp'.entries = insp.entries /\ insp'.hashed = insp.hashed /\ insp'.trees = insp.trees
    BY <1>1, <1>2, <2>2 DEF Fields
  <2>5. insp.entries = {} /\ launch = <<>>
    BY <1>1, <2>2 DEF BindingInv, PlansSound
  <2>6. BindingTypeOK'
    BY <1>2, <2>2, <2>4 DEF BindingInv, BindingTypeOK, Fields
  <2>7. FileSound'
    BY <2>3, <2>4 DEF FileSound, Head1, FileOps
  <2>8. EntriesSound'
    <3>1. \A k \in insp.hashed : HashedSound(k)'
      BY <2>2 DEF BindingInv, EntriesSound, HashedSound
    <3> QED BY <2>4, <2>5, <3>1 DEF EntriesSound
  <2>9. Together'
    BY <2>3, <2>4 DEF Together, Head1
  <2>10. PlansSound'
    BY <2>2, <2>4, <2>5 DEF PlansSound
  <2>11. IdentityHeldTogether' /\ LaunchIsInspected'
    BY <2>2, <2>4, <2>5 DEF BindingInv, IdentityHeldTogether, LaunchIsInspected
  <2> QED BY <2>3, <2>4, <2>6, <2>7, <2>8, <2>9, <2>10, <2>11 DEF BindingInv, Head1
<1> QED BY <1>3, <1>4, <1>5 DEF SelectCommand

\* Another program's change: it moves the stamp of whatever it changes.
Stamped ==
    /\ DOMAIN disk' = {"inode", "dir", "names", "root", "changes"}
    /\ disk'.inode \in [Inodes -> [data : {Whole(0), Whole(1)}, stamp : Nat]]
    /\ disk'.names \subseteq Paths \cup {"sub"}
    /\ \A p \in Paths : InModel(p) \/ p \in disk'.names
    /\ \A i \in Inodes : /\ disk.inode[i].stamp <= disk'.inode[i].stamp
                         /\ disk'.inode[i].stamp = disk.inode[i].stamp => disk'.inode[i].data = disk.inode[i].data
    /\ \A p \in Paths : disk'.inode[Inode[p]].stamp = disk.inode[Inode[p]].stamp /\ p \in disk.names =>
                          p \in disk'.names

\* A change that moves the stamps of what it touches keeps the invariant.
LEMMA ChangeKeeps ==
    ASSUME BindingInv, BindingHypotheses, Stamped, insp' = insp, launch' = launch,
           moments' = moments \cup {Contents'}
    PROVE  BindingInv'
<1>1. /\ \A p \in Paths : /\ Stamp(p) \in Nat /\ Stamp(p)' \in Nat /\ Stamp(p) <= Stamp(p)'
                          /\ Stamp(p)' = Stamp(p) => Data(p)' = Data(p) /\ (p \in disk.names => p \in disk'.names)
  <2> SUFFICES ASSUME NEW p \in Paths
               PROVE  /\ Stamp(p) \in Nat /\ Stamp(p)' \in Nat /\ Stamp(p) <= Stamp(p)'
                      /\ Stamp(p)' = Stamp(p) => Data(p)' = Data(p) /\ (p \in disk.names => p \in disk'.names)
    OBVIOUS
  <2>1. Inode[p] \in Inodes /\ p \notin Dirs
    BY DEF BindingHypotheses, Inodes
  <2>2. Stamp(p) = disk.inode[Inode[p]].stamp /\ Stamp(p)' = disk'.inode[Inode[p]].stamp
    BY <2>1 DEF Stamp
  <2>3. Data(p) = disk.inode[Inode[p]].data /\ Data(p)' = disk'.inode[Inode[p]].data
    BY DEF Data
  <2>4. disk.inode[Inode[p]].stamp \in Nat /\ disk'.inode[Inode[p]].stamp \in Nat
    BY <2>1 DEF BindingInv, BindingTypeOK, Stamped
  <2> QED BY <2>1, <2>2, <2>3, <2>4 DEF Stamped
<1>2. BindingTypeOK'
  BY DEF BindingInv, BindingTypeOK, Stamped, InModel, Listing
<1>3. ASSUME NEW p, NEW seen, NEW data, FileUntouched(p, seen, data)
      PROVE  FileUntouched(p, seen, data)'
  <2>1. p \in Paths /\ seen \in Nat /\ seen <= Stamp(p) /\ (Stamp(p) = seen => p \in disk.names /\ data = Data(p))
    BY <1>3 DEF FileUntouched
  <2>2. seen <= Stamp(p)' /\ (Stamp(p)' = seen => Stamp(p) = seen /\ Stamp(p)' = Stamp(p))
    BY <1>1, <2>1
  <2>3. Stamp(p)' = seen => p \in disk'.names /\ data = Data(p)'
    BY <1>1, <2>1, <2>2
  <2> QED BY <2>1, <2>2, <2>3 DEF FileUntouched
<1>4. Reading(insp.file) => Reading(insp.file)'
  <2> SUFFICES ASSUME Reading(insp.file)
               PROVE  Reading(insp.file)'
    OBVIOUS
  <2> DEFINE p == insp.file.path
             seen == insp.file.seen
             halves == insp.file.halves
  <2>1. /\ p \in Paths /\ seen \in Nat /\ seen <= Stamp(p) /\ halves \in Seq({0, 1}) /\ Len(halves) <= 2
        /\ Stamp(p) = seen => p \in disk.names /\ \A i \in 1..Len(halves) : halves[i] = Data(p)[i]
    BY DEF Reading
  <2>2. seen <= Stamp(p)' /\ (Stamp(p)' = seen => Stamp(p) = seen /\ Stamp(p)' = Stamp(p))
    BY <1>1, <2>1
  <2>3. Stamp(p)' = seen => p \in disk'.names /\ \A i \in 1..Len(halves) : halves[i] = Data(p)'[i]
    BY <1>1, <2>1, <2>2
  <2> QED BY <2>1, <2>2, <2>3 DEF Reading
<1>5. FileSound'
  <2>1. insp' = insp
    OBVIOUS
  <2> QED BY <1>4, <2>1 DEF BindingInv, FileSound, Head1
<1>6. ASSUME NEW k \in insp.hashed
      PROVE  HashedSound(k)'
  <2>1. HashedSound(k)
    BY DEF BindingInv, EntriesSound
  <2>2. k.inode \in Inodes /\ disk.inode[k.inode].stamp \in Nat /\ disk'.inode[k.inode].stamp \in Nat
    BY <2>1 DEF HashedSound, BindingInv, BindingTypeOK, Stamped
  <2>3. /\ disk.inode[k.inode].stamp <= disk'.inode[k.inode].stamp
        /\ disk'.inode[k.inode].stamp = disk.inode[k.inode].stamp =>
             disk'.inode[k.inode].data = disk.inode[k.inode].data
    BY <2>2 DEF Stamped
  <2> QED BY <2>1, <2>2, <2>3 DEF HashedSound
<1>7. EntriesSound'
  <2>1. insp' = insp
    OBVIOUS
  <2>2. \A e \in insp.entries : FileUntouched(e.path, e.seen, e.data)'
    BY <1>3 DEF BindingInv, EntriesSound
  <2> QED BY <1>6, <2>1, <2>2 DEF BindingInv, EntriesSound, Head1
<1>8. Together'
  <2>1. insp' = insp /\ moments \subseteq moments'
    OBVIOUS
  <2>2. \A e \in insp.entries : Stamp(e.path)' = e.seen => Stamp(e.path) = e.seen
    <3> SUFFICES ASSUME NEW e \in insp.entries, Stamp(e.path)' = e.seen
                 PROVE  Stamp(e.path) = e.seen
      OBVIOUS
    <3>1. e.path \in Paths /\ e.seen \in Nat /\ e.seen <= Stamp(e.path)
      BY DEF BindingInv, EntriesSound, FileUntouched
    <3> QED BY <1>1, <3>1
  <2> SUFFICES ASSUME insp.work # <<>>, insp.work[1].op \in {"recheck", "tree"}
               PROVE  \E m \in moments' : \A e \in insp.entries :
                        \/ HeldAt(e, m)
                        \/ /\ \E i \in 1..Len(insp.work) : insp.work[i] = [op |-> "recheck", path |-> e.path]
                           /\ Stamp(e.path)' = e.seen => HeldAt(e, m)
    BY <2>1 DEF Together, Head1, HeldAt
  <2>3. PICK m \in moments : \A e \in insp.entries :
                        \/ HeldAt(e, m)
                        \/ /\ \E i \in 1..Len(insp.work) : insp.work[i] = [op |-> "recheck", path |-> e.path]
                           /\ Stamp(e.path) = e.seen => HeldAt(e, m)
    BY DEF BindingInv, Together, Head1
  <2> QED BY <2>1, <2>2, <2>3
<1>9. PlansSound' /\ IdentityHeldTogether' /\ LaunchIsInspected' /\ WorkSound(insp'.work)
  <2>1. insp' = insp /\ launch' = launch
    OBVIOUS
  <2> QED BY <2>1 DEF BindingInv, PlansSound, IdentityHeldTogether, LaunchIsInspected
<1> QED BY <1>2, <1>5, <1>7, <1>8, <1>9 DEF BindingInv

\* Every change of another program is such a change.
LEMMA ProgramsKeep ==
    ASSUME BindingInv, BindingHypotheses, WriteFile \/ AddName \/ RemoveName \/ ReplaceRoot
    PROVE  BindingInv'
<1> DEFINE D == {"inode", "dir", "names", "root", "changes"}
<1>1. /\ DOMAIN disk = D /\ disk.inode \in [Inodes -> [data : {Whole(0), Whole(1)}, stamp : Nat]]
      /\ disk.names \subseteq Paths \cup {"sub"} /\ \A q \in Paths : InModel(q) \/ q \in disk.names
  BY DEF BindingInv, BindingTypeOK
\* Touched: the inode i holds r, with its next stamp.
<1>2. ASSUME NEW i \in Inodes, NEW r, r \in {Whole(0), Whole(1)}, DOMAIN disk' = D,
             disk'.inode = [disk.inode EXCEPT ![i] = [data |-> r, stamp |-> disk.inode[i].stamp + 1]],
             disk'.names \subseteq Paths \cup {"sub"}, \A q \in Paths : InModel(q) \/ q \in disk'.names,
             \A q \in disk.names : q \in disk'.names \/ (q \in Paths => Inode[q] = i)
      PROVE  Stamped
  <2> DEFINE n == disk.inode[i].stamp
  <2>1. n \in Nat /\ n + 1 \in Nat
    BY <1>1, <1>2
  <2>2. [data |-> r, stamp |-> n + 1] \in [data : {Whole(0), Whole(1)}, stamp : Nat]
    BY <1>2, <2>1
  <2>3. disk'.inode \in [Inodes -> [data : {Whole(0), Whole(1)}, stamp : Nat]]
    BY <1>1, <1>2, <2>2
  <2>4. disk'.inode[i].stamp = n + 1 /\ \A j \in Inodes : j # i => disk'.inode[j] = disk.inode[j]
    BY <1>1, <1>2
  <2> HIDE DEF n
  <2>5. \A j \in Inodes : disk.inode[j].stamp \in Nat
    BY <1>1
  <2>6. /\ \A j \in Inodes : /\ disk.inode[j].stamp <= disk'.inode[j].stamp
                             /\ disk'.inode[j].stamp = disk.inode[j].stamp =>
                                  disk'.inode[j].data = disk.inode[j].data
        /\ disk'.inode[i].stamp # disk.inode[i].stamp
    BY <2>1, <2>4, <2>5 DEF n
  <2> QED BY <1>2, <2>3, <2>6 DEF Stamped
<1>3. ASSUME NEW d, Changed(d), DOMAIN d = D
      PROVE  /\ disk' = [d EXCEPT !.changes = @ + 1] /\ DOMAIN disk' = D
             /\ disk'.inode = d.inode /\ disk'.names = d.names
             /\ insp' = insp /\ launch' = launch /\ moments' = moments \cup {Contents'}
  <2>1. disk' = [d EXCEPT !.changes = @ + 1] /\ insp' = insp /\ launch' = launch
    BY <1>3 DEF Changed
  <2>2. DOMAIN disk' = D /\ disk'.inode = d.inode /\ disk'.names = d.names
    BY <1>3, <2>1
  <2>3. Contents' = [p \in {q \in Paths : q \in d.names} |-> d.inode[Inode[p]].data]
    BY <2>2 DEF Contents, Data
  <2> QED BY <1>3, <2>1, <2>2, <2>3 DEF Changed
<1>4. CASE WriteFile
  <2>1. PICK p \in Paths \cap disk.names, v \in {0, 1} :
           Changed([disk EXCEPT !.inode[Inode[p]] = [data |-> Whole(v), stamp |-> @.stamp + 1]])
    BY <1>4 DEF WriteFile
  <2> DEFINE i == Inode[p]
             d == [disk EXCEPT !.inode[i] = [data |-> Whole(v), stamp |-> @.stamp + 1]]
  <2>2. i \in Inodes /\ Whole(v) \in {Whole(0), Whole(1)}
    BY DEF Inodes
  <2>3. /\ DOMAIN d = D /\ d.names = disk.names
        /\ d.inode = [disk.inode EXCEPT ![i] = [data |-> Whole(v), stamp |-> disk.inode[i].stamp + 1]]
    BY <1>1, <2>2
  <2>4. Changed(d)
    BY <2>1
  <2> HIDE DEF d, D, i
  <2>5. /\ DOMAIN disk' = D /\ disk'.inode = d.inode /\ disk'.names = d.names
        /\ insp' = insp /\ launch' = launch /\ moments' = moments \cup {Contents'}
    BY <1>3, <2>3, <2>4
  <2>6. Stamped
    BY <1>1, <1>2, <2>2, <2>3, <2>5
  <2> QED BY <2>5, <2>6, ChangeKeeps
<1>5. ASSUME NEW p \in Paths, NEW i, i = Inode[p], NEW d, DOMAIN d = D, Changed(d),
             d.inode = [disk.inode EXCEPT ![i].stamp = @ + 1],
             d.names \subseteq Paths \cup {"sub"}, \A q \in Paths : InModel(q) \/ q \in d.names,
             \A q \in disk.names : q \in d.names \/ q = p
      PROVE  BindingInv'
  <2>1. i \in Inodes
    BY <1>5 DEF Inodes
  <2> DEFINE r == disk.inode[i].data
  <2>2. /\ r \in {Whole(0), Whole(1)}
        /\ [disk.inode[i] EXCEPT !.stamp = @ + 1] = [data |-> r, stamp |-> disk.inode[i].stamp + 1]
    <3>1. PICK x \in [data : {Whole(0), Whole(1)}, stamp : Nat] : x = disk.inode[i]
      BY <1>1, <2>1
    <3>2. x.data \in {Whole(0), Whole(1)} /\ [x EXCEPT !.stamp = @ + 1] = [data |-> x.data, stamp |-> x.stamp + 1]
      OBVIOUS
    <3> QED BY <3>1, <3>2
  <2>3. d.inode = [disk.inode EXCEPT ![i] = [data |-> r, stamp |-> disk.inode[i].stamp + 1]]
    BY <1>1, <1>5, <2>1, <2>2
  <2> HIDE DEF D, r
  <2>4. /\ DOMAIN disk' = D /\ disk'.inode = d.inode /\ disk'.names = d.names
        /\ insp' = insp /\ launch' = launch /\ moments' = moments \cup {Contents'}
    BY <1>3, <1>5
  <2>5. \A q \in disk.names : q \in disk'.names \/ (q \in Paths => Inode[q] = i)
    BY <1>5, <2>4
  <2>6. Stamped
    BY <1>2, <1>5, <2>1, <2>2, <2>3, <2>4, <2>5
  <2> QED BY <2>4, <2>6, ChangeKeeps
<1>6. CASE AddName
  <2>1. PICK p \in Extra \ disk.names :
           Changed([disk EXCEPT !.names = @ \cup {p}, !.dir[ParentOf(p)] = @ + 1, !.inode[Inode[p]].stamp = @ + 1])
    BY <1>6 DEF AddName
  <2>2. PICK i : i = Inode[p]
    OBVIOUS
  <2> DEFINE d == [disk EXCEPT !.names = @ \cup {p}, !.dir[ParentOf(p)] = @ + 1, !.inode[i].stamp = @ + 1]
  <2>3. p \in Paths
    BY <2>1 DEF BindingHypotheses
  <2>4. DOMAIN d = D /\ d.names = disk.names \cup {p} /\ d.inode = [disk.inode EXCEPT ![i].stamp = @ + 1]
    BY <1>1
  <2>5. Changed(d)
    BY <2>1, <2>2
  <2> HIDE DEF d, D
  <2>6. /\ d.names \subseteq Paths \cup {"sub"} /\ \A q \in Paths : InModel(q) \/ q \in d.names
        /\ \A q \in disk.names : q \in d.names \/ q = p
    BY <1>1, <2>3, <2>4
  <2> QED BY <1>5, <2>2, <2>3, <2>4, <2>5, <2>6
<1>7. CASE RemoveName
  <2>1. PICK p \in {q \in Paths \cap disk.names : InModel(q)} :
           Changed([disk EXCEPT !.names = @ \ {p}, !.dir[ParentOf(p)] = @ + 1, !.inode[Inode[p]].stamp = @ + 1])
    BY <1>7 DEF RemoveName
  <2>2. PICK i : i = Inode[p]
    OBVIOUS
  <2> DEFINE d == [disk EXCEPT !.names = @ \ {p}, !.dir[ParentOf(p)] = @ + 1, !.inode[i].stamp = @ + 1]
  <2>3. p \in Paths /\ InModel(p)
    OBVIOUS
  <2>4. DOMAIN d = D /\ d.names = disk.names \ {p} /\ d.inode = [disk.inode EXCEPT ![i].stamp = @ + 1]
    BY <1>1
  <2>5. Changed(d)
    BY <2>1, <2>2
  <2> HIDE DEF d, D
  <2>6. /\ d.names \subseteq Paths \cup {"sub"} /\ \A q \in Paths : InModel(q) \/ q \in d.names
        /\ \A q \in disk.names : q \in d.names \/ q = p
    BY <1>1, <2>3, <2>4
  <2> QED BY <1>5, <2>2, <2>3, <2>4, <2>5, <2>6
<1>8. CASE ReplaceRoot
  <2> DEFINE d == [disk EXCEPT !.root = @ + 1]
  <2>1. DOMAIN d = D /\ d.names = disk.names /\ d.inode = disk.inode
    BY <1>1
  <2>2. Changed(d)
    BY <1>8 DEF ReplaceRoot
  <2> HIDE DEF d, D
  <2>3. /\ DOMAIN disk' = D /\ disk'.inode = disk.inode /\ disk'.names = disk.names
        /\ insp' = insp /\ launch' = launch /\ moments' = moments \cup {Contents'}
    BY <1>3, <2>1, <2>2
  <2>4. \A j \in Inodes : disk.inode[j].stamp \in Nat
    BY <1>1
  <2>5. Stamped
    BY <1>1, <2>3, <2>4 DEF Stamped, D
  <2> QED BY <2>3, <2>5, ChangeKeeps
<1> QED BY <1>4, <1>6, <1>7, <1>8

\* The invariant holds before the request is read.
LEMMA BindingBegins ==
    ASSUME BindingHypotheses, BindingInit
    PROVE  BindingInv
<1> USE DEF BindingInit
<1>1. BindingTypeOK
  <2>1. DOMAIN disk = {"inode", "dir", "names", "root", "changes"} /\ disk.names = (Paths \cup {"sub"}) \ Extra
        /\ disk.inode = [i \in Inodes |-> [data |-> Whole(0), stamp |-> 0]]
    BY DEF Inodes
  <2>2. disk.inode \in [Inodes -> [data : {Whole(0), Whole(1)}, stamp : Nat]]
    BY <2>1
  <2>3. DOMAIN insp = {"pc", "resolving", "work", "file", "plan", "now", "root", "entries", "hashed",
                      "walked", "visited", "trees", "status"}
        /\ DOMAIN insp.file = {"path", "seen", "halves"}
    BY DEF NoFile
  <2> QED BY <2>1, <2>2, <2>3 DEF BindingTypeOK, BindingHypotheses
<1>2. insp.work = <<>> /\ insp.pc = "request" /\ insp.entries = {} /\ insp.hashed = {} /\ insp.trees = {}
      /\ ~insp.resolving /\ launch = <<>>
  OBVIOUS
<1>3. WorkSound(insp.work)
  <2>1. <<>> \in Seq(WorkOps) /\ Len(<<>>) = 0
    BY EmptySeq
  <2>2. \A i \in 1..Len(<<>>) : FALSE
    BY <2>1
  <2> QED BY <1>2, <2>1, <2>2 DEF WorkSound
<1>4. FileSound /\ Together /\ EntriesSound
  BY <1>2 DEF FileSound, Together, EntriesSound
<1>5. PlansSound /\ IdentityHeldTogether /\ LaunchIsInspected
  BY <1>2 DEF PlansSound, IdentityHeldTogether, LaunchIsInspected
<1> QED BY <1>1, <1>2, <1>3, <1>4, <1>5 DEF BindingInv

\* A step that changes nothing keeps it.
LEMMA BindingStays ==
    ASSUME BindingInv, UNCHANGED bindingVars
    PROVE  BindingInv'
<1>1. disk' = disk /\ insp' = insp /\ moments' = moments /\ launch' = launch
  BY DEF bindingVars
<1>2. BindingTypeOK' /\ WorkSound(insp'.work)
  BY <1>1 DEF BindingInv, BindingTypeOK
<1>3. FileSound'
  <2>1. Reading(insp.file) => Reading(insp.file)'
    BY <1>1 DEF Reading, Stamp, Data
  <2> QED BY <1>1, <2>1 DEF BindingInv, FileSound, Head1
<1>4. EntriesSound'
  <2>1. \A k \in insp.hashed : HashedSound(k)'
    BY <1>1 DEF BindingInv, EntriesSound, HashedSound
  <2>2. \A e \in insp.entries : FileUntouched(e.path, e.seen, e.data)'
    BY <1>1 DEF BindingInv, EntriesSound, FileUntouched, Stamp, Data
  <2> QED BY <1>1, <2>1, <2>2 DEF BindingInv, EntriesSound, Head1
<1>5. Together'
  <2>1. \A e \in insp.entries : Stamp(e.path)' = Stamp(e.path)
    BY <1>1 DEF Stamp
  <2> QED BY <1>1, <2>1 DEF BindingInv, Together, Head1
<1>6. insp'.work # <<>> /\ Head1'.op # "begin" => Contents' \in moments'
  <2>1. Contents' = Contents
    BY <1>1 DEF Contents, Data
  <2> QED BY <1>1, <2>1 DEF BindingInv, Head1
<1>7. PlansSound' /\ IdentityHeldTogether' /\ LaunchIsInspected'
  BY <1>1 DEF BindingInv, PlansSound, IdentityHeldTogether, LaunchIsInspected
<1> QED BY <1>2, <1>3, <1>4, <1>5, <1>6, <1>7 DEF BindingInv

\* Every step keeps it.
LEMMA BindingStep ==
    ASSUME BindingInv, BindingHypotheses, [BindingNext]_bindingVars
    PROVE  BindingInv'
<1>1. CASE LoadRequest \/ ValidateRequest \/ ValidatePublicationPath \/ SelectCell
           \/ ValidateScope \/ ValidateEndpoint \/ ValidateModelPath
  <2>1. CASE LoadRequest
    BY <2>1, CheckKeeps DEF LoadRequest, Later
  <2>2. CASE ValidateRequest
    BY <2>2, CheckKeeps DEF ValidateRequest, Later
  <2>3. CASE ValidatePublicationPath
    BY <2>3, CheckKeeps DEF ValidatePublicationPath, Later
  <2>4. CASE SelectCell
    BY <2>4, CheckKeeps DEF SelectCell, Later
  <2>5. CASE ValidateScope
    BY <2>5, CheckKeeps DEF ValidateScope, Later
  <2>6. CASE ValidateEndpoint
    BY <2>6, CheckKeeps DEF ValidateEndpoint, Later
  <2>7. CASE ValidateModelPath
    BY <2>7, CheckKeeps DEF ValidateModelPath, Later
  <2> QED BY <1>1, <2>1, <2>2, <2>3, <2>4, <2>5, <2>6, <2>7
<1>2. CASE LoadConfig \/ ReadConfig \/ ConfigRead \/ SelectCommand
  BY <1>2, LoadConfigKeeps, ReadConfigKeeps, ConfigReadKeeps, SelectCommandKeeps
<1>3. CASE CaptureRoots \/ Conclude \/ ResolveLaunch \/ PublishBundle \/ ResolvedLaunch
  BY <1>3, OutsideHashing
<1>4. CASE BeginTree \/ Observe \/ OpenFile \/ ReadChunk \/ AfterHash \/ AfterFile
  BY <1>4, BeginTreeKeeps, ObserveKeeps, OpenFileKeeps, ReadChunkKeeps, AfterHashKeeps, AfterFileKeeps
<1>5. CASE EnterDirectory \/ LeaveDirectory \/ BeginRecheck \/ RecheckFile \/ EndTree
  BY <1>5, EnterDirectoryKeeps, LeaveDirectoryKeeps, BeginRecheckKeeps, RecheckFileKeeps, EndTreeKeeps
<1>6. CASE WriteFile \/ AddName \/ RemoveName \/ ReplaceRoot
  BY <1>6, ProgramsKeep
<1>7. CASE UNCHANGED bindingVars
  BY <1>7, BindingStays
<1> QED BY <1>1, <1>2, <1>3, <1>4, <1>5, <1>6, <1>7 DEF BindingNext, InspectionEnded

\* Whatever files there are and other programs do: every identity of a tree is of
\* contents its files had together at a moment while it was hashed, and a launch
\* that was resolved runs the plan whose files were verified
\* (runtime_binding_inspector.inspect_cell_binding, artifact_tree.hash_artifact_tree).
THEOREM BindingIsSafe ==
    ASSUME BindingHypotheses
    PROVE  BindingSpec => []BindingSafe
<1>1. BindingInit => BindingInv
  BY BindingBegins
<1>2. BindingInv /\ [BindingNext]_bindingVars => BindingInv'
  BY BindingStep
<1>3. BindingInv => BindingSafe
  BY DEF BindingInv, BindingSafe
<1> QED BY <1>1, <1>2, <1>3, PTL DEF BindingSpec
=============================================================================
