------------------------------ MODULE MCCells ------------------------------
(***************************************************************************)
(* TLC instance of how cells are chosen and admitted: processes that       *)
(* run bound cells on a machine on which two of them fit when it is idle   *)
(* and none when it is loaded; the lease store under arbitrary             *)
(* clients, with more processes and richer cells and machines; the         *)
(* commands that advise on cells; the inspection of a binding.             *)
(* Every behaviour of this run is one of a single part, which it picks     *)
(* first; the parts share nothing.                                         *)
(***************************************************************************)
EXTENDS BoundCellRun, BindingInspection, TLC

CONSTANTS
    StoreLeases, StoreCells, StoreSnapshots, StoreMaxSqliteInteger,  \* of CooperativeLease
    Commands, Catalogs, Hosts, Profile, MaxAge, MaxClock, AdaptiveMaxChanges  \* of AdaptiveExecution

VARIABLES
    part,  \* the part of the system that this behaviour is about
    lRow, lClaim, lQuarantine, lSentinel, lHandle,  \* of the store
    v1, v2, v3, v4, v5, v6, v7  \* the variables of any other part

Fits(pool, placement, host, unified, accel) ==
    [pool |-> pool, placement |-> placement,
     host |-> host, unified |-> unified, accel |-> accel]
Cell(estimated, measured, reserve) ==
    [estimated |-> estimated, measured |-> measured, reserve |-> reserve]
Snap(available, limit, topology, kind, identity, accel) ==
    [available |-> available, limit |-> limit, topology |-> topology,
     kind |-> kind, identity |-> identity, accel |-> accel]

\* The measurement of the CPU cell exceeds its estimate; the one of the
\* accelerator cell was taken for another placement and does not apply.
CpuCell == Cell(Fits("host", "cpu", 2, None, None),
                Fits("host", "cpu", 3, None, None), 1)
GpuCell == Cell(Fits("accelerator", "discrete_accelerator", 1, None, 2),
                Fits("host", "cpu", 9, None, None), 2)
UnifiedCell == Cell(Fits("unified", "integrated_accelerator", None, 4, None),
                    Fits("unified", "integrated_accelerator", None, None, None), 0)
NoEvidenceCell == Cell(Fits(None, None, None, None, None),
                       Fits("host", "cpu", 1, None, None), 0)

RunCells == {CpuCell}
MCSnapshots == {Snap(a, 7, "dedicated", "none", None, None) : a \in {9, 3, None}}

\* A workstation whose free memory varies, whose accelerator is exchanged and whose
\* capacity is unknown once, and a unified-memory machine.
RichCells == {CpuCell, GpuCell, UnifiedCell, NoEvidenceCell}
RichSnapshots == {Snap(9, 7, "dedicated", "discrete", "gpu0", 6),
                   Snap(5, 9, "dedicated", "discrete", "gpu1", 9),
                   Snap(12, 12, "dedicated", "discrete", "gpu0", None),
                   Snap(None, 9, "dedicated", "none", None, None),
                   Snap(9, 8, "unified", "integrated", None, None)}


Passport(quality, latency, estimate, measured, expires) ==
    [expected |-> 1, observed |-> 1, captured |-> 0, expires |-> expires, samples |-> 2,
     contract |-> 1, quality |-> quality, latency |-> latency, estimate |-> estimate,
     measured |-> measured]
MCCatalogs == << <<Passport(9, 4, 3, 4, 2), Passport(6, 2, 2, 2, 3), Passport(5, 3, 1, 2, 3)>>,
                 <<Passport(9, 4, 3, 4, 2), [Passport(9, 1, 2, 2, 3) EXCEPT !.observed = 2]>> >>
MCHosts == << [total |-> 8, available |-> 6, swap |-> 0, levels |-> <<>>],
              [total |-> 8, available |-> 6, swap |-> 0,
               levels |-> <<[limit |-> 5, current |-> 2], [limit |-> -1, current |-> 3]>>] >>
MCProfile == [quality |-> 2, latency |-> 1, memory |-> 1, min_samples |-> 1, min_quality |-> 5,
              reserve |-> 1, snapshot_age |-> 1, max_swap |-> 1]
MCCommands == [a |-> [kind |-> "advise", tasks |-> {"t1"}],
               r |-> [kind |-> "run", tasks |-> {"t1"}],
               s |-> [kind |-> "run", tasks |-> {"t1"}]]

\* Two names of one file (a and y), a second tree, and names that appear later.
MCInode == [config |-> 0, exe |-> 1, harness |-> 2, a |-> 3, b |-> 4, x |-> 5, y |-> 3]

Store == INSTANCE CooperativeLease WITH
    Leases <- StoreLeases, Cells <- StoreCells, Snapshots <- StoreSnapshots,
    MaxSqliteInteger <- StoreMaxSqliteInteger, rowState <- lRow, rowClaim <- lClaim,
    quarantine <- lQuarantine, sentinel <- lSentinel, handle <- lHandle

Adaptive == INSTANCE AdaptiveExecution WITH
    MaxChanges <- AdaptiveMaxChanges, world <- v1, clock <- v2, receipts <- v3, cmd <- v4, journal <- v5, output <- v6, sent <- v7

slots == <<v1, v2, v3, v4, v5, v6, v7>>
mcVars == <<part, runVars, bindingVars, lRow, lClaim, lQuarantine, lSentinel, lHandle, slots>>
restVars == <<part, runVars, bindingVars, lRow, lClaim, lQuarantine, lSentinel, lHandle>>

NoSlots ==
    /\ v1 = 0 /\ v2 = 0 /\ v3 = 0
    /\ v4 = 0 /\ v5 = 0 /\ v6 = 0 /\ v7 = 0

\* A part with variables of its own rests in an initial state unless it is chosen.
RunRests == RunInit
StoreRests == Store!LeaseInit

MCInit ==
    \/ part = "run" /\ RunInit /\ StoreRests /\ BindingInit /\ NoSlots
    \/ part = "store" /\ Store!LeaseInit /\ RunRests /\ BindingInit /\ NoSlots
    \/ part = "adaptive" /\ Adaptive!AdaptiveInit /\ RunRests /\ StoreRests /\ BindingInit
    \/ part = "binding" /\ BindingInit /\ RunRests /\ StoreRests /\ NoSlots

\* Parts that may rightly come to rest; any other must always have a step.
MayStop == {"run", "store", "adaptive"}

MCNext ==
    \/ /\ part = "run" /\ RunNext
       /\ UNCHANGED <<part, bindingVars, lRow, lClaim, lQuarantine, lSentinel, lHandle, slots>>
    \/ part = "store" /\ Store!LeaseNext /\ UNCHANGED <<part, runVars, bindingVars, slots>>
    \/ part = "adaptive" /\ Adaptive!AdaptiveNext /\ UNCHANGED restVars
    \/ /\ part = "binding" /\ BindingNext
       /\ UNCHANGED <<part, runVars, lRow, lClaim, lQuarantine, lSentinel, lHandle, slots>>
    \/ part \in MayStop /\ UNCHANGED mcVars

MCSpec == MCInit /\ [][MCNext]_mcVars

MCSymmetry == Permutations(Leases) \cup Permutations(Bindings)

-----------------------------------------------------------------------------
(***************************************************************************)
(* The lease store with three leases, four kinds of cells and five         *)
(* machines: what its rows keep and how they change                        *)
(* (evaluate_and_acquire and the transitions after it).                    *)
(***************************************************************************)
StoreSteps == Store!LeaseSteps

\* Admitted cells and the trace of every run: AdaptiveExecution.AdaptiveSafe.
AdaptiveSafe == part = "adaptive" => Adaptive!AdaptiveSafe
=============================================================================
