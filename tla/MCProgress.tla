---------------------------- MODULE MCProgress -----------------------------
(***************************************************************************)
(* TLC instance of what must come to an end: the lock of the ledger; the   *)
(* processes of a verifier; runs of bound cells; supervised sessions; the  *)
(* agent loop; paired executions.                                          *)
(* Every behaviour of this run is one of a single part, which it picks     *)
(* first; the parts share nothing.                                         *)
(***************************************************************************)
EXTENDS LedgerLock, AgentRun

CONSTANTS
    Children, Streams, VerifierMaxChanges, Policies,  \* of VerifierHost
    MaxSqliteInteger, RunLeases, Cells, Snapshots, RunMaxActiveLeases, ProbeFaults,
    Bindings, ModelSets, Resident,  \* of BoundCellRun
    SessionLeases, Endpoints, Faults, Commands, MaxPolls, LaunchInterrupts,  \* of RuntimeSupervisor
    Runners, Verifiers, Quorum, Required, Responses, MaxTrouble  \* of PairedExecution

VARIABLES
    part,  \* the part of the system that this behaviour is about
    v1, v2, v3, v4, v5, v6, v7, v8, v9, v10  \* the variables of any other part

CpuCell == [estimated |-> [pool |-> "host", placement |-> "cpu", host |-> 2, unified |-> None, accel |-> None],
            measured  |-> [pool |-> "host", placement |-> "cpu", host |-> 3, unified |-> None, accel |-> None],
            reserve   |-> 1]
MCCells == {CpuCell}
MCSnapshots == {[available |-> 9, limit |-> 7, topology |-> "dedicated", kind |-> "none",
                 identity |-> None, accel |-> None]}

\* A good response, one without the required verifier, one below the quorum,
\* and one for another request.
MCResponses == {[match |-> TRUE,  votes |-> {"v1", "v2"}], [match |-> TRUE,  votes |-> {"v2", "v3"}],
                [match |-> TRUE,  votes |-> {"v1"}],       [match |-> FALSE, votes |-> {"v1", "v2"}]}

MCPolicies == {[psutil |-> TRUE, required |-> TRUE, quota |-> FALSE]}

Verifier == INSTANCE VerifierHost WITH
    MaxChanges <- VerifierMaxChanges, policy <- v1, host <- v2, planned <- v3, snap <- v4,
    tree <- v5, tracker <- v6, io <- v7, exec <- v8

Run == INSTANCE BoundCellRun WITH
    Leases <- RunLeases, MaxActiveLeases <- RunMaxActiveLeases, rowState <- v1, rowClaim <- v2,
    quarantine <- v3, sentinel <- v4, handle <- v5, pc <- v6, run <- v7, request <- v8,
    binding <- v9, models <- v10

Session == INSTANCE RuntimeSupervisor WITH
    Leases <- SessionLeases, MaxActiveLeases <- RunMaxActiveLeases, lease <- v1, endpoint <- v2,
    handle <- v3, pc <- v4, sess <- v5, target <- v6, server <- v7, listener <- v8

Paired == INSTANCE PairedExecution WITH
    world <- v1, root <- v2, events <- v3, residue <- v4, mailbox <- v5, cas <- v6,
    outcomes <- v7, runner <- v8, calls <- v9, trouble <- v10

slots == <<v1, v2, v3, v4, v5, v6, v7, v8, v9, v10>>
mcVars == <<part, lockVars, agentVars, slots>>
restVars == <<part, lockVars, agentVars>>

\* A part with k variables leaves the slots after the k-th at 0.
Spare(k) ==
    /\ IF k < 9 THEN v9 = 0 ELSE TRUE
    /\ IF k < 10 THEN v10 = 0 ELSE TRUE
SpareKept(k) ==
    /\ IF k < 9 THEN v9' = 0 ELSE TRUE
    /\ IF k < 10 THEN v10' = 0 ELSE TRUE

NoSlots ==
    /\ v1 = 0 /\ v2 = 0 /\ v3 = 0 /\ v4 = 0 /\ v5 = 0
    /\ v6 = 0 /\ v7 = 0 /\ v8 = 0 /\ v9 = 0 /\ v10 = 0

\* A part with variables of its own rests in an initial state unless it is chosen.
Resting == LockInit /\ AgentInit

MCInit ==
    \/ part \in {"lock", "agent"} /\ Resting /\ NoSlots
    \/ part = "verifier" /\ Verifier!HostInit /\ Spare(8) /\ Resting
    \/ part = "run" /\ Run!RunInit /\ Resting
    \/ part = "session" /\ Session!SupInit /\ Spare(8) /\ Resting
    \/ part = "paired" /\ Paired!Init /\ Resting

\* Parts that may rightly come to rest; any other must always have a step.
MayStop == {"verifier", "run", "session", "agent"}

MCNext ==
    \/ part = "lock" /\ LockNext /\ UNCHANGED <<part, agentVars, slots>>
    \/ part = "verifier" /\ Verifier!HostNext /\ SpareKept(8) /\ UNCHANGED restVars
    \/ part = "run" /\ Run!RunNext /\ UNCHANGED restVars
    \/ part = "session" /\ Session!SupNext /\ SpareKept(8) /\ UNCHANGED restVars
    \/ part = "agent" /\ AgentNext /\ UNCHANGED <<part, lockVars, slots>>
    \/ part = "paired" /\ Paired!Next /\ UNCHANGED restVars
    \/ part \in MayStop /\ UNCHANGED mcVars

\* A step of the part p whose k variables are the first slots.
Slotted(p, k) == part = p /\ SpareKept(k) /\ UNCHANGED restVars
OfLock == part = "lock" /\ UNCHANGED <<part, agentVars, slots>>
OfAgent == part = "agent" /\ UNCHANGED <<part, lockVars, slots>>

\* The fairness of each part, as its module states it.
MCSpec ==
    /\ MCInit /\ [][MCNext]_mcVars
    /\ \A p \in Procs : /\ WF_mcVars(OfLock /\ (Call(p) \/ Step(p)))
                        /\ SF_mcVars(OfLock /\ GiveUp(p))
    /\ WF_mcVars(OfLock /\ Age)
    /\ WF_mcVars(Slotted("verifier", 8) /\ Verifier!SeenStep)
    /\ WF_mcVars(Slotted("verifier", 8) /\ Verifier!DeadlinePasses)
    /\ \A l \in RunLeases : WF_mcVars(Slotted("run", 10) /\ Run!RunStep(l))
    /\ \A l \in SessionLeases : WF_mcVars(Slotted("session", 8) /\ Session!Bounded(l))
    /\ WF_mcVars(OfAgent /\ TimelyStep)
    /\ \A r \in Runners : WF_mcVars(Slotted("paired", 10) /\ Paired!RunnerStep(r))

-----------------------------------------------------------------------------
(***************************************************************************)
(* A bound cell's run that was started ends, and without faults of the     *)
(* probe no reservation that was never armed blocks for ever               *)
(* (run_bound_cell): BoundCellRun.RunLive.                                 *)
(***************************************************************************)
RunLive ==
    /\ [][part = "run" => Run!UndeliveredNeverBlocks]_mcVars
    /\ \A l \in RunLeases : []<>(part = "run" => Run!Ended(l))

(***************************************************************************)
(* A command on a runtime ends, unless it supervises a server that is      *)
(* ready (supervised_session): RuntimeSupervisor.SessionEnds.              *)
(***************************************************************************)
SessionEnds == \A l \in SessionLeases : []<>(part = "session" => Session!AtRest(l))

\* Every run of the agent loop ends, with a reason, or is kept for ever in one call of
\* the approval handler or of a local runner (run_agent_loop): AgentRun.EveryRunEnds.
AgentEnds == <>[](part = "agent" /\ Waits) \/ []<>(part = "agent" => Ended)

\* The invoked arms of a pair and their evidence: PairedExecution.PairedSafe.
PairedSafe == part = "paired" => Paired!PairedSafe

\* Every call of run_paired_case reports or fails: PairedExecution.EveryCallEnds.
EveryCallEnds == \A r \in Runners : []<>(part = "paired" => Paired!Finished(r))

\* A verifier's run ends, whatever its processes do: VerifierHost.EveryVerifierEnds.
EveryVerifierEnds == []<>(part = "verifier" => Verifier!Reported)
=============================================================================
