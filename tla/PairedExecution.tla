-------------------------- MODULE PairedExecution --------------------------
(* A paired-evidence case (src/local_moe/paired_execution.py and its store,  *)
(* contracts, bridge executor and directory attestation exchange): the same  *)
(* task is run twice, once on each of two routes, and each result is signed  *)
(* by independent verifiers before it becomes an outcome record.             *)
(*                                                                           *)
(* The journal of a run is a root file and at most four immutable events     *)
(* (claim, checkpoint, claim, checkpoint) under one lock, so every store     *)
(* operation is one step; what is not atomic is the process, which may die   *)
(* between any two steps or half-way through installing a file.  A claim is  *)
(* owned only by the process that wrote it, in memory.  Several processes    *)
(* may be asked to run the same case.                                        *)
EXTENDS Naturals, FiniteSets, Sequences, SequencesExt

CONSTANTS
    Runners,      \* processes asked to run the case
    Verifiers,    \* verifiers the trust policy knows
    Quorum,       \* how many of them must sign
    Required,     \* the ones the task names
    Responses,    \* what the signing sidecar may publish
    MaxTrouble    \* bound on crashes, re-runs and changes of the world

VARIABLES
    world,     \* the source workspace and the executor's configuration
    root,      \* the run's root file
    events,    \* the event files, in order
    residue,   \* a dead install left its temporary file among those read
    mailbox,   \* the attestation exchange: the response to each request
    cas,       \* receipts in the content-addressed store
    outcomes,  \* records in the outcome store
    runner,    \* the processes
    calls,     \* how often a provider was invoked for each arm (history)
    trouble

vars == <<world, root, events, residue, mailbox, cas, outcomes, runner,
          calls, trouble>>

Slots == 1..2      \* the arms in the declared order (AB or BA)
NoSlot == 0

-----------------------------------------------------------------------------
(* The contracts: a digest is equal exactly when everything it covers is *)

NoRecord == [slot |-> NoSlot, prev |-> NoSlot, root |-> [src |-> 0, conf |-> 0,
             nonce |-> "none"], votes |-> {}, late |-> FALSE, cost |-> FALSE]
NoRoot == NoRecord.root

PairedRunRoot(src, conf, nonce) == [src |-> src, conf |-> conf, nonce |-> nonce]

PairedRunClaim(s) == [kind |-> "claim", slot |-> s, rec |-> NoRecord]

PairedRunCheckpoint(rec) == [kind |-> "checkpoint", slot |-> rec.slot, rec |-> rec]

\* The lineage an outcome record carries: its root, its claim's slot and the
\* record of the arm before it; and the evidence: who signed, and the cost
\* where every command reported its tokens.
PairedOutcomeBinding(rt, s, prev) == [NoRecord EXCEPT !.root = rt, !.slot = s, !.prev = prev]

BuildVerifiedOutcome(binding, votes, late, cost) ==
    [binding EXCEPT !.votes = votes, !.late = late, !.cost = cost]

-----------------------------------------------------------------------------
(* Reading the journal *)

Checkpoints == SelectSeq(events, LAMBDA e: e.kind = "checkpoint")
OpenClaim == IF events # <<>> /\ Last(events).kind = "claim"
             THEN Last(events).slot ELSE NoSlot
Previous == IF Checkpoints = <<>> THEN NoSlot ELSE Last(Checkpoints).slot

\* A journal is read only while every file in it is an event of the sequence:
\* claims and checkpoints alternate in slot order on an unbroken chain, and no
\* file has a second hard link or a foreign name.
ReadUnlocked ==
    /\ ~residue
    /\ (events # <<>>) => (root # NoRoot)
    /\ \A i \in DOMAIN events :
          /\ events[i].kind = (IF i % 2 = 1 THEN "claim" ELSE "checkpoint")
          /\ events[i].slot = (i + 1) \div 2
          /\ events[i].kind = "checkpoint" =>
                /\ events[i].rec.root = root
                /\ events[i].rec.prev = events[i].slot - 1

OwnsClaim(r) == OpenClaim # NoSlot /\ runner[r].owned = OpenClaim

\* Where the run stands, as process r sees it.
Status(r) ==
    CASE root = NoRoot           -> "missing"
      [] OpenClaim # NoSlot      -> IF OwnsClaim(r) THEN "running" ELSE "indeterminate"
      [] Len(Checkpoints) = 2    -> "complete"
      [] Len(Checkpoints) = 1    -> "partial"
      [] OTHER                   -> "ready"

\* A record is reconstructed from its signed receipt: the receipt is in the
\* store, its verifiers reach the quorum and include the required ones, and it
\* is the receipt of exactly this record.
VerifyRecord(rec) ==
    /\ rec \in cas
    /\ Cardinality(rec.votes) >= Quorum /\ Required \subseteq rec.votes

\* Every checkpoint has its record in the outcome store, reconstructible.
LoadCheckpointedRecords ==
    \A i \in DOMAIN Checkpoints :
        Checkpoints[i].rec \in outcomes /\ VerifyRecord(Checkpoints[i].rec)

-----------------------------------------------------------------------------
(* One process: run_paired_case *)

Idle == [pc |-> "idle", src |-> 0, conf |-> 0, nonce |-> "none", slot |-> NoSlot,
         owned |-> NoSlot, bind |-> NoRecord, req |-> "none",
         late |-> FALSE, votes |-> {}, rec |-> NoRecord]

NoMail == [state |-> "none", match |-> FALSE, votes |-> {}]

At(r, pc) == runner[r].pc = pc
Goto(r, pc) == runner' = [runner EXCEPT ![r].pc = pc]

\* Outside a claim an error simply ends the call.
Stop(r) == Goto(r, "failed") /\ UNCHANGED <<world, root, events, residue, mailbox, cas, outcomes, calls, trouble>>

\* Inside a claim any error gives up the claim's ownership: the event stays,
\* so the run is indeterminate from then on.
Abandon(r) ==
    /\ runner' = [runner EXCEPT ![r].pc = "failed", ![r].owned = NoSlot]
    /\ UNCHANGED <<world, root, events, residue, mailbox, cas, outcomes, calls, trouble>>

ConfigUnchanged(r) == world.conf = runner[r].conf
SourceUnchanged(r) == world.src = runner[r].src

MyRoot(r) == PairedRunRoot(runner[r].src, runner[r].conf, runner[r].nonce)

\* Preflight: an indeterminate run is refused, the source is snapshot, and the
\* root is built with a fresh nonce unless one is already installed.
Preflight(r) ==
    /\ At(r, "idle")
    /\ IF ~ReadUnlocked \/ Status(r) = "indeterminate" THEN Stop(r)
       ELSE /\ runner' = [runner EXCEPT ![r] = [Idle EXCEPT
                  !.pc = "prepare", !.src = world.src, !.conf = world.conf,
                  !.nonce = IF root = NoRoot THEN r ELSE root.nonce]]
            /\ UNCHANGED <<world, root, events, residue, mailbox, cas, outcomes, calls, trouble>>

Prepare(r) ==
    /\ At(r, "prepare")
    /\ IF ~ReadUnlocked \/ (root # NoRoot /\ root # MyRoot(r)) THEN Stop(r)
       ELSE /\ root' = MyRoot(r)
            /\ Goto(r, "status")
            /\ UNCHANGED <<world, events, residue, mailbox, cas, outcomes, calls, trouble>>

\* The loop's head: the run must be resumable, the configuration unchanged, and
\* the earlier arm's evidence still reconstructible.
Resume(r) ==
    /\ At(r, "status")
    /\ IF \/ ~ReadUnlocked \/ root # MyRoot(r)
          \/ Status(r) \notin {"ready", "partial", "complete"}
          \/ ~ConfigUnchanged(r) \/ ~LoadCheckpointedRecords
       THEN Stop(r)
       ELSE IF Status(r) = "complete"
       THEN IF SourceUnchanged(r)
            THEN /\ Goto(r, "reported")
                 /\ UNCHANGED <<world, root, events, residue, mailbox, cas, outcomes, calls, trouble>>
            ELSE Stop(r)
       ELSE /\ runner' = [runner EXCEPT ![r].pc = "claim",
                                        ![r].slot = Len(Checkpoints) + 1]
            /\ UNCHANGED <<world, root, events, residue, mailbox, cas, outcomes, calls, trouble>>

\* Only the next slot may be claimed, and never over an open claim, whoever
\* wrote it.
MayClaim(r) == OpenClaim = NoSlot /\ runner[r].slot = Len(Checkpoints) + 1

\* Mutant of Claim: the open claim of a dead process is taken over.
ClaimTakenOver(r) ==
    /\ At(r, "claim")
    /\ IF ~ReadUnlocked \/ root = NoRoot \/ runner[r].slot # Len(Checkpoints) + 1 THEN Stop(r)
       ELSE /\ events' = IF OpenClaim = NoSlot
                         THEN Append(events, PairedRunClaim(runner[r].slot)) ELSE events
            /\ runner' = [runner EXCEPT ![r].pc = "plan", ![r].owned = runner[r].slot]
            /\ UNCHANGED <<world, root, residue, mailbox, cas, outcomes, calls, trouble>>

Claim(r) ==
    /\ At(r, "claim")
    /\ IF ~ReadUnlocked \/ root = NoRoot \/ ~MayClaim(r) THEN Stop(r)
       ELSE /\ events' = Append(events, PairedRunClaim(runner[r].slot))
            /\ runner' = [runner EXCEPT ![r].pc = "plan", ![r].owned = runner[r].slot]
            /\ UNCHANGED <<world, root, residue, mailbox, cas, outcomes, calls, trouble>>

\* Binding the claim and planning the arm: the ticket of the bridge is issued
\* for this source, configuration and operation.
PlanArm(r) ==
    /\ At(r, "plan")
    /\ IF ~ReadUnlocked \/ ~OwnsClaim(r) \/ ~ConfigUnchanged(r) \/ ~SourceUnchanged(r)
       THEN Abandon(r)
       ELSE /\ runner' = [runner EXCEPT ![r].pc = "invoke",
                  ![r].bind = PairedOutcomeBinding(root, runner[r].slot, Previous)]
            /\ UNCHANGED <<world, root, events, residue, mailbox, cas, outcomes, calls, trouble>>

\* The arm's provider is invoked in a disposable copy of the source: the bridge
\* refuses a source or a configuration other than the planned one, and the call
\* itself may fail.
RunArm(r) ==
    /\ At(r, "invoke")
    /\ \/ ~(ConfigUnchanged(r) /\ SourceUnchanged(r)) /\ Abandon(r)
       \/ /\ ConfigUnchanged(r) /\ SourceUnchanged(r)
          /\ calls' = [calls EXCEPT ![runner[r].slot] = @ + 1]
          /\ \E ok \in BOOLEAN :
                runner' = [runner EXCEPT ![r].pc = IF ok THEN "request" ELSE "failed",
                              ![r].owned = IF ok THEN @ ELSE NoSlot]
          /\ UNCHANGED <<world, root, events, residue, mailbox, cas, outcomes, trouble>>

-----------------------------------------------------------------------------
(* The attestation exchange *)

\* A request is published once under a fresh id; the claim is never retried, so
\* the slot names it.
PublishRequest(r) ==
    /\ At(r, "request")
    /\ IF ~ConfigUnchanged(r) THEN Abandon(r)
       ELSE /\ runner' = [runner EXCEPT ![r].pc = "wait", ![r].req = "open"]
            /\ UNCHANGED <<world, root, events, residue, mailbox, cas, outcomes, calls, trouble>>

\* The sidecar links its response into place and then unlinks the temporary
\* name; between the two the file has two links.  (External.)
Sidecar(r, m) ==
    /\ runner[r].req = "open"
    /\ \/ /\ mailbox[r].state = "none"
          /\ mailbox' = [mailbox EXCEPT ![r] = [state |-> "linked", match |-> m.match, votes |-> m.votes]]
       \/ /\ mailbox[r].state = "linked"
          /\ mailbox' = [mailbox EXCEPT ![r].state = "published"]
    /\ UNCHANGED <<world, root, events, residue, cas, outcomes, runner, calls, trouble>>

\* The deadline of the request passes.
Deadline(r) ==
    /\ runner[r].pc \in {"wait", "sign"} /\ ~runner[r].late
    /\ runner' = [runner EXCEPT ![r].late = TRUE]
    /\ UNCHANGED <<world, root, events, residue, mailbox, cas, outcomes, calls, trouble>>

\* Mutant of InTime: the deadline only ends the waiting.
NeverLate(r) == TRUE

InTime(r) == ~runner[r].late

\* Mutant of PollResponse: the wait has no end of its own.
PollForever(r) ==
    /\ At(r, "wait")
    /\ mailbox[r].state = "published"
    /\ IF ~InTime(r) \/ ~mailbox[r].match THEN Abandon(r)
       ELSE /\ runner' = [runner EXCEPT ![r].pc = "sign", ![r].votes = mailbox[r].votes]
            /\ UNCHANGED <<world, root, events, residue, mailbox, cas, outcomes, calls, trouble>>

\* A published response of this very request, read before the deadline; a file
\* still being published is waited for.
PollResponse(r) ==
    /\ At(r, "wait")
    /\ InTime(r) => mailbox[r].state = "published"
    /\ IF ~InTime(r) \/ mailbox[r].state # "published" \/ ~mailbox[r].match THEN Abandon(r)
       ELSE /\ runner' = [runner EXCEPT ![r].pc = "sign", ![r].votes = mailbox[r].votes]
            /\ UNCHANGED <<world, root, events, residue, mailbox, cas, outcomes, calls, trouble>>

\* The envelopes are of distinct known verifiers, enough of them, and the ones
\* the task names among them.
Attested(votes) ==
    /\ votes \subseteq Verifiers
    /\ Cardinality(votes) >= Quorum
    /\ Required \subseteq votes

\* Late, unsigned or reconfigured evidence is refused; good evidence is stored
\* with its receipt.  Then the record is built and reconstructed at once.
AttestCandidate(r) ==
    /\ At(r, "sign")
    /\ IF ~InTime(r) \/ ~Attested(runner[r].votes) \/ ~ConfigUnchanged(r) \/ ~SourceUnchanged(r)
       THEN Abandon(r)
       ELSE \E cost \in BOOLEAN :
            LET rec == BuildVerifiedOutcome(runner[r].bind, runner[r].votes, runner[r].late, cost)
            IN  /\ cas' = cas \cup {rec}
                /\ runner' = [runner EXCEPT ![r].pc = "append", ![r].rec = rec]
                /\ UNCHANGED <<world, root, events, residue, mailbox, outcomes, calls, trouble>>

-----------------------------------------------------------------------------
(* Making the outcome durable *)

AppendOutcome(r) ==
    /\ At(r, "append")
    /\ IF ~ConfigUnchanged(r) \/ ~SourceUnchanged(r) \/ ~VerifyRecord(runner[r].rec)
       THEN Abandon(r)
       ELSE /\ outcomes' = outcomes \cup {runner[r].rec}
            /\ Goto(r, "complete")
            /\ UNCHANGED <<world, root, events, residue, mailbox, cas, calls, trouble>>

\* Only the owner of the open claim may checkpoint it, on the current chain.
MayComplete(r) ==
    /\ OwnsClaim(r)
    /\ runner[r].rec.slot = OpenClaim /\ runner[r].rec.prev = Previous
    /\ runner[r].rec.root = root

Complete(r) ==
    /\ At(r, "complete")
    /\ IF ~ReadUnlocked \/ ~ConfigUnchanged(r) \/ ~MayComplete(r) THEN Abandon(r)
       ELSE /\ events' = Append(events, PairedRunCheckpoint(runner[r].rec))
            /\ runner' = [runner EXCEPT ![r].pc = "status", ![r].owned = NoSlot,
                              ![r].req = "none", ![r].late = FALSE]
            /\ mailbox' = [mailbox EXCEPT ![r] = NoMail]
            /\ UNCHANGED <<world, root, residue, cas, outcomes, calls, trouble>>

-----------------------------------------------------------------------------
(* Crashes, re-runs and the world *)

\* The process dies between two steps; whatever it owned is gone with it, and
\* the case may be started again by a new process.
Crash(r) ==
    /\ trouble < MaxTrouble /\ runner[r].pc # "idle"
    /\ runner' = [runner EXCEPT ![r] = Idle]
    /\ mailbox' = [mailbox EXCEPT ![r] = NoMail]
    /\ trouble' = trouble + 1
    /\ UNCHANGED <<world, root, events, residue, cas, outcomes, calls>>

\* It dies while it installs a file: the file may be linked or not, and its
\* temporary name stays, a foreign file among the events or a second link of
\* the root.
AtomicInstallCrash(r) ==
    /\ trouble < MaxTrouble /\ ~residue
    /\ \/ At(r, "prepare") /\ root = NoRoot /\ root' = MyRoot(r) /\ UNCHANGED events
       \/ /\ At(r, "claim") /\ MayClaim(r)
          /\ events' \in {events, Append(events, PairedRunClaim(runner[r].slot))}
          /\ UNCHANGED root
       \/ /\ At(r, "complete") /\ MayComplete(r)
          /\ events' \in {events, Append(events, PairedRunCheckpoint(runner[r].rec))}
          /\ UNCHANGED root
    /\ residue' = TRUE
    /\ runner' = [runner EXCEPT ![r] = Idle]
    /\ mailbox' = [mailbox EXCEPT ![r] = NoMail]
    /\ trouble' = trouble + 1
    /\ UNCHANGED <<world, cas, outcomes, calls>>

\* The source is edited, the executor reconfigured, or evidence lost.
Change ==
    /\ trouble < MaxTrouble
    /\ trouble' = trouble + 1
    /\ \/ world' = [world EXCEPT !.src = @ + 1] /\ UNCHANGED <<cas, outcomes>>
       \/ world' = [world EXCEPT !.conf = @ + 1] /\ UNCHANGED <<cas, outcomes>>
       \/ \E rec \in cas : cas' = cas \ {rec} /\ UNCHANGED <<world, outcomes>>
    /\ UNCHANGED <<root, events, residue, mailbox, runner, calls>>

Init ==
    /\ world = [src |-> 1, conf |-> 1]
    /\ root = NoRoot /\ events = <<>> /\ residue = FALSE
    /\ mailbox = [r \in Runners |-> NoMail]
    /\ cas = {} /\ outcomes = {}
    /\ runner = [r \in Runners |-> Idle]
    /\ calls = [s \in Slots |-> 0]
    /\ trouble = 0

Finished(r) == runner[r].pc \in {"failed", "reported"}
Quiet == (\A r \in Runners : Finished(r)) /\ UNCHANGED vars

RunnerStep(r) ==
    \/ Preflight(r) \/ Prepare(r) \/ Resume(r) \/ Claim(r) \/ PlanArm(r)
    \/ RunArm(r) \/ PublishRequest(r) \/ Deadline(r) \/ PollResponse(r)
    \/ AttestCandidate(r) \/ AppendOutcome(r) \/ Complete(r)

Next ==
    \/ \E r \in Runners :
         \/ RunnerStep(r) \/ Crash(r) \/ AtomicInstallCrash(r)
         \/ \E m \in Responses : Sidecar(r, m)
    \/ Change
    \/ Quiet

Spec == Init /\ [][Next]_vars

\* Every process keeps being scheduled and every deadline passes.
PairedSpec ==
    /\ Spec
    /\ \A r \in Runners : WF_vars(RunnerStep(r))

-----------------------------------------------------------------------------
(* Properties *)

\* "Any later failure is deliberately indeterminate and is never retried"
\* (run_paired_case): over crashes, re-runs and concurrent processes an arm's
\* provider is invoked at most once, and the second arm only after the first
\* one's outcome is checkpointed.
InvokedOnce ==
    /\ \A s \in Slots : calls[s] <= 1
    /\ calls[2] = 1 => calls[1] = 1 /\ Len(Checkpoints) >= 1

\* What a checkpoint promises about the outcome it names (complete and
\* _attest_candidate): the record is durable in the outcome store, belongs to
\* this run's root and chain, and was signed in time by a quorum of verifiers
\* with the required ones among them.
CheckpointedEvidence ==
    \A i \in DOMAIN Checkpoints :
        LET rec == Checkpoints[i].rec
        IN  /\ rec \in outcomes
            /\ rec.slot = i /\ rec.prev = i - 1 /\ rec.root = root
            /\ ~rec.late
            /\ Cardinality(rec.votes) >= Quorum /\ Required \subseteq rec.votes

\* Every call comes to an end: it reports the pair or fails, whatever the
\* sidecar does, because the wait for a response is bounded by its deadline.
EveryCallEnds == \A r \in Runners : []<>Finished(r)

\* What the run store promises of the arms that were invoked and of their evidence.
PairedSafe == InvokedOnce /\ CheckpointedEvidence
=============================================================================
