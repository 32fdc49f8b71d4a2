------------------------- MODULE AdaptiveExecution -------------------------
(* The adaptive cell advisor, its execution gate and the command that runs an  *)
(* admitted cell (src/local_moe/adaptive_selector.py, resource_snapshot.py,   *)
(* adaptive_advisor_service.py, adaptive_execution_gate.py,                   *)
(* adaptive_execution_cli.py).                                                *)
(*                                                                            *)
(* An advisor command leaves a receipt; a run is admitted only if the same    *)
(* evaluation, made again, picks the same passport.  Catalog, evaluation      *)
(* contract, host memory and clock change between the steps of a command,     *)
(* and several runs may name one output.  What a run does between admission   *)
(* and result is the subject of BoundCellRun.                                 *)
EXTENDS Integers, Sequences, FiniteSets, FiniteSetsExt

CONSTANTS
    Commands,     \* each command's kind, "advise", "preview" or "run", and its possible tasks
    Catalogs,     \* the catalogs of the history, each a function of its cells
    Hosts,        \* the states of the host's memory
    Profile,      \* weights, floors and ages of the advisor profile
    MaxAge,       \* max_source_receipt_age_seconds
    MaxClock,     \* bound on the clock
    MaxChanges    \* bound on changes of the world

VARIABLES
    world,     \* catalog, evaluation contract, host, foreign output, changes so far
    clock,
    receipts,  \* the advisor receipts on disk
    cmd,       \* each command: step, inputs and evaluation
    journal,   \* each run's recovery journal
    output,    \* the file at the one receipt output path
    sent       \* the runs that called their model

adaptiveVars == <<world, clock, receipts, cmd, journal, output, sent>>

Ids == DOMAIN Commands
Unknown == -1
NoSnapshot == [known |-> FALSE, host |-> 1, at |-> 0]
NoReceipt == [cell |-> 0, task |-> "none", at |-> 0, catalog |-> 0, contract |-> 0, snap |-> NoSnapshot]

\* A command that has nothing in memory.
Blank(pc) == [pc |-> pc, task |-> "none", source |-> NoReceipt, catalog |-> 0, contract |-> 0,
              snap |-> NoSnapshot, fresh |-> NoReceipt]

AdaptiveInit ==
    /\ world = [catalog |-> 1, contract |-> 1, host |-> 1, foreign |-> FALSE, changes |-> 0]
    /\ clock = 0
    /\ receipts = {}
    /\ cmd = [r \in Ids |-> Blank("idle")]
    /\ journal = [r \in Ids |-> "none"]
    /\ output = "none"
    /\ sent = {}

Enter(r, pc) == cmd' = [cmd EXCEPT ![r].pc = pc]
Leave(r, pc) == cmd' = [cmd EXCEPT ![r] = Blank(pc)]
AtMost(a, b) == IF a <= b THEN a ELSE b
AtLeast(a, b) == IF a >= b THEN a ELSE b

-----------------------------------------------------------------------------
(* What the host has *)

\* The levels from the process's own group up to the mount; "max" is no limit.
FiniteLevels(h) == {k \in DOMAIN h.levels : h.levels[k].limit # Unknown}

CgroupLimit(h) == Min({h.levels[k].limit : k \in FiniteLevels(h)})
CgroupHeadroom(h) == Min({AtLeast(0, h.levels[k].limit - h.levels[k].current) : k \in FiniteLevels(h)})

\* _read_linux_memory: every enclosing group bounds what is free and the limit.
AvailableMemory(h) ==
    IF FiniteLevels(h) = {} THEN h.available ELSE AtMost(h.available, CgroupHeadroom(h))
EffectiveLimit(h) ==
    IF FiniteLevels(h) = {} THEN h.total ELSE AtMost(h.total, CgroupLimit(h))

\* A probe that fails, overflows or is late leaves its values unknown.
SnapshotsAt(now) == [known : BOOLEAN, host : {world.host}, at : {now}]

-----------------------------------------------------------------------------
(* What a passport may say *)

\* Evidence that is known names its time, and expires after it.
ObservationValid(p) == p.observed # Unknown => p.captured < p.expires
\* Metrics are claimed exactly when there are samples.
MeasurementValid(p) == (p.samples = 0) <=> (p.measured = Unknown)
\* An estimate names a pool and a positive peak, or nothing.
EstimateValid(p) == p.estimate = Unknown \/ p.estimate > 0

CatalogValid(cat) ==
    /\ Catalogs[cat] # <<>>
    /\ \A c \in DOMAIN Catalogs[cat] :
         LET p == Catalogs[cat][c] IN ObservationValid(p) /\ MeasurementValid(p) /\ EstimateValid(p)

-----------------------------------------------------------------------------
(* The advisor *)

\* The declared identities must be the observed ones.
IdentityHolds(p) == p.expected # Unknown /\ p.observed = p.expected

\* _freshness of observation and measurement.
Freshness(p, at) == p.captured <= at /\ at < p.expires

MeasurementHolds(p, contract) ==
    /\ p.samples >= Profile.min_samples /\ p.quality >= Profile.min_quality
    /\ p.contract = contract

\* The larger of estimate and measurement.
EffectiveMemory(p) == AtLeast(p.estimate, p.measured)

FitsMemory(p, h) ==
    p.estimate # Unknown /\ EffectiveMemory(p) + Profile.reserve <= AtMost(AvailableMemory(h), EffectiveLimit(h))

\* The snapshot itself: not from the future, not stale, swap within its limit.
SnapshotUsable(s, at) ==
    /\ s.known /\ s.at <= at /\ at - s.at <= Profile.snapshot_age
    /\ Hosts[s.host].swap <= Profile.max_swap

HardEligible(p, s, contract, at) ==
    /\ IdentityHolds(p) /\ Freshness(p, at) /\ MeasurementHolds(p, contract)
    /\ FitsMemory(p, Hosts[s.host])

\* Mutant of Dominates: better in one metric is enough.
DominatesInOne(p, q) ==
    \/ Profile.latency > 0 /\ p.latency < q.latency
    \/ Profile.memory > 0 /\ EffectiveMemory(p) < EffectiveMemory(q)

\* No worse in every metric that has a weight, and better in one.
Dominates(p, q) ==
    LET Worse(a, b) == \/ Profile.quality > 0 /\ a.quality < b.quality
                       \/ Profile.latency > 0 /\ a.latency > b.latency
                       \/ Profile.memory > 0 /\ EffectiveMemory(a) > EffectiveMemory(b)
    IN  ~Worse(p, q) /\ Worse(q, p)

Utility(p) == Profile.quality * p.quality + Profile.latency * AtLeast(0, 10 - p.latency)
              + Profile.memory * AtLeast(0, 10 - EffectiveMemory(p))

\* _ranking_key: the utility, then the weighted metrics, then the name.
RankingKey(c, p) ==
    << -Utility(p), IF Profile.quality > 0 THEN -p.quality ELSE 0,
       IF Profile.latency > 0 THEN p.latency ELSE 0,
       IF Profile.memory > 0 THEN EffectiveMemory(p) ELSE 0, c >>

RankedBefore(k, l) ==
    \E n \in DOMAIN k : k[n] < l[n] /\ \A m \in 1..(n - 1) : k[m] = l[m]

Eligible(cat, s, contract, at) ==
    IF SnapshotUsable(s, at)
    THEN {c \in DOMAIN Catalogs[cat] : HardEligible(Catalogs[cat][c], s, contract, at)} ELSE {}

Frontier(cat, s, contract, at) ==
    LET e == Eligible(cat, s, contract, at)
    IN  {c \in e : \A d \in e \ {c} : ~Dominates(Catalogs[cat][d], Catalogs[cat][c])}

\* advise_cell: the first of the frontier, or an abstention.
AdviseCell(cat, s, contract, at) ==
    LET f == Frontier(cat, s, contract, at)
    IN  IF f = {} THEN 0
        ELSE CHOOSE c \in f : \A d \in f \ {c} :
               RankedBefore(RankingKey(c, Catalogs[cat][c]), RankingKey(d, Catalogs[cat][d]))

-----------------------------------------------------------------------------
(* A command *)

\* The arguments and the task are read; preview and run name a receipt on disk.
StartCommand(r) ==
    /\ cmd[r].pc = "idle"
    /\ \E t \in Commands[r].tasks, s \in (IF Commands[r].kind = "advise" THEN {NoReceipt} ELSE receipts) :
         cmd' = [cmd EXCEPT ![r].pc = IF Commands[r].kind = "run" THEN "preflight" ELSE "prepare",
                            ![r].task = t, ![r].source = s]
    /\ UNCHANGED <<world, clock, receipts, journal, output, sent>>

\* _preflight_receipt_output: an output that exists already costs no model call.
PreflightOutput(r) ==
    /\ cmd[r].pc = "preflight"
    /\ IF output = "none" THEN Enter(r, "reserve") ELSE Leave(r, "refused")
    /\ UNCHANGED <<world, clock, receipts, journal, output, sent>>

ReserveJournal(r) ==
    /\ cmd[r].pc = "reserve"
    /\ journal' = [journal EXCEPT ![r] = "reserved"]
    /\ Enter(r, "prepare")
    /\ UNCHANGED <<world, clock, receipts, output, sent>>

PrepareInputs(r) ==
    /\ cmd[r].pc = "prepare"
    /\ CatalogValid(world.catalog)
    /\ cmd' = [cmd EXCEPT ![r].pc = "collect", ![r].catalog = world.catalog, ![r].contract = world.contract]
    /\ UNCHANGED <<world, clock, receipts, journal, output, sent>>

\* A catalog that breaks its contract is refused; a run ends blocked, with evidence.
CatalogRefused(r) ==
    /\ cmd[r].pc = "prepare" /\ ~CatalogValid(world.catalog)
    /\ Leave(r, IF Commands[r].kind = "run" THEN "finalize" ELSE "refused")
    /\ UNCHANGED <<world, clock, receipts, journal, output, sent>>

CollectSnapshot(r) ==
    /\ cmd[r].pc = "collect"
    /\ \E s \in SnapshotsAt(clock) : cmd' = [cmd EXCEPT ![r].pc = "evaluate", ![r].snap = s]
    /\ UNCHANGED <<world, clock, receipts, journal, output, sent>>

\* The receipt of one evaluation binds request, catalog and snapshot.
FreshReceipt(c, now) ==
    [cell |-> AdviseCell(c.catalog, c.snap, c.contract, now),
     task |-> c.task, at |-> now, catalog |-> c.catalog, contract |-> c.contract, snap |-> c.snap]

\* An advisor command publishes its receipt as a new file.
AdvisorCommand(r) ==
    /\ cmd[r].pc = "evaluate" /\ Commands[r].kind = "advise"
    /\ receipts' = receipts \cup {FreshReceipt(cmd[r], clock)}
    /\ Leave(r, "done")
    /\ UNCHANGED <<world, clock, journal, output, sent>>

\* _build_preview_receipt: every way in which the second evaluation may differ.
AgeAdmits(s, f) == s.at <= f.at /\ f.at - s.at <= MaxAge
SameRequest(s, f) == s.task = f.task /\ s.contract = f.contract
SamePassport(s, f) == s.catalog = f.catalog /\ s.cell = f.cell

Admits(s, f) ==
    /\ s.cell # 0 /\ f.cell # 0
    /\ AgeAdmits(s, f) /\ SameRequest(s, f) /\ SamePassport(s, f)

\* A preview ends here; a run goes on, and a blocked one leaves evidence too.
PreviewExecution(r) ==
    /\ cmd[r].pc = "evaluate" /\ Commands[r].kind # "advise"
    /\ LET f == FreshReceipt(cmd[r], clock)
       IN  cmd' = [cmd EXCEPT ![r].fresh = f,
                     ![r].pc = IF Commands[r].kind = "preview"
                               THEN IF Admits(cmd[r].source, f) THEN "admitted" ELSE "blocked"
                               ELSE IF Admits(cmd[r].source, f) THEN "invoke" ELSE "finalize"]
    /\ UNCHANGED <<world, clock, receipts, journal, output, sent>>

\* run_bound_cell, whose own steps BoundCellRun models.
RunBoundCell(r) ==
    /\ cmd[r].pc = "invoke"
    /\ sent' \in {sent, sent \cup {r}}
    /\ Leave(r, "finalize")
    /\ UNCHANGED <<world, clock, receipts, journal, output>>

FinalizeJournal(r) ==
    /\ cmd[r].pc = "finalize"
    /\ \/ journal' = [journal EXCEPT ![r] = "finalized"] /\ Enter(r, "publish")
       \/ Leave(r, "refused") /\ UNCHANGED journal
    /\ UNCHANGED <<world, clock, receipts, output, sent>>

\* _write_output: a synced temporary file is linked, never over another file.
LinkOutput(r) ==
    /\ cmd[r].pc = "publish"
    /\ IF output = "none" THEN output' = r /\ Enter(r, "verify")
                          ELSE Leave(r, "refused") /\ UNCHANGED output
    /\ UNCHANGED <<world, clock, receipts, journal, sent>>

\* The published file is read back; if that fails it is removed again, by identity.
VerifyOutput(r) ==
    /\ cmd[r].pc = "verify"
    /\ \/ Enter(r, "remove") /\ UNCHANGED output
       \/ output' = "none" /\ Leave(r, "refused")
    /\ UNCHANGED <<world, clock, receipts, journal, sent>>

\* Mutant of RemoveJournal: the journal goes before the output is verified.
RemoveJournalEarly(r) ==
    /\ cmd[r].pc = "verify"
    /\ journal' = [journal EXCEPT ![r] = "none"]
    /\ UNCHANGED <<world, clock, receipts, cmd, output, sent>>

RemoveJournal(r) ==
    /\ cmd[r].pc = "remove"
    /\ journal' = [journal EXCEPT ![r] = "none"]
    /\ Enter(r, "reported")
    /\ UNCHANGED <<world, clock, receipts, output, sent>>

Crash(r) ==
    /\ cmd[r].pc \in {"preflight", "reserve", "prepare", "collect", "evaluate", "invoke", "finalize",
                      "publish", "verify", "remove"}
    /\ Leave(r, "crashed")
    /\ UNCHANGED <<world, clock, receipts, journal, output, sent>>

-----------------------------------------------------------------------------
(* The world *)

WorldChanges ==
    /\ world.changes < MaxChanges
    /\ \/ world.catalog < Len(Catalogs) /\ world' = [world EXCEPT !.catalog = @ + 1, !.changes = @ + 1]
       \/ world.contract = 1 /\ world' = [world EXCEPT !.contract = 2, !.changes = @ + 1]
       \/ \E h \in DOMAIN Hosts \ {world.host} : world' = [world EXCEPT !.host = h, !.changes = @ + 1]
    /\ UNCHANGED <<clock, receipts, cmd, journal, output, sent>>

ForeignOutput ==
    /\ output = "none" /\ ~world.foreign
    /\ output' = "foreign" /\ world' = [world EXCEPT !.foreign = TRUE]
    /\ UNCHANGED <<clock, receipts, cmd, journal, sent>>

Tick ==
    /\ clock < MaxClock
    /\ clock' = clock + 1
    /\ UNCHANGED <<world, receipts, cmd, journal, output, sent>>

CommandStep(r) ==
    \/ StartCommand(r) \/ PreflightOutput(r) \/ ReserveJournal(r) \/ PrepareInputs(r)
    \/ CatalogRefused(r)
    \/ CollectSnapshot(r) \/ AdvisorCommand(r) \/ PreviewExecution(r) \/ RunBoundCell(r)
    \/ FinalizeJournal(r) \/ LinkOutput(r) \/ VerifyOutput(r) \/ RemoveJournal(r) \/ Crash(r)

AdaptiveNext == (\E r \in Ids : CommandStep(r)) \/ WorldChanges \/ ForeignOutput \/ Tick

AdaptiveSpec == AdaptiveInit /\ [][AdaptiveNext]_adaptiveVars

-----------------------------------------------------------------------------
(* A command admits a cell only if both evaluations, however the world moved   *)
(* in between, chose the same passport for the same task; that passport is     *)
(* unexpired and fits the memory that the fresh snapshot saw; the snapshot is  *)
(* no older than the profile allows; and no other eligible cell has a higher   *)
(* utility, so that dropping dominated cells first never loses the best one.   *)
AdmittedIsJustified ==
    \A r \in Ids :
      LET f == cmd[r].fresh
          s == cmd[r].source
          p == Catalogs[f.catalog][f.cell]
          h == Hosts[f.snap.host]
      IN  cmd[r].pc \in {"admitted", "invoke"} =>
            /\ s.cell = f.cell /\ p = Catalogs[s.catalog][s.cell] /\ s.task = cmd[r].task
            /\ f.at < p.expires /\ f.at - f.snap.at <= Profile.snapshot_age
            /\ \A k \in DOMAIN h.levels :
                 h.levels[k].limit # Unknown =>
                   p.measured + Profile.reserve <= h.levels[k].limit - h.levels[k].current
            /\ \A c \in Eligible(f.catalog, f.snap, f.contract, f.at) :
                 Utility(Catalogs[f.catalog][c]) <= Utility(p)

(* A run that called its model is never without trace: until its envelope is   *)
(* on disk and verified its journal is, through any crash, refused publication *)
(* or second run on the same path.  A result is reported only from a published *)
(* envelope, and a file that was there before is never replaced.               *)
RunLeavesTrace ==
    /\ \A r \in sent : journal[r] # "none" \/ output = r
    /\ \A r \in Ids : cmd[r].pc = "reported" => output = r
    /\ world.foreign => output = "foreign"

\* What an adaptive command promises of the cell it admits and of the run it makes.
AdaptiveSafe == AdmittedIsJustified /\ RunLeavesTrace
=============================================================================
