---------------------------- MODULE ProviderProbe ----------------------------
(* The compatibility probe of the local provider:                             *)
(* src/local_moe/assistant_provider_probe.py.                                 *)
(*                                                                            *)
(* One probe at a time: the configuration is read, a marker is hidden in a    *)
(* disposable workspace, the provider is asked to read it, and the model that *)
(* Ollama names is identified before and after.  The file and the model may   *)
(* change at any step, and change back.                                       *)
EXTENDS Integers, FiniteSets

CONSTANTS
    Contents,          \* contents of the configuration file, and models the tag may name
    MaxProbeChanges    \* bound on changes of the configuration and of the model

ASSUME ContentsAssumption == Contents \subseteq Nat \ {0}

VARIABLES
    file,      \* content of the configuration file
    model,     \* the model behind the provider's tag; 0 is none served
    probe,     \* the probe that runs
    truth,     \* what the provider really did and with which model, and how often the
               \* file changed between its two readings, the model between its two
    report,    \* the report that was published
    probeChanges

probeVars == <<file, model, probe, truth, report, probeChanges>>

NoReport == [status |-> "none", declared |-> 0, effective |-> 0, identity |-> 0]
Ready == [pc |-> "read", declared |-> 0, effective |-> 0, before |-> 0, after |-> 0,
          command |-> "none", ran |-> "none", output |-> "none", outcome |-> "none"]

ProbeInit ==
    /\ file \in Contents /\ model \in Contents \cup {0} /\ probe = Ready
    /\ truth = [read |-> FALSE, model |-> 0, fileMoves |-> 0, modelMoves |-> 0]
    /\ report = NoReport /\ probeChanges = 0

World == UNCHANGED <<file, model, probeChanges>>
MoveProbe(rec) == probe' = rec /\ World

\* _read_declared_config: the bytes as they are declared ...
ReadDeclared ==
    /\ probe.pc = "read"
    /\ MoveProbe([probe EXCEPT !.pc = "load", !.declared = file])
    /\ UNCHANGED <<truth, report>>

\* ... load_assistant_bridge_config reads the file once more ...
LoadConfig ==
    /\ probe.pc = "load"
    /\ MoveProbe([probe EXCEPT !.pc = "reread", !.effective = file])
    /\ UNCHANGED <<truth, report>>

\* ... and the bytes must be the same after it.
SameConfig == file = probe.declared

RereadDeclared ==
    /\ probe.pc = "reread"
    /\ MoveProbe([probe EXCEPT !.pc = IF SameConfig THEN "before" ELSE "contract"])
    /\ UNCHANGED <<truth, report>>

\* _capture_model_identity: one well-formed digest of the tag, or none.
CaptureModelIdentity == {model, 0}

CaptureBefore ==
    /\ probe.pc = "before"
    /\ \E id \in CaptureModelIdentity : MoveProbe([probe EXCEPT !.pc = "plan", !.before = id])
    /\ UNCHANGED <<truth, report>>

\* The command plan, for read-only access to the disposable workspace; a plan
\* whose public identity is not the one asked for is refused.
PublicPlan ==
    /\ probe.pc = "plan"
    /\ \E sound \in BOOLEAN :
         MoveProbe(IF sound THEN [probe EXCEPT !.pc = "execute", !.command = "inspected"]
              ELSE [probe EXCEPT !.pc = "contract"])
    /\ UNCHANGED <<truth, report>>

\* The provider runs: with the model of that moment it may read the marker, make
\* something up, or not finish; its adapter may also return another command's result.
ExecuteCommand ==
    /\ probe.pc = "execute"
    /\ \E outcome \in {"completed", "timeout", "raised"}, read \in BOOLEAN,
          ran \in {"inspected", "another"} :
         /\ MoveProbe([probe EXCEPT !.pc = IF outcome = "raised" THEN "operational" ELSE "after",
                    !.outcome = outcome, !.ran = ran,
                    !.output = IF read /\ outcome = "completed" THEN "marker" ELSE "other"])
         /\ truth' = [truth EXCEPT !.read = read /\ outcome = "completed", !.model = model]
    /\ UNCHANGED report

CaptureAfter ==
    /\ probe.pc = "after"
    /\ \E id \in CaptureModelIdentity : MoveProbe([probe EXCEPT !.pc = "validate", !.after = id])
    /\ UNCHANGED <<truth, report>>

\* The result must name the inspected command and provider, and its metadata must
\* be its own.
ValidateResult ==
    /\ probe.pc = "validate"
    /\ MoveProbe([probe EXCEPT !.pc = IF probe.ran = probe.command THEN "report" ELSE "contract"])
    /\ UNCHANGED <<truth, report>>

\* Mutant of ReconcileModelIdentity: the later answer counts.
LatestIdentity == probe.after

\* _reconcile_model_identity: the same digest twice, or a mutable reference.
ReconcileModelIdentity == IF probe.before = probe.after THEN probe.after ELSE 0

\* compatible, incompatible or indeterminate; never more than a diagnosis.
Verdict ==
    CASE probe.outcome = "completed" /\ probe.output = "marker" -> "compatible"
      [] probe.outcome = "completed" -> "incompatible"
      [] OTHER -> "indeterminate"

\* The metadata-only report is replaced durably, or the old one stays.
WriteReport ==
    /\ probe.pc = "report"
    /\ \/ /\ report' = [status |-> Verdict, declared |-> probe.declared,
                        effective |-> probe.effective, identity |-> ReconcileModelIdentity]
          /\ MoveProbe([probe EXCEPT !.pc = "reported"])
       \/ UNCHANGED report /\ MoveProbe([probe EXCEPT !.pc = "operational"])
    /\ UNCHANGED truth

\* main: a contract error and an operational one end the command with codes of
\* their own.
EndProbe ==
    /\ probe.pc \in {"contract", "operational", "reported"}
    /\ MoveProbe([Ready EXCEPT !.pc = "ended"])
    /\ UNCHANGED <<truth, report>>

\* Someone edits the configuration, or pulls or removes the model; what was there
\* before may come back.
FileChanges ==
    /\ file' \in Contents \ {file} /\ UNCHANGED model
    /\ truth' = IF probe.pc \in {"load", "reread"} THEN [truth EXCEPT !.fileMoves = @ + 1] ELSE truth

ModelChanges ==
    /\ model' \in (Contents \cup {0}) \ {model} /\ UNCHANGED file
    /\ truth' = IF probe.pc \in {"plan", "execute", "after"} THEN [truth EXCEPT !.modelMoves = @ + 1]
                ELSE truth

WorldChanges ==
    /\ probeChanges < MaxProbeChanges /\ probeChanges' = probeChanges + 1
    /\ FileChanges \/ ModelChanges
    /\ UNCHANGED <<probe, report>>

ProbeNext ==
    \/ ReadDeclared \/ LoadConfig \/ RereadDeclared \/ CaptureBefore \/ PublicPlan
    \/ ExecuteCommand \/ CaptureAfter \/ ValidateResult \/ WriteReport \/ EndProbe
    \/ WorldChanges

ProbeSpec == ProbeInit /\ [][ProbeNext]_probeVars

-----------------------------------------------------------------------------
(* Properties *)

\* A report is about what ran: "compatible" means the marker was read by this run; the
\* bytes it declares are those the effective configuration was loaded from, and a model
\* it names is the one that answered.  Only a change and a change back between the two
\* readings go unnoticed: a single one never does.
ReportIsBound ==
    report # NoReport =>
       /\ report.status = "compatible" => truth.read
       /\ report.declared # report.effective => truth.fileMoves >= 2
       /\ report.identity \notin {0, truth.model} => truth.modelMoves >= 2
=============================================================================
