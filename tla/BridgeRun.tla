----------------------------- MODULE BridgeRun -----------------------------
(* The Hybrid Assistant Bridge's orchestration of one task                  *)
(* (src/local_moe/assistant_bridge.py): planning a route under every guard, *)
(* issuing a one-shot ticket for exactly that plan, and the three ways a    *)
(* ticket is spent - a direct run, the generation of a candidate for the    *)
(* two-phase workflow, and a paired-evidence arm.  A run launches the local *)
(* tier in a disposable copy of the workspace, verifies what it left, and   *)
(* escalates to the premium provider or stops.                              *)
(*                                                                          *)
(* Between any two steps the world may move on: the source is edited, the   *)
(* premium credentials are rotated, an executable or launcher is upgraded,  *)
(* the signed canary authority lapses, a stray process writes into a        *)
(* candidate.  The digests of the code are the values themselves: two       *)
(* bindings are equal exactly when everything they hash is.                 *)
EXTENDS Naturals, FiniteSets, Sequences

CONSTANTS
    Runs,        \* concurrent invocations of the bridge
    Worlds,      \* the states the world may start in
    Tasks,       \* the tasks (with the profile and provider facts) explored
    MaxDrift,    \* bound on what the world changes during a behaviour
    MaxTickets   \* bound on the plans made

ASSUME RunsAssumption == "none" \notin Runs

\* A signed canary recommends one of the routes.
ASSUME WorldsAssumption ==
    \A w \in Worlds :
        /\ DOMAIN w = {"source", "auth", "tools", "writable", "sandbox", "canary"}
        /\ DOMAIN w.canary = {"enabled", "active", "cell", "cohort", "recommended"}
        /\ w.canary.recommended \in {"local", "local_then_verify", "premium"}

VARIABLES
    task,     \* the task being served, with what the configuration says of it
    world,    \* what the attestations read: source, credentials, tools, canary
    tickets,  \* confirmations issued, in order: what each binds, and its user
    used,     \* premium calls charged, by budget key
    run,      \* the invocations
    applied,  \* invocations that wrote the source workspace
    drift     \* changes the world has made

vars == <<task, world, tickets, used, run, applied, drift>>

Nil == "none"
Routes == {"local", "local_then_verify", "premium"}
Rank == [local |-> 0, local_then_verify |-> 1, premium |-> 2]
Intents == {"direct", "candidate", "paired"}
Generation(i) == i # "direct"

-----------------------------------------------------------------------------
(* Routing under the guards *)

\* What a provider lacks for the task: capabilities, tools, risk ceiling,
\* sandbox, network; the premium provider also lacks the authority to write
\* unless the task lets a remote provider see its workspace.
ProviderGaps(t, mode) ==
    \/ mode \in t.lacking
    \/ mode = "premium" /\ t.risk = "write_local" /\ ~t.remoteWorkspace

RemoteAllowed(t) ==
    CASE t.profile = "offline" -> FALSE
      [] t.profile = "opt_in"  -> t.allowRemote = "yes"
      [] OTHER -> t.allowRemote = "yes" \/ (t.allowRemote # "no" /\ t.profileRemote)

PremiumAvailable(t) == RemoteAllowed(t) /\ t.budget > 0 /\ ~ProviderGaps(t, "premium")

PlanAssistantRoute(t) ==
    LET gaps    == ProviderGaps(t, "local")
        premium == PremiumAvailable(t)
    IN  IF gaps \/ (t.initial = "premium" /\ premium)
        THEN IF premium THEN "premium" ELSE "blocked"
        ELSE IF t.initial = "cascade" /\ premium THEN "local_then_verify" ELSE "local"

\* Mutant of DecideRouteCanary: the recommendation is followed wherever it leads.
DecideAnyCanary(base, c) == IF c.cell /\ c.cohort THEN c.recommended ELSE base

\* Which canary route the signed authority assigns to this task: only a route
\* that costs less than the guarded one, and only while the authority is
\* active, its cell is enabled and the task is in the cohort.
DecideRouteCanary(base, c) ==
    IF /\ c.cell /\ c.cohort
       /\ Rank[c.recommended] < Rank[base]
    THEN c.recommended ELSE base

ApplyVerifiedRouteCanary(route, c) ==
    IF ~c.enabled \/ route = "blocked" THEN route
    ELSE IF ~c.active THEN route                    \* authority_unavailable
    ELSE DecideRouteCanary(route, c)

\* The exact route of a paired arm: never more premium than the baseline, and
\* open to the providers it needs.  {} where the code raises.
PairedEvidenceRoute(t, base, arm) ==
    {arm2 \in {arm} :
        /\ base \in Routes
        /\ Rank[arm2] <= Rank[base]
        /\ arm2 # "premium" => ~ProviderGaps(t, "local")
        /\ arm2 # "local" => PremiumAvailable(t) /\ base # "local"}

-----------------------------------------------------------------------------
(* Preparing an execution *)

\* Plans of the verifiers the task selects: a command verifier is bound to its
\* executable, launcher chain, sandbox and resource governor; the built-in Git
\* check only to the trusted Git executable.
BuildVerifierPlan(kind, w) ==
    IF kind = "command" THEN [kind |-> kind, tools |-> w.tools, sandboxed |-> w.sandbox]
                        ELSE [kind |-> kind, tools |-> w.tools, sandboxed |-> TRUE]

BuildVerifierPlanBatch(t, w) == {BuildVerifierPlan(k, w) : k \in t.verifiers}

\* The command plan of a provider: what the launcher, its environment and its
\* runtime policy are now.
BuildCommandPlan(mode, w) == [provider |-> mode, tools |-> w.tools]

\* External evidence crosses the bridge only if it is bound to this very source.
ValidExternal(t, src) == t.prior = Nil \/ t.priorSource = src

AttestRemoteBinding(w) == w.auth

\* The route after the guards that come before the canary.
GuardedRoute(t, intent, w) ==
    LET planned == PlanAssistantRoute(t)
        blocked == \/ t.independent /\ ~Generation(intent)
                   \/ t.risk = "write_local" /\ ~w.writable
                   \/ \E v \in BuildVerifierPlanBatch(t, w) : ~v.sandboxed
    IN  IF blocked \/ planned = "blocked" THEN "blocked"
        ELSE IF planned = "local" \/ AttestRemoteBinding(w) # Nil THEN planned
        ELSE IF planned = "local_then_verify" THEN "local" ELSE "blocked"

EffectiveRoute(t, intent, arm, w) ==
    LET guard == GuardedRoute(t, intent, w)
    IN  IF intent = "paired" THEN PairedEvidenceRoute(t, guard, arm)
        ELSE {ApplyVerifiedRouteCanary(guard, w.canary)}

Commands(route, w) ==
    CASE route = "local"             -> <<BuildCommandPlan("local", w)>>
      [] route = "local_then_verify" ->
            <<BuildCommandPlan("local", w), BuildCommandPlan("premium", w)>>
      [] route = "premium"           -> <<BuildCommandPlan("premium", w)>>
      [] OTHER                       -> <<>>

\* The prepared execution: {} where the code raises instead.
PrepareExecution(t, intent, arm, w) ==
    {[intent |-> intent, source |-> w.source, guard |-> GuardedRoute(t, intent, w),
      route |-> route, commands |-> Commands(route, w),
      verifiers |-> BuildVerifierPlanBatch(t, w), writable |-> w.writable,
      auth |-> IF route \in {"local_then_verify", "premium"}
               THEN AttestRemoteBinding(w) ELSE Nil] :
        route \in {r \in EffectiveRoute(t, intent, arm, w) :
                     /\ ValidExternal(t, w.source)
                     /\ intent = "paired" => ~w.canary.enabled}}

\* Everything the confirmation hashes.
ConfirmationBinding(p) == p

-----------------------------------------------------------------------------
(* Initial state *)

NoCanary == [enabled |-> FALSE, active |-> FALSE, cell |-> FALSE, cohort |-> FALSE,
             recommended |-> "local"]

Unprepared == [intent |-> Nil, source |-> 0, guard |-> Nil, route |-> Nil, commands |-> <<>>,
               verifiers |-> {}, writable |-> FALSE, auth |-> Nil]
Idle == [pc |-> "idle", p |-> Unprepared, ticket |-> 0, cand |-> 0, seen |-> 0,
         evidence |-> {}, last |-> Nil, launched |-> {}, capsule |-> 0,
         staged |-> Nil, paid |-> FALSE, status |-> Nil, code |-> Nil, handed |-> 0]

BridgeInit ==
    /\ task \in Tasks
    /\ world \in Worlds
    /\ tickets = <<>>
    /\ used = [k \in {} |-> 0]
    /\ run = [r \in Runs |-> Idle]
    /\ applied = {}
    /\ drift = 0

-----------------------------------------------------------------------------
(* Planning: inspect, and issue a ticket for exactly what was inspected *)

Issue(p) == tickets' = Append(tickets, [binding |-> ConfirmationBinding(p), by |-> Nil])

Planning == Len(tickets) < MaxTickets /\ UNCHANGED <<task, world, used, run, applied, drift>>

\* A direct plan gets a ticket even when its route is blocked.
Plan ==
    /\ Planning
    /\ \E p \in PrepareExecution(task, "direct", Nil, world) : Issue(p)

PlanCandidate ==
    /\ Planning
    /\ \E p \in PrepareExecution(task, "candidate", Nil, world) :
        p.route # "blocked" /\ Issue(p)

PlanPairedEvidenceArm ==
    /\ Planning
    /\ \E arm \in Routes : \E p \in PrepareExecution(task, "paired", arm, world) : Issue(p)

-----------------------------------------------------------------------------
(* Spending a ticket *)

Step(r, from, new) ==
    /\ run[r].pc = from
    /\ run' = [run EXCEPT ![r] = new]

Same == UNCHANGED <<task, world, drift>>

Raise(rec) == [rec EXCEPT !.pc = "raised"]
Result(rec, status, code) ==
    [rec EXCEPT !.pc = IF rec.p.intent = "direct" THEN "done" ELSE "generated",
                !.status = status, !.code = code]

\* run, generate and run_paired_evidence_arm prepare again from what the world
\* is now.  A candidate generation refuses a blocked route, and both
\* generations refuse a source other than the one that was planned.
Prepare(r, intent, arm, t) ==
    /\ t \in 1..Len(tickets)
    /\ run[r].pc = "idle"
    /\ \E p \in PrepareExecution(task, intent, arm, world) :
        /\ Generation(intent) =>
              p.route # "blocked" /\ p.source = tickets[t].binding.source
        /\ intent = "paired" => p.guard = tickets[t].binding.guard
        /\ run' = [run EXCEPT ![r] = [Idle EXCEPT !.pc = "prepared", !.p = p, !.ticket = t]]
    /\ Same /\ UNCHANGED <<tickets, used, applied>>

\* consume_confirmation: once, and only for the binding it was issued for.
TicketFits(rec) ==
    /\ tickets[rec.ticket].by = Nil
    /\ tickets[rec.ticket].binding = ConfirmationBinding(rec.p)

ConsumeConfirmation(r) ==
    LET rec == run[r] IN
    /\ rec.pc = "prepared"
    /\ IF ~TicketFits(rec)
       THEN run' = [run EXCEPT ![r] = Raise(rec)] /\ UNCHANGED tickets
       ELSE /\ tickets' = [tickets EXCEPT ![rec.ticket].by = r]
            /\ run' = [run EXCEPT ![r] =
                 CASE rec.p.route = "blocked" -> Result(rec, "blocked", "route_blocked")
                   [] rec.p.route = "premium" -> [rec EXCEPT !.pc = "escalate"]
                   [] OTHER                   -> [rec EXCEPT !.pc = "local"]]
    /\ Same /\ UNCHANGED <<used, applied>>

-----------------------------------------------------------------------------
(* The local tier *)

\* The command is planned again for the candidate and must be the confirmed one.
ConfirmedCommand(rec, i) == BuildCommandPlan(rec.p.commands[i].provider, world) = rec.p.commands[i]

\* _execute_local_candidate: a process in the disposable workspace completes,
\* fails, or is blocked by the runtime attestation; it may or may not have
\* changed files.
ExecuteLocalCandidate(r) ==
    LET rec == run[r] IN
    /\ rec.pc = "local"
    /\ Same /\ UNCHANGED <<tickets, used, applied>>
    /\ IF ~ConfirmedCommand(rec, 1) THEN run' = [run EXCEPT ![r] = Raise(rec)]
       ELSE \/ run' = [run EXCEPT ![r] = [rec EXCEPT !.pc = "verify", !.last = "blocked"]]
            \/ \E status \in {"completed", "failed"}, changed \in {0, 1} :
                 run' = [run EXCEPT ![r] = [rec EXCEPT
                            !.pc = "verify", !.last = status, !.cand = @ + changed,
                            !.seen = rec.cand + changed, !.launched = @ \cup {"local"}]]

-----------------------------------------------------------------------------
(* Verification *)

\* _run_bound_verifier, _run_trusted_git_verifier: a verifier that drifted
\* since the plan raises, one without its sandbox or governor fails, and one
\* that ran passes when the process and its resource report are both clean.
VerifierDrifted(rec) == \E v \in rec.p.verifiers : BuildVerifierPlan(v.kind, world) # v
RunBoundVerifier(v) ==
    IF ~v.sandboxed THEN {"hard_sandbox_unavailable"}
    ELSE {"passed", "command_failed", "resource_policy_violated"}

\* Codes of the failing evidence of one candidate: of the process, or of the
\* output checks and the verifiers, then of the independent-evidence policy.
VerifyCommandResult(rec, clean) ==
    IF rec.last # "completed" THEN {"launch_failed"}
    ELSE (IF clean THEN {} ELSE {"check_failed"})
         \cup (IF task.independent /\ ~Generation(rec.p.intent)
               THEN {"independent_evidence_missing"} ELSE {})

\* Mutant of EnforceCompletionContract: the direct path forgets the second phase.
ContractWithoutGate(rec, codes) ==
    IF task.risk # "write_local" /\ rec.cand > 0
    THEN codes \cup {"workspace_mutation_forbidden"} ELSE codes

\* _enforce_completion_contract.
EnforceCompletionContract(rec, codes) ==
    LET changed == rec.cand > 0 IN
    IF task.risk # "write_local"
    THEN codes \cup (IF changed THEN {"workspace_mutation_forbidden"} ELSE {})
    ELSE codes
         \cup (IF Generation(rec.p.intent) THEN {} ELSE {"two_phase_required"})
         \cup (IF changed \/ task.noChange THEN {} ELSE {"workspace_delta_required"})

ScopeInvalid(codes) == codes \cap {"workspace_delta_required", "workspace_mutation_forbidden"} # {}

\* _apply_verified_candidate: {} raises, otherwise whether the source is written.
ApplyVerifiedCandidate(rec) ==
    IF rec.cand = 0 THEN {FALSE}
    ELSE IF task.risk # "write_local" \/ task.independent THEN {}
    ELSE {TRUE}

\* What follows the verification of the local candidate in a direct run.
DirectVerdict(rec, codes) ==
    IF rec.last = "blocked" THEN Result(rec, "blocked", "local_runtime_unavailable")
    ELSE IF codes = {} /\ task.prior # "failed"
      THEN Result(rec, "completed", "local_verification_passed")
    ELSE IF "workspace_mutation_forbidden" \in codes
      THEN Result(rec, "failed", "workspace_authority_violated")
    ELSE IF rec.p.route = "local"
      THEN Result(rec, "failed", "local_verification_failed_remote_forbidden")
    ELSE [rec EXCEPT !.pc = "escalate"]

\* ... and in a generation, where findings about quality do not stop a candidate
\* that nothing can escalate: only its process and its scope do.
CandidateVerdict(rec, codes) ==
    IF rec.last = "blocked" THEN Result(rec, "blocked", "local_runtime_unavailable")
    ELSE IF "workspace_mutation_forbidden" \in codes
      THEN Result(rec, "failed", "workspace_authority_violated")
    ELSE IF codes = {} /\ task.prior # "failed"
      THEN Result(rec, "completed", "local_candidate_generated")
    ELSE IF rec.p.route # "local" THEN [rec EXCEPT !.pc = "escalate"]
    ELSE IF rec.last # "completed" THEN Result(rec, "failed", "local_runtime_failed")
    ELSE IF ScopeInvalid(codes) THEN Result(rec, "failed", "candidate_scope_invalid")
    ELSE Result(rec, "completed", "local_candidate_generated_with_quality_findings")

\* What follows the verification of the premium candidate.
PremiumVerdict(rec, codes) ==
    IF rec.last = "blocked" THEN Result(rec, "blocked", "premium_runtime_unavailable")
    ELSE IF rec.p.intent = "direct"
      THEN IF codes = {} THEN Result(rec, "completed", "premium_verification_passed")
                         ELSE Result(rec, "failed", "premium_verification_failed")
    ELSE IF rec.last # "completed" THEN Result(rec, "failed", "premium_runtime_failed")
    ELSE IF ScopeInvalid(codes) THEN Result(rec, "failed", "candidate_scope_invalid")
    ELSE IF codes = {} THEN Result(rec, "completed", "premium_candidate_generated")
    ELSE Result(rec, "completed", "premium_candidate_generated_with_quality_findings")

AtPremium(rec) == "premium" \in rec.launched \/ rec.staged # Nil

\* _verify_candidate: in a second disposable workspace built from the candidate,
\* which must not have changed while it was built.
VerifyCandidate(r) ==
    LET rec == run[r] IN
    /\ rec.pc = "verify"
    /\ \E clean \in BOOLEAN :
        LET results == UNION {RunBoundVerifier(v) : v \in rec.p.verifiers}
            codes   == EnforceCompletionContract(rec, VerifyCommandResult(rec, clean))
            judged  == [rec EXCEPT !.evidence = codes]
            next    == IF AtPremium(rec) THEN PremiumVerdict(judged, codes)
                       ELSE IF Generation(rec.p.intent) THEN CandidateVerdict(judged, codes)
                       ELSE DirectVerdict(judged, codes)
            applies == next.pc = "done" /\ next.status = "completed"
            raises  == \/ rec.cand # rec.seen
                       \/ rec.last = "completed" /\ VerifierDrifted(rec)
                       \/ applies /\ ApplyVerifiedCandidate(rec) = {}
        IN  /\ clean => "hard_sandbox_unavailable" \notin results
            /\ run' = [run EXCEPT ![r] = IF raises THEN Raise(rec) ELSE next]
            /\ applied' = IF ~raises /\ applies /\ TRUE \in ApplyVerifiedCandidate(rec)
                          THEN applied \cup {r} ELSE applied
    /\ Same /\ UNCHANGED <<tickets, used>>

-----------------------------------------------------------------------------
(* Escalation *)

\* build_escalation_capsule and _write_capsule: the evidence and the diff of the
\* candidate as it is now go into the capsule, which is persisted before the
\* provider sees it; no residual secret assurance, no room in it, or a target
\* that cannot be written, and nothing is launched.
BuildEscalationCapsule(r) ==
    LET rec == run[r] IN
    /\ \/ Step(r, "escalate", [rec EXCEPT !.pc = "stage", !.capsule = rec.cand])
       \/ Step(r, "escalate", Raise(rec))
    /\ Same /\ UNCHANGED <<tickets, used, applied>>

PremiumIndex(rec) == Len(rec.p.commands)

\* Mutant of StagePremiumAuth: whatever credentials are there now are staged.
StageCurrentAuth(r) ==
    LET rec == run[r] IN
    /\ Step(r, "stage", IF rec.p.auth # Nil /\ world.auth # Nil
                        THEN [rec EXCEPT !.pc = "reserve", !.staged = world.auth]
                        ELSE Raise(rec))
    /\ Same /\ UNCHANGED <<tickets, used, applied>>

\* _execute_premium_command up to the launch: the remote authority must be bound
\* to the plan, the command is planned again, and the credentials are copied
\* into an isolated home only if they are still the bound ones.
StagePremiumAuth(r) ==
    LET rec == run[r]
        ok  == /\ rec.p.auth # Nil
               /\ ConfirmedCommand(rec, PremiumIndex(rec))
               /\ world.auth = rec.p.auth
    IN  /\ Step(r, "stage", IF ok THEN [rec EXCEPT !.pc = "reserve", !.staged = world.auth]
                                  ELSE Raise(rec))
        /\ Same /\ UNCHANGED <<tickets, used, applied>>

\* The budget of a task on one source; an evidence arm has one of its own.
BudgetKey(rec) == <<rec.p.source, IF rec.p.intent = "paired" THEN rec.p.route ELSE Nil>>
Charged(key) == IF key \in DOMAIN used THEN used[key] ELSE 0
Charge(key, n) == [k \in DOMAIN used \cup {key} |-> IF k = key THEN Charged(k) + n ELSE used[k]]

\* Runtime attestation, then the reservation, then the process
\* (execute_codex_command under verify_and_reserve; PremiumLaunch has the
\* reservation's own steps).  Not attested, or not created: blocked and not
\* charged.  No budget left: blocked, and the premium command is not reported.
ReservePremiumLaunch(r) ==
    LET rec == run[r]
        key == BudgetKey(rec)
    IN  /\ rec.pc = "reserve"
        /\ Same /\ UNCHANGED <<tickets, applied>>
        /\ \/ /\ Step(r, "reserve", [rec EXCEPT !.pc = "verify", !.last = "blocked",
                                              !.seen = rec.cand])
              /\ UNCHANGED used
           \/ /\ Charged(key) >= task.budget
              /\ Step(r, "reserve", Result(rec, "blocked", "durable_premium_budget_exhausted"))
              /\ UNCHANGED used
           \/ /\ Charged(key) < task.budget
              /\ Step(r, "reserve", [rec EXCEPT !.pc = "premium", !.paid = TRUE,
                                                !.launched = @ \cup {"premium"}])
              /\ used' = Charge(key, 1)

\* The premium process works on the candidate only when the task gives it the
\* workspace; otherwise it sees the capsule in a directory of its own.
PremiumWorkspace(t) == IF t.risk = "write_local" /\ t.remoteWorkspace
                       THEN "read_write" ELSE "capsule_only"

ExecutePremiumCommand(r) ==
    LET rec == run[r] IN
    /\ \E status \in {"completed", "failed"}, changed \in {0, 1} :
        /\ changed = 1 => PremiumWorkspace(task) = "read_write"
        /\ Step(r, "premium", [rec EXCEPT !.pc = "verify", !.last = status,
                                          !.cand = @ + changed, !.seen = rec.cand + changed])
    /\ Same /\ UNCHANGED <<tickets, used, applied>>

-----------------------------------------------------------------------------
(* Handing a generated candidate over *)

\* generate: only a completed candidate, and only while the source is still the
\* planned one; its fingerprint is taken as it is handed over.  A paired arm is
\* finalized in a disposable copy whatever its status, and its source is looked at
\* after that.
DeliverCandidate(r) ==
    LET rec == run[r]
        ok  == rec.p.intent = "candidate" => rec.status = "completed" /\ world.source = rec.p.source
    IN  /\ Step(r, "generated", IF ok THEN [rec EXCEPT !.pc = "handed", !.handed = rec.cand]
                                      ELSE Raise(rec))
        /\ Same /\ UNCHANGED <<tickets, used, applied>>

\* Mutant of CloseCandidate: the candidate is not looked at again.
CloseSourceOnly(r) ==
    LET rec == run[r] IN
    /\ Step(r, "handed", IF world.source = rec.p.source THEN [rec EXCEPT !.pc = "done"] ELSE Raise(rec))
    /\ Same /\ UNCHANGED <<tickets, used, applied>>

\* When the stage (or the signed finalizer) is through, the source and the
\* candidate must still be what was handed over, or everything is refused.
CloseCandidate(r) ==
    LET rec == run[r]
        ok  == world.source = rec.p.source /\ rec.cand = rec.handed
    IN  /\ Step(r, "handed", IF ok THEN [rec EXCEPT !.pc = "done"] ELSE Raise(rec))
        /\ Same /\ UNCHANGED <<tickets, used, applied>>

-----------------------------------------------------------------------------
(* The world *)

Drift(w) ==
    /\ drift < MaxDrift
    /\ world' = w /\ drift' = drift + 1
    /\ UNCHANGED <<task, tickets, used, run, applied>>

EditSource == Drift([world EXCEPT !.source = @ + 1])
RotateAuth == Drift([world EXCEPT !.auth = IF @ = "a1" THEN Nil ELSE "a1"])
UpgradeTools == Drift([world EXCEPT !.tools = @ + 1])
LoseSandbox == world.sandbox /\ Drift([world EXCEPT !.sandbox = FALSE])
CanaryLapses ==
    world.canary.active /\ Drift([world EXCEPT !.canary.active = FALSE])

\* A process that outlived its command writes into the candidate.
StrayWrite(r) ==
    /\ run[r].pc \in {"verify", "escalate", "stage", "reserve", "generated", "handed"}
    /\ drift < MaxDrift
    /\ run' = [run EXCEPT ![r].cand = @ + 1]
    /\ drift' = drift + 1
    /\ UNCHANGED <<task, world, tickets, used, applied>>

-----------------------------------------------------------------------------
RunStep(r) ==
    \/ \E intent \in {"direct", "candidate"}, t \in 1..MaxTickets : Prepare(r, intent, Nil, t)
    \/ \E arm \in Routes, t \in 1..MaxTickets : Prepare(r, "paired", arm, t)
    \/ ConsumeConfirmation(r)
    \/ ExecuteLocalCandidate(r)
    \/ VerifyCandidate(r)
    \/ BuildEscalationCapsule(r)
    \/ StagePremiumAuth(r)
    \/ ReservePremiumLaunch(r)
    \/ ExecutePremiumCommand(r)
    \/ DeliverCandidate(r)
    \/ CloseCandidate(r)

BridgeNext ==
    \/ Plan \/ PlanCandidate \/ PlanPairedEvidenceArm
    \/ \E r \in Runs : RunStep(r) \/ StrayWrite(r)
    \/ EditSource \/ RotateAuth \/ UpgradeTools \/ LoseSandbox \/ CanaryLapses

BridgeSpec == BridgeInit /\ [][BridgeNext]_vars

-----------------------------------------------------------------------------
(* Properties *)

\* No direct run ever writes the source workspace, whatever the providers did
\* and whatever passed: a read-only task's changes are refused, and a writing
\* task always needs the two-phase path
\* (assistant_bridge.py 4973-5012 against 5044-5073).
DirectRunNeverWrites == applied = {}

\* A premium process is created only for a task that may go remote, with a budget
\* unit charged to it, under exactly the credentials bound by the ticket this
\* run consumed, after the local tier was tried and found wanting where the route
\* says so, and never after a forbidden mutation (4826-4919, 3842-3911).
PremiumUnderAuthority ==
    \A r \in Runs :
        "premium" \in run'[r].launched \ run[r].launched =>
            LET rec == run'[r] IN
            /\ RemoteAllowed(task)
            /\ rec.p.route \in {"local_then_verify", "premium"}
            /\ rec.paid
            /\ tickets[rec.ticket].by = r
            /\ rec.staged = tickets[rec.ticket].binding.auth
            /\ rec.p.route = "local_then_verify" =>
                  "local" \in rec.launched
                  /\ (rec.evidence # {} \/ task.prior = "failed")
            /\ "workspace_mutation_forbidden" \notin rec.evidence

\* What runs is what was confirmed: every invocation past its confirmation is the
\* only user of a ticket whose binding is the execution it prepared, and its
\* route is no more premium than the guards allowed (4741-4763, 4095-4365).
RunsAsConfirmed ==
    \A r \in Runs : run[r].pc \notin {"idle", "prepared", "raised"} =>
        /\ tickets[run[r].ticket].by = r
        /\ tickets[run[r].ticket].binding = run[r].p
        /\ run[r].p.guard # "blocked" =>
              Rank[run[r].p.route] <= Rank[run[r].p.guard]

\* A candidate is handed over as it lies there, for a stage only on the source its
\* ticket binds and when it completed within its scope; and a generation completes
\* only while that source and the candidate that was handed over are still there: a
\* later edit of the source, or a write of a process that outlived its command,
\* refuses it (5537-5646, 5263-5422).
DeliveredOnPlannedSource ==
    \A r \in Runs :
        /\ run[r].pc = "generated" /\ run'[r].pc = "handed" =>
              /\ run'[r].handed = run[r].cand /\ run'[r].cand = run[r].cand
              /\ run[r].p.intent = "candidate" =>
                    /\ world.source = tickets[run[r].ticket].binding.source
                    /\ run[r].status = "completed" /\ ~ScopeInvalid(run[r].evidence)
        /\ run[r].pc = "handed" /\ run'[r].pc = "done" =>
              /\ world.source = tickets[run[r].ticket].binding.source
              /\ run'[r].cand = run[r].handed

\* In every state the invocations keep to what was confirmed.
BridgeSafe == DirectRunNeverWrites /\ RunsAsConfirmed

\* They do, and no step launches or hands over anything that the ticket does not bind.
BridgeSound == []BridgeSafe /\ [][PremiumUnderAuthority /\ DeliveredOnPlannedSource]_vars
=============================================================================
