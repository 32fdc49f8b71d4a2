----------------------------- MODULE MCBridge ------------------------------
(***************************************************************************)
(* TLC instance of the assistant bridge above its ledger: two invocations  *)
(* on tasks that between them reach every route, verdict and refusal; the  *)
(* two-phase apply; the vault of staged candidates; capsules and their     *)
(* redaction; the probe of a provider.                                     *)
(* Every behaviour of this run is one of a single part, which it picks     *)
(* first; the parts share nothing.                                         *)
(***************************************************************************)
EXTENDS BridgeRun, TwoPhaseApply, CandidateVault, CapsuleRedaction, ProviderProbe, TLC

VARIABLE part  \* the part of the system that this behaviour is about

ReadTask == [risk |-> "read_only", noChange |-> FALSE, remoteWorkspace |-> FALSE,
         lacking |-> {}, profile |-> "standard", profileRemote |-> TRUE,
         allowRemote |-> "unset", budget |-> 1, initial |-> "cascade",
         independent |-> FALSE, verifiers |-> {"command"}, prior |-> Nil,
         priorSource |-> 0]

WriteTask == [ReadTask EXCEPT !.risk = "write_local", !.remoteWorkspace = TRUE]

MCTasks ==
    {ReadTask,
     WriteTask,
     [WriteTask EXCEPT !.independent = TRUE],
     [WriteTask EXCEPT !.noChange = TRUE, !.initial = "premium", !.verifiers = {"git"}],
     [ReadTask EXCEPT !.prior = "failed"],
     [ReadTask EXCEPT !.profile = "offline", !.lacking = {"local"}],
     [ReadTask EXCEPT !.profile = "opt_in", !.initial = "premium", !.allowRemote = "yes"],
     [ReadTask EXCEPT !.allowRemote = "no", !.initial = "local", !.verifiers = {}],
     [WriteTask EXCEPT !.remoteWorkspace = FALSE]}

Steady == [source |-> 0, auth |-> "a0", tools |-> 0, sandbox |-> TRUE, writable |-> TRUE,
            canary |-> NoCanary]
Trial(rec, cell, cohort) ==
    [Steady EXCEPT !.canary = [enabled |-> TRUE, active |-> TRUE, cell |-> cell,
                                cohort |-> cohort, recommended |-> rec]]

MCWorlds ==
    {Steady,
     [Steady EXCEPT !.auth = Nil],
     [Steady EXCEPT !.writable = FALSE],
     Trial("local", TRUE, TRUE),
     Trial("premium", TRUE, TRUE),
     Trial("local", TRUE, FALSE)}

MCKey == [s \in {1, 2} |-> 1]

mcVars == <<part, vars, twoVars, vaultVars, redactVars, probeVars>>

\* Each part rests in an initial state unless it is chosen.
BridgeRests == BridgeInit /\ task = ReadTask /\ world = Steady
RedactRests == RedactInit /\ \A t \in Threads : scan[t].keys = {}
ProbeRests == ProbeInit /\ file = 1 /\ model = 1

MCInit ==
    \/ part = "bridge" /\ BridgeInit /\ TwoInit /\ VaultInit /\ RedactRests /\ ProbeRests
    \/ part = "two_phase" /\ TwoInit /\ BridgeRests /\ VaultInit /\ RedactRests /\ ProbeRests
    \/ part = "vault" /\ VaultInit /\ BridgeRests /\ TwoInit /\ RedactRests /\ ProbeRests
    \/ part = "redaction" /\ RedactInit /\ BridgeRests /\ TwoInit /\ VaultInit /\ ProbeRests
    \/ part = "probe" /\ ProbeInit /\ BridgeRests /\ TwoInit /\ VaultInit /\ RedactRests

\* Parts that may rightly come to rest; any other must always have a step.
MayStop == {"bridge", "vault", "redaction", "probe"}

MCNext ==
    \/ part = "bridge" /\ BridgeNext /\ UNCHANGED <<part, twoVars, vaultVars, redactVars, probeVars>>
    \/ part = "two_phase" /\ TwoNext /\ UNCHANGED <<part, vars, vaultVars, redactVars, probeVars>>
    \/ part = "vault" /\ VaultNext /\ UNCHANGED <<part, vars, twoVars, redactVars, probeVars>>
    \/ part = "redaction" /\ RedactNext /\ UNCHANGED <<part, vars, twoVars, vaultVars, probeVars>>
    \/ part = "probe" /\ ProbeNext /\ UNCHANGED <<part, vars, twoVars, vaultVars, redactVars>>
    \/ part \in MayStop /\ UNCHANGED mcVars

MCSpec == MCInit /\ [][MCNext]_mcVars

\* Invocations and verifiers are interchangeable.
MCSymmetry == Permutations(Runs)
=============================================================================
