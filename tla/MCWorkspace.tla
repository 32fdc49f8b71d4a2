---------------------------- MODULE MCWorkspace ----------------------------
(***************************************************************************)
(* TLC instance of the parts whose state is files and reports: workspace   *)
(* transactions, with a file to create, to delete, to modify; the          *)
(* processes of a verifier; the quality benchmark; the coding canary.      *)
(* Every behaviour of this run is one of a single part, which it picks     *)
(* first; the parts share nothing.                                         *)
(***************************************************************************)
EXTENDS WorkspaceTransaction, VerifierHost

CONSTANTS
    Kinds,
    Variants, Cases, Repetitions, Outcomes, Decision, Ram, MaxSamples, MaxGaps,  \* of QualityBenchmark
    MaxCalls, MaxOpen, Requests, Inputs  \* of CodingCanary

VARIABLES
    part,  \* the part of the system that this behaviour is about
    v1, v2, v3, v4, v5, v6  \* the variables of any other part

Old == [content |-> "old", mode |-> "open"]
New == [content |-> "new", mode |-> "open"]
ReadOnly(value) == [value EXCEPT !.mode = "readonly"]
Modification == [before |-> Old, after |-> New]
ReadOnlyChange == [before |-> ReadOnly(Old), after |-> ReadOnly(New)]
MCChanges == {c \in [before : {Old, ReadOnly(Old), None}, after : {New, ReadOnly(New), None}] :
                \/ "create" \in Kinds /\ c.before = None /\ c.after = New
                \/ "delete" \in Kinds /\ c.before = Old /\ c.after = None
                \/ "modify" \in Kinds /\ c = Modification
                \/ "readonly" \in Kinds /\ c = ReadOnlyChange}

MCPolicies == {[psutil |-> TRUE, required |-> TRUE, quota |-> FALSE],
               [psutil |-> FALSE, required |-> FALSE, quota |-> TRUE]}

Outcome(ok, good, routed, lat, compared) ==
    [ok |-> ok, good |-> good, routed |-> routed, lat |-> lat, compared |-> compared, cut |-> FALSE]
Failed == Outcome(FALSE, FALSE, FALSE, 1, FALSE)
MCVariants == <<"single", "top1", "top2">>
MCOutcomes == [single |-> {Failed, Outcome(TRUE, TRUE, FALSE, 2, FALSE)},
               top1 |-> {Failed, Outcome(TRUE, TRUE, TRUE, 1, FALSE),
                         Outcome(TRUE, TRUE, FALSE, 2, FALSE)},
               top2 |-> {Outcome(TRUE, TRUE, TRUE, 3, TRUE)}]
MCDecision == [base |-> "single", value |-> "top1", diagnostic |-> "top2", min_task |-> 50,
               max_failures |-> 50, max_truncated |-> 0, min_routed |-> 1, min_compared |-> 100,
               min_coverage |-> 80, max_swap |-> 0, max_ram |-> 1]

Benchmark == INSTANCE QualityBenchmark WITH
    bench <- v1, records <- v2, tracker <- v3, memory <- v4, ram <- v5

Canary == INSTANCE CodingCanary WITH
    canary <- v1, gate <- v2, calls <- v3, files <- v4, proxy <- v5, world <- v6

slots == <<v1, v2, v3, v4, v5, v6>>
mcVars == <<part, txVars, hostVars, slots>>
restVars == <<part, txVars, hostVars>>

NoSlots == v1 = 0 /\ v2 = 0 /\ v3 = 0 /\ v4 = 0 /\ v5 = 0 /\ v6 = 0

\* A part with variables of its own rests in an initial state unless it is chosen.
WorkspaceRests == TxInit /\ \A p \in Paths : change[p] = Modification
HostRests ==
    /\ HostInit
    /\ policy = CHOOSE x \in Policies : TRUE
    /\ host.sandbox /\ host.backend = CHOOSE b \in Backends : TRUE

\* A read-only file is changed beside one that is modified, or another read-only one.
MCPlan == \A p \in Paths : change[p] = ReadOnlyChange =>
             \A q \in Paths : change[q] \in {ReadOnlyChange, Modification}

MCInit ==
    \/ part = "workspace" /\ TxInit /\ MCPlan /\ HostRests /\ NoSlots
    \/ part = "verifier" /\ HostInit /\ WorkspaceRests /\ NoSlots
    \/ part = "benchmark" /\ Benchmark!BenchInit /\ v6 = 0 /\ WorkspaceRests /\ HostRests
    \/ part = "canary" /\ Canary!CanaryInit /\ WorkspaceRests /\ HostRests

\* Every part may rightly come to rest.
MCNext ==
    \/ part = "workspace" /\ TxNext /\ UNCHANGED <<part, hostVars, slots>>
    \/ part = "verifier" /\ HostNext /\ UNCHANGED <<part, txVars, slots>>
    \/ part = "benchmark" /\ Benchmark!BenchNext /\ UNCHANGED <<restVars, v6>>
    \/ part = "canary" /\ Canary!CanaryNext /\ UNCHANGED restVars
    \/ UNCHANGED mcVars

MCSpec == MCInit /\ [][MCNext]_mcVars

-----------------------------------------------------------------------------
\* What a passed release rests on: QualityBenchmark.PassedIsEvidenced.
PassedIsEvidenced == part = "benchmark" => Benchmark!PassedIsEvidenced

\* What a qualified coding cell rests on: CodingCanary.CanarySafe.
CanarySafe == part = "canary" => Canary!CanarySafe
=============================================================================
