---------------------------- MODULE VerifierHost ----------------------------
(* One command verifier on the host: the confirmed plan is rebuilt and        *)
(* compared, the sandbox and the resource backend are required, the command   *)
(* is executed under one deadline by execute_process, its process tree is     *)
(* removed, and what is left decides the evidence.  Sources:                  *)
(* assistant_bridge.py (_run_bound_verifier), assistant_bridge_runtime.py,    *)
(* assistant_bridge_verifier_isolation.py, assistant_bridge_resources.py.     *)
(*                                                                            *)
(* Besides the host's own steps: the processes of the tree fork, leave the    *)
(* session, close their pipes and exit; the reader and writer threads         *)
(* proceed; files and backends of the host change; the deadline passes.       *)
EXTENDS Integers, FiniteSets

CONSTANTS
    Children,     \* bound: the processes that the tree can fork
    Streams,      \* the captured streams, which are handled alike
    MaxChanges,   \* bound on changes of the host
    Policies      \* psutil installed and required; resources.required; a
                  \* tree-wide control among required_strengths

VARIABLES
    policy,   \* the runtime and resource policy
    host,     \* what the host offers: the version of the command's files, how it is
              \* launched, the sandbox, the resource backend
    planned,     \* the confirmed plan
    snap,     \* the batch's resource capability snapshot
    tree,     \* the processes
    tracker,  \* _ProcessTracker: handles kept, and whether an observation failed
    io,       \* the worker threads and what they have moved
    exec       \* the verifier's run

hostVars == <<policy, host, planned, snap, tree, tracker, io, exec>>

Members == {"root"} \cup Children
Workers == Streams \cup {"stdin"}
Backends == {"cgroup", "rlimit", "none"}

\* A script whose interpreter is declared, one whose interpreter is a script
\* itself, or an argument that is an undeclared script.
Launchers == {"script", "nested", "undeclared"}

Absent == [live |-> FALSE, group |-> FALSE, pipe |-> FALSE, parent |-> "none"]
Live == {p \in Members : tree[p].live}
Group == {p \in Live : tree[p].group}

HostInit ==
    /\ policy \in Policies
    /\ host \in [changes : {0}, exe : {0}, launcher : {"script"}, sandbox : BOOLEAN, backend : Backends]
    /\ planned = [exe |-> host.exe, launcher |-> host.launcher, sandbox |-> host.sandbox,
                backend |-> host.backend]
    /\ snap = "none"
    /\ tree = [p \in Members |-> Absent]
    /\ tracker = [seen |-> {}, blind |-> FALSE]
    /\ io = [st |-> [w \in Workers |-> "idle"], over |-> [s \in Streams |-> FALSE]]
    /\ exec = [pc |-> "batch", ran |-> -1, term |-> "none", rc |-> 0, late |-> FALSE,
              temp |-> "none", grown |-> FALSE, end |-> "none"]

Proceed(pc) == exec' = [exec EXCEPT !.pc = pc]
Quiet == UNCHANGED <<policy, host, planned, snap, tree, tracker, io>>

\* The run is over: with evidence (passed or not), or with an exception.
Ends(how) == exec' = [exec EXCEPT !.pc = "end", !.end = how]

-----------------------------------------------------------------------------
(* The plan *)

\* A scope that the service manager made is read back before it is trusted;
\* the probe may also fail or time out.
ScopeProbed == host.backend = "cgroup"

\* Per-process limits need no probe.
LimitsFound == IF host.backend = "none" THEN "none" ELSE "rlimit"

\* verifier_resource_capabilities: the strongest backend that was verified.
BackendsFound == {LimitsFound} \cup (IF ScopeProbed THEN {"cgroup"} ELSE {})

SnapshotCapabilities ==
    /\ exec.pc = "batch"
    /\ snap' \in BackendsFound
    /\ Proceed("rebuild")
    /\ UNCHANGED <<policy, host, planned, tree, tracker, io>>

\* The sandbox backend is attested and tried with the same namespaces.
SandboxFound == host.sandbox

\* A script's interpreter is resolved, and may not be a script.
ShebangResolves == host.launcher # "nested"

\* Every argument that names a script or an executable is declared.
ArgumentsDeclared == host.launcher # "undeclared"
ChainResolves == ShebangResolves /\ ArgumentsDeclared

\* resolve_executable: the file behind the name, addressed by its content.
ResolvedExecutable == host.exe

\* The plan of the host as it is; resources come from the batch's snapshot.
CurrentPlan == [exe |-> ResolvedExecutable, launcher |-> host.launcher, sandbox |-> SandboxFound,
                backend |-> snap]

\* The plan cannot be built: no launcher chain, or a file, a read alias or a
\* runtime root that is not there or changes while it is read.
PlanUnattested ==
    /\ exec.pc = "rebuild"
    /\ ~ChainResolves \/ host.exe # planned.exe
    /\ Ends("raised")
    /\ Quiet

\* missing_requirements: per-process limits never meet a tree-wide strength,
\* and without a backend the per-process ones are missing too.
Missing(backend) == backend = "none" \/ (policy.quota /\ backend # "cgroup")

\* build_verifier_resource_plan: a plan that is not runnable has no command.
Runnable(p) == p.sandbox /\ ~(policy.required /\ Missing(p.backend))

PlanDrifted ==
    /\ exec.pc = "rebuild" /\ ChainResolves /\ CurrentPlan # planned
    /\ Ends("raised")
    /\ Quiet

PlanBlocked ==
    /\ exec.pc = "rebuild" /\ ChainResolves /\ CurrentPlan = planned /\ ~Runnable(planned)
    /\ Ends("failed")
    /\ Quiet

\* _verifier_internal_temp makes the private root first, or raises.
MakeTemp ==
    /\ exec.pc = "rebuild" /\ ChainResolves /\ CurrentPlan = planned /\ Runnable(planned)
    /\ \/ exec' = [exec EXCEPT !.pc = "attest", !.temp = "made"]
       \/ Ends("raised")
    /\ Quiet

-----------------------------------------------------------------------------
(* execute_process *)

\* _verify_executable_identity and verify_launcher_chain compare what is on
\* disk with the plan's.
ExecutableSame == host.exe = planned.exe
ChainSame == host.launcher = planned.launcher /\ host.exe = planned.exe
Attested == ExecutableSame /\ ChainSame

\* An error before a process exists is evidence of a failed attestation.
AttestBefore ==
    /\ exec.pc = "attest"
    /\ IF Attested /\ ~exec.late THEN Proceed("popen")
       ELSE exec' = [exec EXCEPT !.pc = "leave", !.term = "error"]
    /\ Quiet

Popen ==
    /\ exec.pc = "popen"
    /\ UNCHANGED <<policy, host, planned, snap, tracker, io>>
    /\ \/ /\ tree' = [tree EXCEPT !["root"] = [live |-> TRUE, group |-> TRUE,
                                               pipe |-> TRUE, parent |-> "host"]]
          /\ exec' = [exec EXCEPT !.pc = "track", !.ran = host.exe]
       \/ /\ exec' = [exec EXCEPT !.pc = "leave", !.term = "error"]
          /\ UNCHANGED tree

\* children(recursive=True): what is reached from live handles through live parents, ...
Below(S) == S \cup {p \in Live : tree[p].parent \in S}

\* ... the least set of live processes that holds the live ones of S and their children.
Reachable(S) ==
    {p \in Live : \A T \in SUBSET Live : S \cap Live \subseteq T /\ Below(T) \subseteq T => p \in T}

\* _ProcessTracker.observe: handles are kept for ever; an error blinds it.
Observed == [tracker EXCEPT !.seen = @ \cup Reachable(@ \cup {"root"})]
Observe ==
    \/ tracker' = IF policy.psutil THEN Observed ELSE tracker
    \/ policy.psutil /\ tracker' = [tracker EXCEPT !.blind = TRUE]

\* The tracker, the permit and the second attestation; then the workers start.
Track ==
    /\ exec.pc = "track"
    /\ Observe
    /\ Proceed(IF policy.psutil /\ tracker'.blind THEN "emergency" ELSE "reattest")
    /\ UNCHANGED <<policy, host, planned, snap, tree, io>>

\* Mutant of AttestAfter: the launch is not attested again once it runs.
AttestOnce ==
    /\ exec.pc = "reattest"
    /\ io' = [io EXCEPT !.st = [w \in Workers |-> "open"]]
    /\ Proceed("poll")
    /\ UNCHANGED <<policy, host, planned, snap, tree, tracker>>

AttestAfter ==
    /\ exec.pc = "reattest"
    /\ UNCHANGED <<policy, host, planned, snap, tree, tracker>>
    /\ IF Attested
       THEN /\ io' = [io EXCEPT !.st = [w \in Workers |-> "open"]]
            /\ Proceed("poll")
       ELSE Proceed("emergency") /\ UNCHANGED io

WorkersEnded == \A w \in Workers : io.st[w] # "open"
RootExited == ~tree["root"].live

\* The exit code of the root, 0 or not, is known once it has exited.
ExitCode == IF exec.rc = 0 THEN "completed" ELSE "nonzero_exit"

\* Mutant of Verdict: a command that says nothing is polled past its deadline.
VerdictAwaited ==
    IF \E s \in Streams : io.over[s] THEN {"limit_exceeded"}
    ELSE IF \E w \in Workers : io.st[w] = "failed" THEN {"io_failed"}
    ELSE IF RootExited THEN IF WorkersEnded THEN {ExitCode} ELSE {ExitCode, "none"}
    ELSE {"none"}

\* One round of the polling loop, after its observation, in the code's order.
\* The pipes are given a settling time after the exit of the root.
Verdict ==
    IF \E s \in Streams : io.over[s] THEN {"limit_exceeded"}
    ELSE IF \E w \in Workers : io.st[w] = "failed" THEN {"io_failed"}
    ELSE IF exec.late THEN {"timed_out"}
    ELSE IF RootExited THEN IF WorkersEnded THEN {ExitCode} ELSE {ExitCode, "none"}
    ELSE {"none"}

Poll ==
    /\ exec.pc = "poll"
    /\ Observe
    /\ UNCHANGED <<policy, host, planned, snap, tree, io>>
    /\ IF tracker'.blind THEN Proceed("emergency")
       ELSE \E v \in Verdict : IF v = "none" THEN UNCHANGED exec
                               ELSE exec' = [exec EXCEPT !.pc = "term", !.term = v]

-----------------------------------------------------------------------------
(* The removal of the tree *)

\* The first pass: observe and send SIGTERM.  What obeys exits by itself; the
\* grace wait observes and ends when all is gone or its time is over.
CleanupTerm ==
    /\ exec.pc = "term"
    /\ Observe
    /\ Proceed("kill")
    /\ UNCHANGED <<policy, host, planned, snap, tree, io>>

CleanupObserve ==
    /\ exec.pc = "kill"
    /\ Observe
    /\ Proceed("signal")
    /\ UNCHANGED <<policy, host, planned, snap, tree, io>>

\* Those that exit leave their children to init.
Survivors(S) ==
    [p \in Members |->
       IF p \in S THEN [tree[p] EXCEPT !.live = FALSE]
       ELSE IF tree[p].parent \in S THEN [tree[p] EXCEPT !.parent = "init"]
       ELSE tree[p]]

\* SIGKILL to the group, to the root and to the kept handles; a process in an
\* uninterruptible call may outlive the wait.
Targets == Group \cup (tracker.seen \cap Live) \cup ({"root"} \cap Live)

CleanupKill ==
    /\ exec.pc = "signal"
    /\ \E S \in SUBSET Targets : tree' = Survivors(S)
    /\ Proceed("close")
    /\ UNCHANGED <<policy, host, planned, snap, tracker, io>>

\* The pipes are closed and the workers joined for a while: a reader ends, or
\* is still blocked in a read while some process holds the pipe's other end.
Settled(w, st) ==
    IF st # "open" THEN {st}
    ELSE IF \E p \in Live : tree[p].pipe THEN {"open", "failed"}
    ELSE IF w = "stdin" THEN {"failed"} ELSE {"eof", "failed"}

CleanupClose ==
    /\ exec.pc = "close"
    /\ \E st \in [Workers -> {"idle", "open", "eof", "done", "failed"}] :
         /\ \A w \in Workers : st[w] \in Settled(w, io.st[w])
         /\ io' = [io EXCEPT !.st = st]
    /\ Proceed("verify")
    /\ UNCHANGED <<policy, host, planned, snap, tree, tracker>>

\* Mutant of Verified: the exit of the root is taken for that of the tree.
VerifiedByRoot == RootExited /\ WorkersEnded /\ ~tracker'.blind

\* A last observation, then the checks: root, group, handles, workers.
Verified ==
    /\ RootExited /\ Group = {} /\ WorkersEnded
    /\ ~tracker'.blind /\ tracker'.seen \cap Live = {}

\* The final state of the streams is classified after the join.
Classified ==
    IF exec.term \notin {"completed", "nonzero_exit"} THEN exec.term
    ELSE IF \E s \in Streams : io.over[s] THEN "limit_exceeded"
    ELSE IF io.st["stdin"] = "done" /\ \A s \in Streams : io.st[s] = "eof" THEN exec.term
    ELSE "io_failed"

CleanupVerify ==
    /\ exec.pc = "verify"
    /\ Observe
    /\ exec' = IF Verified THEN [exec EXCEPT !.pc = "leave", !.term = Classified]
              ELSE [exec EXCEPT !.pc = "emergency", !.term = "unverified"]
    /\ UNCHANGED <<policy, host, planned, snap, tree, io>>

\* _emergency_cleanup_process: kills, closes, joins and checks once more; an
\* error that preceded it is raised when the check holds.
Emergency ==
    /\ exec.pc = "emergency"
    /\ UNCHANGED <<policy, host, planned, snap, tracker, io>>
    /\ \E S \in SUBSET Targets :
         /\ tree' = Survivors(S)
         /\ LET clean == /\ Targets = S
                         /\ \/ ~\E w \in Workers : io.st[w] = "open"
                            \/ ~\E p \in Live \ S : tree[p].pipe
                         /\ ~tracker.blind
            IN  exec' = [exec EXCEPT !.pc = "leave",
                          !.term = IF clean /\ exec.term # "unverified" THEN "error" ELSE "cleanup"]

\* Any exception once the process is owned, KeyboardInterrupt included.
Interrupt ==
    /\ exec.pc \in {"track", "reattest", "poll", "term", "kill", "signal", "close", "verify"}
    /\ exec' = [exec EXCEPT !.pc = "emergency",
                 !.term = IF exec.pc \in {"track", "reattest", "poll"} THEN @ ELSE "unverified"]
    /\ Quiet

-----------------------------------------------------------------------------
(* What is left decides the evidence *)

\* _cleanup_verifier_internal_temp, then the enforcement report: growth of the
\* workspace, output within its bounds, the tree's cleanup.
LeaveTemp ==
    /\ exec.pc = "leave"
    /\ \/ exec' = [exec EXCEPT !.pc = "report", !.temp = "gone"]
       \/ Ends(IF exec.term = "cleanup" THEN "cleanup" ELSE "raised")
    /\ Quiet

Compliant(grown) == ~Missing(planned.backend) /\ ~grown /\ ~\E s \in Streams : io.over[s]

\* measure_workspace_bytes says whether the command wrote more than allowed, or raises.
Report ==
    /\ exec.pc = "report"
    /\ \/ exec.term = "cleanup" /\ Ends("cleanup")
       \/ /\ exec.term # "cleanup"
          /\ \E grown \in BOOLEAN :
               exec' = [exec EXCEPT !.pc = "end", !.grown = grown,
                         !.end = IF exec.term = "completed" /\ Compliant(grown) THEN "passed" ELSE "failed"]
       \/ exec.term # "cleanup" /\ Ends("raised")
    /\ Quiet

-----------------------------------------------------------------------------
(* The environment *)

\* A child inherits the group and the pipes of its parent.
Fork(p, c) ==
    /\ exec.pc # "end" /\ tree[p].live /\ tree[c] = Absent
    /\ tree' = [tree EXCEPT ![c] = [tree[p] EXCEPT !.parent = p]]
    /\ UNCHANGED <<policy, host, planned, snap, tracker, io, exec>>

\* setsid; the root already leads its session.
LeaveGroup(p) ==
    /\ exec.pc # "end" /\ p # "root" /\ tree[p].live /\ tree[p].group
    /\ \E keeps \in BOOLEAN : tree' = [tree EXCEPT ![p].group = FALSE, ![p].pipe = keeps /\ @]
    /\ UNCHANGED <<policy, host, planned, snap, tracker, io, exec>>

Exit(p) ==
    /\ exec.pc # "end" /\ tree[p].live
    /\ tree' = Survivors({p})
    /\ \E rc \in IF p = "root" THEN {0, 1} ELSE {exec.rc} : exec' = [exec EXCEPT !.rc = rc]
    /\ UNCHANGED <<policy, host, planned, snap, tracker, io>>

\* _read_pipe: a chunk past the bound, the end of the pipe, or an error.
ReadPipe(s) ==
    /\ exec.pc \notin {"leave", "report", "end"} /\ io.st[s] = "open"
    /\ \/ io' = [io EXCEPT !.over[s] = TRUE]
       \/ ~(\E p \in Live : tree[p].pipe) /\ io' = [io EXCEPT !.st[s] = "eof"]
       \/ io' = [io EXCEPT !.st[s] = "failed"]
    /\ UNCHANGED <<policy, host, planned, snap, tree, tracker, exec>>

\* _write_stdin: all of it flushed, or a broken pipe.
WriteStdin ==
    /\ exec.pc \notin {"leave", "report", "end"} /\ io.st["stdin"] = "open"
    /\ \E st \in {"done", "failed"} : io' = [io EXCEPT !.st["stdin"] = st]
    /\ UNCHANGED <<policy, host, planned, snap, tree, tracker, exec>>

\* The command's files are read until the second attestation, the rest of the
\* host only for the plan.
HostChanges ==
    /\ host.changes < MaxChanges
    /\ \/ /\ exec.pc \in {"batch", "rebuild", "attest", "popen", "track", "reattest"}
          /\ host' = [host EXCEPT !.changes = @ + 1, !.exe = @ + 1]
       \/ /\ exec.pc \in {"batch", "rebuild"}
          /\ \/ \E b \in Backends : exec.pc = "batch" /\ host' = [host EXCEPT !.changes = @ + 1, !.backend = b]
             \/ \E l \in Launchers : host' = [host EXCEPT !.changes = @ + 1, !.launcher = l]
             \/ host' = [host EXCEPT !.changes = @ + 1, !.sandbox = ~@]
    /\ UNCHANGED <<policy, planned, snap, tree, tracker, io, exec>>

DeadlinePasses ==
    /\ ~exec.late /\ exec.pc \in {"attest", "popen", "track", "reattest", "poll"}
    /\ exec' = [exec EXCEPT !.late = TRUE]
    /\ Quiet

HostStep ==
    \/ SnapshotCapabilities \/ PlanUnattested \/ PlanDrifted \/ PlanBlocked \/ MakeTemp
    \/ AttestBefore \/ Popen \/ Track \/ AttestAfter \/ Poll
    \/ CleanupTerm \/ CleanupObserve \/ CleanupKill \/ CleanupClose \/ CleanupVerify
    \/ Emergency \/ LeaveTemp \/ Report

HostNext ==
    \/ HostStep \/ Interrupt \/ WriteStdin \/ HostChanges \/ DeadlinePasses
    \/ \E p \in Members : LeaveGroup(p) \/ Exit(p) \/ \E c \in Children : Fork(p, c)
    \/ \E s \in Streams : ReadPipe(s)

\* The host's own steps and its clock go on; no observation has to fail.
SeenStep == HostStep /\ tracker'.blind = tracker.blind
HostSpec ==
    /\ HostInit /\ [][HostNext]_hostVars
    /\ WF_hostVars(SeenStep)
    /\ WF_hostVars(DeadlinePasses)

-----------------------------------------------------------------------------
(* Evidence that a verifier passed stands for one whole run of what was        *)
(* confirmed: the attested command, started in the sandbox under a backend     *)
(* as strong as the policy asks, exited with 0 within its output and           *)
(* workspace bounds, its streams read to their end and its input delivered.    *)
PassedIsWhole ==
    exec.end = "passed" =>
      /\ exec.ran = planned.exe /\ planned.sandbox /\ ~Missing(planned.backend)
      /\ exec.rc = 0 /\ ~exec.grown
      /\ \A s \in Streams : io.st[s] = "eof" /\ ~io.over[s]
      /\ io.st["stdin"] = "done"

(* Unless the run ends by saying that its cleanup failed, nothing of the tree  *)
(* that the host could know of survives it: no member of the process group and *)
(* no process ever observed, however it forked, detached or was orphaned.      *)
NoKnownSurvivor ==
    exec.pc \in {"report", "end"} /\ exec.term \notin {"cleanup", "none"} =>
      Group = {} /\ tracker.seen \cap Live = {} /\ RootExited

\* A verifier's run ends, whatever its processes do.
Reported == exec.pc = "end"
EveryVerifierEnds == []<>Reported

\* What the evidence of a verifier's run says of the run, and of what it left behind.
VerifierSafe == PassedIsWhole /\ NoKnownSurvivor
=============================================================================
