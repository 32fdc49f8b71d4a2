---------------------------- MODULE CodingCanary ----------------------------
(* The coding canary (src/local_moe/coding_canary.py): one pinned coding       *)
(* client is run in a sandbox on a fixture of two files, its tool calls go    *)
(* through a hook that keeps its state in a file, its model requests through  *)
(* a proxy of handler threads, and a cell is qualified only when hook, event  *)
(* stream, proxy, workspace and a separate verifier agree.                    *)
(*                                                                            *)
(* The client is arbitrary: it starts tool calls in parallel, obeys the hook  *)
(* or not, writes the one editable file on its own, and exits when it likes.  *)
EXTENDS Integers, Sequences, FiniteSets, SequencesExt

CONSTANTS
    MaxCalls,     \* bound on tool calls
    MaxOpen,      \* bound on calls that are open at once
    Requests,     \* bound: requests that reach the proxy
    Inputs        \* tool inputs the client tries

VARIABLES
    canary,   \* the qualification run
    gate,     \* the hook's state file, and who holds its lock
    calls,    \* the tool calls in the order of their start events
    files,    \* the editable source
    proxy,    \* each proxied request
    world     \* identities on the host: the client's file, the gateway's models

canaryVars == <<canary, gate, calls, files, proxy, world>>

Fixture == {"source", "test"}
ReadInputs == {"readsource", "readtest", "readboth"}
Paths(i) == CASE i = "readsource" -> {"source"} [] i = "readtest" -> {"test"} [] OTHER -> Fixture
Category(i) == IF i \in ReadInputs THEN "read_files"
               ELSE IF i \in {"edit", "badedit"} THEN "editor"
               ELSE IF i = "test" THEN "run_commands" ELSE "other_tool"

FreshGate == [phase |-> "reading", reads |-> {}, seq |-> <<>>, denied |-> 0, errors |-> 0]

CanaryInit ==
    /\ canary = [pc |-> "preflight", status |-> "none", cline |-> 0, models |-> 0,
                 finish |-> "none", counted |-> {}, change |-> "none", sealed |-> "none",
                 passed |-> FALSE]
    /\ gate = [file |-> FreshGate, holder |-> 0, decided |-> 0]
    /\ calls = <<>>
    /\ files = "broken"
    /\ proxy = [r \in Requests |-> "none"]
    /\ world = [cline |-> 0, models |-> 0]

Rest == UNCHANGED <<gate, calls, files, proxy, world>>
Step(pc) == canary' = [canary EXCEPT !.pc = pc]
Verdict(status) == canary' = [canary EXCEPT !.pc = "end", !.status = status]

\* Evidence that is incomplete is no verdict on the cell.
Indeterminate == canary' = [canary EXCEPT !.pc = "end", !.status = "indeterminate", !.counted = {},
                              !.finish = "none", !.change = "none"]

-----------------------------------------------------------------------------
(* Before the client runs *)

\* The timeout, the loopback endpoint and the gateway's configuration must be
\* declared and agree, or the caller is told so.
LoadGatewayBinding ==
    /\ canary.pc = "preflight"
    /\ Step("pin") \/ Verdict("error")
    /\ Rest

\* The caller's hash and the native format pin the client's file; another
\* platform gives no verdict.
PinExecutable ==
    /\ canary.pc = "pin"
    /\ \/ canary' = [canary EXCEPT !.pc = "version", !.cline = world.cline]
       \/ Verdict("error") \/ Verdict("indeterminate")
    /\ Rest

\* The file is attested again in the canary's environment, and its version asked.
ClineVersion ==
    /\ canary.pc = "version"
    /\ \/ canary.cline = world.cline /\ Step("capture")
       \/ Verdict("error") \/ Verdict("indeterminate")
    /\ Rest

\* _capture_gateway_models: the served alias and configuration are the declared.
CaptureBefore ==
    /\ canary.pc = "capture"
    /\ \/ canary' = [canary EXCEPT !.pc = "probe", !.models = world.models]
       \/ Verdict("indeterminate")
    /\ Rest

\* The proxy starts and the sandbox profile names its port and the fixture.
BuildProfile ==
    /\ canary.pc = "probe"
    /\ Step("tried") \/ Verdict("indeterminate")
    /\ Rest

\* The assembled profile is tried on a forbidden file and address first.
ProbeProfile ==
    /\ canary.pc = "tried"
    /\ Step("auth") \/ Verdict("indeterminate")
    /\ Rest

\* The client is given its key; an incomplete step is no verdict on the cell.
Authenticate ==
    /\ canary.pc = "auth"
    /\ Step("run") \/ Verdict("indeterminate")
    /\ Rest

-----------------------------------------------------------------------------
(* The hook *)

\* decide(): two reads at most, that cover both files; the exact patch; the test.
Allowed(g, i) ==
    CASE i \in ReadInputs -> g.phase = "reading" /\ Len(g.seq) < 2
      [] i = "edit"       -> g.phase = "editing"
      [] i = "test"       -> g.phase = "testing"
      [] OTHER            -> FALSE

Decided(g, i) ==
    IF ~Allowed(g, i) THEN [g EXCEPT !.denied = @ + 1]
    ELSE LET reads == IF i \in ReadInputs THEN g.reads \cup Paths(i) ELSE g.reads
         IN  [g EXCEPT !.seq = Append(@, Category(i)), !.reads = reads,
                !.phase = CASE i = "edit" -> "testing" [] i = "test" -> "complete"
                            [] OTHER -> IF reads = Fixture THEN "editing" ELSE @]

Ended(call) == call.pc \in {"done", "failed", "dropped"}

\* The client reports the start of a call and starts its hook.
StartCall ==
    /\ canary.pc = "run" /\ Len(calls) < MaxCalls
    /\ Cardinality({c \in DOMAIN calls : ~Ended(calls[c])}) < MaxOpen
    /\ \E i \in Inputs :
         calls' = Append(calls, [input |-> i, pc |-> "hook", loaded |-> FreshGate])
    /\ UNCHANGED <<canary, gate, files, proxy, world>>

\* Mutant of HookLoad: the state is read before the lock is taken.
HookLoadEarly(c) ==
    /\ canary.pc = "run" /\ calls[c].pc = "hook"
    /\ calls' = [calls EXCEPT ![c].pc = "loaded", ![c].loaded = gate.file]
    /\ gate' = [gate EXCEPT !.holder = c]
    /\ UNCHANGED <<canary, files, proxy, world>>

\* A hook process takes the lock and reads the state file.
HookLoad(c) ==
    /\ canary.pc = "run" /\ calls[c].pc = "hook" /\ gate.holder = 0
    /\ calls' = [calls EXCEPT ![c].pc = "loaded", ![c].loaded = gate.file]
    /\ gate' = [gate EXCEPT !.holder = c]
    /\ UNCHANGED <<canary, files, proxy, world>>

\* It replaces the file and answers, or fails and answers to cancel; a payload
\* it cannot read is an error of the gate.
HookAnswer(c) ==
    /\ canary.pc = "run" /\ calls[c].pc = "loaded"
    /\ UNCHANGED <<canary, files, proxy, world>>
    /\ \/ /\ gate' = [file |-> Decided(calls[c].loaded, calls[c].input), holder |-> 0,
                      decided |-> gate.decided + 1]
          /\ calls' = [calls EXCEPT ![c].pc = IF Allowed(calls[c].loaded, calls[c].input)
                                              THEN "approved" ELSE "cancelled",
                                    ![c].loaded = FreshGate]
       \/ /\ gate' = [file |-> [calls[c].loaded EXCEPT !.errors = 1], holder |-> 0,
                      decided |-> gate.decided]
          /\ calls' = [calls EXCEPT ![c].pc = "cancelled", ![c].loaded = FreshGate]
       \/ /\ gate' = [gate EXCEPT !.holder = 0]
          /\ calls' = [calls EXCEPT ![c].pc = "cancelled", ![c].loaded = FreshGate]

-----------------------------------------------------------------------------
(* The client and its requests *)

\* A call is carried out and its end reported, with or without an error.
EndCall(c) ==
    /\ canary.pc = "run" /\ calls[c].pc \in {"approved", "cancelled"}
    /\ \E end \in IF calls[c].pc = "approved" THEN {"done", "failed"} ELSE {"dropped"} :
         calls' = [calls EXCEPT ![c].pc = end]
    /\ files' = IF calls[c].pc = "approved" /\ calls[c].input = "edit" THEN "fixed" ELSE files
    /\ UNCHANGED <<canary, gate, proxy, world>>

\* The sandbox lets the client write the source whenever it runs.
StrayWrite ==
    /\ canary.pc = "run" /\ files # "other"
    /\ files' = "other"
    /\ UNCHANGED <<canary, gate, calls, proxy, world>>

SendRequest(r) ==
    /\ canary.pc = "run" /\ proxy[r] = "none"
    /\ proxy' = [proxy EXCEPT ![r] = "received"]
    /\ UNCHANGED <<canary, gate, calls, files, world>>

\* _forward: wrong key, route or model, or past the deadline: a violation.
ForwardRefused(r) ==
    /\ proxy[r] = "received"
    /\ proxy' = [proxy EXCEPT ![r] = "violation"]
    /\ UNCHANGED <<canary, gate, calls, files, world>>

Forward(r) ==
    /\ proxy[r] = "received"
    /\ proxy' = [proxy EXCEPT ![r] = "chat"]
    /\ UNCHANGED <<canary, gate, calls, files, world>>

\* The answer of the gateway, or one that is refused, redirected or never comes.
ForwardAnswered(r) ==
    /\ proxy[r] = "chat"
    /\ \E out \in {"completion", "upstream_error"} : proxy' = [proxy EXCEPT ![r] = out]
    /\ UNCHANGED <<canary, gate, calls, files, world>>

\* execute_process: the client exits or is killed at its deadline; the hooks go
\* with its process tree.
ClientEnds ==
    /\ canary.pc = "run"
    /\ \E finish \in {"completed", "aborted", "failed", "late"} :
         canary' = [canary EXCEPT !.pc = "closing", !.finish = finish]
    /\ gate' = [gate EXCEPT !.holder = 0]
    /\ calls' = [c \in DOMAIN calls |-> IF Ended(calls[c]) THEN calls[c]
                                        ELSE [calls[c] EXCEPT !.pc = "killed", !.loaded = FreshGate]]
    /\ UNCHANGED <<files, proxy, world>>

\* The host changes between its two readings.
HostChanges ==
    /\ canary.pc = "closing" /\ world = [cline |-> 0, models |-> 0]
    /\ \E part \in {"cline", "models"} : world' = [world EXCEPT ![part] = 1]
    /\ UNCHANGED <<canary, gate, calls, files, proxy>>

-----------------------------------------------------------------------------
(* After the client *)

Busy == {r \in Requests : proxy[r] \in {"received", "chat"}}

\* _InferenceProxy.__exit__: the server stops, its handler threads are joined,
\* and only then the evidence is copied.
CloseProxy ==
    /\ canary.pc = "closing" /\ Busy = {}
    /\ canary' = [canary EXCEPT !.pc = "gate", !.counted = {<<r, proxy[r]>> : r \in Requests}]
    /\ Rest

\* _load_hook_gate checks the file and that its counters reconcile.
LoadGate ==
    /\ canary.pc = "gate"
    /\ \/ Indeterminate
       \/ canary.finish # "late" /\ Step("snapshot")
    /\ Rest

\* _snapshot_fixture, twice the same, and what changed.
SnapshotFixture ==
    /\ canary.pc = "snapshot"
    /\ \E change \in {IF files = "fixed" THEN "expected" ELSE "not expected", "not expected"} :
         canary' = [canary EXCEPT !.pc = "reattest", !.change = change]
    /\ Rest

Reattest ==
    /\ canary.pc = "reattest"
    /\ IF world.cline = canary.cline THEN Step("recapture") ELSE Indeterminate
    /\ Rest

Denied == gate.file.denied > 0

Recapture ==
    /\ canary.pc = "recapture"
    /\ IF world.models # canary.models \/ (canary.finish = "failed" /\ ~Denied)
       THEN Indeterminate ELSE Step("verify")
    /\ Rest

\* The candidate is read twice and must be the exact fix; the pristine test is
\* run on a sealed copy, in the verifier's sandbox.
Verify ==
    /\ canary.pc = "verify"
    /\ \/ canary.change # "expected" /\ Step("classify")
       \/ /\ canary.change = "expected" /\ files = "fixed"
          /\ \E p \in BOOLEAN : canary' = [canary EXCEPT !.pc = "classify", !.sealed = files, !.passed = p]
       \/ canary.change = "expected" /\ Indeterminate
    /\ Rest

\* _parse_cline_events: every call that was started is ended, before the result.
EventsValid == \A c \in DOMAIN calls : Ended(calls[c])
ToolSequence == [c \in DOMAIN calls |-> Category(calls[c].input)]

\* _ToolInputContract: the inputs of the start events, in their order.
Contract == FoldLeft(LAMBDA g, call : Decided(g, call.input), FreshGate, calls)

Seen(out) == \E r \in Requests : <<r, out>> \in canary.counted

\* _classify_completed_run, in its order; a gap in the evidence is no verdict.
Classification ==
    IF gate.file.errors > 0 \/ Seen("upstream_error") THEN "indeterminate"
    ELSE IF Denied \/ Seen("violation") \/ Contract.denied > 0 THEN "incompatible"
    ELSE IF ~EventsValid THEN "indeterminate"
    ELSE IF /\ canary.finish = "completed" /\ canary.change = "expected"
            /\ gate.file.phase = "complete" /\ Contract.phase = "complete"
            /\ ToolSequence = gate.file.seq /\ \A c \in DOMAIN calls : calls[c].pc # "failed"
            /\ Seen("completion") /\ canary.passed
         THEN "qualified" ELSE "incompatible"

Classify ==
    /\ canary.pc = "classify"
    /\ Verdict(Classification)
    /\ Rest

CanaryStep ==
    \/ LoadGatewayBinding \/ PinExecutable \/ ClineVersion \/ CaptureBefore \/ BuildProfile
    \/ ProbeProfile \/ Authenticate \/ ClientEnds \/ CloseProxy
    \/ LoadGate \/ SnapshotFixture \/ Reattest \/ Recapture \/ Verify \/ Classify

CanaryNext ==
    \/ CanaryStep \/ StartCall \/ StrayWrite \/ HostChanges
    \/ \E c \in DOMAIN calls : HookLoad(c) \/ HookAnswer(c) \/ EndCall(c)
    \/ \E r \in Requests : SendRequest(r) \/ ForwardRefused(r) \/ Forward(r) \/ ForwardAnswered(r)

CanarySpec == CanaryInit /\ [][CanaryNext]_canaryVars

-----------------------------------------------------------------------------
(* A cell is qualified only by a run in which the hook approved every call     *)
(* that the client started, in order, and no other decision was taken; no      *)
(* proxied request was refused or failed, however late; and the verifier     *)
(* passed the very source that was left behind.                                *)
QualifiedIsEarned ==
    canary.status = "qualified" =>
      /\ gate.decided = Len(calls) /\ gate.file.denied = 0
      /\ \A c \in DOMAIN calls : calls[c].pc = "done"
      /\ \A r \in Requests : proxy[r] \in {"none", "completion"}
      /\ \E r \in Requests : proxy[r] = "completion"
      /\ canary.sealed = "fixed" /\ canary.passed

(* The state file counts every decision a hook has answered with: no call is   *)
(* approved or denied without trace, however many hooks run at once.           *)
DecisionsCounted ==
    Len(gate.file.seq) + gate.file.denied = gate.decided

\* What the qualification of a coding cell rests on, with hooks that run in parallel.
CanarySafe == QualifiedIsEarned /\ DecisionsCounted
=============================================================================
