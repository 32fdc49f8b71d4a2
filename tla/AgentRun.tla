------------------------------- MODULE AgentRun -------------------------------
(* The agent loop (src/local_moe/agent_loop.py) with its tool registry         *)
(* (agent_tools.py), the permission and approval of a call, the local runner   *)
(* (tool_runner.py) and the MCP session a call may open (mcp_client.py).       *)
(*                                                                             *)
(* The loop is one thread; the model, the approval handler and the MCP server  *)
(* answer as they like, the wall clock passes the deadline at any moment, and  *)
(* the server's messages queue up behind a reader thread.  A session opened    *)
(* for one call numbers its requests 1 (initialize) and 2 (tools/call).        *)
EXTENDS Integers, Sequences, FiniteSets

CONSTANTS
    MaxTurns,    \* budget of model turns
    MaxCalls,    \* budget of tool calls
    AllowedTools,  \* the tools that the permission policy allows,
    AskTools,      \* those it puts to the approval handler,
    DeniedTools,   \* and those it denies
    Handlers,    \* approval handlers explored
    AskIds,      \* numbers the server gives to requests of its own
    MaxSent      \* bound on messages the server sends in one session

VARIABLES
    run,      \* the loop's fields
    calls,    \* the calls of the turn, and what became of each
    asked,    \* ids whose results were in a prompt the model was given
    mcp,      \* the session of the call being run
    wire,     \* the reader thread's queue
    late,     \* the deadline has passed
    verdict   \* how the tool of a call really ended (history)

agentVars == <<run, calls, asked, mcp, wire, late, verdict>>

Tools == AllowedTools \cup AskTools \cup DeniedTools
NoMcp == [pc |-> "none", sent |-> 0]

Stop(status) ==
    /\ run' = [run EXCEPT !.pc = "done", !.status = status]
    /\ UNCHANGED <<calls, asked, mcp, wire, late, verdict>>

\* Results of earlier turns that are success but not delivered yet.
PendingSuccess == {c.id : c \in {k \in run.results : k.status = "success"}} \ asked

-----------------------------------------------------------------------------
(* A turn *)

\* The turn budget and the deadline are looked at first; then the model is
\* called, and the successes of the turn before count as delivered to it.
BeginTurn ==
    /\ run.pc = "turn"
    /\ IF run.turn >= MaxTurns THEN Stop("turns")
       ELSE IF late THEN Stop("wall_time")
       ELSE /\ run' = [run EXCEPT !.pc = "model", !.turn = @ + 1]
            /\ asked' = asked \cup PendingSuccess
            /\ UNCHANGED <<calls, mcp, wire, late, verdict>>

ModelFails == run.pc = "model" /\ Stop("model_error")

\* An answer ends the run, unless the deadline passed meanwhile; neither an
\* answer nor a call, or too many calls, is an error.
ModelFinal == run.pc = "model" /\ Stop(IF late THEN "wall_time" ELSE "completed")
ModelInvalid == run.pc = "model" /\ Stop("invalid")

\* One or two calls of any tools, registered or not; their ids are made unique
\* within the run.
ModelCalls ==
    /\ run.pc = "model"
    /\ \E n \in 1..2 : \E names \in [1..n -> Tools \cup {"unknown"}] :
          calls' = [i \in 1..n |-> [id |-> run.ids + i, name |-> names[i]]]
    /\ run' = [run EXCEPT !.pc = "calls", !.ids = @ + Len(calls'), !.at = 1]
    /\ UNCHANGED <<asked, mcp, wire, late, verdict>>

-----------------------------------------------------------------------------
(* A call *)

This == calls[run.at]

\* The bounded result is recorded under the call's id, and the next call is up.
Record(status) ==
    run' = [run EXCEPT !.results = @ \cup {[id |-> This.id, turn |-> run.turn, status |-> status]},
                       !.at = @ + 1, !.pc = "calls", !.how = "none"]

\* Without time, a turn to consume the result, or calls left, the tool is not
\* run, and the run will stop at the end of the turn.
CallOverBudget ==
    /\ run.pc = "calls" /\ run.at <= Len(calls)
    /\ late \/ run.turn >= MaxTurns \/ run.used >= MaxCalls
    /\ run' = [run EXCEPT !.results = @ \cup {[id |-> This.id, turn |-> run.turn, status |-> "stopped"]},
                          !.at = @ + 1, !.over = TRUE]
    /\ UNCHANGED <<calls, asked, mcp, wire, late, verdict>>

\* Unknown names, arguments too large or not of the schema, and denied risks
\* are answered without the tool.
CallRejected ==
    /\ run.pc = "calls" /\ run.at <= Len(calls)
    /\ ~late /\ run.turn < MaxTurns /\ run.used < MaxCalls
    /\ run' = [run EXCEPT !.used = @ + 1, !.at = @ + 1,
                  !.results = @ \cup {[id |-> This.id, turn |-> run.turn,
                        status |-> IF This.name \in DeniedTools THEN "denied" ELSE "error"]}]
    /\ UNCHANGED <<calls, asked, mcp, wire, late, verdict>>

\* Mutant of Authorize: a handler that fails is taken for a yes.
AuthorizeOnError ==
    /\ run.pc = "calls" /\ run.at <= Len(calls)
    /\ ~late /\ run.turn < MaxTurns /\ run.used < MaxCalls
    /\ This.name \in Tools \ DeniedTools
    /\ \E how \in (IF This.name \in AllowedTools THEN {"allow"}
                   ELSE {"approved", "error"} \cap Handlers) :
          run' = [run EXCEPT !.used = @ + 1, !.pc = "run", !.how = how]
    /\ UNCHANGED <<calls, asked, mcp, wire, late, verdict>>

\* A tool that is allowed, or whose exact call the handler approved, is run.
Authorize ==
    /\ run.pc = "calls" /\ run.at <= Len(calls)
    /\ ~late /\ run.turn < MaxTurns /\ run.used < MaxCalls
    /\ This.name \in Tools \ DeniedTools
    /\ \E how \in (IF This.name \in AllowedTools THEN {"allow"} ELSE {"approved"} \cap Handlers) :
          run' = [run EXCEPT !.used = @ + 1, !.pc = "run", !.how = how]
    /\ UNCHANGED <<calls, asked, mcp, wire, late, verdict>>

\* No handler, one that raises or answers nonsense, pauses the run at the end
\* of the turn; one that says no is an observation like any other.
NotApproved ==
    /\ run.pc = "calls" /\ run.at <= Len(calls)
    /\ ~late /\ run.turn < MaxTurns /\ run.used < MaxCalls
    /\ This.name \in AskTools
    /\ \E h \in {"none", "error", "denied"} \cap Handlers :
          run' = [run EXCEPT !.used = @ + 1, !.at = @ + 1, !.pause = @ \/ h # "denied",
                     !.results = @ \cup {[id |-> This.id, turn |-> run.turn, status |-> h]}]
    /\ UNCHANGED <<calls, asked, mcp, wire, late, verdict>>

\* A pause goes before a spent budget; else the next turn.
EndTurn ==
    /\ run.pc = "calls" /\ run.at > Len(calls)
    /\ IF run.pause THEN Stop("approval_required")
       ELSE IF run.over THEN Stop("stopped")
       ELSE run' = [run EXCEPT !.pc = "turn"] /\ UNCHANGED <<calls, asked, mcp, wire, late, verdict>>

-----------------------------------------------------------------------------
(* The runner *)

\* A local tool returns, raises, or returns something that is no result.
RunLocal ==
    /\ run.pc = "run" /\ This.name # "mcp"
    /\ \E ok \in BOOLEAN :
          /\ verdict' = [verdict EXCEPT ![This.id] = [how |-> run.how, ok |-> ok]]
          /\ Record(IF ok THEN "success" ELSE "error")
    /\ UNCHANGED <<calls, asked, mcp, wire, late>>

\* mcp.call_tool opens a session of its own: launch and initialize.
OpenSession ==
    /\ run.pc = "run" /\ This.name = "mcp" /\ mcp.pc = "none"
    /\ mcp' = [pc |-> "init", sent |-> 0] /\ wire' = <<>>
    /\ run' = [run EXCEPT !.pc = "mcp"]
    /\ UNCHANGED <<calls, asked, late, verdict>>

Expected == IF mcp.pc = "init" THEN 1 ELSE 2

\* The server answers the request it has, the tool's own error included.
\* (External.)
ServerReplies ==
    /\ mcp.pc \in {"init", "call"} /\ mcp.sent < MaxSent
    /\ ~\E i \in 1..Len(wire) : wire[i].id = Expected /\ wire[i].reply
    /\ \E ok \in (IF mcp.pc = "init" THEN {TRUE} ELSE BOOLEAN) :
          /\ wire' = Append(wire, [id |-> Expected, reply |-> TRUE, ok |-> ok])
          /\ verdict' = IF mcp.pc = "init" THEN verdict
                        ELSE [verdict EXCEPT ![This.id] = [how |-> run.how, ok |-> ok]]
    /\ mcp' = [mcp EXCEPT !.sent = @ + 1]
    /\ UNCHANGED <<run, calls, asked, late>>

\* The server sends a request, numbered by its own counter, or a notice.
\* (External.)
ServerRequests ==
    /\ mcp.pc \in {"init", "call"} /\ mcp.sent < MaxSent
    /\ \E id \in AskIds : wire' = Append(wire, [id |-> id, reply |-> FALSE, ok |-> TRUE])
    /\ mcp' = [mcp EXCEPT !.sent = @ + 1]
    /\ UNCHANGED <<run, calls, asked, late, verdict>>

\* Mutant of ReadResponse: a reported error is not looked at.
ReadIgnoringErrors ==
    /\ mcp.pc \in {"init", "call"} /\ wire # <<>>
    /\ wire' = Tail(wire)
    /\ IF Head(wire).id # Expected THEN UNCHANGED <<run, mcp>>
       ELSE IF mcp.pc = "init" THEN mcp' = [mcp EXCEPT !.pc = "call"] /\ UNCHANGED run
       ELSE mcp' = NoMcp /\ Record("success")
    /\ UNCHANGED <<calls, asked, late, verdict>>

\* The next message is the answer if it carries the request's number; others
\* are dropped.  A message without a result counts as an empty one.
ReadResponse ==
    /\ mcp.pc \in {"init", "call"} /\ wire # <<>>
    /\ wire' = Tail(wire)
    /\ IF Head(wire).id # Expected THEN UNCHANGED <<run, mcp>>
       ELSE IF mcp.pc = "init" THEN mcp' = [mcp EXCEPT !.pc = "call"] /\ UNCHANGED run
       ELSE mcp' = NoMcp /\ Record(IF Head(wire).ok THEN "success" ELSE "error")
    /\ UNCHANGED <<calls, asked, late, verdict>>

\* Mutant of SessionFails: the time-out is looked at only when a message comes.
SessionWaits ==
    /\ mcp.pc \in {"init", "call"} /\ wire # <<>>
    /\ mcp' = NoMcp /\ wire' = <<>>
    /\ Record("error")
    /\ UNCHANGED <<calls, asked, late, verdict>>

\* Launch failure, exit of the process, an oversized message, a protocol error
\* or the time-out: the session is closed and the call is an error, whatever
\* the tool has done by then.
SessionFails ==
    /\ mcp.pc \in {"init", "call"}
    /\ mcp' = NoMcp /\ wire' = <<>>
    /\ Record("error")
    /\ UNCHANGED <<calls, asked, late, verdict>>

DeadlinePasses ==
    /\ ~late /\ run.pc # "done"
    /\ late' = TRUE
    /\ UNCHANGED <<run, calls, asked, mcp, wire, verdict>>

AgentInit ==
    /\ run = [pc |-> "turn", turn |-> 0, used |-> 0, at |-> 1, ids |-> 0, how |-> "none",
              pause |-> FALSE, over |-> FALSE, results |-> {}, status |-> "running"]
    /\ calls = <<>> /\ asked = {} /\ mcp = NoMcp /\ wire = <<>> /\ late = FALSE
    /\ verdict = [i \in 1..(2 * MaxTurns) |-> [how |-> "none", ok |-> FALSE]]

LoopNext ==
    \/ BeginTurn \/ ModelFails \/ ModelFinal \/ ModelInvalid \/ ModelCalls
    \/ CallOverBudget \/ CallRejected \/ Authorize \/ NotApproved \/ EndTurn
    \/ RunLocal \/ OpenSession \/ ReadResponse \/ SessionFails

AgentNext == LoopNext \/ ServerReplies \/ ServerRequests \/ DeadlinePasses

\* What has no time-out: a local runner, which nothing pre-empts, and the user's
\* answer to an approval handler.
Waits ==
    \/ run.pc = "run" /\ This.name # "mcp"
    \/ /\ run.pc = "calls" /\ run.at <= Len(calls) /\ This.name \in AskTools
       /\ ~late /\ run.turn < MaxTurns /\ run.used < MaxCalls

\* The loop goes on while it waits for neither: any other call has a time-out.
TimelyStep == ~Waits /\ LoopNext
AgentSpec == AgentInit /\ [][AgentNext]_agentVars /\ WF_agentVars(TimelyStep)

-----------------------------------------------------------------------------
(* Properties *)

\* A tool runs only if the policy allows it or an approval of the call was
\* given, never beyond the budgets, and no session outlives the call it was
\* opened for.
ToolsUnderPolicy ==
    /\ \A i \in DOMAIN verdict : verdict[i].how \in {"none", "allow", "approved"}
    /\ Cardinality({i \in DOMAIN verdict : verdict[i].how # "none"}) <= run.used
    /\ run.used <= MaxCalls /\ run.turn <= MaxTurns
    /\ mcp.pc # "none" => run.pc = "mcp"

\* What the run reports as grounding was really delivered: the tool ran, under
\* the policy, and succeeded, and the model was called again afterwards.  A
\* tool's own error never becomes grounding
\* (test_mcp_application_error_is_not_promoted_to_success_or_grounding).
ErrorNeverGrounds ==
    \A i \in asked : verdict[i].ok /\ \E r \in run.results : r.id = i /\ r.turn < run.turn

\* Every run comes to an end, with a reason, or stays for ever in one call that
\* has no time-out, of a local runner or of the approval handler; the deadline
\* alone ends neither.
Ended == run.pc = "done" /\ run.status # "running"
EveryRunEnds == <>[]Waits \/ []<>Ended

\* What run_agent_loop promises of the tools it runs and of the grounding it reports.
AgentSafe == ToolsUnderPolicy /\ ErrorNeverGrounds
=============================================================================
