------------------------- MODULE RuntimeSupervisor -------------------------
(***************************************************************************)
(* One foreground command (mymoe-runtime check or supervise) owns one      *)
(* llama-server for one exact endpoint: it leases the endpoint, launches   *)
(* the server on a vacant port, samples process, listener and application  *)
(* until it is ready, inspects it, tears it down and reports.  Every       *)
(* command draws one lease id, so sessions are the elements of Leases.     *)
(* Sources: runtime_supervisor.py (the session),                           *)
(* llama_cpp_runtime_supervisor.py (the adapter) and                       *)
(* runtime_supervisor_cli.py (the command); the store is                   *)
(* RuntimeLeaseStore.                                                      *)
(***************************************************************************)
EXTENDS RuntimeLeaseStore

CONSTANTS
    Commands,         \* the commands users issue, of {"check", "supervise"}
    MaxPolls,         \* start-up polls before the startup deadline
    LaunchInterrupts  \* may an interrupt hit between the fork and the assignment

VARIABLES
    pc,        \* where each session is
    sess,      \* its ProcessBoundRuntimeSession, adapter and CLI state
    target,    \* the endpoint its latest session is about
    server,    \* the process group it launched last
    listener   \* who listens at each endpoint: nobody, a stranger, a session's server

worldVars == <<server, listener>>
supVars == <<storeVars, pc, sess, target, worldVars>>

ASSUME CommandAssumption == Commands \subseteq {"check", "supervise"}
ASSUME PollAssumption == MaxPolls \in Nat
ASSUME InterruptAssumption == LaunchInterrupts \in BOOLEAN
ASSUME NoneAssumption == None \notin ActiveStates \cup {"stopped"}
ASSUME ListenerAssumption == None \notin Leases /\ "foreign" \notin Leases

BuildPhases == {"construct", "unbuild", "unbuilt"}
StartPhases == {"start", "vacancy", "launch", "forked", "observe", "sample", "resample",
                "undo", "undone", "restatic", "reinspect", "mark", "failing"}
StopPhases == {"stop", "teardown", "vacate", "settle", "unverified"}
Phases == {"idle", "ready", "report", "done"} \cup BuildPhases \cup StartPhases \cup StopPhases

\* Reason codes, grouped: the report and the final receipt tell two of them apart.
Reasons == {"binding_changed", "cleanup_unverified", "other"}

\* main's outcomes; interrupted_early is its KeyboardInterrupt branch.
Reports == {"ok", "failed", "interrupted", "cleanup_unverified", "interrupted_early"}

FreshSession(command) ==
    [command |-> command, state |-> "prepared", owned |-> FALSE, unknown |-> FALSE,
     polls |-> 0, pending |-> None, reasons |-> {}, ledgerFailed |-> FALSE,
     ledgerError |-> FALSE, primary |-> None, final |-> None, report |-> None]

SessionRecords ==
    [command      : Commands,
     state        : ActiveStates \cup {"stopped"},     \* session._state
     owned        : BOOLEAN,                           \* adapter._process is set
     unknown      : BOOLEAN,                           \* adapter._cleanup_unknown
     polls        : 0..MaxPolls,
     pending      : Reasons \cup {None},               \* reason of the raised error
     reasons      : SUBSET Reasons,                    \* session._reasons
     ledgerFailed : BOOLEAN,                           \* session._ledger_failed
     ledgerError  : BOOLEAN,                           \* ledger_error of stop
     primary      : {"failed", "interrupted", None},   \* the CLI's primary_error
     final        : {"stopped", "unknown_blocking", None},
     report       : Reports \cup {None}]

SessionTypeOK ==
    /\ StoreTypeOK
    /\ pc \in [Leases -> Phases]
    /\ sess \in [Leases -> SessionRecords \cup {None}]
    /\ target \in [Leases -> Endpoints \cup {None}]
    /\ server \in [Leases -> {"none", "launched", "listening", "gone"}]
    /\ listener \in [Endpoints -> Leases \cup {"foreign", None}]

SupInit ==
    /\ StoreInit
    /\ pc = [l \in Leases |-> "idle"]
    /\ sess = [l \in Leases |-> None]
    /\ target = [l \in Leases |-> None]
    /\ server = [l \in Leases |-> "none"]
    /\ listener \in [Endpoints -> {"foreign", None}]

-----------------------------------------------------------------------------
Running(l) == server[l] \in {"launched", "listening"}

GoTo(l, phase, r) ==
    /\ pc' = [pc EXCEPT ![l] = phase]
    /\ sess' = [sess EXCEPT ![l] = r]

\* An exception leaves start or inspect; RecordFailure handles it.
Raise(l, r, reason) == GoTo(l, "failing", [r EXCEPT !.pending = reason])

Reported(l, r, report) == GoTo(l, "done", [r EXCEPT !.report = report])

\* The store commits a transition and _append_transition records it.
Committed(l, to, phase, r) ==
    /\ Transition(l, to)
    /\ GoTo(l, phase, [r EXCEPT !.state = to])

\* Fault: any listener at the endpoint is taken for the launched process.
ObservedAnyOwner(l) == IF listener[target[l]] = None THEN None ELSE l

\* observe_endpoint_ownership at the session's endpoint.
Observed(l) == listener[target[l]]

(***************************************************************************)
(* _terminate_process succeeds: the whole group is gone and so is its      *)
(* listener.                                                               *)
(***************************************************************************)
Terminated(l) ==
    /\ server' = [server EXCEPT ![l] = "gone"]
    /\ listener' = [e \in Endpoints |-> IF listener[e] = l THEN None ELSE listener[e]]

-----------------------------------------------------------------------------
\* build_runtime_supervisor up to the lease: resolution and acquisition.
Build(l) ==
    /\ pc[l] = "idle"
    /\ FreshLease(l)
    /\ ~Running(l)
    /\ \E command \in Commands, e \in Endpoints :
         LET r == FreshSession(command) IN
         \/ \E p \in Probes :
              /\ Acquire(l, e, p)
              /\ target' = [target EXCEPT ![l] = e]
              /\ server' = [server EXCEPT ![l] = "none"]
              /\ IF Granted(e, Marked(p)) THEN GoTo(l, "construct", r)
                 ELSE Reported(l, r, "failed")
         \/ \E p \in Probes :
              /\ AcquireInterrupted(l, e, p)
              /\ Reported(l, r, "interrupted_early")
              /\ UNCHANGED <<target, server>>
         \/ /\ Reported(l, r, "failed")
            /\ UNCHANGED <<storeVars, target, server>>
    /\ UNCHANGED listener

\* The adapter and the session object are constructed, or that raises.
Construct(l) ==
    /\ pc[l] = "construct"
    /\ \E phase \in {"start", "unbuild"} : GoTo(l, phase, sess[l])
    /\ UNCHANGED <<storeVars, target, worldVars>>

\* build_runtime_supervisor gives the lease back in two transitions.
Unbuild(l) ==
    /\ pc[l] = "unbuild"
    /\ \/ Committed(l, "stopping", "unbuilt", sess[l])
       \/ TransitionFails(l, "stopping") /\ Reported(l, sess[l], "cleanup_unverified")
    /\ UNCHANGED <<target, worldVars>>

Unbuilt(l) ==
    /\ pc[l] = "unbuilt"
    /\ \/ Transition(l, "stopped") /\ Reported(l, sess[l], "failed")
       \/ TransitionFails(l, "stopped") /\ Reported(l, sess[l], "cleanup_unverified")
    /\ UNCHANGED <<target, worldVars>>

-----------------------------------------------------------------------------
\* start: the full static re-hash before the spawn.
StaticCheck(l) ==
    /\ pc[l] = "start"
    /\ \/ GoTo(l, "vacancy", sess[l])
       \/ Raise(l, sess[l], "binding_changed")
    /\ UNCHANGED <<storeVars, target, worldVars>>

\* adapter.start: a listener, an ambiguous or a failed observation refuses the launch.
CheckVacancy(l) ==
    /\ pc[l] = "vacancy"
    /\ \/ Observed(l) = None /\ GoTo(l, "launch", sess[l])
       \/ Raise(l, sess[l], "other")
    /\ UNCHANGED <<storeVars, target, worldVars>>

\* SubprocessLauncher.launch: the child exists once Popen has forked.
Launch(l) ==
    /\ pc[l] = "launch"
    /\ \/ /\ GoTo(l, "forked", sess[l])
          /\ server' = [server EXCEPT ![l] = "launched"]
       \/ Raise(l, sess[l], "other") /\ UNCHANGED server
    /\ UNCHANGED <<storeVars, target, listener>>

\* Popen returns, on_process_launched runs and the adapter keeps the process.
KeepProcess(l) ==
    /\ pc[l] = "forked"
    /\ GoTo(l, "observe", [sess[l] EXCEPT !.owned = TRUE])
    /\ UNCHANGED <<storeVars, target, worldVars>>

\* Anything that raises inside the start loop is cleaned up by the adapter itself.
LoopFails(l) == GoTo(l, "undo", [sess[l] EXCEPT !.pending = "other"])

\* One poll: the process is observed; the first time the row becomes starting.
ObserveProcess(l) ==
    /\ pc[l] = "observe"
    /\ \/ /\ Running(l) /\ sess[l].state = "prepared"
          /\ \/ Committed(l, "starting", "sample", sess[l])
             \/ TransitionFails(l, "starting") /\ LoopFails(l)
       \/ /\ Running(l) /\ sess[l].state # "prepared"
          /\ GoTo(l, "sample", sess[l])
          /\ UNCHANGED storeVars
       \/ LoopFails(l) /\ UNCHANGED storeVars
    /\ UNCHANGED <<target, worldVars>>

\* Fault: the start loop has no deadline.
SampleForever(l) ==
    /\ pc[l] = "sample"
    /\ \/ Observed(l) \in {None, l} /\ GoTo(l, "observe", sess[l])
       \/ Observed(l) = l /\ GoTo(l, "resample", sess[l])
       \/ LoopFails(l)
    /\ UNCHANGED <<storeVars, target, worldVars>>

\* Fault: the deadline is looked at one poll too late.
SamplePastDeadline(l) ==
    /\ pc[l] = "sample"
    /\ \/ /\ Observed(l) \in {None, l} /\ sess[l].polls <= MaxPolls
          /\ GoTo(l, "observe", [sess[l] EXCEPT !.polls = @ + 1])
       \/ Observed(l) = l /\ GoTo(l, "resample", sess[l])
       \/ LoopFails(l)
    /\ UNCHANGED <<storeVars, target, worldVars>>

\* Its listener is observed and the application probed; the loop goes on until the
\* deadline while nobody listens or the application is not ready.
SampleEndpoint(l) ==
    /\ pc[l] = "sample"
    /\ \/ /\ Observed(l) \in {None, l} /\ sess[l].polls < MaxPolls
          /\ GoTo(l, "observe", [sess[l] EXCEPT !.polls = @ + 1])
       \/ Observed(l) = l /\ GoTo(l, "resample", sess[l])
       \/ LoopFails(l)
    /\ UNCHANGED <<storeVars, target, worldVars>>

\* The same process and listener are observed again after the probes.
Resample(l) ==
    /\ pc[l] = "resample"
    /\ \/ Observed(l) = l /\ GoTo(l, "restatic", sess[l])
       \/ LoopFails(l)
    /\ UNCHANGED <<storeVars, target, worldVars>>

\* Fault: a failed cleanup of a failed start is reported as the start's failure only.
UndoForgets(l) ==
    /\ pc[l] = "undo"
    /\ \/ Terminated(l) /\ GoTo(l, "undone", sess[l])
       \/ /\ Raise(l, [sess[l] EXCEPT !.owned = FALSE], sess[l].pending)
          /\ UNCHANGED worldVars
    /\ UNCHANGED <<storeVars, target>>

\* The adapter's own cleanup of a failed start: the group, then the endpoint.
UndoLaunch(l) ==
    /\ pc[l] = "undo"
    /\ \/ Terminated(l) /\ GoTo(l, "undone", sess[l])
       \/ /\ Raise(l, [sess[l] EXCEPT !.unknown = TRUE], "cleanup_unverified")
          /\ UNCHANGED worldVars
    /\ UNCHANGED <<storeVars, target>>

UndoObserved(l) ==
    /\ pc[l] = "undone"
    /\ \/ Observed(l) = None
            /\ Raise(l, [sess[l] EXCEPT !.owned = FALSE], sess[l].pending)
       \/ Raise(l, [sess[l] EXCEPT !.unknown = TRUE], "cleanup_unverified")
    /\ UNCHANGED <<storeVars, target, worldVars>>

\* The re-hash after readiness, the inspection after the re-hash, the ready row.
StaticRecheck(l) ==
    /\ pc[l] = "restatic"
    /\ \/ GoTo(l, "reinspect", sess[l])
       \/ Raise(l, sess[l], "binding_changed")
    /\ UNCHANGED <<storeVars, target, worldVars>>

Reinspect(l) ==
    /\ pc[l] = "reinspect"
    /\ \/ Observed(l) = l /\ GoTo(l, "mark", sess[l])
       \/ Raise(l, sess[l], "other")
    /\ UNCHANGED <<storeVars, target, worldVars>>

MarkReady(l) ==
    /\ pc[l] = "mark"
    /\ \/ Committed(l, "ready", "ready", sess[l])
       \/ TransitionFails(l, "ready") /\ Raise(l, sess[l], "other")
    /\ UNCHANGED <<target, worldVars>>

\* session.inspect, once for check; supervise repeats it until a signal arrives.
Inspect(l) ==
    /\ pc[l] = "ready"
    /\ \/ Observed(l) = l /\ sess[l].command = "check" /\ GoTo(l, "stop", sess[l])
       \/ \E reason \in {"binding_changed", "other"} : Raise(l, sess[l], reason)
    /\ UNCHANGED <<storeVars, target, worldVars>>

\* SIGINT or SIGTERM under supervise sets the stop event.
StopRequested(l) ==
    /\ pc[l] = "ready"
    /\ sess[l].command = "supervise"
    /\ GoTo(l, "stop", sess[l])
    /\ UNCHANGED <<storeVars, target, worldVars>>

-----------------------------------------------------------------------------
\* _build_final_receipt for an unknown end: stop builds it "always", its exception
\* handler only while the ledger did not fail, and _record_failure "never".
UnknownReceipt(r, when) ==
    [r EXCEPT !.final = IF when = "always" \/ (when = "ledger_ok" /\ ~r.ledgerFailed)
                        THEN "unknown_blocking" ELSE @]

\* _ensure_unknown, then on to `phase` with the receipt that fits.
EnsureUnknown(l, phase, r0, when) ==
    LET r == [r0 EXCEPT !.reasons = @ \cup {"cleanup_unverified"}]
        kept == UnknownReceipt(r, when)
        lost == UnknownReceipt([r EXCEPT !.ledgerFailed = TRUE], when)
    IN
    CASE r.state = "unknown_blocking" -> GoTo(l, phase, kept) /\ UNCHANGED storeVars
      [] r.state = "stopped" -> GoTo(l, phase, lost) /\ UNCHANGED storeVars
      [] OTHER -> \/ Committed(l, "unknown_blocking", phase, kept)
                  \/ TransitionFails(l, "unknown_blocking") /\ GoTo(l, phase, lost)

\* _record_failure, and the command's except clause.
RecordFailure(l) ==
    LET reason == sess[l].pending
        r == [sess[l] EXCEPT !.reasons = @ \cup {reason}, !.pending = None,
                             !.primary = "failed"]
    IN
    /\ pc[l] = "failing"
    /\ IF r.unknown \/ reason = "cleanup_unverified"
       THEN EnsureUnknown(l, "stop", r, "never")
       ELSE \/ Committed(l, "revoked", "stop", r)
            \/ /\ TransitionFails(l, "revoked")
               /\ GoTo(l, "stop", [r EXCEPT !.ledgerFailed = TRUE])
    /\ UNCHANGED <<target, worldVars>>

-----------------------------------------------------------------------------
\* Fault: a stop whose first transition fails gives up before the teardown.
StopGivesUp(l) ==
    /\ pc[l] = "stop"
    /\ IF sess[l].unknown THEN EnsureUnknown(l, "report", sess[l], "always")
       ELSE \/ Committed(l, "stopping", "teardown", sess[l])
            \/ /\ TransitionFails(l, "stopping")
               /\ GoTo(l, "unverified", [sess[l] EXCEPT !.ledgerFailed = TRUE])
    /\ UNCHANGED <<target, worldVars>>

\* session.stop: a ledger failure is remembered and never skips the teardown.
BeginStop(l) ==
    /\ pc[l] = "stop"
    /\ IF sess[l].unknown THEN EnsureUnknown(l, "report", sess[l], "always")
       ELSE \/ Committed(l, "stopping", "teardown", sess[l])
            \/ /\ TransitionFails(l, "stopping")
               /\ GoTo(l, "teardown", [sess[l] EXCEPT !.ledgerFailed = TRUE,
                                                      !.ledgerError = TRUE])
    /\ UNCHANGED <<target, worldVars>>

\* adapter.stop: without a process there is nothing to do.
StopAdapter(l) ==
    /\ pc[l] = "teardown"
    /\ \/ /\ ~sess[l].owned
          /\ GoTo(l, "settle", sess[l])
          /\ UNCHANGED worldVars
       \/ /\ sess[l].owned
          /\ Terminated(l)
          /\ GoTo(l, "vacate", sess[l])
       \/ /\ sess[l].owned
          /\ GoTo(l, "unverified", [sess[l] EXCEPT !.unknown = TRUE])
          /\ UNCHANGED worldVars
    /\ UNCHANGED <<storeVars, target>>

\* The endpoint must be seen vacant after the teardown.
ObserveVacancy(l) ==
    /\ pc[l] = "vacate"
    /\ \/ Observed(l) = None /\ GoTo(l, "settle", [sess[l] EXCEPT !.owned = FALSE])
       \/ GoTo(l, "unverified", [sess[l] EXCEPT !.unknown = TRUE])
    /\ UNCHANGED <<storeVars, target, worldVars>>

\* Fault: the final receipt is built although the stopped row could not be written.
SettleAnyway(l) ==
    /\ pc[l] = "settle"
    /\ IF sess[l].ledgerError THEN EnsureUnknown(l, "report", sess[l], "always")
       ELSE \/ Committed(l, "stopped", "report", [sess[l] EXCEPT !.final = "stopped"])
            \/ /\ TransitionFails(l, "stopped")
               /\ GoTo(l, "report", [sess[l] EXCEPT !.final = "stopped"])
    /\ UNCHANGED <<target, worldVars>>

\* The last re-hash and the stopped row, or an unknown row after a ledger failure.
Settle(l) ==
    /\ pc[l] = "settle"
    /\ \E drift \in SUBSET {"binding_changed"} :
         LET r == [sess[l] EXCEPT !.reasons = @ \cup drift] IN
         IF r.ledgerError THEN EnsureUnknown(l, "report", r, "always")
         ELSE \/ Committed(l, "stopped", "report", [r EXCEPT !.final = "stopped"])
              \/ TransitionFails(l, "stopped") /\ GoTo(l, "unverified", r)
    /\ UNCHANGED <<target, worldVars>>

StopUnverified(l) ==
    /\ pc[l] = "unverified"
    /\ EnsureUnknown(l, "report", sess[l], "ledger_ok")
    /\ UNCHANGED <<target, worldVars>>

-----------------------------------------------------------------------------
\* Fault: only the final receipt is consulted, not the session's own doubts.
ReceiptSaysStopped(r) == r.final # None

\* _require_verified_cleanup with session.cleanup_unknown
CleanupVerified(r) ==
    /\ ~r.unknown /\ ~r.ledgerFailed /\ r.state # "unknown_blocking"
    /\ r.final = "stopped"

\* _run_check and _run_supervise after the stop
Report(l) ==
    LET r == sess[l] IN
    /\ pc[l] = "report"
    /\ Reported(l, r, IF ~CleanupVerified(r) THEN "cleanup_unverified"
                      ELSE IF r.primary # None THEN r.primary
                      ELSE IF "binding_changed" \in r.reasons THEN "failed"
                      ELSE "ok")
    /\ UNCHANGED <<storeVars, target, worldVars>>

-----------------------------------------------------------------------------
(***************************************************************************)
(* KeyboardInterrupt.  Under supervise the signal handlers replace it from *)
(* start to the stop request; it is BaseException, so no `except           *)
(* Exception` of session or adapter sees it.  Its effect depends on where  *)
(* it lands.                                                               *)
(***************************************************************************)
Interruptible(l) ==
    \/ pc[l] \in BuildPhases \cup StopPhases \cup {"report"}
    \/ /\ sess[l] # None /\ sess[l].command = "check"
       /\ pc[l] \in StartPhases \cup {"ready"}
       /\ pc[l] = "forked" => LaunchInterrupts

AfterInterrupt(l) ==
    IF pc[l] \in BuildPhases \cup {"report"} THEN Reported(l, sess[l], "interrupted_early")
    ELSE IF pc[l] \in StopPhases THEN Reported(l, sess[l], "cleanup_unverified")
    ELSE GoTo(l, "stop", [sess[l] EXCEPT !.primary = "interrupted", !.pending = None])

Interrupt(l) ==
    /\ Interruptible(l)
    /\ AfterInterrupt(l)
    /\ UNCHANGED <<storeVars, target, worldVars>>

\* The store transition a phase is about to make, None if it makes none.
NextTransition(l) ==
    LET r == sess[l]
        unknown == \/ pc[l] = "unverified"
                   \/ pc[l] \in {"failing", "stop"} /\ r.unknown
                   \/ pc[l] = "settle" /\ r.ledgerError
    IN
    CASE unknown -> IF r.state = "unknown_blocking" THEN None ELSE "unknown_blocking"
      [] ~unknown /\ pc[l] \in {"unbuild", "stop"} -> "stopping"
      [] ~unknown /\ pc[l] \in {"unbuilt", "settle"} -> "stopped"
      [] ~unknown /\ pc[l] = "failing" -> "revoked"
      [] ~unknown /\ pc[l] = "mark" -> "ready"
      [] ~unknown /\ pc[l] = "observe" /\ Running(l) /\ r.state = "prepared" -> "starting"
      [] OTHER -> None

\* The interrupt lands after a transition's commit and before it is recorded.
InterruptAfterCommit(l) ==
    /\ Interruptible(l)
    /\ Transition(l, NextTransition(l))
    /\ AfterInterrupt(l)
    /\ UNCHANGED <<target, worldVars>>

\* The command's process ends; the server is in a session of its own and lives on.
ProcessEnds(l) ==
    /\ pc' = [pc EXCEPT ![l] = "idle"]
    /\ sess' = [sess EXCEPT ![l] = None]
    /\ IF handle[l] # "none" THEN OwnerExit(l) ELSE UNCHANGED storeVars
    /\ UNCHANGED <<target, worldVars>>

Exit(l) == pc[l] = "done" /\ ProcessEnds(l)
Crash(l) == pc[l] \notin {"idle", "done"} /\ ProcessEnds(l)

-----------------------------------------------------------------------------
\* llama-server binds its port if that is free, and may exit at any time.
ServerListens(l) ==
    /\ server[l] = "launched"
    /\ listener[target[l]] = None
    /\ server' = [server EXCEPT ![l] = "listening"]
    /\ listener' = [listener EXCEPT ![target[l]] = l]
    /\ UNCHANGED <<storeVars, pc, sess, target>>

ServerExits(l) ==
    /\ Running(l)
    /\ Terminated(l)
    /\ UNCHANGED <<storeVars, pc, sess, target>>

\* Another program binds or leaves the port.
ForeignListener(e) ==
    /\ listener[e] \in {None, "foreign"}
    /\ listener' = [listener EXCEPT ![e] = IF @ = None THEN "foreign" ELSE None]
    /\ UNCHANGED <<storeVars, pc, sess, target, server>>

\* Another process reads the store.
StoreRead(p) == MarkAbandoned(p) /\ UNCHANGED <<pc, sess, target, worldVars>>

SessionStep(l) ==
    \/ Construct(l) \/ Unbuild(l) \/ Unbuilt(l)
    \/ StaticCheck(l) \/ CheckVacancy(l) \/ Launch(l) \/ KeepProcess(l)
    \/ ObserveProcess(l) \/ SampleEndpoint(l) \/ Resample(l)
    \/ UndoLaunch(l) \/ UndoObserved(l)
    \/ StaticRecheck(l) \/ Reinspect(l) \/ MarkReady(l) \/ Inspect(l)
    \/ RecordFailure(l)
    \/ BeginStop(l) \/ StopAdapter(l) \/ ObserveVacancy(l) \/ Settle(l)
    \/ StopUnverified(l) \/ Report(l) \/ Exit(l)

SupNext ==
    \/ \E l \in Leases : \/ Build(l) \/ SessionStep(l) \/ StopRequested(l)
                         \/ Interrupt(l) \/ InterruptAfterCommit(l) \/ Crash(l)
                         \/ ServerListens(l) \/ ServerExits(l)
    \/ \E e \in Endpoints : ForeignListener(e)
    \/ \E p \in Probes : StoreRead(p)

SupSpec == SupInit /\ [][SupNext]_supVars

\* Every wait of a session is bounded (busy_timeout, request, startup and shutdown
\* timeouts), so a session that was started keeps stepping; nothing is assumed of
\* servers, strangers, signals or new sessions.
Bounded(l) == SessionStep(l) /\ (pc[l] = "ready" => sess[l].command = "check")

FairSupSpec == SupSpec /\ \A l \in Leases : WF_supVars(Bounded(l))

-----------------------------------------------------------------------------
(***************************************************************************)
(* As long as a launched server may be running, the lease row of its       *)
(* session is there and keeps the endpoint reserved, whoever crashes, is   *)
(* interrupted or marks rows meanwhile.                                    *)
(***************************************************************************)
ServerCovered ==
    \A l \in Leases : Running(l) => lease[l] # "absent" /\ endpoint[l] = target[l]

(***************************************************************************)
(* A command that does not say cleanup_unverified (or that it was          *)
(* interrupted before cleanup) left neither a lease row nor a running      *)
(* server behind, whatever failed during start, inspection and stop.       *)
(***************************************************************************)
VerifiedMeansClean ==
    \A l \in Leases :
        pc[l] = "done" /\ sess[l].report \in {"ok", "failed", "interrupted"}
            => lease[l] = "absent" /\ ~Running(l)

(***************************************************************************)
(* A store that fails during stop never keeps the teardown from being      *)
(* tried: a command that was not interrupted ends with its server running  *)
(* only if terminating it or observing the endpoint failed.                *)
(***************************************************************************)
TeardownNotSkipped ==
    \A l \in Leases : pc[l] = "report" /\ Running(l) => sess[l].unknown

(***************************************************************************)
(* A ready row never describes a server that has not opened its listener:  *)
(* a stranger that takes the port between the vacancy check and the bind   *)
(* is never mistaken for the launched process.                             *)
(***************************************************************************)
ReadyServerListened ==
    \A l \in Leases : lease[l] = "ready" => server[l] \in {"listening", "gone"}

(***************************************************************************)
(* The final receipt and the row agree: stopped means that the row is      *)
(* gone, unknown_blocking that it is still there.                          *)
(***************************************************************************)
ReceiptMatchesRow ==
    \A l \in Leases :
        pc[l] \in {"report", "done"} /\ sess[l] # None =>
            /\ sess[l].final = "stopped" => lease[l] = "absent"
            /\ sess[l].final = "unknown_blocking" => lease[l] # "absent"

(***************************************************************************)
(* A command that was started ends, whatever the server, strangers and     *)
(* other commands do; only supervise may stay, once its server is ready.   *)
(***************************************************************************)
AtRest(l) == pc[l] = "idle" \/ (pc[l] = "ready" /\ sess[l].command = "supervise")
SessionEnds == \A l \in Leases : []<>AtRest(l)

(***************************************************************************)
(* What docs/process-bound-runtime-supervisor.md says of the state         *)
(* stopped: the exit of the owned process was observed.                    *)
(***************************************************************************)
StoppedMeansExited ==
    \A l \in Leases :
        pc[l] \in {"report", "done"} /\ sess[l].final = "stopped" => ~Running(l)

(***************************************************************************)
(* What a session, its server, its row and its receipt have to do with     *)
(* each other in every state.                                              *)
(***************************************************************************)
SupervisorSafe ==
    /\ SessionTypeOK /\ ServerCovered /\ VerifiedMeansClean /\ TeardownNotSkipped
    /\ ReadyServerListened /\ ReceiptMatchesRow
=============================================================================
