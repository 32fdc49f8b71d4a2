---------------------------- MODULE PremiumLaunch ---------------------------
(***************************************************************************)
(* One premium command of the assistant bridge: it reserves the key's      *)
(* budget, creates the provider's process, commits the reservation, works  *)
(* and cleans the process up.  Bridges on the same ledger run at once;     *)
(* between any two steps of one, time may pass, the clock may be set back, *)
(* others may use the ledger and the bridge itself may be killed.  Every   *)
(* bridge draws one lease, so a run is an element of Tokens.               *)
(* Sources: execute_process of assistant_bridge_runtime.py, with the       *)
(* callbacks that assistant_bridge.py's _execute_premium_command gives it; *)
(* the ledger is BridgeLedger.                                             *)
(***************************************************************************)
EXTENDS BridgeLedger

VARIABLES
    pc,         \* where each run is: reserve, popen, release, track, commit, work,
                \* cleanup, emergency or end
    process,    \* the provider process it created: none, alive or gone
    accounted,  \* premium_accounted
    reported    \* premium_calls_used of the run's result, None when it raised or died

launchVars == <<ledgerVars, pc, process, accounted, reported>>

LaunchInit ==
    /\ LedgerInit
    /\ pc = [r \in Tokens |-> "reserve"]
    /\ process = [r \in Tokens |-> "none"]
    /\ accounted = [r \in Tokens |-> FALSE]
    /\ reported = [r \in Tokens |-> None]

Go(r, phase) == pc' = [pc EXCEPT ![r] = phase] /\ UNCHANGED reported
Accounted(r, value) == accounted' = [accounted EXCEPT ![r] = value]

\* A result is returned; premium_calls_used is int(premium_accounted).
Return(r, value) ==
    /\ pc' = [pc EXCEPT ![r] = "end"]
    /\ reported' = [reported EXCEPT ![r] = IF value THEN 1 ELSE 0]

-----------------------------------------------------------------------------
(***************************************************************************)
(* reserve_premium_launch: refused, granted, or raised without a lease     *)
(* (before or after the file was replaced); an interrupt ends the run.     *)
(***************************************************************************)
ReserveLaunch(r) ==
    /\ pc[r] = "reserve"
    /\ UNCHANGED process
    /\ \E k \in Keys :
         \/ /\ Reserve(k, r)
            /\ Accounted(r, TRUE)
            /\ Go(r, "popen")
         \/ /\ ReserveLost(k, r)
            /\ UNCHANGED accounted
            /\ Return(r, FALSE) \/ Go(r, "end")
         \/ /\ ReserveRefused(k)
            /\ UNCHANGED accounted
            /\ Return(r, FALSE)

\* Reservation fails in the ledger, or the attestation before it does.
ReserveFails(r) ==
    /\ pc[r] = "reserve"
    /\ Return(r, FALSE)
    /\ UNCHANGED <<ledgerVars, process, accounted>>

(***************************************************************************)
(* subprocess.Popen: a process; an OSError; or another exception, which    *)
(* leaves the lease pending: before the fork, or after it and before the   *)
(* assignment that makes the process owned.                                *)
(***************************************************************************)
Popen(r) ==
    /\ pc[r] = "popen"
    /\ UNCHANGED <<ledgerVars, accounted>>
    /\ \/ /\ process' = [process EXCEPT ![r] = "alive"]
          /\ Go(r, "track") \/ Go(r, "end")
       \/ /\ UNCHANGED process
          /\ Go(r, "release") \/ Go(r, "end")

(***************************************************************************)
(* release_after_popen_failure: premium_accounted is cleared only when the *)
(* ledger call returned.  It may also raise, the file replaced or not.     *)
(***************************************************************************)
ReleaseLaunch(r) ==
    /\ pc[r] = "release"
    /\ UNCHANGED process
    /\ \/ /\ Release(leases[r].key, r)
          /\ \/ Accounted(r, FALSE) /\ Return(r, FALSE)
             \/ UNCHANGED accounted /\ Return(r, TRUE)
       \/ /\ SettleMissing(leases[r].key, r) \/ UNCHANGED ledgerVars
          /\ UNCHANGED accounted
          /\ Return(r, TRUE)

\* Fault: a process that cannot be tracked gives its lease back.
TrackReleases(r) ==
    /\ pc[r] = "track"
    /\ UNCHANGED <<process, accounted>>
    /\ \/ Go(r, "commit") /\ UNCHANGED ledgerVars
       \/ Go(r, "emergency") /\ Release(leases[r].key, r)

\* _ProcessTracker, and the check that the required observation works.
Track(r) ==
    /\ pc[r] = "track"
    /\ Go(r, "commit") \/ Go(r, "emergency")
    /\ UNCHANGED <<ledgerVars, process, accounted>>

\* commit_after_popen; it may raise, the file replaced or not.
CommitLaunch(r) ==
    /\ pc[r] = "commit"
    /\ UNCHANGED <<process, accounted>>
    /\ \/ Commit(leases[r].key, r) /\ (Go(r, "work") \/ Go(r, "emergency"))
       \/ /\ SettleMissing(leases[r].key, r) \/ UNCHANGED ledgerVars
          /\ Go(r, "emergency")

(***************************************************************************)
(* The attestation after process creation, the streams and the polling     *)
(* loop: a terminal code ends it, an exception sends it to the emergency   *)
(* cleanup.  The process may exit by itself.                               *)
(***************************************************************************)
Work(r) ==
    /\ pc[r] = "work"
    /\ process' = [process EXCEPT ![r] = "gone"] \/ UNCHANGED process
    /\ Go(r, "cleanup") \/ Go(r, "emergency")
    /\ UNCHANGED <<ledgerVars, accounted>>

\* _cleanup_owned_process: its report is returned even when it is not verified, or it raises.
Cleanup(r) ==
    /\ pc[r] = "cleanup"
    /\ process' = [process EXCEPT ![r] = "gone"] \/ UNCHANGED process
    /\ Return(r, accounted[r]) \/ Go(r, "end")
    /\ UNCHANGED <<ledgerVars, accounted>>

\* Fault: a launch that ends in the emergency cleanup is reported as no call.
EmergencyUncounted(r) ==
    /\ pc[r] = "emergency"
    /\ process' = [process EXCEPT ![r] = "gone"]
    /\ Return(r, FALSE)
    /\ UNCHANGED <<ledgerVars, accounted>>

\* _emergency_cleanup_process: verified, the error becomes a blocked result or is raised;
\* not verified, ProcessCleanupError is raised.
Emergency(r) ==
    /\ pc[r] = "emergency"
    /\ \/ process' = [process EXCEPT ![r] = "gone"] /\ (Return(r, accounted[r]) \/ Go(r, "end"))
       \/ UNCHANGED process /\ Go(r, "end")
    /\ UNCHANGED <<ledgerVars, accounted>>

\* The bridge is killed or interrupted; a process it created goes on.
Killed(r) ==
    /\ pc[r] /= "end"
    /\ Go(r, "end")
    /\ UNCHANGED <<ledgerVars, process, accounted>>

\* A process that nobody waits for exits.
Exits(r) ==
    /\ process[r] = "alive"
    /\ process' = [process EXCEPT ![r] = "gone"]
    /\ UNCHANGED <<ledgerVars, pc, accounted, reported>>

LaunchStep(r) ==
    \/ ReserveLaunch(r) \/ ReserveFails(r) \/ Popen(r) \/ ReleaseLaunch(r) \/ Track(r)
    \/ CommitLaunch(r) \/ Work(r) \/ Cleanup(r) \/ Emergency(r)

LaunchNext ==
    \/ \E r \in Tokens : LaunchStep(r) \/ Killed(r) \/ Exits(r)
    \/ (Tick \/ SetBack) /\ UNCHANGED <<pc, process, accounted, reported>>

LaunchSpec == LaunchInit /\ [][LaunchNext]_launchVars

-----------------------------------------------------------------------------
(***************************************************************************)
(* A provider process that was created, by whatever path its run ended, is *)
(* charged to a key until the retention after its reservation has passed:  *)
(* no interrupt, kill, failed commit or failed cleanup makes a call free.  *)
(***************************************************************************)
CreatedIsCharged ==
    \A r \in Tokens :
      /\ process[r] /= "none"
      /\ latest <= leases[r].at + Retention
      => /\ leases[r].state /= "released"
         /\ leases[r].key \in DOMAIN budgets
         /\ Load(budgets[leases[r].key]) >= 1

(***************************************************************************)
(* Two runs on one key that both passed their commit did so more than the  *)
(* retention apart, so one premium call per key and window does work.      *)
(***************************************************************************)
WorkSpaced ==
    [][\A r, q \in Tokens :
         /\ pc[r] = "commit" /\ pc'[r] = "work"
         /\ q /= r /\ leases[q] /= None /\ leases[q].state = "committed"
         /\ leases[q].key = leases[r].key
         => latest > leases[q].at + Retention]_launchVars

\* A result that reports no premium call belongs to a run that created no process.
ZeroMeansNone == \A r \in Tokens : reported[r] = 0 => process[r] = "none"

\* What a run's process and its result have to do with the ledger in every state.
LaunchSafe == CreatedIsCharged /\ ZeroMeansNone
=============================================================================
