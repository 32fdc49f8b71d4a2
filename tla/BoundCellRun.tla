---------------------------- MODULE BoundCellRun ----------------------------
(***************************************************************************)
(* run_bound_cell: one process runs one confirmed task on a resident model *)
(* server, at most once, inside a cooperative lease.  Every process draws  *)
(* one lease id, so processes are identified with the elements of Leases.  *)
(* Source: bound_cell_run.py, bound_cell_run_contracts.py and              *)
(* bound_cell_run_envelope.py; the lease store is CooperativeLease.        *)
(***************************************************************************)
EXTENDS CooperativeLease

CONSTANTS
    Bindings,   \* contents of configuration, request and artefacts on disk
    ModelSets,  \* identity sets the endpoint's /models may report
    Resident    \* those of them that contain the expected model

VARIABLES
    pc,        \* where each process is in run_bound_cell
    run,       \* its locals: receipt state and lease evidence
    request,   \* the inference request at the model server, per process
    binding,   \* what is on disk now
    models     \* what the endpoint reports now

worldVars == <<binding, models>>
runVars == <<leaseVars, pc, run, request, worldVars>>

ASSUME WorldAssumption == Resident \subseteq ModelSets /\ None \notin Bindings \cup ModelSets

Phases == {"idle", "resolve", "recheck", "admit", "probe", "arm", "post",
           "await", "settle", "reprobe", "reinspect", "done"}

ReasonCodes == {"precondition_failed", "adaptive_admission_blocked",
                "model_probe_failed", "transport_failed", "model_identity_changed",
                "binding_changed", "clock_invalid"}

LeaseErrors == {"adaptive_preview_blocked", "adaptive_preview_invalid",
                "lease_store_failed", "lease_transition_failed",
                "lease_release_failed"}

ReleaseStatuses == {"released", "released_cleanup_deferred", "already_absent",
                    "denied", "unknown_blocking"}

\* Python's None is none of the codes and statuses of the evidence.
ASSUME EvidenceAssumption ==
    None \notin LeaseErrors \cup ReleaseStatuses
                \cup {"acquired", "denied", "unknown_blocking", "applied", "refused"}

\* The local state dictionary and the nonlocal lease variables of run_bound_cell.
FreshRun == [binding |-> None, models |-> None, attempts |-> 0,
             delivery |-> "not_attempted", claim |-> FALSE, admission |-> None,
             transition |-> None, release |-> None, error |-> None,
             reasons |-> {}, status |-> None]

RunRecords == [binding    : Bindings \cup {None},
               models     : ModelSets \cup {None},
               attempts   : {0, 1},
               delivery   : DeliveryStatuses,
               claim      : BOOLEAN,
               admission  : {"acquired", "denied", "unknown_blocking", None},
               transition : {"applied", "refused", None},
               release    : ReleaseStatuses \cup {None},
               error      : LeaseErrors \cup {None},
               reasons    : SUBSET ReasonCodes,
               status     : {"blocked", "completed", "failed", "invalidated", None}]

RunTypeOK ==
    /\ LeaseTypeOK
    /\ pc \in [Leases -> Phases]
    /\ run \in [Leases -> RunRecords]
    /\ request \in [Leases -> {"none", "running", "done"}]
    /\ binding \in Bindings
    /\ models \in ModelSets

RunInit ==
    /\ LeaseInit
    /\ pc = [l \in Leases |-> "idle"]
    /\ run = [l \in Leases |-> FreshRun]
    /\ request = [l \in Leases |-> "none"]
    /\ binding \in Bindings
    /\ models \in Resident

-----------------------------------------------------------------------------
GoTo(l, phase, r) ==
    /\ pc' = [pc EXCEPT ![l] = phase]
    /\ run' = [run EXCEPT ![l] = r]

\* finish: a clock that moved backwards turns a completed run into an invalidated one.
Finish(l, r, status) ==
    \E clockOk \in BOOLEAN :
        LET reasons == r.reasons \cup (IF clockOk THEN {} ELSE {"clock_invalid"})
        IN  GoTo(l, "done",
                 [r EXCEPT !.reasons = reasons,
                           !.status = IF status = "completed" /\ reasons # {}
                                      THEN "invalidated" ELSE status])

Blocked(l, r, reason) == Finish(l, [r EXCEPT !.reasons = @ \cup {reason}], "blocked")

\* A process starts; its lease id is not in use.
Begin(l) ==
    /\ pc[l] = "idle"
    /\ FreshId(l)
    /\ request[l] # "running"
    /\ GoTo(l, "resolve", FreshRun)
    /\ request' = [request EXCEPT ![l] = "none"]
    /\ UNCHANGED <<leaseVars, worldVars>>

\* Confirmation and task checks, first resolution, inspection, opening the store.
ResolveTarget(l) ==
    /\ pc[l] = "resolve"
    /\ \/ GoTo(l, "recheck", [run[l] EXCEPT !.binding = binding])
       \/ Blocked(l, run[l], "precondition_failed")
       \/ Blocked(l, [run[l] EXCEPT !.binding = binding, !.error = "lease_store_failed"],
                  "adaptive_admission_blocked")
    /\ UNCHANGED <<leaseVars, request, worldVars>>

\* Second resolution: whatever changed since the first one blocks the run.
RecheckTarget(l) ==
    /\ pc[l] = "recheck"
    /\ \/ binding = run[l].binding /\ GoTo(l, "admit", run[l])
       \/ Blocked(l, run[l], "precondition_failed")
    /\ UNCHANGED <<leaseVars, request, worldVars>>

(***************************************************************************)
(* evaluate_and_acquire(evaluate_for_lease): snapshot, preview and claim   *)
(* are produced inside the store's transaction.                            *)
(***************************************************************************)
AdmitRun(l) ==
    /\ pc[l] = "admit"
    /\ \E c \in Claims, p \in Probes :
         LET status == AdmissionStatus(c, Scanned(p))
             r == [run[l] EXCEPT !.claim = TRUE, !.admission = status]
         IN  /\ EvaluateAndAcquire(l, c, p)
             /\ IF status = "acquired" THEN GoTo(l, "probe", r)
                ELSE Blocked(l, r, "adaptive_admission_blocked")
    /\ UNCHANGED <<request, worldVars>>

\* The interrupt arrives after the commit: the handle is lost, the row is not.
AdmitInterrupted(l) ==
    /\ pc[l] = "admit"
    /\ \E c \in Claims, p \in Probes : AcquireThenInterrupted(l, c, p)
    /\ Blocked(l, [run[l] EXCEPT !.error = "lease_store_failed"],
               "adaptive_admission_blocked")
    /\ UNCHANGED <<request, worldVars>>

\* The transaction rolled back; a blocked preview precedes the owner scan.
AdmitFailed(l) ==
    /\ pc[l] = "admit"
    /\ \E e \in {"adaptive_preview_blocked", "adaptive_preview_invalid",
                 "lease_store_failed"}, dead \in SUBSET Leases :
         /\ e = "adaptive_preview_blocked" => dead = {}
         /\ AcquireRolledBack(l, dead)
         /\ Blocked(l, [run[l] EXCEPT !.error = e],
                    IF e = "adaptive_preview_invalid" THEN "precondition_failed"
                    ELSE "adaptive_admission_blocked")
    /\ UNCHANGED <<request, worldVars>>

\* GET /models before delivery; a failure settles the untouched reservation.
ProbeModels(l) ==
    /\ pc[l] = "probe"
    /\ \/ models \in Resident /\ GoTo(l, "arm", [run[l] EXCEPT !.models = models])
       \/ GoTo(l, "settle", [run[l] EXCEPT !.reasons = @ \cup {"model_probe_failed"}])
    /\ UNCHANGED <<leaseVars, request, worldVars>>

\* Fault: the failed transition leaves no reason code.
NotArmedSilently(r) == [r EXCEPT !.error = "lease_transition_failed"]

NotArmed(r) == [r EXCEPT !.error = "lease_transition_failed",
                         !.reasons = @ \cup {"adaptive_admission_blocked"}]

\* arm_delivery returns a receipt, applied or refused.
ArmRun(l) ==
    /\ pc[l] = "arm"
    /\ ArmDelivery(l)
    /\ IF ArmApplies(l)
       THEN GoTo(l, "post", [run[l] EXCEPT !.transition = "applied"])
       ELSE GoTo(l, "settle", NotArmed([run[l] EXCEPT !.transition = "refused"]))
    /\ UNCHANGED <<request, worldVars>>

\* arm_delivery raises, before or after its commit.
ArmFailed(l) ==
    /\ pc[l] = "arm"
    /\ \/ ArmDelivery(l)
       \/ UNCHANGED leaseVars
    /\ GoTo(l, "settle", NotArmed(run[l]))
    /\ UNCHANGED <<request, worldVars>>

\* Fault: the POST is retried while its outcome is awaited.
PostWithRetry(l) ==
    /\ pc[l] \in {"post", "await"}
    /\ GoTo(l, "await", [run[l] EXCEPT !.attempts = @ + 1,
                                       !.delivery = "attempted_unknown"])
    /\ \E outcome \in {"running", "none"} : request' = [request EXCEPT ![l] = outcome]
    /\ UNCHANGED <<leaseVars, worldVars>>

\* The single POST: it reaches the server or the connection fails.
PostTask(l) ==
    /\ pc[l] = "post"
    /\ GoTo(l, "await", [run[l] EXCEPT !.attempts = 1,
                                       !.delivery = "attempted_unknown"])
    /\ \E outcome \in {"running", "none"} : request' = [request EXCEPT ![l] = outcome]
    /\ UNCHANGED <<leaseVars, worldVars>>

\* The model server finishes, whether or not anybody still waits for it.
ServerFinishes(l) ==
    /\ request[l] = "running"
    /\ request' = [request EXCEPT ![l] = "done"]
    /\ UNCHANGED <<leaseVars, pc, run, worldVars>>

\* A response arrived; its content may still be unacceptable.
ReceiveResponse(l) ==
    /\ pc[l] = "await"
    /\ request[l] = "done"
    /\ \E bad \in SUBSET {"transport_failed"} :
         GoTo(l, "settle", [run[l] EXCEPT !.delivery = "response_received",
                                          !.reasons = @ \cup bad])
    /\ UNCHANGED <<leaseVars, request, worldVars>>

\* Fault: a timeout is reported as a received, unacceptable response.
TimeoutIsResponse(l) ==
    /\ pc[l] = "await"
    /\ GoTo(l, "settle", [run[l] EXCEPT !.delivery = "response_received",
                                        !.reasons = @ \cup {"transport_failed"}])
    /\ UNCHANGED <<leaseVars, request, worldVars>>

\* Fault: the transport has no timeout, so only a failed connection ends the wait.
WaitForServer(l) ==
    /\ pc[l] = "await"
    /\ request[l] # "running"
    /\ GoTo(l, "settle", [run[l] EXCEPT !.reasons = @ \cup {"transport_failed"}])
    /\ UNCHANGED <<leaseVars, request, worldVars>>

\* Timeout, transport failure or interrupt: nobody knows whether the server works on.
DeliveryUnknown(l) ==
    /\ pc[l] = "await"
    /\ GoTo(l, "settle", [run[l] EXCEPT !.reasons = @ \cup {"transport_failed"}])
    /\ UNCHANGED <<leaseVars, request, worldVars>>

-----------------------------------------------------------------------------
\* settle_lease's table of the release statuses it accepts.
ExpectedRelease(delivery) ==
    IF delivery = "attempted_unknown" THEN {"unknown_blocking"}
    ELSE {"released", "released_cleanup_deferred"}

\* Fault: the release receipt is not compared with the expected status.
SettledUnchecked(l, r) ==
    IF r.attempts = 0 THEN Finish(l, r, "blocked") ELSE GoTo(l, "reprobe", r)

\* What follows settle_lease: an unattempted run ends blocked, an attempted one goes on.
Settled(l, r) ==
    LET ok == r.release \in ExpectedRelease(r.delivery)
        s  == IF ok THEN r
              ELSE [r EXCEPT !.error = "lease_release_failed",
                             !.reasons = @ \cup {"adaptive_admission_blocked"}]
    IN  IF r.attempts = 0 THEN Finish(l, s, "blocked") ELSE GoTo(l, "reprobe", s)

SettleLease(l) ==
    /\ pc[l] = "settle"
    /\ \E cleaned \in BOOLEAN :
         LET status == ReleaseStatus(l, run[l].delivery) IN
         /\ Release(l, run[l].delivery, cleaned)
         /\ Settled(l, [run[l] EXCEPT !.release =
                          IF status = "released" /\ ~cleaned
                          THEN "released_cleanup_deferred" ELSE status])
    /\ UNCHANGED <<request, worldVars>>

\* release raises, before or after its commit: no receipt.
SettleFailed(l) ==
    /\ pc[l] = "settle"
    /\ \/ Release(l, run[l].delivery, FALSE)
       \/ UNCHANGED leaseVars
    /\ Settled(l, run[l])
    /\ UNCHANGED <<request, worldVars>>

\* GET /models after delivery.
ReprobeModels(l) ==
    /\ pc[l] = "reprobe"
    /\ \E r \in {IF models = run[l].models THEN {} ELSE {"model_identity_changed"},
               {"model_probe_failed"}} :
         GoTo(l, "reinspect", [run[l] EXCEPT !.reasons = @ \cup r])
    /\ UNCHANGED <<leaseVars, request, worldVars>>

\* Second inspection and the verdict.
ReinspectBinding(l) ==
    /\ pc[l] = "reinspect"
    /\ \E unverified \in BOOLEAN :
         LET r == [run[l] EXCEPT !.reasons = @ \cup
                     (IF unverified \/ binding # run[l].binding
                      THEN {"binding_changed"} ELSE {})]
         IN  IF r.reasons \ {"transport_failed"} # {} THEN Finish(l, r, "invalidated")
             ELSE IF r.reasons # {} THEN Finish(l, r, "failed")
             ELSE Finish(l, r, "completed")
    /\ UNCHANGED <<leaseVars, request, worldVars>>

\* The process ends, after its run or in the middle of it.
ProcessEnds(l) ==
    /\ GoTo(l, "idle", FreshRun)
    /\ IF handle[l] = "live" THEN OwnerExit(l) ELSE UNCHANGED leaseVars
    /\ UNCHANGED <<request, worldVars>>

Exit(l) == pc[l] = "done" /\ ProcessEnds(l)
Crash(l) == pc[l] \notin {"idle", "done"} /\ ProcessEnds(l)

\* A rolled-back admission's finally block drops a probe lock.
DropProbeLock(l) == ReleaseProbeLock(l) /\ UNCHANGED <<pc, run, request, worldVars>>

\* Somebody edits the configuration or reloads the endpoint's models.
WorldChanges ==
    /\ \/ \E b \in Bindings : b # binding /\ binding' = b /\ UNCHANGED models
       \/ \E m \in ModelSets : m # models /\ models' = m /\ UNCHANGED binding
    /\ UNCHANGED <<leaseVars, pc, run, request>>

RunStep(l) ==
    \/ ResolveTarget(l) \/ RecheckTarget(l)
    \/ AdmitRun(l) \/ AdmitInterrupted(l) \/ AdmitFailed(l)
    \/ ProbeModels(l) \/ ArmRun(l) \/ ArmFailed(l) \/ PostTask(l)
    \/ ReceiveResponse(l) \/ DeliveryUnknown(l)
    \/ SettleLease(l) \/ SettleFailed(l)
    \/ ReprobeModels(l) \/ ReinspectBinding(l) \/ Exit(l)

RunNext ==
    \/ \E l \in Leases : \/ Begin(l) \/ RunStep(l) \/ Crash(l)
                         \/ DropProbeLock(l) \/ ServerFinishes(l)
    \/ WorldChanges

RunSpec == RunInit /\ [][RunNext]_runVars

\* Every call of a run is bounded (busy_timeout, transport timeout), so a process
\* that was started keeps stepping; nothing is assumed of servers or new runs.
FairRunSpec == RunSpec /\ \A l \in Leases : WF_runVars(RunStep(l))

-----------------------------------------------------------------------------
\* BoundCellRunReceipt.__post_init__: which receipts can be constructed.
ReceiptContract(r) ==
    /\ (r.status = "completed") = (r.reasons = {})
    /\ (r.status = "blocked") = (r.attempts = 0)
    /\ (r.attempts = 0) = (r.delivery = "not_attempted")
    /\ r.attempts = 1 => r.claim /\ r.binding # None /\ r.models # None
    /\ r.status = "completed" => r.delivery = "response_received"

\* BoundCellRunEnvelopeV2._validate_lease_lineage: which evidence can be published.
LineageContract(r) ==
    LET unattempted == r.status = "blocked" /\ r.attempts = 0
                         /\ r.delivery = "not_attempted"
        early == {"adaptive_preview_blocked", "adaptive_preview_invalid",
                  "lease_store_failed"}
    IN
    CASE ~r.claim -> /\ r.admission = None /\ r.transition = None /\ r.release = None
                     /\ unattempted
                     /\ r.error \in early \cup {None}
      [] r.claim /\ r.admission = None ->
                     /\ r.transition = None /\ r.release = None
                     /\ r.error = "lease_store_failed"
                     /\ r.attempts = 0 /\ r.delivery = "not_attempted"
      [] r.claim /\ r.admission \in {"denied", "unknown_blocking"} ->
                     /\ r.transition = None /\ r.release = None
                     /\ unattempted
                     /\ "adaptive_admission_blocked" \in r.reasons
                     /\ r.error = None
      [] r.claim /\ r.admission = "acquired" ->
                     /\ r.error \notin early
                     /\ (r.attempts = 1) = (r.transition = "applied")
                     /\ r.error = None => r.release # None
                     /\ r.error = "lease_transition_failed" => r.attempts = 0
                     /\ IF r.error = "lease_release_failed" THEN r.release # "released"
                        ELSE \/ r.release \in {None, "released",
                                              "released_cleanup_deferred"}
                             \/ /\ r.release = "unknown_blocking"
                                /\ r.delivery = "attempted_unknown"

(***************************************************************************)
(* Wherever a run ends, after a denied or failed admission, a refused arm, *)
(* an ambiguous delivery or a settlement that raised, finish can build the *)
(* receipt and the envelope: no combination of evidence a run can collect  *)
(* violates the contracts of bound_cell_run_contracts.py and               *)
(* bound_cell_run_envelope.py.                                             *)
(***************************************************************************)
EnvelopeConstructible ==
    \A l \in Leases :
        pc[l] = "done" => ReceiptContract(run[l]) /\ LineageContract(run[l])

(***************************************************************************)
(* A request that may still be running at the model server is covered by   *)
(* a fenced row of its own lease, also after the process that sent it gave *)
(* up, was interrupted or crashed, and whatever other admissions scan.     *)
(***************************************************************************)
InferenceCovered ==
    \A l \in Leases :
        request[l] = "running" => rowState[l] \in {"delivery_armed", "unknown_blocking"}

(***************************************************************************)
(* While an inference may be running, another process is admitted only if  *)
(* that inference's owner still appears alive (its sentinel is held);      *)
(* an abandoned inference blocks every later admission.                    *)
(***************************************************************************)
AbandonedInferenceBlocks ==
    [][\A k, l \in Leases :
          /\ rowState[k] = "absent" /\ rowState'[k] = "reserved"
          /\ request[l] = "running"
          => rowState'[l] = "delivery_armed" /\ sentinel[l] # "free"]_runVars

(***************************************************************************)
(* run_bound_cell never closes the whole domain: it reports an ambiguous   *)
(* delivery only while its own row is there, so release never reaches      *)
(* _quarantine_domain.                                                     *)
(***************************************************************************)
NeverQuarantined == ~quarantine

(***************************************************************************)
(* A published outcome is true of the server: a blocked run never sent the *)
(* task, and a completed one was answered and left no claim behind.        *)
(***************************************************************************)
OutcomeIsTrue ==
    \A l \in Leases :
        pc[l] = "done" =>
            /\ run[l].status = "blocked" => request[l] = "none"
            /\ run[l].status = "completed" => request[l] = "done" /\ l \notin Active

(***************************************************************************)
(* Without sentinel probe failures, a reservation that was never armed     *)
(* never turns into a permanent block, whoever crashes and whenever.       *)
(***************************************************************************)
UndeliveredNeverBlocks ==
    \A l \in Leases : rowState[l] = "reserved" => rowState'[l] # "unknown_blocking"

(***************************************************************************)
(* Every run that was started ends, whatever other processes, the server   *)
(* and the disk do meanwhile.                                              *)
(***************************************************************************)
Ended(l) == pc[l] = "idle"
RunEnds == \A l \in Leases : []<>Ended(l)

(***************************************************************************)
(* What is promised of the model server: the store always knows of an      *)
(* inference that may be running, without ever closing its domain.         *)
(***************************************************************************)
RunCovered == InferenceCovered /\ NeverQuarantined

\* What is promised of the receipt: it can be built, and it is true.
RunReported == EnvelopeConstructible /\ OutcomeIsTrue

\* What is promised of a run's end: it comes, and leaves nobody blocked.
RunLive == [][UndeliveredNeverBlocks]_runVars /\ RunEnds
=============================================================================
