---------------------------- MODULE TwoPhaseApply ----------------------------
(***************************************************************************)
(* One staged candidate of the assistant bridge: the rows the workflow     *)
(* store keeps of it, and the processes that carry it into the workspace   *)
(* (apply_resume) or clean up after one that died (recover_if_applying).   *)
(* One step is one database transaction or one stretch under the workspace *)
(* lock; what a process read before is what it goes on with.  A process    *)
(* may die anywhere, the wall clock may be set back, and somebody else may *)
(* edit the workspace.  The transaction on the files is that of module     *)
(* WorkspaceTransaction, seen as a whole: the workspace holds the source,  *)
(* the candidate, something in between ("mixed") or somebody's edit.  The  *)
(* candidate differs from the source.                                      *)
(* Source: assistant_bridge_workflow_store.py, assistant_bridge_two_phase  *)
(* .py, assistant_bridge_two_phase_recovery.py.                            *)
(***************************************************************************)
EXTENDS Integers, FiniteSets

CONSTANTS
    Verifiers, Quorum,    \* the verification policy of the binding
    Life, AttLife, PlanLife,  \* lifetimes of the candidate, an attestation and a plan
    MaxTime, MaxPlans,
    Resumers, Recoverers,  \* processes in apply_resume and in recover_if_applying
    MaxTrouble,            \* crashes and edits, together
    None

VARIABLES
    now,        \* the wall clock
    wf,         \* the workflow's row
    att,        \* verifier -> when its current attestation expires
    plan,       \* plan -> its confirmation; a plan's number names its transaction
    recovered,  \* transactions in apply_recoveries
    ws,         \* what the workspace holds
    dir,        \* transaction -> status of the journal in its directory
    clean,      \* transaction -> how far its removal is
    lock,       \* the process that holds the workspace lock
    pc, job,    \* per process: its next step; what it has read
    trouble     \* crashes and edits so far

dbVars == <<wf, att, plan, recovered>>
fsVars == <<ws, dir, clean, lock>>
twoVars == <<now, wf, att, plan, recovered, ws, dir, clean, lock, pc, job, trouble>>

Procs == Resumers \cup Recoverers
Plans == 1..MaxPlans

ASSUME NobodyAssumption == None \notin Procs /\ None \notin Plans

NoPlan == [issued |-> None, expires |-> 0, consumed |-> FALSE, revoked |-> FALSE]
NoJob == [tx |-> None, status |-> None, saw |-> None, replay |-> FALSE, keep |-> FALSE]

\* create_workflow: a staged candidate, nothing attested, at time 0.
TwoInit ==
    /\ now = 0
    /\ wf = [status |-> "staged", tx |-> None, last |-> 0]
    /\ att = [v \in Verifiers |-> None]
    /\ plan = [k \in Plans |-> NoPlan]
    /\ recovered = {}
    /\ ws = "source"
    /\ dir = [k \in Plans |-> "none"]
    /\ clean = [k \in Plans |-> "none"]
    /\ lock = None
    /\ pc = [c \in Procs |-> "idle"] /\ job = [c \in Procs |-> NoJob]
    /\ trouble = 0

-----------------------------------------------------------------------------
Active(t) == {v \in Verifiers : att[v] /= None /\ t <= att[v]}
ClockOK == now >= wf.last
Quorate == Cardinality(Active(now)) >= Quorum
Alive == now <= Life

\* _recovered_status and _refresh_attestation_status: what the attestations still valid make it.
Standing == IF Quorate THEN "ready" ELSE IF Active(now) /= {} THEN "attested" ELSE "staged"
Open(status) == status \in {"staged", "attested", "ready"}
Refreshed(r) ==
    IF Open(r.status) /\ r.status /= Standing
      THEN [r EXCEPT !.status = Standing, !.last = now] ELSE r

\* find_workflow: a read that also expires the workflow or refreshes its status.
Found ==
    IF Open(wf.status) /\ ~Alive THEN [wf EXCEPT !.status = "expired", !.last = now]
    ELSE Refreshed(wf)

\* read_applied_replay, _validate_recovery_transaction_binding: the consumed plan of a transaction.
Bound(tx) == tx /= None /\ plan[tx].consumed /\ ~plan[tx].revoked

\* _journal_exists and _has_recovery_journal
HasJournal(tx) == dir[tx] /= "none"

-----------------------------------------------------------------------------
\* record_verified_attestation: a verifier has one live attestation; an expired one is superseded.
RecordAttestation(v) ==
    /\ ClockOK /\ Alive /\ Open(wf.status)
    /\ v \notin Active(now)
    /\ att' = [att EXCEPT ![v] = IF now + AttLife < Life THEN now + AttLife ELSE Life]
    /\ LET count == Cardinality(Active(now) \cup {v})
       IN wf' = [wf EXCEPT !.status = IF count >= Quorum THEN "ready" ELSE "attested",
                           !.last = now]
    /\ UNCHANGED <<now, plan, recovered, fsVars, pc, job, trouble>>

\* quorum_expires_at: the last moment at which enough attestations are valid.
QuorumEnd == CHOOSE t \in 0..Life : /\ Cardinality(Active(t)) >= Quorum
                                    /\ \A u \in (t+1)..Life : Cardinality(Active(u)) < Quorum
Least(S) == CHOOSE t \in S : \A u \in S : t <= u

\* issue_resume_plan: the new plan revokes the others that were not used.
IssuePlan(k) ==
    /\ ClockOK /\ Alive
    /\ plan[k].issued = None /\ \A j \in 1..(k-1) : plan[j].issued /= None
    /\ Refreshed(wf).status = "ready" /\ Quorate
    /\ ws = "source"
    /\ plan' = [j \in Plans |->
                  IF j = k THEN [NoPlan EXCEPT !.issued = now,
                                   !.expires = Least({now + PlanLife, Life, QuorumEnd})]
                  ELSE [plan[j] EXCEPT !.revoked = @ \/ (plan[j].issued /= None /\ ~plan[j].consumed)]]
    /\ wf' = [Refreshed(wf) EXCEPT !.last = now]
    /\ UNCHANGED <<now, att, recovered, fsVars, pc, job, trouble>>

\* plan_resume on a workspace that has drifted.
PlanConflict ==
    /\ ClockOK /\ ws /= "source"
    /\ Found.status \notin {"applied", "conflicted"}
    /\ wf' = [Found EXCEPT !.status = "conflicted", !.tx = None, !.last = now]
    /\ UNCHANGED <<now, att, plan, recovered, fsVars, pc, job, trouble>>

-----------------------------------------------------------------------------
At(c, label) == pc[c] = label
Goto(c, label) == pc' = [pc EXCEPT ![c] = label]
Move(c, label) == Goto(c, label) /\ UNCHANGED <<now, job, trouble>>
Leave(c) == /\ pc' = [pc EXCEPT ![c] = "idle"] /\ job' = [job EXCEPT ![c] = NoJob]
            /\ UNCHANGED <<now, trouble>>
NoDb == UNCHANGED dbVars
NoFs == UNCHANGED fsVars
Free == lock = None
Tx(c) == job[c].tx

(***************************************************************************)
(* apply_resume                                                            *)
(***************************************************************************)
ResumeStart(c) ==
    /\ c \in Resumers /\ At(c, "idle") /\ ClockOK
    /\ \E k \in Plans :
         /\ plan[k].issued /= None
         /\ wf' = Found
         /\ LET stuck == wf'.status = "applying" /\ HasJournal(wf'.tx)
                ready == Open(wf'.status) => Alive /\ Quorate
            IN /\ pc' = [pc EXCEPT ![c] = IF stuck THEN "recover"
                                          ELSE IF ready THEN "look" ELSE "idle"]
               /\ job' = [job EXCEPT ![c] =
                            IF ~stuck /\ ~ready THEN NoJob
                            ELSE [NoJob EXCEPT !.tx = IF stuck THEN wf'.tx ELSE k,
                                               !.status = wf'.status]]
    /\ UNCHANGED <<now, att, plan, recovered, trouble>> /\ NoFs

\* The snapshot of the workspace that the rest of apply_resume decides on.
Look(c) ==
    /\ At(c, "look")
    /\ job' = [job EXCEPT ![c].saw = ws]
    /\ Goto(c, IF job[c].status \notin {"applying", "applied"} /\ ws /= "source"
                 THEN "conflict" ELSE "consume")
    /\ UNCHANGED <<now, trouble>> /\ NoDb /\ NoFs

\* Mutant of Consume: a revoked plan is as good as any.
ConsumeRevoked(c) ==
    /\ At(c, "consume")
    /\ LET k == Tx(c)
           r == IF wf.status \in {"applying", "applied"} THEN wf ELSE Refreshed(wf)
           inFlight == r.status \in {"applying", "applied"}
       IN
       IF ~ClockOK THEN Leave(c) /\ NoDb
       ELSE IF plan[k].consumed /\ inFlight
         THEN /\ IF r.tx /= k THEN Leave(c)
                 ELSE /\ Goto(c, IF r.status = "applied" THEN "cleanup" ELSE "decide")
                      /\ job' = [job EXCEPT ![c].replay = TRUE, ![c].status = r.status]
                      /\ UNCHANGED <<now, trouble>>
              /\ NoDb
       ELSE IF plan[k].consumed /\ k \in recovered
         THEN Leave(c) /\ wf' = r /\ UNCHANGED <<att, plan, recovered>>
       ELSE IF /\ r.status = "ready" /\ Quorate /\ Alive
               /\ ~plan[k].consumed
               /\ plan[k].issued <= now /\ now <= plan[k].expires
         THEN /\ plan' = [plan EXCEPT ![k].consumed = TRUE]
              /\ wf' = [status |-> "applying", tx |-> k, last |-> now]
              /\ job' = [job EXCEPT ![c].status = "applying"]
              /\ Goto(c, "decide")
              /\ UNCHANGED <<now, att, recovered, trouble>>
       ELSE Leave(c) /\ NoDb  \* the refresh is rolled back with the transaction
    /\ NoFs

\* Mutant of Consume: a plan whose transaction was rolled back may be used again.
ConsumeAgain(c) ==
    /\ At(c, "consume")
    /\ LET k == Tx(c)
           r == IF wf.status \in {"applying", "applied"} THEN wf ELSE Refreshed(wf)
           inFlight == r.status \in {"applying", "applied"}
       IN
       IF ~ClockOK THEN Leave(c) /\ NoDb
       ELSE IF plan[k].consumed /\ inFlight
         THEN /\ IF r.tx /= k THEN Leave(c)
                 ELSE /\ Goto(c, IF r.status = "applied" THEN "cleanup" ELSE "decide")
                      /\ job' = [job EXCEPT ![c].replay = TRUE, ![c].status = r.status]
                      /\ UNCHANGED <<now, trouble>>
              /\ NoDb
       ELSE IF FALSE
         THEN Leave(c) /\ wf' = r /\ UNCHANGED <<att, plan, recovered>>
       ELSE IF /\ r.status = "ready" /\ Quorate /\ Alive
               /\ ~plan[k].revoked
               /\ plan[k].issued <= now /\ now <= plan[k].expires
         THEN /\ plan' = [plan EXCEPT ![k].consumed = TRUE]
              /\ wf' = [status |-> "applying", tx |-> k, last |-> now]
              /\ job' = [job EXCEPT ![c].status = "applying"]
              /\ Goto(c, "decide")
              /\ UNCHANGED <<now, att, recovered, trouble>>
       ELSE Leave(c) /\ NoDb  \* the refresh is rolled back with the transaction
    /\ NoFs

\* consume_resume_confirmation
Consume(c) ==
    /\ At(c, "consume")
    /\ LET k == Tx(c)
           r == IF wf.status \in {"applying", "applied"} THEN wf ELSE Refreshed(wf)
           inFlight == r.status \in {"applying", "applied"}
       IN
       IF ~ClockOK THEN Leave(c) /\ NoDb
       ELSE IF plan[k].consumed /\ inFlight
         THEN /\ IF r.tx /= k THEN Leave(c)
                 ELSE /\ Goto(c, IF r.status = "applied" THEN "cleanup" ELSE "decide")
                      /\ job' = [job EXCEPT ![c].replay = TRUE, ![c].status = r.status]
                      /\ UNCHANGED <<now, trouble>>
              /\ NoDb
       ELSE IF plan[k].consumed /\ k \in recovered
         THEN Leave(c) /\ wf' = r /\ UNCHANGED <<att, plan, recovered>>
       ELSE IF /\ r.status = "ready" /\ Quorate /\ Alive
               /\ ~plan[k].revoked /\ ~plan[k].consumed
               /\ plan[k].issued <= now /\ now <= plan[k].expires
         THEN /\ plan' = [plan EXCEPT ![k].consumed = TRUE]
              /\ wf' = [status |-> "applying", tx |-> k, last |-> now]
              /\ job' = [job EXCEPT ![c].status = "applying"]
              /\ Goto(c, "decide")
              /\ UNCHANGED <<now, att, recovered, trouble>>
       ELSE Leave(c) /\ NoDb  \* the refresh is rolled back with the transaction
    /\ NoFs

\* What to do with the authority, by the journal now and the snapshot taken before.
Decide(c) ==
    /\ At(c, "decide")
    /\ Move(c, CASE job[c].replay /\ HasJournal(Tx(c)) -> "recover"
                 [] job[c].replay /\ ~HasJournal(Tx(c)) /\ job[c].saw = "candidate" -> "mark"
                 [] job[c].replay /\ ~HasJournal(Tx(c)) /\ job[c].saw = "source" -> "reset"
                 [] ~job[c].replay /\ job[c].saw = "source" -> "apply"
                 [] OTHER -> "conflict")
    /\ NoDb /\ NoFs

\* Mutant of ApplyBegin: the files are written before the journal.
ApplyUnjournaled(c) ==
    /\ At(c, "apply") /\ Free /\ ws = job[c].saw
    /\ lock' = c /\ ws' = "mixed" /\ UNCHANGED <<dir, clean>> /\ Move(c, "write") /\ NoDb

\* apply_changeset: under the lock, in a new transaction directory, on an unchanged source.
ApplyBegin(c) ==
    /\ At(c, "apply")
    /\ IF Free /\ ~HasJournal(Tx(c)) /\ ws = job[c].saw
         THEN /\ lock' = c /\ ws' = "mixed" /\ dir' = [dir EXCEPT ![Tx(c)] = "open"]
              /\ UNCHANGED clean /\ Move(c, "write")
         ELSE Move(c, "failed") /\ NoFs
    /\ NoDb

\* It commits, it rolls back, or an edit keeps it from either.
ApplyWrite(c) ==
    /\ At(c, "write")
    /\ \/ /\ ws = "mixed"
          /\ ws' = "candidate" /\ dir' = [dir EXCEPT ![Tx(c)] = "committed"]
          /\ UNCHANGED <<clean, lock>> /\ Move(c, "finish")
       \/ /\ ws' = IF ws = "mixed" THEN "source" ELSE ws
          /\ dir' = [dir EXCEPT ![Tx(c)] = IF ws = "mixed" THEN "rolled_back" ELSE "open"]
          /\ lock' = None /\ UNCHANGED clean /\ Move(c, "failed")
    /\ NoDb

CanMark(tx) == ClockOK /\ (wf.status \in {"applying", "applied"} /\ wf.tx = tx)
Marked == [wf EXCEPT !.status = "applied", !.last = IF wf.status = "applied" THEN @ ELSE now]

\* finish_apply, the callback that runs before the lock is released.
ApplyFinish(c) ==
    /\ At(c, "finish")
    /\ IF CanMark(Tx(c)) THEN wf' = Marked /\ Move(c, "cleanup")
                         ELSE UNCHANGED wf /\ Move(c, "failed")
    /\ lock' = None
    /\ UNCHANGED <<att, plan, recovered, ws, dir, clean>>

\* The exception handler around apply_changeset.
ApplyFailed(c) ==
    /\ At(c, "failed")
    /\ Move(c, IF HasJournal(Tx(c)) THEN "recover"
               ELSE IF ws = "source" THEN "reset" ELSE "conflict")
    /\ NoDb /\ NoFs

(***************************************************************************)
(* _recover_and_require_confirmation, and the same two steps as            *)
(* recover_if_applying takes them: there the journal is kept, an error     *)
(* just ends the process, and nothing waits.                               *)
(***************************************************************************)
Trouble(c) == IF job[c].keep THEN Leave(c) ELSE Move(c, "recoverFailed")

\* finish_committed_workspace_transaction, with the database finish under the lock.
RecoverFinish(c) ==
    /\ At(c, "recover")
    /\ IF ~Free
         THEN (IF job[c].keep THEN Leave(c) ELSE Move(c, "await")) /\ NoDb
       ELSE IF dir[Tx(c)] /= "committed" /\ HasJournal(Tx(c)) THEN Move(c, "rollback") /\ NoDb
       ELSE IF ~HasJournal(Tx(c)) \/ ws /= "candidate" THEN Trouble(c) /\ NoDb
       ELSE IF CanMark(Tx(c))
         THEN wf' = Marked /\ UNCHANGED <<att, plan, recovered>> /\ Move(c, "cleanup")
       ELSE Leave(c) /\ NoDb
    /\ NoFs

\* recover_workspace_transaction: back to the source, or refused; a journal of what was
\* undone before undoes nothing more.
RecoverRollback(c) ==
    /\ At(c, "rollback")
    /\ IF ~Free THEN (IF job[c].keep THEN Leave(c) ELSE Move(c, "await")) /\ NoFs
       ELSE IF \/ ~HasJournal(Tx(c)) \/ dir[Tx(c)] = "committed"
               \/ ws /= "source" /\ ~(ws = "mixed" /\ dir[Tx(c)] = "open")
         THEN Trouble(c) /\ NoFs
       ELSE /\ ws' = "source"
            /\ dir' = [dir EXCEPT ![Tx(c)] = IF job[c].keep THEN "recovered" ELSE "none"]
            /\ UNCHANGED <<clean, lock>> /\ Move(c, "restored")
    /\ NoDb

\* The snapshot after the rollback.
RecoverCheck(c) ==
    /\ At(c, "restored")
    /\ Move(c, IF ws = "source" \/ job[c].keep THEN "reset" ELSE "conflict")
    /\ NoDb /\ NoFs

RecoverFailed(c) ==
    /\ At(c, "recoverFailed")
    /\ IF ~ClockOK \/ wf.status = "applied" THEN Leave(c) ELSE Move(c, "conflict")
    /\ NoDb /\ NoFs

\* _await_concurrent_apply: polls until the other finishes, the state changes or time is up.
Await(c) ==
    /\ At(c, "await")
    /\ Leave(c) /\ NoDb /\ NoFs

\* reset_after_recovery and reset_applying_after_recovery
Reset(c) ==
    /\ At(c, "reset")
    /\ IF /\ ClockOK /\ wf.status = "applying" /\ wf.tx = Tx(c) /\ Tx(c) \notin recovered
         THEN /\ recovered' = recovered \cup {Tx(c)}
              /\ wf' = [status |-> IF Alive THEN Standing ELSE "expired", tx |-> None,
                        last |-> now]
              /\ UNCHANGED <<att, plan>>
              /\ IF job[c].keep THEN Move(c, "cleanup") ELSE Leave(c)
         ELSE /\ wf' = IF ClockOK /\ Tx(c) \in recovered THEN Refreshed(wf) ELSE wf
              /\ UNCHANGED <<att, plan, recovered>>
              /\ Leave(c)
    /\ NoFs

\* Mutant of Conflict: any workflow becomes conflicted.
ConflictAny(c) ==
    /\ At(c, "conflict")
    /\ wf' = IF ClockOK THEN [status |-> "conflicted", tx |-> None, last |-> now] ELSE wf
    /\ Leave(c) /\ UNCHANGED <<att, plan, recovered>> /\ NoFs

\* mark_conflicted
Conflict(c) ==
    /\ At(c, "conflict")
    /\ wf' = IF ClockOK /\ wf.status \notin {"applied", "conflicted"}
               THEN [status |-> "conflicted", tx |-> None, last |-> now] ELSE wf
    /\ Leave(c) /\ UNCHANGED <<att, plan, recovered>> /\ NoFs

\* _finalize_applied without a callback: the candidate was found in place.
Mark(c) ==
    /\ At(c, "mark")
    /\ IF CanMark(Tx(c)) THEN wf' = Marked /\ Move(c, "cleanup") ELSE UNCHANGED wf /\ Leave(c)
    /\ UNCHANGED <<att, plan, recovered>> /\ NoFs

(***************************************************************************)
(* _cleanup_transaction_state, one durable step at a time: a marker, the   *)
(* directory renamed, removed, the marker removed.  A later call takes it  *)
(* up where a dead process left it; an error is swallowed.                 *)
(***************************************************************************)
Cleanup(c) ==
    /\ At(c, "cleanup")
    /\ LET k == Tx(c)
           final == IF wf.status = "applied" THEN "committed" ELSE "recovered"
           step(stage) == clean' = [clean EXCEPT ![k] = stage] /\ UNCHANGED <<ws, lock>>
       IN
       IF ~Free \/ (clean[k] \in {"none", "marked"} /\ dir[k] \notin {"none", final})
         THEN Leave(c) /\ NoFs
       ELSE CASE clean[k] = "none" /\ HasJournal(k) ->
                   step("marked") /\ UNCHANGED dir /\ UNCHANGED <<now, pc, job, trouble>>
              [] clean[k] = "marked" /\ HasJournal(k) ->
                   /\ step("moved") /\ dir' = [dir EXCEPT ![k] = "none"]
                   /\ UNCHANGED <<now, pc, job, trouble>>
              [] clean[k] = "moved" ->
                   step("removed") /\ UNCHANGED dir /\ UNCHANGED <<now, pc, job, trouble>>
              [] clean[k] \in {"marked", "removed"} /\ ~HasJournal(k) ->
                   step("none") /\ UNCHANGED dir /\ Leave(c)
              [] OTHER -> Leave(c) /\ NoFs
    /\ NoDb

-----------------------------------------------------------------------------
(***************************************************************************)
(* recover_if_applying: finish or undo a transaction in flight, or take    *)
(* up the removal of one that is over.                                     *)
(***************************************************************************)
RecoveryStart(c) ==
    /\ c \in Recoverers /\ At(c, "idle") /\ ClockOK
    /\ \E tx \in Plans :
         /\ \/ wf.status = "applying" /\ wf.tx = tx /\ Bound(tx) /\ HasJournal(tx)
               /\ Goto(c, "recover")
            \/ wf.status = "applied" /\ wf.tx = tx /\ Bound(tx) /\ Goto(c, "cleanup")
            \/ /\ wf.status \notin {"applying", "applied"}
               /\ tx \in recovered /\ \A j \in recovered : j <= tx
               /\ HasJournal(tx) /\ Goto(c, "cleanup")
         /\ job' = [job EXCEPT ![c] = [NoJob EXCEPT !.tx = tx, !.status = wf.status, !.keep = TRUE]]
    /\ UNCHANGED <<now, trouble>> /\ NoDb /\ NoFs

\* A process dies; the lock of a dead owner is free again.
Crash(c) ==
    /\ pc[c] /= "idle" /\ trouble < MaxTrouble
    /\ trouble' = trouble + 1
    /\ pc' = [pc EXCEPT ![c] = "idle"] /\ job' = [job EXCEPT ![c] = NoJob]
    /\ lock' = IF lock = c THEN None ELSE lock
    /\ UNCHANGED <<now, ws, dir, clean>> /\ NoDb

Edit ==
    /\ trouble < MaxTrouble /\ ws /= "drift"
    /\ trouble' = trouble + 1 /\ ws' = "drift"
    /\ UNCHANGED <<now, dir, clean, lock, pc, job>> /\ NoDb

\* The wall clock goes on, or is set back.
Tick ==
    /\ now' \in {now - 1, now + 1} \cap 0..MaxTime
    /\ UNCHANGED <<pc, job, trouble>> /\ NoDb /\ NoFs

Resume(c) ==
    \/ ResumeStart(c) \/ Look(c) \/ Consume(c) \/ Decide(c) \/ ApplyBegin(c) \/ ApplyWrite(c)
    \/ ApplyFinish(c) \/ ApplyFailed(c)
Recovery(c) ==
    \/ RecoveryStart(c) \/ RecoverFinish(c) \/ RecoverRollback(c) \/ RecoverCheck(c)
    \/ RecoverFailed(c) \/ Await(c) \/ Reset(c) \/ Conflict(c) \/ Mark(c) \/ Cleanup(c)

TwoNext ==
    \/ \E v \in Verifiers : RecordAttestation(v)
    \/ \E k \in Plans : IssuePlan(k)
    \/ PlanConflict
    \/ \E c \in Procs : Resume(c) \/ Recovery(c) \/ Crash(c)
    \/ Edit \/ Tick

TwoSpec == TwoInit /\ [][TwoNext]_twoVars

-----------------------------------------------------------------------------
(***************************************************************************)
(* A write of the workspace starts only under authority that stands: the   *)
(* workflow is applying that very transaction, whose confirmation was      *)
(* consumed and neither revoked nor given up by an earlier rollback.       *)
(***************************************************************************)
WriteUnderAuthority ==
    (ws' = "mixed" /\ ws /= "mixed") =>
      /\ wf.status = "applying" /\ Bound(wf.tx) /\ wf.tx \notin recovered
      /\ dir'[wf.tx] = "open" /\ dir[wf.tx] = "none"

(***************************************************************************)
(* Nothing half done is orphaned: when nobody else has edited, a workspace *)
(* that is not the source always has its explanation in the database: the  *)
(* workflow is applied, or it is applying and the journal from which the   *)
(* work can be finished or undone is there.                                *)
(***************************************************************************)
NothingOrphaned ==
    ws \in {"mixed", "candidate"} =>
      \/ wf.status = "applied" /\ ws = "candidate"
      \/ wf.status = "applying" /\ HasJournal(wf.tx)
           /\ (ws = "candidate" <=> dir[wf.tx] = "committed")
      \/ wf.status = "conflicted"

(***************************************************************************)
(* "Recovery verifies the restored source before resetting workflow state" *)
(* (docs/hybrid-assistant-bridge.md:373): a workflow that asks for a new   *)
(* confirmation has not had its candidate written.  This needs that no     *)
(* second caller replays a confirmation whose first use is at work.        *)
(***************************************************************************)
ResetMeansRestored ==
    Open(wf.status) \/ wf.status = "expired" => ws \notin {"mixed", "candidate"}

(***************************************************************************)
(* Each confirmation is spent once: a transaction that was rolled back is  *)
(* never the one applied, and a workflow in flight belongs to a confirmed  *)
(* plan that was not rolled back before.                                   *)
(***************************************************************************)
SpentOnce ==
    /\ wf.status \in {"applying", "applied"} => Bound(wf.tx) /\ wf.tx \notin recovered
    /\ \A k \in recovered : plan[k].consumed

(***************************************************************************)
(* Applied is final and true: the status never changes again, and it is    *)
(* set only while the workspace holds the candidate or after somebody else *)
(* has edited it.                                                          *)
(***************************************************************************)
AppliedIsFinal ==
    /\ wf.status = "applied" => wf' = wf
    /\ (wf'.status = "applied" /\ wf.status /= "applied") => ws \in {"candidate", "drift"}

\* Every state of the two-phase apply is accounted for by the workflow's row and its plans.
TwoPhaseSafe == NothingOrphaned /\ SpentOnce

\* So is every state, and every step is taken under authority that stands.
TwoPhaseSound == []TwoPhaseSafe /\ [][WriteUnderAuthority /\ AppliedIsFinal]_twoVars
=============================================================================
