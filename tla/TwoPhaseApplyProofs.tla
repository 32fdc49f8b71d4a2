------------------------ MODULE TwoPhaseApplyProofs ------------------------
(***************************************************************************)
(* Proofs about the two-phase apply, for any number of verifiers, plans    *)
(* and recovering processes, any lifetimes, clock settings, crashes and    *)
(* edits, and one resuming caller at a time: a second one that replays a   *)
(* confirmation whose first use is at work may reset the workflow, as a    *)
(* run of module TwoPhaseApply shows.  TwoInv is the inductive invariant.  *)
(***************************************************************************)
EXTENDS TwoPhaseApply, TLAPS

Statuses == {"staged", "attested", "ready", "expired", "applying", "applied", "conflicted"}
Contents == {"source", "mixed", "candidate", "drift"}
JournalStates == {"none", "open", "committed", "rolled_back", "recovered"}
Labels == {"idle", "look", "consume", "decide", "apply", "write", "finish", "failed", "recover",
           "rollback", "restored", "recoverFailed", "await", "reset", "conflict", "mark", "cleanup"}
Jobs == [tx : Plans \cup {None}, status : Statuses \cup {None}, saw : Contents \cup {None},
         replay : BOOLEAN, keep : BOOLEAN]

(***************************************************************************)
(* Types.  A plan's lifetimes are left out: nothing here depends on them.  *)
(***************************************************************************)
IsPlan(p) == /\ p = [issued |-> p.issued, expires |-> p.expires,
                     consumed |-> p.consumed, revoked |-> p.revoked]
             /\ p.consumed \in BOOLEAN /\ p.revoked \in BOOLEAN
IsRow(r) == /\ r = [status |-> r.status, tx |-> r.tx, last |-> r.last]
            /\ r.status \in Statuses
Types ==
    /\ IsRow(wf)
    /\ plan = [k \in Plans |-> plan[k]] /\ \A k \in Plans : IsPlan(plan[k])
    /\ ws \in Contents /\ dir \in [Plans -> JournalStates]
    /\ lock \in Procs \cup {None}
    /\ pc \in [Procs -> Labels] /\ job \in [Procs -> Jobs]

(***************************************************************************)
(* A confirmation is consumed only while it stands, and only a consumed    *)
(* one has a journal or a recovery.                                        *)
(***************************************************************************)
PlansSound ==
    /\ \A k \in Plans : /\ plan[k].consumed => plan[k].issued /= None /\ ~plan[k].revoked
                        /\ HasJournal(k) => plan[k].consumed
    /\ recovered \subseteq Plans /\ \A k \in recovered : plan[k].consumed
    /\ wf.status \in {"applying", "applied"} => wf.tx \in Plans

Busy(c) == pc[c] /= "idle"
Resuming(c) == Busy(c) /\ ~job[c].keep

(***************************************************************************)
(* A process at work is on an issued plan; a recovery is on a consumed one *)
(* and takes only the steps of a recovery.                                 *)
(***************************************************************************)
WorkSound(c) ==
    Busy(c) =>
      /\ Tx(c) \in Plans /\ plan[Tx(c)].issued /= None
      /\ job[c].keep => /\ plan[Tx(c)].consumed
                        /\ pc[c] \in {"recover", "rollback", "restored", "reset", "cleanup"}
      /\ ~job[c].keep => c \in Resumers

(***************************************************************************)
(* A confirmation that was just consumed: no journal, no recovery and, as  *)
(* long as nobody edits, still the authority of the workflow.              *)
(***************************************************************************)
Fresh(c) == pc[c] = "apply" \/ (pc[c] = "decide" /\ ~job[c].replay)
FreshSound(c) ==
    Fresh(c) => /\ ~HasJournal(Tx(c)) /\ Tx(c) \notin recovered
                /\ \/ wf.status = "applying" /\ wf.tx = Tx(c)
                   \/ wf.status = "conflicted" /\ ws = "drift"
                /\ \A d \in Procs : Busy(d) /\ job[d].keep => Tx(d) /= Tx(c)

(***************************************************************************)
(* What a process knows at each step of apply_resume and of the recovery.  *)
(***************************************************************************)
PhaseSound(c) ==
    /\ pc[c] = "look" => /\ job[c].status = "applying" => ws \in {"source", "drift"}
                         /\ job[c].status = "applied" => wf.status = "applied"
    /\ pc[c] \in {"consume", "decide"} /\ job[c].saw = "candidate" => wf.status = "applied"
    /\ pc[c] = "mark" => wf.status = "applied"
    /\ pc[c] = "apply" => job[c].saw = "source"
    /\ pc[c] \in {"apply", "write", "finish"} => ~job[c].keep
    /\ pc[c] \in {"write", "finish"} => lock = c
    /\ pc[c] = "write" => /\ dir[Tx(c)] = "open"
                          /\ ws = "mixed" => \/ wf.status = "applying" /\ wf.tx = Tx(c)
                                             \/ wf.status = "conflicted"
    /\ pc[c] = "finish" => ws \in {"candidate", "drift"}
    /\ pc[c] \in {"restored", "reset"} /\ ~job[c].keep => ~HasJournal(Tx(c))
    /\ pc[c] \in {"restored", "reset"} /\ job[c].keep =>
         \/ Tx(c) \in recovered \/ wf.status /= "applying" \/ wf.tx /= Tx(c)
         \/ ws \in {"source", "drift"}
    /\ pc[c] = "cleanup" => Tx(c) \in recovered \/ wf.status = "applied"

TwoInv ==
    /\ Types /\ PlansSound /\ TwoPhaseSafe
    /\ \A c \in Procs : WorkSound(c) /\ FreshSound(c) /\ PhaseSound(c)

\* Only one caller at a time resumes the workflow.
OneResumer == \A r, s \in Resumers : r = s

-----------------------------------------------------------------------------
(***************************************************************************)
(* What a step leaves to a process that did not take it.                   *)
(***************************************************************************)
Still(d) ==
    /\ pc'[d] = pc[d] /\ job'[d] = job[d]
    /\ \A k \in Plans : /\ plan[k].issued /= None => plan'[k].issued /= None
                        /\ plan[k].consumed => plan'[k].consumed
    /\ recovered \subseteq recovered'
    /\ wf.status = "applied" => wf'.status = "applied"

\* For a process that has a confirmation it has just consumed.
KeepsFresh(d) ==
    Fresh(d) =>
      /\ dir'[Tx(d)] = dir[Tx(d)]
      /\ Tx(d) \in recovered' => Tx(d) \in recovered
      /\ \/ wf'.status = wf.status /\ wf'.tx = wf.tx /\ (ws = "drift" => ws' = "drift")
         \/ wf'.status = "conflicted" /\ ws' = "drift"
      /\ \A e \in Procs : Busy(e)' /\ job'[e].keep => Tx(e)' /= Tx(d)

\* For a process of apply_resume, and for one that holds the lock.
KeepsResume(d) ==
    Resuming(d) =>
      /\ ws' \in {ws, "source", "drift"}
      /\ \A k \in Plans : ~HasJournal(k) => dir'[k] = "none"
      /\ lock = d => /\ lock' = d /\ dir' = dir /\ ws' \in {ws, "drift"}
                     /\ \/ wf'.status = wf.status /\ wf'.tx = wf.tx
                        \/ wf'.status = "conflicted"
                        \/ ws \in {"source", "drift"}

\* For a recovery that is about to reset the workflow.
KeepsRecovery(d) ==
    Busy(d) /\ job[d].keep =>
      /\ \/ ws' \in {ws, "source", "drift"}
         \/ ws = "mixed"
         \/ wf'.status /= "applying" \/ wf'.tx /= Tx(d)
      /\ wf'.status = "applying" =>
           wf'.tx /= Tx(d) \/ (wf.status = "applying" /\ wf.tx = wf'.tx)

Keeps(d) == Still(d) /\ KeepsFresh(d) /\ KeepsResume(d) /\ KeepsRecovery(d)

LEMMA OtherWork ==
    ASSUME NEW d \in Procs, WorkSound(d), Still(d)
    PROVE  WorkSound(d)'
BY DEF WorkSound, Still, Busy, Tx

LEMMA OtherFresh ==
    ASSUME Types, NEW d \in Procs, WorkSound(d), FreshSound(d), Still(d), KeepsFresh(d)
    PROVE  FreshSound(d)'
BY DEF FreshSound, Still, KeepsFresh, Fresh, HasJournal, Tx, Busy, WorkSound

LEMMA OtherPhase ==
    ASSUME Types, NEW d \in Procs, WorkSound(d), PhaseSound(d), Still(d),
           KeepsResume(d), KeepsRecovery(d)
    PROVE  PhaseSound(d)'
BY DEF PhaseSound, Still, KeepsResume, KeepsRecovery, HasJournal, Tx, Busy, WorkSound, Resuming,
       Types

\* The processes that did not take the step.
LEMMA Others ==
    ASSUME TwoInv, NEW d \in Procs, Keeps(d)
    PROVE  WorkSound(d)' /\ FreshSound(d)' /\ PhaseSound(d)'
BY OtherWork, OtherFresh, OtherPhase DEF TwoInv, Keeps

(***************************************************************************)
(* A step of process c keeps the invariant if it keeps the shared state    *)
(* sound, leaves c sound and leaves every other process what it needs.     *)
(***************************************************************************)
LEMMA StepSound ==
    ASSUME TwoInv, NEW c \in Procs,
           Types', PlansSound', TwoPhaseSafe',
           WorkSound(c)', FreshSound(c)', PhaseSound(c)',
           \A d \in Procs : d # c => Keeps(d)
    PROVE  TwoInv'
<1>1. ASSUME NEW d \in Procs PROVE WorkSound(d)' /\ FreshSound(d)' /\ PhaseSound(d)'
  <2>1. CASE d = c
    BY <2>1
  <2>2. CASE d # c
    BY <2>2, Others
  <2>3. QED
    BY <2>1, <2>2
<1>2. QED
  BY <1>1 DEF TwoInv

\* The row that a read returns: final rows and rows in flight are left alone.
LEMMA Rows ==
    ASSUME IsRow(wf)
    PROVE  /\ IsRow(Refreshed(wf)) /\ Refreshed(wf).tx = wf.tx
           /\ ~Open(wf.status) => Refreshed(wf) = wf
           /\ Open(wf.status) => Open(Refreshed(wf).status)
           /\ IsRow(Found) /\ Found.tx = wf.tx
           /\ ~Open(wf.status) => Found = wf
           /\ Open(wf.status) => Open(Found.status) \/ Found.status = "expired"
<1>1. Standing \in {"staged", "attested", "ready"}
  BY DEF Standing
<1>2. /\ IsRow(Refreshed(wf)) /\ Refreshed(wf).tx = wf.tx
      /\ ~Open(wf.status) => Refreshed(wf) = wf
      /\ Open(wf.status) => Open(Refreshed(wf).status)
  BY <1>1 DEF Refreshed, IsRow, Open, Statuses
<1>3. /\ IsRow(Found) /\ Found.tx = wf.tx
      /\ ~Open(wf.status) => Found = wf
      /\ Open(wf.status) => Open(Found.status) \/ Found.status = "expired"
  BY <1>2 DEF Found, IsRow, Open, Statuses
<1>4. QED
  BY <1>2, <1>3

\* The row of an applied workflow stays as it is.
LEMMA MarkedRow ==
    ASSUME IsRow(wf)
    PROVE  /\ IsRow(Marked) /\ Marked.status = "applied" /\ Marked.tx = wf.tx
           /\ wf.status = "applied" => Marked = wf
<1> DEFINE last == IF wf.status = "applied" THEN wf.last ELSE now
<1>1. Marked = [wf EXCEPT !.status = "applied", !.last = last]
  BY DEF Marked
<1>2. wf.status = "applied" => last = wf.last
  OBVIOUS
<1> HIDE DEF last
<1>3. Marked = [status |-> "applied", tx |-> wf.tx, last |-> last]
  BY <1>1 DEF IsRow
<1>4. QED
  BY <1>2, <1>3 DEF IsRow, Statuses

\* A process that goes on to its next step.
LEMMA Moves ==
    ASSUME Types, NEW c \in Procs, NEW l \in Labels, Move(c, l)
    PROVE  /\ pc' \in [Procs -> Labels] /\ job' \in [Procs -> Jobs]
           /\ pc'[c] = l /\ job'[c] = job[c]
           /\ \A d \in Procs : d # c => pc'[d] = pc[d] /\ job'[d] = job[d]
BY DEF Move, Goto, Types

\* A process that returns.
LEMMA Leaves ==
    ASSUME Types, NEW c \in Procs, Leave(c)
    PROVE  /\ pc' \in [Procs -> Labels] /\ job' \in [Procs -> Jobs]
           /\ pc'[c] = "idle"
           /\ \A d \in Procs : d # c => pc'[d] = pc[d] /\ job'[d] = job[d]
<1>1. NoJob \in Jobs
  BY DEF NoJob, Jobs
<1>2. QED
  BY <1>1 DEF Leave, Types, Labels

\* A process that is idle has nothing to be sound about.
LEMMA IdleSound ==
    ASSUME NEW c \in Procs, pc'[c] = "idle"
    PROVE  WorkSound(c)' /\ FreshSound(c)' /\ PhaseSound(c)'
BY DEF WorkSound, FreshSound, PhaseSound, Busy, Fresh

\* Steps that touch neither the database nor the files.
LEMMA QuietShared ==
    ASSUME TwoInv, NoDb, NoFs, pc' \in [Procs -> Labels], job' \in [Procs -> Jobs]
    PROVE  Types' /\ PlansSound' /\ TwoPhaseSafe'
BY DEF TwoInv, NoDb, NoFs, dbVars, fsVars, Types, PlansSound, TwoPhaseSafe, NothingOrphaned,
       SpentOnce, HasJournal, Bound

LEMMA QuietOthers ==
    ASSUME TwoInv, NEW c \in Procs, NEW d \in Procs, d # c, NoDb, NoFs,
           \A e \in Procs : e # c => pc'[e] = pc[e] /\ job'[e] = job[e],
           Busy(c)' /\ job'[c].keep => Busy(c) /\ job[c].keep /\ Tx(c)' = Tx(c)
    PROVE  Keeps(d)
<1>1. /\ wf' = wf /\ plan' = plan /\ recovered' = recovered
      /\ ws' = ws /\ dir' = dir /\ lock' = lock
  BY DEF NoDb, NoFs, dbVars, fsVars
<1>2. Still(d)
  BY <1>1 DEF Still
<1>3. KeepsFresh(d)
  <2>1. SUFFICES ASSUME Fresh(d), NEW e \in Procs, Busy(e)', job'[e].keep
                 PROVE  Tx(e)' /= Tx(d)
    BY <1>1 DEF KeepsFresh
  <2>2. Busy(e) /\ job[e].keep /\ Tx(e)' = Tx(e)
    BY <2>1 DEF Busy, Tx
  <2>3. QED
    BY <2>1, <2>2 DEF TwoInv, FreshSound
<1>4. KeepsResume(d) /\ KeepsRecovery(d)
  BY <1>1 DEF KeepsResume, KeepsRecovery, HasJournal, TwoInv, Types, JournalStates
<1>5. QED
  BY <1>2, <1>3, <1>4 DEF Keeps

\* So a process that takes such a step has only itself to look after.
LEMMA QuietStep ==
    ASSUME TwoInv, NEW c \in Procs, NoDb, NoFs,
           pc' \in [Procs -> Labels], job' \in [Procs -> Jobs],
           \A e \in Procs : e # c => pc'[e] = pc[e] /\ job'[e] = job[e],
           Busy(c)' /\ job'[c].keep => Busy(c) /\ job[c].keep /\ Tx(c)' = Tx(c),
           WorkSound(c)', FreshSound(c)', PhaseSound(c)'
    PROVE  TwoInv'
BY QuietShared, QuietOthers, StepSound

LEMMA QuietLeave ==
    ASSUME TwoInv, NEW c \in Procs, Leave(c), NoDb, NoFs
    PROVE  TwoInv'
<1>1. pc' \in [Procs -> Labels] /\ job' \in [Procs -> Jobs] /\ pc'[c] = "idle"
      /\ \A d \in Procs : d # c => pc'[d] = pc[d] /\ job'[d] = job[d]
  BY Leaves DEF TwoInv
<1>2. ~Busy(c)'
  BY <1>1 DEF Busy
<1>3. QED
  BY <1>1, <1>2, IdleSound, QuietStep

\* A process that moves on stays on its plan.
LEMMA MoveWork ==
    ASSUME TwoInv, NEW c \in Procs, Busy(c), NEW l \in Labels, Move(c, l), plan' = plan,
           job[c].keep => l \in {"recover", "rollback", "restored", "reset", "cleanup"}
    PROVE  WorkSound(c)'
<1>1. pc'[c] = l /\ job'[c] = job[c]
  BY Moves DEF TwoInv
<1>2. WorkSound(c)
  BY DEF TwoInv
<1>3. QED
  BY <1>1, <1>2 DEF WorkSound, Tx, Busy

LEMMA MoveFresh ==
    ASSUME TwoInv, NEW c \in Procs, NEW l \in Labels \ {"apply", "decide"}, Move(c, l)
    PROVE  FreshSound(c)'
<1>1. pc'[c] = l
  BY Moves DEF TwoInv
<1>2. QED
  BY <1>1 DEF FreshSound, Fresh

LEMMA QuietMove ==
    ASSUME TwoInv, NEW c \in Procs, Busy(c), NoDb, NoFs,
           NEW l \in Labels \ {"apply", "decide"}, Move(c, l),
           job[c].keep => l \in {"recover", "rollback", "restored", "reset", "cleanup"},
           PhaseSound(c)'
    PROVE  TwoInv'
<1>1. pc' \in [Procs -> Labels] /\ job' \in [Procs -> Jobs] /\ job'[c] = job[c]
      /\ \A d \in Procs : d # c => pc'[d] = pc[d] /\ job'[d] = job[d]
  BY Moves DEF TwoInv
<1>2. plan' = plan
  BY DEF NoDb, dbVars
<1>3. WorkSound(c)' /\ FreshSound(c)'
  BY <1>2, MoveWork, MoveFresh
<1>4. Busy(c)' /\ job'[c].keep => Busy(c) /\ job[c].keep /\ Tx(c)' = Tx(c)
  BY <1>1 DEF Tx
<1>5. QED
  BY <1>1, <1>3, <1>4, QuietStep

-----------------------------------------------------------------------------
\* The steps that only read.
LEMMA LookKeeps ==
    ASSUME TwoInv, NEW c \in Procs, Look(c)
    PROVE  TwoInv'
<1> DEFINE l == IF job[c].status \notin {"applying", "applied"} /\ ws /= "source"
                  THEN "conflict" ELSE "consume"
<1>1. /\ pc[c] = "look" /\ pc' = [pc EXCEPT ![c] = l] /\ job' = [job EXCEPT ![c].saw = ws]
      /\ NoDb /\ NoFs
  BY DEF Look, At, Goto
<1>2. WorkSound(c) /\ PhaseSound(c) /\ Types
  BY DEF TwoInv
<1>3. l \in Labels
  BY DEF Labels
<1>4. pc' \in [Procs -> Labels] /\ pc'[c] = l
      /\ \A e \in Procs : e # c => pc'[e] = pc[e]
  <2> HIDE DEF l
  <2>1. QED
    BY <1>1, <1>2, <1>3 DEF Types
<1>5. /\ job' \in [Procs -> Jobs] /\ \A e \in Procs : e # c => job'[e] = job[e]
      /\ job'[c].tx = job[c].tx /\ job'[c].status = job[c].status
      /\ job'[c].keep = job[c].keep /\ job'[c].saw = ws
  BY <1>1, <1>2 DEF Types, Jobs
<1>6. plan' = plan /\ wf' = wf /\ ws' = ws
  BY <1>1 DEF NoDb, NoFs, dbVars, fsVars
<1>7. ~job[c].keep
  BY <1>1, <1>2 DEF WorkSound, Busy
<1>8. WorkSound(c)' /\ FreshSound(c)'
  BY <1>1, <1>2, <1>4, <1>5, <1>6, <1>7 DEF WorkSound, FreshSound, Fresh, Tx, Busy
<1>9. PhaseSound(c)'
  BY <1>1, <1>2, <1>4, <1>5, <1>6, <1>7 DEF PhaseSound, Types, Contents
<1>10. QED
  BY <1>1, <1>4, <1>5, <1>7, <1>8, <1>9, QuietStep

LEMMA DecideKeeps ==
    ASSUME TwoInv, NEW c \in Procs, Decide(c)
    PROVE  TwoInv'
<1>1. /\ pc[c] = "decide" /\ NoDb /\ NoFs /\ Busy(c)
      /\ \/ job[c].replay /\ HasJournal(Tx(c)) /\ Move(c, "recover")
         \/ job[c].replay /\ ~HasJournal(Tx(c)) /\ job[c].saw = "candidate" /\ Move(c, "mark")
         \/ job[c].replay /\ ~HasJournal(Tx(c)) /\ job[c].saw = "source" /\ Move(c, "reset")
         \/ ~job[c].replay /\ job[c].saw = "source" /\ Move(c, "apply")
         \/ Move(c, "conflict")
  BY DEF Decide, At, Busy
<1>2. WorkSound(c) /\ PhaseSound(c) /\ FreshSound(c) /\ Types
  BY DEF TwoInv
<1>3. ~job[c].keep
  BY <1>1, <1>2 DEF WorkSound, Busy
<1>4. plan' = plan /\ wf' = wf /\ ws' = ws /\ dir' = dir /\ recovered' = recovered
  BY <1>1 DEF NoDb, NoFs, dbVars, fsVars
<1>5. ASSUME NEW l \in {"recover", "mark", "reset", "conflict"}, Move(c, l),
             l = "mark" => job[c].saw = "candidate", l = "reset" => ~HasJournal(Tx(c))
      PROVE  TwoInv'
  <2>1. l \in Labels \ {"apply", "decide"}
    BY DEF Labels
  <2>2. pc'[c] = l /\ job'[c] = job[c]
    BY <1>2, <1>5, <2>1, Moves
  <2>3. PhaseSound(c)'
    BY <1>1, <1>2, <1>3, <1>4, <1>5, <2>2 DEF PhaseSound, HasJournal, Tx
  <2>4. QED
    BY <1>1, <1>3, <1>5, <2>1, <2>3, QuietMove
<1>6. ASSUME Move(c, "apply"), ~job[c].replay, job[c].saw = "source" PROVE TwoInv'
  <2>1. "apply" \in Labels
    BY DEF Labels
  <2>2. /\ pc' \in [Procs -> Labels] /\ job' \in [Procs -> Jobs]
        /\ pc'[c] = "apply" /\ job'[c] = job[c]
        /\ \A e \in Procs : e # c => pc'[e] = pc[e] /\ job'[e] = job[e]
    BY <1>2, <1>6, <2>1, Moves
  <2>3. WorkSound(c)'
    BY <1>1, <1>3, <1>4, <1>6, <2>1, MoveWork
  <2>4. FreshSound(c)'
    <3>1. Fresh(c)
      BY <1>1, <1>6 DEF Fresh
    <3>2. ASSUME NEW d \in Procs, Busy(d)', job'[d].keep PROVE Tx(d)' /= Tx(c)'
      <4>1. d # c
        BY <1>3, <2>2, <3>2
      <4>2. QED
        BY <1>2, <2>2, <3>1, <3>2, <4>1 DEF FreshSound, Busy, Tx
    <3>3. QED
      BY <1>2, <1>4, <2>2, <3>1, <3>2 DEF FreshSound, HasJournal, Tx
  <2>5. PhaseSound(c)'
    BY <1>3, <1>6, <2>2 DEF PhaseSound
  <2>6. QED
    BY <1>1, <1>3, <2>2, <2>3, <2>4, <2>5, QuietStep
<1>7. QED
  BY <1>1, <1>5, <1>6

LEMMA ApplyFailedKeeps ==
    ASSUME TwoInv, NEW c \in Procs, ApplyFailed(c)
    PROVE  TwoInv'
<1>1. PICK l \in {"recover", "reset", "conflict"} :
        Move(c, l) /\ (l = "reset" => ~HasJournal(Tx(c)))
  BY DEF ApplyFailed
<1>2. pc[c] = "failed" /\ Busy(c) /\ NoDb /\ NoFs
  BY DEF ApplyFailed, At, Busy
<1>3. l \in Labels \ {"apply", "decide"} /\ Types
  BY DEF Labels, TwoInv
<1>4. pc'[c] = l /\ job'[c] = job[c] /\ dir' = dir
  BY <1>1, <1>2, <1>3, Moves DEF NoFs, fsVars
<1>5. ~job[c].keep
  BY <1>2 DEF WorkSound, TwoInv
<1>6. PhaseSound(c)'
  BY <1>1, <1>4, <1>5 DEF PhaseSound, HasJournal, Tx
<1>7. QED
  BY <1>1, <1>2, <1>3, <1>5, <1>6, QuietMove

LEMMA RecoverCheckKeeps ==
    ASSUME TwoInv, NEW c \in Procs, RecoverCheck(c)
    PROVE  TwoInv'
<1>1. PICK l \in {"reset", "conflict"} : Move(c, l) /\ (job[c].keep => l = "reset")
  BY DEF RecoverCheck
<1>2. pc[c] = "restored" /\ Busy(c) /\ NoDb /\ NoFs
  BY DEF RecoverCheck, At, Busy
<1>3. l \in Labels \ {"apply", "decide"} /\ Types /\ PhaseSound(c)
  BY DEF Labels, TwoInv
<1>4. /\ pc'[c] = l /\ job'[c] = job[c]
      /\ dir' = dir /\ ws' = ws /\ wf' = wf /\ recovered' = recovered
  BY <1>1, <1>2, <1>3, Moves DEF NoDb, NoFs, dbVars, fsVars
<1>5. PhaseSound(c)'
  BY <1>1, <1>2, <1>3, <1>4 DEF PhaseSound, HasJournal, Tx
<1>6. QED
  BY <1>1, <1>2, <1>3, <1>5, QuietMove

LEMMA RecoverFailedKeeps ==
    ASSUME TwoInv, NEW c \in Procs, RecoverFailed(c)
    PROVE  TwoInv'
<1>1. pc[c] = "recoverFailed" /\ Busy(c) /\ NoDb /\ NoFs /\ (Leave(c) \/ Move(c, "conflict"))
  BY DEF RecoverFailed, At, Busy
<1>2. "conflict" \in Labels \ {"apply", "decide"} /\ Types
  BY DEF Labels, TwoInv
<1>3. ~job[c].keep
  BY <1>1 DEF WorkSound, TwoInv
<1>4. CASE Move(c, "conflict")
  <2>1. pc'[c] = "conflict"
    BY <1>2, <1>4, Moves
  <2>2. PhaseSound(c)'
    BY <2>1 DEF PhaseSound
  <2>3. QED
    BY <1>1, <1>2, <1>3, <1>4, <2>2, QuietMove
<1>5. QED
  BY <1>1, <1>4, QuietLeave

LEMMA AwaitKeeps ==
    ASSUME TwoInv, NEW c \in Procs, Await(c)
    PROVE  TwoInv'
BY QuietLeave DEF Await

-----------------------------------------------------------------------------
(***************************************************************************)
(* Steps that at most refresh the row.                                     *)
(***************************************************************************)
Refreshes ==
    /\ IsRow(wf') /\ wf'.tx = wf.tx
    /\ ~Open(wf.status) => wf' = wf
    /\ Open(wf.status) => Open(wf'.status) \/ wf'.status = "expired"

LEMMA RefreshShared ==
    ASSUME TwoInv, Refreshes, plan' = plan, recovered' = recovered, NoFs,
           pc' \in [Procs -> Labels], job' \in [Procs -> Jobs]
    PROVE  Types' /\ PlansSound' /\ TwoPhaseSafe'
BY DEF TwoInv, Refreshes, NoFs, fsVars, Types, PlansSound, TwoPhaseSafe, NothingOrphaned,
       SpentOnce, HasJournal, Bound, Open

LEMMA RefreshOthers ==
    ASSUME TwoInv, Refreshes, NoFs, recovered' = recovered, NEW d \in Procs,
           pc'[d] = pc[d], job'[d] = job[d],
           \A k \in Plans : /\ plan[k].issued /= None => plan'[k].issued /= None
                            /\ plan[k].consumed => plan'[k].consumed,
           \A e \in Procs : Busy(e)' /\ job'[e].keep => Busy(e) /\ job[e].keep /\ Tx(e)' = Tx(e)
    PROVE  Keeps(d)
<1>1. ws' = ws /\ dir' = dir /\ lock' = lock
  BY DEF NoFs, fsVars
<1>2. Still(d)
  BY DEF Still, Refreshes, Open
<1>3. KeepsFresh(d)
  <2>1. SUFFICES ASSUME Fresh(d) PROVE KeepsFresh(d)
    BY DEF KeepsFresh
  <2>2. FreshSound(d)
    BY DEF TwoInv
  <2>3. wf' = wf
    BY <2>1, <2>2 DEF FreshSound, Refreshes, Open
  <2>4. \A e \in Procs : Busy(e)' /\ job'[e].keep => Tx(e)' /= Tx(d)
    BY <2>1, <2>2 DEF FreshSound
  <2>5. QED
    BY <1>1, <2>3, <2>4 DEF KeepsFresh
<1>4. KeepsResume(d)
  <2>1. wf' = wf \/ ws \in {"source", "drift"}
    BY DEF Refreshes, TwoInv, TwoPhaseSafe, NothingOrphaned, Open, Types, Contents
  <2>2. QED
    BY <1>1, <2>1 DEF KeepsResume, HasJournal, TwoInv, Types
<1>5. KeepsRecovery(d)
  BY <1>1 DEF KeepsRecovery, Refreshes, Open
<1>6. QED
  BY <1>2, <1>3, <1>4, <1>5 DEF Keeps

\* Steps of no process in particular.
LEMMA WorldStep ==
    ASSUME TwoInv, Types', PlansSound', TwoPhaseSafe', \A d \in Procs : Keeps(d)
    PROVE  TwoInv'
BY Others DEF TwoInv

LEMMA RecordAttestationKeeps ==
    ASSUME TwoInv, NEW v \in Verifiers, RecordAttestation(v)
    PROVE  TwoInv' /\ wf.status /= "applied" /\ wf'.status /= "applied"
<1>1. /\ Open(wf.status) /\ plan' = plan /\ recovered' = recovered /\ NoFs
      /\ pc' = pc /\ job' = job
  BY DEF RecordAttestation, NoFs
<1>2. PICK st \in {"ready", "attested"} : wf' = [wf EXCEPT !.status = st, !.last = now]
  BY DEF RecordAttestation
<1>3. Refreshes /\ wf.status /= "applied" /\ wf'.status /= "applied"
  BY <1>1, <1>2 DEF Refreshes, IsRow, Open, Statuses, TwoInv, Types
<1>4. Types' /\ PlansSound' /\ TwoPhaseSafe'
  BY <1>1, <1>3, RefreshShared DEF TwoInv, Types
<1>5. ASSUME NEW d \in Procs PROVE Keeps(d)
  BY <1>1, <1>3, RefreshOthers DEF Busy, Tx
<1>6. QED
  BY <1>3, <1>4, <1>5, WorldStep

LEMMA IssuePlanKeeps ==
    ASSUME TwoInv, NEW k \in Plans, IssuePlan(k)
    PROVE  TwoInv' /\ wf.status /= "applied" /\ wf'.status /= "applied"
<1> DEFINE end == Least({now + PlanLife, Life, QuorumEnd})
           new == [NoPlan EXCEPT !.issued = now, !.expires = end]
           old(j) == [plan[j] EXCEPT !.revoked = @ \/ (plan[j].issued /= None /\ ~plan[j].consumed)]
<1>1. /\ plan[k].issued = None /\ Refreshed(wf).status = "ready" /\ ws = "source"
      /\ plan' = [j \in Plans |-> IF j = k THEN new ELSE old(j)]
      /\ wf' = [Refreshed(wf) EXCEPT !.last = now]
      /\ recovered' = recovered /\ NoFs /\ pc' = pc /\ job' = job
  BY DEF IssuePlan, NoFs
<1>2. IsRow(wf) /\ PlansSound /\ Types
  BY DEF TwoInv, Types
<1>3. Open(wf.status)
  BY <1>1, <1>2, Rows DEF Open
<1>4. Refreshes /\ wf.status /= "applied" /\ wf'.status /= "applied"
  BY <1>1, <1>2, <1>3, Rows DEF Refreshes, IsRow, Open, Statuses
<1> HIDE DEF end
<1>5. IsPlan(new) /\ new.consumed = FALSE /\ new.revoked = FALSE
  <2>1. ASSUME NEW p, p = [NoPlan EXCEPT !.issued = now, !.expires = end]
        PROVE  IsPlan(p) /\ p.consumed = FALSE /\ p.revoked = FALSE
    BY <2>1 DEF NoPlan, IsPlan
  <2>2. QED
    BY <2>1
<1>6. ASSUME NEW j \in Plans
      PROVE  /\ IsPlan(old(j)) /\ old(j).consumed = plan[j].consumed
             /\ old(j).issued = plan[j].issued
             /\ plan[j].consumed => old(j).revoked = plan[j].revoked
  <2>1. IsPlan(plan[j])
    BY <1>2 DEF Types
  <2> DEFINE gone == plan[j].revoked \/ (plan[j].issued /= None /\ ~plan[j].consumed)
  <2>2. gone \in BOOLEAN /\ (plan[j].consumed => gone = plan[j].revoked)
    BY <2>1 DEF IsPlan
  <2>3. old(j) = [plan[j] EXCEPT !.revoked = gone]
    OBVIOUS
  <2> HIDE DEF gone
  <2>4. old(j) = [issued |-> plan[j].issued, expires |-> plan[j].expires,
                  consumed |-> plan[j].consumed, revoked |-> gone]
    BY <2>1, <2>3 DEF IsPlan
  <2> HIDE DEF old
  <2>5. QED
    BY <2>1, <2>2, <2>4 DEF IsPlan
<1> HIDE DEF new, old
<1>7. ~plan[k].consumed
  BY <1>1, <1>2 DEF PlansSound
<1>8. ASSUME NEW j \in Plans
      PROVE  /\ IsPlan(plan'[j])
             /\ plan'[j].consumed = plan[j].consumed
             /\ j /= k => plan'[j].issued = plan[j].issued
             /\ plan[j].consumed => plan'[j].revoked = plan[j].revoked
  <2>1. IsPlan(plan[j])
    BY <1>2 DEF Types
  <2>2. QED
    BY <1>1, <1>5, <1>6, <1>7, <2>1 DEF IsPlan
<1>9. Types'
  <2>1. plan' = [j \in Plans |-> plan'[j]]
    BY <1>1
  <2>2. QED
    BY <1>1, <1>2, <1>4, <1>8, <2>1 DEF Types, NoFs, fsVars, Refreshes
<1>10. PlansSound'
  BY <1>1, <1>2, <1>3, <1>4, <1>7, <1>8 DEF PlansSound, NoFs, fsVars, Refreshes, Open, HasJournal
<1>11. TwoPhaseSafe'
  BY <1>1, <1>2, <1>3, <1>4, <1>8
     DEF TwoInv, TwoPhaseSafe, NothingOrphaned, SpentOnce, NoFs, fsVars, Refreshes, Open, PlansSound
<1>12. \A j \in Plans : /\ plan[j].issued /= None => plan'[j].issued /= None
                        /\ plan[j].consumed => plan'[j].consumed
  BY <1>1, <1>8
<1>13. ASSUME NEW d \in Procs PROVE Keeps(d)
  BY <1>1, <1>4, <1>12, RefreshOthers DEF Busy, Tx
<1>14. QED
  BY <1>4, <1>9, <1>10, <1>11, <1>13, WorldStep

\* A workspace that has drifted is not restored by anybody.
LEMMA PlanConflictKeeps ==
    ASSUME TwoInv, PlanConflict
    PROVE  TwoInv' /\ wf.status /= "applied" /\ wf'.status /= "applied"
<1>1. /\ ws /= "source" /\ Found.status \notin {"applied", "conflicted"}
      /\ wf' = [Found EXCEPT !.status = "conflicted", !.tx = None, !.last = now]
      /\ plan' = plan /\ recovered' = recovered /\ pc' = pc /\ job' = job
      /\ ws' = ws /\ dir' = dir /\ lock' = lock
  BY DEF PlanConflict, fsVars
<1>2. IsRow(wf) /\ Types
  BY DEF TwoInv, Types
<1>3. wf.status \notin {"applied", "conflicted"}
  BY <1>1, <1>2, Rows DEF Open
<1>4. IsRow(wf') /\ wf'.status = "conflicted"
  BY <1>1, <1>2, Rows DEF IsRow, Statuses
<1>5. Types' /\ PlansSound' /\ TwoPhaseSafe'
  BY <1>1, <1>4
     DEF TwoInv, Types, PlansSound, TwoPhaseSafe, NothingOrphaned, SpentOnce, HasJournal
<1>6. ASSUME NEW d \in Procs PROVE Keeps(d)
  <2>1. Still(d) /\ KeepsResume(d) /\ KeepsRecovery(d)
    BY <1>1, <1>2, <1>3, <1>4 DEF Still, KeepsResume, KeepsRecovery, HasJournal, Types
  <2>2. KeepsFresh(d)
    <3>1. SUFFICES ASSUME Fresh(d) PROVE KeepsFresh(d)
      BY DEF KeepsFresh
    <3>2. FreshSound(d)
      BY DEF TwoInv
    <3>3. ws = "drift"
      BY <1>1, <1>2, <1>3, <3>1, <3>2
         DEF FreshSound, TwoInv, TwoPhaseSafe, NothingOrphaned, Types, Contents
    <3>4. QED
      BY <1>1, <1>4, <3>1, <3>2, <3>3 DEF FreshSound, KeepsFresh, Busy, Tx
  <2>3. QED
    BY <2>1, <2>2 DEF Keeps
<1>7. QED
  BY <1>3, <1>4, <1>5, <1>6, WorldStep

LEMMA EditKeeps ==
    ASSUME TwoInv, Edit
    PROVE  TwoInv' /\ wf' = wf
<1>1. /\ ws' = "drift" /\ wf' = wf /\ plan' = plan /\ recovered' = recovered
      /\ dir' = dir /\ lock' = lock /\ pc' = pc /\ job' = job
  BY DEF Edit, NoDb, dbVars
<1>2. Types' /\ PlansSound' /\ TwoPhaseSafe'
  BY <1>1
     DEF TwoInv, Types, PlansSound, TwoPhaseSafe, NothingOrphaned, SpentOnce, HasJournal, Bound,
         Contents
<1>3. ASSUME NEW d \in Procs PROVE Keeps(d)
  <2>1. Still(d) /\ KeepsResume(d) /\ KeepsRecovery(d)
    BY <1>1 DEF Still, KeepsResume, KeepsRecovery, HasJournal, TwoInv, Types
  <2>2. KeepsFresh(d)
    BY <1>1 DEF TwoInv, FreshSound, KeepsFresh, Busy, Tx
  <2>3. QED
    BY <2>1, <2>2 DEF Keeps
<1>4. QED
  BY <1>1, <1>2, <1>3, WorldStep

LEMMA TickKeeps ==
    ASSUME TwoInv, Tick
    PROVE  TwoInv' /\ wf' = wf
<1>1. pc' = pc /\ job' = job /\ NoDb /\ NoFs /\ wf' = wf
  BY DEF Tick, NoDb, dbVars
<1>2. Types' /\ PlansSound' /\ TwoPhaseSafe'
  BY <1>1, QuietShared DEF TwoInv, Types
<1>3. Refreshes /\ plan' = plan /\ recovered' = recovered
  BY <1>1 DEF Refreshes, NoDb, dbVars, TwoInv, Types
<1>4. ASSUME NEW d \in Procs PROVE Keeps(d)
  BY <1>1, <1>3, RefreshOthers DEF Busy, Tx
<1>5. QED
  BY <1>1, <1>2, <1>4, WorldStep

\* The death of a process frees its lock and leaves what it did.
LEMMA CrashKeeps ==
    ASSUME TwoInv, NEW c \in Procs, Crash(c)
    PROVE  TwoInv' /\ wf' = wf
<1>1. /\ pc' = [pc EXCEPT ![c] = "idle"] /\ job' = [job EXCEPT ![c] = NoJob]
      /\ lock' = IF lock = c THEN None ELSE lock
      /\ ws' = ws /\ dir' = dir /\ wf' = wf /\ plan' = plan /\ recovered' = recovered
  BY DEF Crash, NoDb, dbVars
<1>2. NoJob \in Jobs
  BY DEF NoJob, Jobs
<1>3. /\ pc' \in [Procs -> Labels] /\ job' \in [Procs -> Jobs] /\ pc'[c] = "idle"
      /\ \A d \in Procs : d # c => pc'[d] = pc[d] /\ job'[d] = job[d]
  BY <1>1, <1>2 DEF TwoInv, Types, Labels
<1>4. Types' /\ PlansSound' /\ TwoPhaseSafe'
  BY <1>1, <1>3
     DEF TwoInv, Types, PlansSound, TwoPhaseSafe, NothingOrphaned, SpentOnce, HasJournal, Bound
<1>5. ASSUME NEW d \in Procs, d # c PROVE Keeps(d)
  <2>1. Still(d) /\ KeepsResume(d) /\ KeepsRecovery(d)
    BY <1>1, <1>3, <1>5 DEF Still, KeepsResume, KeepsRecovery, HasJournal, TwoInv, Types
  <2>2. KeepsFresh(d)
    BY <1>1, <1>3, <1>5 DEF TwoInv, FreshSound, KeepsFresh, Busy, Tx
  <2>3. QED
    BY <2>1, <2>2 DEF Keeps
<1>6. QED
  BY <1>1, <1>3, <1>4, <1>5, IdleSound, StepSound

-----------------------------------------------------------------------------
(***************************************************************************)
(* Steps of apply_resume.  Nobody else resumes meanwhile.                  *)
(***************************************************************************)
LEMMA Alone ==
    ASSUME OneResumer, TwoInv, NEW c \in Procs, c \in Resumers \/ Resuming(c),
           NEW d \in Procs, d # c
    PROVE  ~Resuming(d) /\ KeepsFresh(d) /\ KeepsResume(d)
<1>1. ASSUME NEW e \in Procs, Resuming(e) PROVE e \in Resumers
  BY <1>1 DEF TwoInv, WorkSound, Resuming
<1>2. ~Resuming(d)
  BY <1>1 DEF OneResumer
<1>3. Fresh(d) => Resuming(d)
  BY DEF Fresh, Resuming, Busy, TwoInv, WorkSound, PhaseSound
<1>4. QED
  BY <1>2, <1>3 DEF KeepsFresh, KeepsResume

LEMMA ResumeStartKeeps ==
    ASSUME TwoInv, NEW c \in Procs, ResumeStart(c)
    PROVE  TwoInv' /\ (wf.status = "applied" => wf' = wf)
                   /\ (wf'.status = "applied" => wf.status = "applied")
<1>1. PICK k \in Plans :
        /\ plan[k].issued /= None /\ wf' = Found
        /\ LET stuck == wf'.status = "applying" /\ HasJournal(wf'.tx)
               ready == Open(wf'.status) => Alive /\ Quorate
           IN /\ pc' = [pc EXCEPT ![c] = IF stuck THEN "recover"
                                         ELSE IF ready THEN "look" ELSE "idle"]
              /\ job' = [job EXCEPT ![c] =
                           IF ~stuck /\ ~ready THEN NoJob
                           ELSE [NoJob EXCEPT !.tx = IF stuck THEN wf'.tx ELSE k,
                                              !.status = wf'.status]]
  BY DEF ResumeStart
<1>2. c \in Resumers /\ plan' = plan /\ recovered' = recovered /\ NoFs
  BY DEF ResumeStart, NoFs
<1>3. IsRow(wf) /\ Types /\ TwoPhaseSafe /\ PlansSound
  BY DEF TwoInv, Types
<1>4. Refreshes
  BY <1>1, <1>3, Rows DEF Refreshes
<1> DEFINE stuck == wf'.status = "applying" /\ HasJournal(wf'.tx)
           ready == Open(wf'.status) => Alive /\ Quorate
           l == IF stuck THEN "recover" ELSE IF ready THEN "look" ELSE "idle"
           t == IF stuck THEN wf'.tx ELSE k
           j == IF ~stuck /\ ~ready THEN NoJob ELSE [NoJob EXCEPT !.tx = t, !.status = wf'.status]
<1>5. l \in Labels /\ pc' = [pc EXCEPT ![c] = l] /\ job' = [job EXCEPT ![c] = j]
  BY <1>1 DEF Labels
<1>6. stuck => wf' = wf /\ wf.tx \in Plans /\ plan[wf.tx].consumed /\ plan[wf.tx].issued /= None
  BY <1>3, <1>4 DEF Refreshes, Open, PlansSound
<1>7. t \in Plans /\ plan[t].issued /= None
  BY <1>1, <1>6
<1>8. wf'.status \in Statuses
  BY <1>4 DEF Refreshes, IsRow
<1>9. j \in Jobs /\ j.keep = FALSE /\ (l /= "idle" => j.tx = t /\ j.status = wf'.status)
      /\ j.saw = None
  <2>1. CASE ~stuck /\ ~ready
    BY <2>1 DEF NoJob, Jobs
  <2>2. CASE stuck \/ ready
    <3>1. j = [NoJob EXCEPT !.tx = t, !.status = wf'.status]
      BY <2>2
    <3> HIDE DEF j, t, stuck, ready, l
    <3>2. QED
      BY <1>7, <1>8, <3>1 DEF NoJob, Jobs
  <2>3. QED
    BY <2>1, <2>2
<1>10. l = "look" /\ wf'.status = "applying" => ws \in {"source", "drift"}
  BY <1>3, <1>4
     DEF Refreshes, Open, TwoPhaseSafe, NothingOrphaned, Types, Contents
<1> HIDE DEF stuck, ready, t, j
<1>11. l \in {"recover", "look", "idle"}
  OBVIOUS
<1> HIDE DEF l
<1>12. /\ pc' \in [Procs -> Labels] /\ job' \in [Procs -> Jobs]
       /\ pc'[c] = l /\ job'[c] = j
       /\ \A d \in Procs : d # c => pc'[d] = pc[d] /\ job'[d] = job[d]
  BY <1>3, <1>5, <1>9 DEF Types
<1>13. Types' /\ PlansSound' /\ TwoPhaseSafe'
  BY <1>2, <1>4, <1>12, RefreshShared
<1>14. WorkSound(c)' /\ FreshSound(c)'
  BY <1>2, <1>7, <1>9, <1>11, <1>12 DEF WorkSound, FreshSound, Fresh, Busy, Tx
<1>15. PhaseSound(c)'
  BY <1>2, <1>9, <1>10, <1>11, <1>12 DEF PhaseSound, NoFs, fsVars
<1>16. ASSUME NEW d \in Procs, d # c PROVE Keeps(d)
  <2>1. \A e \in Procs : Busy(e)' /\ job'[e].keep => Busy(e) /\ job[e].keep /\ Tx(e)' = Tx(e)
    BY <1>9, <1>12 DEF Busy, Tx
  <2>2. QED
    BY <1>2, <1>4, <1>12, <1>16, <2>1, RefreshOthers
<1>17. QED
  BY <1>4, <1>13, <1>14, <1>15, <1>16, StepSound DEF Refreshes, Open

\* A workflow that is marked conflicted by the one who resumes it.
LEMMA ConflictKeeps ==
    ASSUME OneResumer, TwoInv, NEW c \in Procs, Conflict(c)
    PROVE  TwoInv' /\ (wf.status = "applied" => wf' = wf)
                   /\ (wf'.status = "applied" => wf.status = "applied")
<1>1. /\ pc[c] = "conflict" /\ Leave(c) /\ NoFs
      /\ \/ wf' = wf
         \/ /\ wf.status \notin {"applied", "conflicted"}
            /\ wf' = [status |-> "conflicted", tx |-> None, last |-> now]
      /\ plan' = plan /\ recovered' = recovered
  BY DEF Conflict, At
<1>2. Types /\ Resuming(c)
  BY <1>1 DEF TwoInv, WorkSound, Resuming, Busy
<1>3. IsRow(wf') /\ (wf' = wf \/ (wf'.status = "conflicted" /\ wf.status /= "applied"))
  <2>1. ASSUME wf' = [status |-> "conflicted", tx |-> None, last |-> now]
        PROVE  IsRow(wf') /\ wf'.status = "conflicted"
    BY <2>1 DEF IsRow, Statuses
  <2>2. QED
    BY <1>1, <1>2, <2>1 DEF Types
<1>4. pc' \in [Procs -> Labels] /\ job' \in [Procs -> Jobs] /\ pc'[c] = "idle"
      /\ \A d \in Procs : d # c => pc'[d] = pc[d] /\ job'[d] = job[d]
  BY <1>1, <1>2, Leaves
<1>5. Types' /\ PlansSound' /\ TwoPhaseSafe'
  BY <1>1, <1>3, <1>4
     DEF TwoInv, Types, PlansSound, TwoPhaseSafe, NothingOrphaned, SpentOnce, HasJournal, Bound,
         NoFs, fsVars
<1>6. ASSUME NEW d \in Procs, d # c PROVE Keeps(d)
  <2>1. KeepsFresh(d) /\ KeepsResume(d)
    BY <1>2, <1>6, Alone
  <2>2. Still(d) /\ KeepsRecovery(d)
    BY <1>1, <1>3, <1>4, <1>6 DEF Still, KeepsRecovery, NoFs, fsVars
  <2>3. QED
    BY <2>1, <2>2 DEF Keeps
<1>7. QED
  BY <1>3, <1>4, <1>5, <1>6, IdleSound, StepSound

\* The workflow is applied already when the candidate is found in place.
LEMMA MarkKeeps ==
    ASSUME TwoInv, NEW c \in Procs, Mark(c)
    PROVE  TwoInv' /\ wf' = wf
<1>1. /\ pc[c] = "mark" /\ NoFs /\ plan' = plan /\ recovered' = recovered /\ att' = att
      /\ \/ wf' = Marked /\ Move(c, "cleanup")
         \/ wf' = wf /\ Leave(c)
  BY DEF Mark, At
<1>2. wf.status = "applied" /\ ~job[c].keep /\ Busy(c)
  BY <1>1 DEF TwoInv, PhaseSound, WorkSound, Busy
<1>3. wf' = wf /\ NoDb
  BY <1>1, <1>2, MarkedRow DEF TwoInv, Types, NoDb, dbVars
<1>4. CASE Move(c, "cleanup")
  <2>1. "cleanup" \in Labels \ {"apply", "decide"}
    BY DEF Labels
  <2>2. pc'[c] = "cleanup"
    BY <1>4, <2>1, Moves DEF TwoInv
  <2>3. PhaseSound(c)'
    BY <1>2, <1>3, <2>2 DEF PhaseSound
  <2>4. QED
    BY <1>1, <1>2, <1>3, <1>4, <2>1, <2>3, QuietMove
<1>5. QED
  BY <1>1, <1>3, <1>4, QuietLeave

\* The four outcomes of consume_resume_confirmation.
LEMMA ConsumeCases ==
    ASSUME TwoInv, NEW c \in Procs, Consume(c)
    PROVE  /\ pc[c] = "consume" /\ NoFs
           /\ \/ Leave(c) /\ NoDb
              \/ /\ wf.status = "applied" /\ NoDb
                 /\ Goto(c, "cleanup")
                 /\ job' = [job EXCEPT ![c].replay = TRUE, ![c].status = "applied"]
              \/ /\ NoDb
                 /\ Goto(c, "decide")
                 /\ job' = [job EXCEPT ![c].replay = TRUE, ![c].status = "applying"]
              \/ /\ Leave(c) /\ Refreshes
                 /\ att' = att /\ plan' = plan /\ recovered' = recovered
              \/ /\ Open(wf.status) /\ ~plan[Tx(c)].revoked /\ ~plan[Tx(c)].consumed
                 /\ plan' = [plan EXCEPT ![Tx(c)].consumed = TRUE]
                 /\ wf' = [status |-> "applying", tx |-> Tx(c), last |-> now]
                 /\ job' = [job EXCEPT ![c].status = "applying"]
                 /\ Goto(c, "decide")
                 /\ recovered' = recovered
<1> DEFINE r == IF wf.status \in {"applying", "applied"} THEN wf ELSE Refreshed(wf)
           inFlight == r.status \in {"applying", "applied"}
           k == Tx(c)
<1>1. IsRow(wf)
  BY DEF TwoInv, Types
<1>2. /\ IsRow(r) /\ r.tx = wf.tx /\ (~Open(wf.status) => r = wf)
      /\ Open(wf.status) => Open(r.status)
  BY <1>1, Rows DEF Open
<1>3. r.status = "applied" => wf.status = "applied"
  BY <1>2 DEF Open
<1>4. r.status = "ready" => Open(wf.status)
  BY <1>2 DEF Open
<1>5. wf' = r => Refreshes
  BY <1>2 DEF Refreshes
<1>6. /\ pc[c] = "consume" /\ NoFs
      /\ \/ Leave(c) /\ NoDb
         \/ /\ r.status = "applied" /\ Goto(c, "cleanup") /\ NoDb
            /\ job' = [job EXCEPT ![c].replay = TRUE, ![c].status = r.status]
         \/ /\ r.status = "applying" /\ Goto(c, "decide") /\ NoDb
            /\ job' = [job EXCEPT ![c].replay = TRUE, ![c].status = r.status]
         \/ Leave(c) /\ wf' = r /\ UNCHANGED <<att, plan, recovered>>
         \/ /\ r.status = "ready" /\ ~plan[k].revoked /\ ~plan[k].consumed
            /\ plan' = [plan EXCEPT ![k].consumed = TRUE]
            /\ wf' = [status |-> "applying", tx |-> k, last |-> now]
            /\ job' = [job EXCEPT ![c].status = "applying"]
            /\ Goto(c, "decide") /\ recovered' = recovered
  BY DEF Consume, At
<1> HIDE DEF r
<1>7. QED
  BY <1>3, <1>4, <1>5, <1>6

LEMMA ConsumeKeeps ==
    ASSUME OneResumer, TwoInv, NEW c \in Procs, Consume(c)
    PROVE  TwoInv' /\ (wf.status = "applied" => wf' = wf)
                   /\ (wf'.status = "applied" => wf.status = "applied")
<1>1. pc[c] = "consume" /\ NoFs /\ Busy(c)
  BY ConsumeCases DEF Busy
<1>2. Types /\ PlansSound /\ TwoPhaseSafe /\ WorkSound(c) /\ PhaseSound(c)
  BY DEF TwoInv
<1>3. ~job[c].keep /\ Resuming(c) /\ Tx(c) \in Plans /\ plan[Tx(c)].issued /= None
  BY <1>1, <1>2 DEF WorkSound, Resuming
<1>4. CASE Leave(c) /\ NoDb
  BY <1>1, <1>4, QuietLeave DEF NoDb, dbVars
<1>5. ASSUME NoDb, NEW l \in {"cleanup", "decide"}, Goto(c, l), NEW s \in {"applied", "applying"},
             job' = [job EXCEPT ![c].replay = TRUE, ![c].status = s],
             l = "cleanup" => wf.status = "applied"
      PROVE  TwoInv' /\ wf' = wf
  <2>1. /\ job' \in [Procs -> Jobs] /\ \A e \in Procs : e # c => job'[e] = job[e]
        /\ job'[c].tx = job[c].tx /\ job'[c].replay = TRUE
        /\ job'[c].keep = job[c].keep /\ job'[c].saw = job[c].saw
    BY ZenonT(60), <1>2, <1>5 DEF Types, Jobs, Statuses
  <2>2. pc' \in [Procs -> Labels] /\ pc'[c] = l /\ \A e \in Procs : e # c => pc'[e] = pc[e]
    BY <1>2, <1>5 DEF Types, Labels, Goto
  <2>3. plan' = plan /\ wf' = wf /\ ws' = ws
    BY <1>1, <1>5 DEF NoDb, dbVars, NoFs, fsVars
  <2>4. WorkSound(c)' /\ FreshSound(c)'
    BY <1>1, <1>2, <1>3, <2>1, <2>2, <2>3 DEF WorkSound, FreshSound, Fresh, Tx, Busy
  <2>5. PhaseSound(c)'
    BY <1>1, <1>2, <1>3, <1>5, <2>1, <2>2, <2>3 DEF PhaseSound
  <2>6. QED
    BY <1>1, <1>3, <1>5, <2>1, <2>2, <2>3, <2>4, <2>5, QuietStep
<1>6. CASE Leave(c) /\ Refreshes /\ plan' = plan /\ recovered' = recovered
  <2>1. pc' \in [Procs -> Labels] /\ job' \in [Procs -> Jobs] /\ pc'[c] = "idle"
        /\ \A d \in Procs : d # c => pc'[d] = pc[d] /\ job'[d] = job[d]
    BY <1>2, <1>6, Leaves
  <2>2. Types' /\ PlansSound' /\ TwoPhaseSafe'
    BY <1>1, <1>6, <2>1, RefreshShared
  <2>3. ASSUME NEW d \in Procs, d # c PROVE Keeps(d)
    BY <1>1, <1>6, <2>1, <2>3, RefreshOthers DEF Busy, Tx
  <2>4. QED
    BY <1>6, <2>1, <2>2, <2>3, IdleSound, StepSound DEF Refreshes, Open
<1>7. ASSUME Open(wf.status), ~plan[Tx(c)].revoked, ~plan[Tx(c)].consumed,
             plan' = [plan EXCEPT ![Tx(c)].consumed = TRUE],
             wf' = [status |-> "applying", tx |-> Tx(c), last |-> now],
             job' = [job EXCEPT ![c].status = "applying"],
             Goto(c, "decide"), recovered' = recovered
      PROVE  TwoInv' /\ wf.status /= "applied" /\ wf'.status /= "applied"
  <2> DEFINE k == Tx(c)
  <2>1. /\ job' \in [Procs -> Jobs] /\ \A e \in Procs : e # c => job'[e] = job[e]
        /\ job'[c].tx = job[c].tx /\ job'[c].replay = job[c].replay
        /\ job'[c].keep = job[c].keep /\ job'[c].saw = job[c].saw
    BY <1>2, <1>7 DEF Types, Jobs, Statuses
  <2>2. pc' \in [Procs -> Labels] /\ pc'[c] = "decide" /\ \A e \in Procs : e # c => pc'[e] = pc[e]
    BY <1>2, <1>7 DEF Types, Labels, Goto
  <2>3. IsRow(wf') /\ wf'.status = "applying" /\ wf'.tx = k
    BY <1>7 DEF IsRow, Statuses
  <2>4. IsPlan(plan[k])
    BY <1>2, <1>3 DEF Types
  <2>5. /\ IsPlan(plan'[k]) /\ plan'[k].consumed = TRUE /\ plan'[k].revoked = plan[k].revoked
        /\ plan'[k].issued = plan[k].issued
    <3>1. plan'[k] = [plan[k] EXCEPT !.consumed = TRUE]
      BY <1>2, <1>3, <1>7 DEF Types
    <3>2. QED
      BY <2>4, <3>1 DEF IsPlan
  <2>6. /\ plan' = [j \in Plans |-> plan'[j]]
        /\ \A j \in Plans : j # k => plan'[j] = plan[j]
    BY <1>2, <1>7 DEF Types
  <2>7. Types'
    BY <1>1, <1>2, <2>1, <2>2, <2>3, <2>5, <2>6 DEF Types, NoFs, fsVars
  <2>8. ws' = ws /\ dir' = dir /\ lock' = lock
    BY <1>1 DEF NoFs, fsVars
  <2>9. PlansSound'
    BY <1>2, <1>3, <1>7, <2>3, <2>4, <2>5, <2>6, <2>8 DEF PlansSound, HasJournal, IsPlan
  <2>10. ws \in {"source", "drift"}
    BY <1>2, <1>7 DEF TwoPhaseSafe, NothingOrphaned, Open, Types, Contents
  <2>11. k \notin recovered /\ ~HasJournal(k)
    BY <1>2, <1>3, <1>7 DEF PlansSound
  <2>12. TwoPhaseSafe'
    BY <1>2, <1>3, <1>7, <2>3, <2>4, <2>5, <2>6, <2>8, <2>10, <2>11, NobodyAssumption
       DEF TwoPhaseSafe, NothingOrphaned, SpentOnce, Bound, PlansSound, IsPlan
  <2>13. WorkSound(c)'
    BY <1>1, <1>2, <1>3, <2>1, <2>2, <2>5 DEF WorkSound, Tx
  <2>14. FreshSound(c)'
    <3>1. ASSUME NEW d \in Procs, Busy(d)', job'[d].keep PROVE Tx(d)' /= k
      <4>1. d # c
        BY <1>3, <2>1, <3>1
      <4>2. WorkSound(d) /\ Busy(d) /\ job[d].keep /\ Tx(d)' = Tx(d)
        BY <2>1, <2>2, <3>1, <4>1 DEF TwoInv, Busy, Tx
      <4>3. QED
        BY <1>7, <4>2 DEF WorkSound
    <3>2. QED
      BY <1>7, <2>1, <2>3, <2>8, <2>11, <3>1 DEF FreshSound, HasJournal, Tx
  <2>15. PhaseSound(c)'
    BY <1>1, <1>2, <1>3, <1>7, <2>1, <2>2 DEF PhaseSound, Open
  <2>16. ASSUME NEW d \in Procs, d # c PROVE Keeps(d)
    <3>1. KeepsFresh(d) /\ KeepsResume(d)
      BY <1>3, <2>16, Alone
    <3>2. Still(d)
      BY <1>7, <2>1, <2>2, <2>5, <2>6, <2>16 DEF Still, Open
    <3>3. KeepsRecovery(d)
      <4>1. Busy(d) /\ job[d].keep => Tx(d) /= k
        BY <1>7 DEF TwoInv, WorkSound
      <4>2. QED
        BY <2>3, <2>8, <4>1 DEF KeepsRecovery
    <3>4. QED
      BY <3>1, <3>2, <3>3 DEF Keeps
  <2>17. QED
    BY <1>7, <2>3, <2>7, <2>9, <2>12, <2>13, <2>14, <2>15, <2>16, StepSound DEF Open
<1>8. QED
  BY <1>4, <1>5, <1>6, <1>7, ConsumeCases

\* The transaction on the files: it starts on the source, under authority that stands.
LEMMA ApplyBeginKeeps ==
    ASSUME OneResumer, TwoInv, NEW c \in Procs, ApplyBegin(c)
    PROVE  TwoInv' /\ wf' = wf /\ WriteUnderAuthority
<1>1. pc[c] = "apply" /\ NoDb /\ Busy(c) /\ Fresh(c)
  BY DEF ApplyBegin, At, Busy, Fresh
<1>2. Types /\ PlansSound /\ TwoPhaseSafe /\ WorkSound(c) /\ FreshSound(c) /\ PhaseSound(c)
  BY DEF TwoInv
<1>3. ~job[c].keep /\ Resuming(c) /\ Tx(c) \in Plans /\ job[c].saw = "source"
  BY <1>1, <1>2 DEF PhaseSound, WorkSound, Resuming
<1>4. plan' = plan /\ wf' = wf /\ recovered' = recovered
  BY <1>1 DEF NoDb, dbVars
<1>5. CASE Move(c, "failed") /\ NoFs
  <2>1. "failed" \in Labels \ {"apply", "decide"}
    BY DEF Labels
  <2>2. pc'[c] = "failed" /\ ws' = ws
    BY <1>2, <1>5, <2>1, Moves DEF NoFs, fsVars
  <2>3. PhaseSound(c)'
    BY <2>2 DEF PhaseSound
  <2>4. QED
    BY <1>1, <1>3, <1>4, <1>5, <2>1, <2>2, <2>3, QuietMove DEF WriteUnderAuthority
<1>6. ASSUME ws = "source", lock' = c, ws' = "mixed", dir' = [dir EXCEPT ![Tx(c)] = "open"],
             Move(c, "write")
      PROVE  TwoInv' /\ wf' = wf /\ WriteUnderAuthority
  <2>1. "write" \in Labels \ {"apply", "decide"}
    BY DEF Labels
  <2>2. /\ pc' \in [Procs -> Labels] /\ job' \in [Procs -> Jobs]
        /\ pc'[c] = "write" /\ job'[c] = job[c]
        /\ \A e \in Procs : e # c => pc'[e] = pc[e] /\ job'[e] = job[e]
    BY <1>2, <1>6, <2>1, Moves
  <2>3. /\ wf.status = "applying" /\ wf.tx = Tx(c)
        /\ ~HasJournal(Tx(c)) /\ Tx(c) \notin recovered
        /\ \A d \in Procs : Busy(d) /\ job[d].keep => Tx(d) /= Tx(c)
    BY <1>1, <1>2, <1>6 DEF FreshSound
  <2>4. dir' \in [Plans -> JournalStates] /\ dir'[Tx(c)] = "open"
        /\ \A k \in Plans : k # Tx(c) => dir'[k] = dir[k]
    BY <1>2, <1>3, <1>6 DEF Types, JournalStates
  <2>5. Types'
    BY <1>2, <1>4, <1>6, <2>2, <2>4 DEF Types, Contents
  <2>6. plan[Tx(c)].consumed /\ Bound(wf.tx)
    BY <1>2, <2>3 DEF TwoPhaseSafe, SpentOnce, Bound
  <2>7. PlansSound' /\ TwoPhaseSafe'
    BY <1>2, <1>3, <1>4, <1>6, <2>3, <2>4, <2>6
       DEF PlansSound, TwoPhaseSafe, NothingOrphaned, SpentOnce, HasJournal, Bound
  <2>8. WorkSound(c)' /\ FreshSound(c)'
    BY <1>1, <1>3, <1>4, <1>6, <2>1, MoveWork, MoveFresh
  <2>9. PhaseSound(c)'
    BY <1>3, <1>4, <1>6, <2>2, <2>3, <2>4 DEF PhaseSound, Tx
  <2>10. ASSUME NEW d \in Procs, d # c PROVE Keeps(d)
    <3>1. KeepsFresh(d) /\ KeepsResume(d)
      BY <1>3, <2>10, Alone
    <3>2. Still(d)
      BY <1>4, <2>2, <2>10 DEF Still
    <3>3. KeepsRecovery(d)
      BY <1>4, <2>3, <2>10 DEF KeepsRecovery
    <3>4. QED
      BY <3>1, <3>2, <3>3 DEF Keeps
  <2>11. WriteUnderAuthority
    BY <2>3, <2>4, <2>6 DEF WriteUnderAuthority, HasJournal
  <2>12. QED
    BY <1>4, <2>5, <2>7, <2>8, <2>9, <2>10, <2>11, StepSound
<1>7. QED
  BY <1>3, <1>5, <1>6 DEF ApplyBegin

\* It commits, it rolls back, or it leaves somebody's edit alone.
LEMMA ApplyWriteKeeps ==
    ASSUME OneResumer, TwoInv, NEW c \in Procs, ApplyWrite(c)
    PROVE  TwoInv' /\ wf' = wf /\ ws' \in {"candidate", "source", ws}
<1>1. pc[c] = "write" /\ NoDb /\ Busy(c)
  BY DEF ApplyWrite, At, Busy
<1>2. Types /\ PlansSound /\ TwoPhaseSafe /\ WorkSound(c) /\ PhaseSound(c)
  BY DEF TwoInv
<1>3. /\ ~job[c].keep /\ Resuming(c) /\ Tx(c) \in Plans /\ lock = c /\ dir[Tx(c)] = "open"
      /\ ws = "mixed" => \/ wf.status = "applying" /\ wf.tx = Tx(c)
                         \/ wf.status = "conflicted"
  BY <1>1, <1>2 DEF PhaseSound, WorkSound, Resuming
<1>4. plan' = plan /\ wf' = wf /\ recovered' = recovered
  BY <1>1 DEF NoDb, dbVars
<1>5. PICK l \in {"finish", "failed"} :
        /\ Move(c, l)
        /\ \/ /\ l = "finish" /\ ws = "mixed" /\ ws' = "candidate" /\ lock' = lock
              /\ dir' = [dir EXCEPT ![Tx(c)] = "committed"]
           \/ /\ l = "failed" /\ ws' = (IF ws = "mixed" THEN "source" ELSE ws) /\ lock' = None
              /\ dir' = [dir EXCEPT ![Tx(c)] = IF ws = "mixed" THEN "rolled_back" ELSE "open"]
  BY DEF ApplyWrite
<1>6. l \in Labels \ {"apply", "decide"}
  BY DEF Labels
<1>7. /\ pc' \in [Procs -> Labels] /\ job' \in [Procs -> Jobs]
      /\ pc'[c] = l /\ job'[c] = job[c]
      /\ \A e \in Procs : e # c => pc'[e] = pc[e] /\ job'[e] = job[e]
  BY <1>2, <1>5, <1>6, Moves
<1>8. /\ dir' \in [Plans -> JournalStates] /\ dir'[Tx(c)] /= "none"
      /\ dir'[Tx(c)] = "committed" <=> l = "finish"
      /\ \A k \in Plans : k # Tx(c) => dir'[k] = dir[k]
  BY <1>2, <1>3, <1>5 DEF Types, JournalStates
<1>9. Types'
  BY <1>2, <1>4, <1>5, <1>7, <1>8 DEF Types, Contents
<1>10. PlansSound' /\ TwoPhaseSafe'
  BY <1>2, <1>3, <1>4, <1>5, <1>8
     DEF PlansSound, TwoPhaseSafe, NothingOrphaned, SpentOnce, HasJournal, Bound
<1>11. WorkSound(c)' /\ FreshSound(c)'
  BY <1>1, <1>3, <1>4, <1>5, <1>6, MoveWork, MoveFresh
<1>12. PhaseSound(c)'
  BY <1>3, <1>5, <1>7 DEF PhaseSound
<1>13. ASSUME NEW d \in Procs, d # c PROVE Keeps(d)
  <2>1. KeepsFresh(d) /\ KeepsResume(d)
    BY <1>3, <1>13, Alone
  <2>2. Still(d) /\ KeepsRecovery(d)
    BY <1>4, <1>5, <1>7, <1>13 DEF Still, KeepsRecovery
  <2>3. QED
    BY <2>1, <2>2 DEF Keeps
<1>14. QED
  BY <1>4, <1>5, <1>9, <1>10, <1>11, <1>12, <1>13, StepSound

(***************************************************************************)
(* A workflow in flight becomes applied under a workspace that holds the   *)
(* candidate, or somebody's edit of it.                                    *)
(***************************************************************************)
LEMMA MarkedShared ==
    ASSUME TwoInv, wf.status \in {"applying", "applied"}, wf' = Marked,
           ws \in {"candidate", "drift"}, ws' = ws, dir' = dir, plan' = plan,
           recovered' = recovered, lock' \in {lock, None},
           pc' \in [Procs -> Labels], job' \in [Procs -> Jobs]
    PROVE  /\ Types' /\ PlansSound' /\ TwoPhaseSafe'
           /\ wf'.status = "applied" /\ wf'.tx = wf.tx
           /\ wf.status = "applied" => wf' = wf
<1>1. IsRow(wf') /\ wf'.status = "applied" /\ wf'.tx = wf.tx
      /\ (wf.status = "applied" => wf' = wf)
  BY MarkedRow DEF TwoInv, Types
<1>2. QED
  BY <1>1 DEF TwoInv, Types, PlansSound, TwoPhaseSafe, NothingOrphaned, SpentOnce, HasJournal, Bound

LEMMA ApplyFinishKeeps ==
    ASSUME OneResumer, TwoInv, NEW c \in Procs, ApplyFinish(c)
    PROVE  /\ TwoInv' /\ ws' = ws /\ (wf.status = "applied" => wf' = wf)
           /\ wf'.status = "applied" /\ wf.status /= "applied" => ws \in {"candidate", "drift"}
<1>1. /\ pc[c] = "finish" /\ Busy(c) /\ lock' = None /\ ws' = ws /\ dir' = dir
      /\ plan' = plan /\ recovered' = recovered
  BY DEF ApplyFinish, At, Busy
<1>2. Types /\ WorkSound(c) /\ PhaseSound(c)
  BY DEF TwoInv
<1>3. ~job[c].keep /\ Resuming(c) /\ ws \in {"candidate", "drift"}
  BY <1>1, <1>2 DEF PhaseSound, Resuming
<1>4. PICK l \in {"cleanup", "failed"} :
        /\ Move(c, l)
        /\ \/ l = "cleanup" /\ wf.status \in {"applying", "applied"} /\ wf' = Marked
           \/ l = "failed" /\ wf' = wf
  BY DEF ApplyFinish, CanMark
<1>5. l \in Labels \ {"apply", "decide"}
  BY DEF Labels
<1>6. /\ pc' \in [Procs -> Labels] /\ job' \in [Procs -> Jobs]
      /\ pc'[c] = l /\ job'[c] = job[c]
      /\ \A e \in Procs : e # c => pc'[e] = pc[e] /\ job'[e] = job[e]
  BY <1>2, <1>4, <1>5, Moves
<1>7. /\ Types' /\ PlansSound' /\ TwoPhaseSafe'
      /\ l = "cleanup" => wf'.status = "applied" /\ (wf.status = "applied" => wf' = wf)
  <2>1. CASE wf' = Marked /\ wf.status \in {"applying", "applied"}
    BY <1>1, <1>3, <1>6, <2>1, MarkedShared
  <2>2. CASE l = "failed" /\ wf' = wf
    BY <1>1, <1>6, <2>2
       DEF TwoInv, Types, PlansSound, TwoPhaseSafe, NothingOrphaned, SpentOnce, HasJournal, Bound
  <2>3. QED
    BY <1>4, <2>1, <2>2
<1>8. WorkSound(c)' /\ FreshSound(c)'
  BY <1>1, <1>3, <1>4, <1>5, MoveWork, MoveFresh
<1>9. PhaseSound(c)'
  BY <1>4, <1>6, <1>7 DEF PhaseSound
<1>10. ASSUME NEW d \in Procs, d # c PROVE Keeps(d)
  <2>1. KeepsFresh(d) /\ KeepsResume(d)
    BY <1>3, <1>10, Alone
  <2>2. Still(d) /\ KeepsRecovery(d)
    BY <1>1, <1>4, <1>6, <1>7, <1>10 DEF Still, KeepsRecovery
  <2>3. QED
    BY <2>1, <2>2 DEF Keeps
<1>11. QED
  BY <1>1, <1>3, <1>4, <1>7, <1>8, <1>9, <1>10, StepSound

-----------------------------------------------------------------------------
(***************************************************************************)
(* Steps of the recovery, by a process of apply_resume or by another one.  *)
(***************************************************************************)
LEMMA FreshElsewhere ==
    ASSUME OneResumer, TwoInv, NEW c \in Procs, Busy(c), NEW d \in Procs, d # c, Fresh(d)
    PROVE  job[c].keep /\ Tx(c) /= Tx(d) /\ FreshSound(d)
<1>1. Resuming(d)
  BY DEF Fresh, Resuming, Busy, TwoInv, WorkSound, PhaseSound
<1>2. ~Resuming(c)
  BY <1>1, Alone
<1>3. QED
  BY <1>2 DEF Resuming, TwoInv, FreshSound

\* A step of c that leaves the rest of the processes alone hands no confirmation to a recovery.
LEMMA FreshKept ==
    ASSUME OneResumer, TwoInv, NEW c \in Procs, Busy(c), NEW d \in Procs, d # c, Fresh(d),
           \A e \in Procs : e # c => pc'[e] = pc[e] /\ job'[e] = job[e],
           job'[c] = job[c] \/ pc'[c] = "idle"
    PROVE  \A e \in Procs : Busy(e)' /\ job'[e].keep => Tx(e)' /= Tx(d)
BY FreshElsewhere DEF FreshSound, Busy, Tx

LEMMA RecoverFinishKeeps ==
    ASSUME OneResumer, TwoInv, NEW c \in Procs, RecoverFinish(c)
    PROVE  /\ TwoInv' /\ (wf.status = "applied" => wf' = wf)
           /\ wf'.status = "applied" /\ wf.status /= "applied" => ws \in {"candidate", "drift"}
<1>1. /\ pc[c] = "recover" /\ Busy(c) /\ NoFs
      /\ \/ Leave(c) /\ NoDb
         \/ Move(c, "rollback") /\ NoDb
         \/ ~job[c].keep /\ (Move(c, "await") \/ Move(c, "recoverFailed")) /\ NoDb
         \/ /\ lock = None /\ ws = "candidate" /\ CanMark(Tx(c)) /\ wf' = Marked
            /\ plan' = plan /\ recovered' = recovered /\ Move(c, "cleanup")
  BY DEF RecoverFinish, At, Busy, Trouble, Free
<1>2. Types
  BY DEF TwoInv
<1>3. CASE Leave(c) /\ NoDb
  BY <1>1, <1>3, QuietLeave DEF NoDb, dbVars
<1>4. ASSUME NEW l \in {"rollback", "await", "recoverFailed"}, Move(c, l), NoDb,
             job[c].keep => l = "rollback"
      PROVE  TwoInv' /\ wf' = wf
  <2>1. l \in Labels \ {"apply", "decide"}
    BY DEF Labels
  <2>2. pc'[c] = l
    BY <1>2, <1>4, <2>1, Moves
  <2>3. PhaseSound(c)'
    BY <2>2 DEF PhaseSound
  <2>4. QED
    BY <1>1, <1>4, <2>1, <2>3, QuietMove DEF NoDb, dbVars
<1>5. ASSUME lock = None, ws = "candidate", CanMark(Tx(c)), wf' = Marked,
             plan' = plan, recovered' = recovered, Move(c, "cleanup")
      PROVE  TwoInv' /\ (wf.status = "applied" => wf' = wf)
  <2>1. "cleanup" \in Labels \ {"apply", "decide"}
    BY DEF Labels
  <2>2. /\ pc' \in [Procs -> Labels] /\ job' \in [Procs -> Jobs]
        /\ pc'[c] = "cleanup" /\ job'[c] = job[c]
        /\ \A e \in Procs : e # c => pc'[e] = pc[e] /\ job'[e] = job[e]
    BY <1>2, <1>5, <2>1, Moves
  <2>3. ws' = ws /\ dir' = dir /\ lock' = lock
    BY <1>1 DEF NoFs, fsVars
  <2>4. wf.status \in {"applying", "applied"} /\ wf.tx = Tx(c)
    BY <1>5 DEF CanMark
  <2>5. /\ Types' /\ PlansSound' /\ TwoPhaseSafe'
        /\ wf'.status = "applied" /\ wf'.tx = wf.tx
        /\ wf.status = "applied" => wf' = wf
    BY <1>5, <2>2, <2>3, <2>4, MarkedShared
  <2>6. WorkSound(c)' /\ FreshSound(c)'
    BY <1>1, <1>5, <2>1, MoveWork, MoveFresh
  <2>7. PhaseSound(c)'
    BY <2>2, <2>5 DEF PhaseSound
  <2>8. ASSUME NEW d \in Procs, d # c PROVE Keeps(d)
    <3>1. ~Fresh(d)
      BY <1>1, <2>4, <2>8, FreshElsewhere DEF FreshSound
    <3>2. lock # d
      BY <1>5, NobodyAssumption
    <3>3. QED
      BY <1>2, <1>5, <2>2, <2>3, <2>5, <2>8, <3>1, <3>2
         DEF Keeps, Still, KeepsFresh, KeepsResume, KeepsRecovery, HasJournal, Types
  <2>9. QED
    BY <2>2, <2>5, <2>6, <2>7, <2>8, StepSound
<1>6. QED
  BY <1>1, <1>3, <1>4, <1>5

LEMMA RecoverRollbackKeeps ==
    ASSUME OneResumer, TwoInv, NEW c \in Procs, RecoverRollback(c)
    PROVE  TwoInv' /\ wf' = wf /\ ws' \in {"source", ws}
<1>1. /\ pc[c] = "rollback" /\ Busy(c) /\ NoDb
      /\ \/ Leave(c) /\ NoFs
         \/ ~job[c].keep /\ (Move(c, "await") \/ Move(c, "recoverFailed")) /\ NoFs
         \/ /\ lock = None /\ HasJournal(Tx(c)) /\ ws \in {"source", "mixed"}
            /\ ws' = "source" /\ lock' = lock
            /\ dir' = [dir EXCEPT ![Tx(c)] = IF job[c].keep THEN "recovered" ELSE "none"]
            /\ Move(c, "restored")
  BY DEF RecoverRollback, At, Busy, Trouble, Free
<1>2. Types /\ PlansSound /\ TwoPhaseSafe /\ WorkSound(c)
  BY DEF TwoInv
<1>3. plan' = plan /\ wf' = wf /\ recovered' = recovered
  BY <1>1 DEF NoDb, dbVars
<1>4. CASE Leave(c) /\ NoFs
  BY <1>1, <1>3, <1>4, QuietLeave DEF NoFs, fsVars
<1>5. ASSUME NEW l \in {"await", "recoverFailed"}, Move(c, l), NoFs, ~job[c].keep
      PROVE  TwoInv' /\ ws' = ws
  <2>1. l \in Labels \ {"apply", "decide"}
    BY DEF Labels
  <2>2. pc'[c] = l
    BY <1>2, <1>5, <2>1, Moves
  <2>3. PhaseSound(c)'
    BY <2>2 DEF PhaseSound
  <2>4. QED
    BY <1>1, <1>5, <2>1, <2>3, QuietMove DEF NoFs, fsVars
<1>6. ASSUME lock = None, HasJournal(Tx(c)), ws \in {"source", "mixed"}, ws' = "source",
             lock' = lock,
             dir' = [dir EXCEPT ![Tx(c)] = IF job[c].keep THEN "recovered" ELSE "none"],
             Move(c, "restored")
      PROVE  TwoInv'
  <2>1. "restored" \in Labels \ {"apply", "decide"} /\ Tx(c) \in Plans
    BY <1>1, <1>2 DEF Labels, WorkSound
  <2>2. /\ pc' \in [Procs -> Labels] /\ job' \in [Procs -> Jobs]
        /\ pc'[c] = "restored" /\ job'[c] = job[c]
        /\ \A e \in Procs : e # c => pc'[e] = pc[e] /\ job'[e] = job[e]
    BY <1>2, <1>6, <2>1, Moves
  <2>3. /\ dir' \in [Plans -> JournalStates] /\ (~job[c].keep => dir'[Tx(c)] = "none")
        /\ \A k \in Plans : k # Tx(c) => dir'[k] = dir[k]
    BY <1>2, <1>6, <2>1 DEF Types, JournalStates
  <2>4. Types'
    BY <1>2, <1>3, <1>6, <2>2, <2>3 DEF Types, Contents
  <2>5. PlansSound' /\ TwoPhaseSafe'
    BY <1>2, <1>3, <1>6, <2>1, <2>3
       DEF PlansSound, TwoPhaseSafe, NothingOrphaned, SpentOnce, HasJournal, Bound
  <2>6. WorkSound(c)' /\ FreshSound(c)'
    BY <1>1, <1>3, <1>6, <2>1, MoveWork, MoveFresh
  <2>7. PhaseSound(c)'
    BY <1>6, <2>2, <2>3 DEF PhaseSound, HasJournal, Tx
  <2>8. ASSUME NEW d \in Procs, d # c PROVE Keeps(d)
    <3>1. lock # d
      BY <1>6, NobodyAssumption
    <3>2. Still(d) /\ KeepsResume(d) /\ KeepsRecovery(d)
      BY <1>2, <1>3, <1>6, <2>1, <2>2, <2>3, <2>8, <3>1
         DEF Still, KeepsResume, KeepsRecovery, HasJournal
    <3>3. KeepsFresh(d)
      <4>1. SUFFICES ASSUME Fresh(d) PROVE KeepsFresh(d)
        BY DEF KeepsFresh
      <4>2. Tx(d) # Tx(c) /\ Tx(d) \in Plans
        BY <1>1, <2>8, <4>1, FreshElsewhere DEF TwoInv, WorkSound, Busy, Fresh
      <4>3. \A e \in Procs : Busy(e)' /\ job'[e].keep => Tx(e)' /= Tx(d)
        BY <1>1, <2>2, <2>8, <4>1, FreshKept
      <4>4. QED
        BY <1>3, <1>6, <2>3, <4>2, <4>3 DEF KeepsFresh
    <3>4. QED
      BY <3>2, <3>3 DEF Keeps
  <2>9. QED
    BY <2>2, <2>4, <2>5, <2>6, <2>7, <2>8, StepSound
<1>7. QED
  BY <1>1, <1>3, <1>4, <1>5, <1>6

(***************************************************************************)
(* The workflow is reset only on a workspace without the candidate: either *)
(* the journal is gone, or what kept it has just seen the source.          *)
(***************************************************************************)
LEMMA ResetKeeps ==
    ASSUME OneResumer, TwoInv, NEW c \in Procs, Reset(c)
    PROVE  TwoInv' /\ (wf.status = "applied" => wf' = wf)
                   /\ (wf'.status = "applied" => wf.status = "applied")
<1>1. pc[c] = "reset" /\ Busy(c) /\ NoFs /\ plan' = plan
  BY DEF Reset, At, Busy
<1>2. Types /\ PlansSound /\ TwoPhaseSafe /\ WorkSound(c) /\ PhaseSound(c) /\ IsRow(wf)
  BY DEF TwoInv, Types
<1>3. ws' = ws /\ dir' = dir /\ lock' = lock
  BY <1>1 DEF NoFs, fsVars
<1>4. \/ /\ wf.status = "applying" /\ wf.tx = Tx(c) /\ Tx(c) \notin recovered
         /\ recovered' = recovered \cup {Tx(c)}
         /\ wf' = [status |-> IF Alive THEN Standing ELSE "expired", tx |-> None, last |-> now]
         /\ IF job[c].keep THEN Move(c, "cleanup") ELSE Leave(c)
      \/ (wf' = Refreshed(wf) \/ wf' = wf) /\ recovered' = recovered /\ Leave(c)
  BY DEF Reset
<1>5. ASSUME wf' = Refreshed(wf) \/ wf' = wf, recovered' = recovered, Leave(c)
      PROVE  TwoInv' /\ (wf.status = "applied" => wf' = wf)
                     /\ (wf'.status = "applied" => wf.status = "applied")
  <2>1. Refreshes
    BY <1>2, <1>5, Rows DEF Refreshes
  <2>2. pc' \in [Procs -> Labels] /\ job' \in [Procs -> Jobs] /\ pc'[c] = "idle"
        /\ \A d \in Procs : d # c => pc'[d] = pc[d] /\ job'[d] = job[d]
    BY <1>2, <1>5, Leaves
  <2>3. Types' /\ PlansSound' /\ TwoPhaseSafe'
    BY <1>1, <1>5, <2>1, <2>2, RefreshShared
  <2>4. ASSUME NEW d \in Procs, d # c PROVE Keeps(d)
    BY <1>1, <1>5, <2>1, <2>2, <2>4, RefreshOthers DEF Busy, Tx
  <2>5. QED
    BY <2>1, <2>2, <2>3, <2>4, IdleSound, StepSound DEF Refreshes, Open
<1>6. ASSUME wf.status = "applying", wf.tx = Tx(c), Tx(c) \notin recovered,
             recovered' = recovered \cup {Tx(c)},
             wf' = [status |-> IF Alive THEN Standing ELSE "expired", tx |-> None, last |-> now],
             IF job[c].keep THEN Move(c, "cleanup") ELSE Leave(c)
      PROVE  TwoInv' /\ wf.status /= "applied" /\ wf'.status /= "applied"
  <2>1. IsRow(wf') /\ wf'.status \notin {"applying", "applied", "conflicted"}
    <3> DEFINE st == IF Alive THEN Standing ELSE "expired"
    <3>1. st \in {"staged", "attested", "ready", "expired"}
      BY DEF Standing
    <3> HIDE DEF st
    <3>2. wf' = [status |-> st, tx |-> None, last |-> now]
      BY <1>6 DEF st
    <3>3. QED
      BY <3>1, <3>2 DEF IsRow, Statuses
  <2>2. Tx(c) \in Plans /\ plan[Tx(c)].consumed
    BY <1>1, <1>2, <1>6 DEF WorkSound, TwoPhaseSafe, SpentOnce, Bound
  <2>3. ws \in {"source", "drift"}
    <3>1. CASE job[c].keep
      BY <1>1, <1>2, <1>6, <3>1 DEF PhaseSound
    <3>2. CASE ~job[c].keep
      BY <1>1, <1>2, <1>6, <3>2 DEF PhaseSound, TwoPhaseSafe, NothingOrphaned, Types, Contents
    <3>3. QED
      BY <3>1, <3>2
  <2>4. /\ pc' \in [Procs -> Labels] /\ job' \in [Procs -> Jobs]
        /\ \/ job[c].keep /\ pc'[c] = "cleanup" /\ job'[c] = job[c] /\ Move(c, "cleanup")
           \/ pc'[c] = "idle"
        /\ \A e \in Procs : e # c => pc'[e] = pc[e] /\ job'[e] = job[e]
    <3>1. "cleanup" \in Labels
      BY DEF Labels
    <3>2. QED
      BY <1>2, <1>6, <3>1, Moves, Leaves
  <2>5. Types' /\ PlansSound' /\ TwoPhaseSafe'
    BY <1>1, <1>2, <1>3, <1>6, <2>1, <2>2, <2>3, <2>4
       DEF Types, PlansSound, TwoPhaseSafe, NothingOrphaned, SpentOnce, HasJournal
  <2>6. WorkSound(c)' /\ FreshSound(c)' /\ PhaseSound(c)'
    <3>1. CASE pc'[c] = "idle"
      BY <3>1, IdleSound
    <3>2. CASE pc'[c] = "cleanup" /\ job'[c] = job[c]
      BY <1>1, <1>2, <1>6, <3>2 DEF WorkSound, FreshSound, Fresh, PhaseSound, Busy, Tx
    <3>3. QED
      BY <2>4, <3>1, <3>2
  <2>7. ASSUME NEW d \in Procs, d # c PROVE Keeps(d)
    <3>1. ~Fresh(d)
      BY <1>1, <1>6, <2>7, FreshElsewhere DEF FreshSound
    <3>2. QED
      BY <1>1, <1>2, <1>3, <1>6, <2>1, <2>3, <2>4, <2>7, <3>1
         DEF Keeps, Still, KeepsFresh, KeepsResume, KeepsRecovery, HasJournal, Types
  <2>8. QED
    BY <1>6, <2>1, <2>4, <2>5, <2>6, <2>7, StepSound
<1>7. QED
  BY <1>4, <1>5, <1>6

\* Only the journal of a transaction that is over is removed.
LEMMA CleanupKeeps ==
    ASSUME OneResumer, TwoInv, NEW c \in Procs, Cleanup(c)
    PROVE  TwoInv' /\ wf' = wf /\ ws' = ws
<1>1. /\ pc[c] = "cleanup" /\ Busy(c) /\ NoDb /\ ws' = ws /\ lock' = lock
      /\ dir' = dir \/ (lock = None /\ dir' = [dir EXCEPT ![Tx(c)] = "none"])
      /\ Leave(c) \/ (pc' = pc /\ job' = job)
  BY DEF Cleanup, At, Busy, Free, NoFs, fsVars
<1>2. Types /\ PlansSound /\ TwoPhaseSafe /\ WorkSound(c) /\ PhaseSound(c)
  BY DEF TwoInv
<1>3. plan' = plan /\ wf' = wf /\ recovered' = recovered
  BY <1>1 DEF NoDb, dbVars
<1>4. /\ pc' \in [Procs -> Labels] /\ job' \in [Procs -> Jobs]
      /\ pc'[c] = "idle" \/ (pc'[c] = pc[c] /\ job'[c] = job[c])
      /\ \A e \in Procs : e # c => pc'[e] = pc[e] /\ job'[e] = job[e]
  BY <1>1, <1>2, Leaves DEF Types
<1>5. /\ Tx(c) \in Plans /\ (Tx(c) \in recovered \/ wf.status = "applied")
  BY <1>1, <1>2 DEF WorkSound, PhaseSound
<1>6. /\ dir' \in [Plans -> JournalStates]
      /\ \A k \in Plans : dir'[k] = dir[k] \/ (k = Tx(c) /\ dir'[k] = "none")
  BY <1>1, <1>2, <1>5 DEF Types, JournalStates
<1>7. Types'
  BY <1>1, <1>2, <1>3, <1>4, <1>6 DEF Types
<1>8. PlansSound'
  BY <1>2, <1>3, <1>6 DEF PlansSound, HasJournal
<1>9. TwoPhaseSafe'
  <2>1. ws \in {"mixed", "candidate"} /\ wf.status = "applying" => dir'[wf.tx] = dir[wf.tx]
    BY <1>2, <1>5, <1>6 DEF TwoPhaseSafe, SpentOnce, PlansSound
  <2>2. QED
    BY <1>1, <1>2, <1>3, <2>1 DEF TwoPhaseSafe, NothingOrphaned, SpentOnce, HasJournal, Bound
<1>10. WorkSound(c)' /\ FreshSound(c)' /\ PhaseSound(c)'
  <2>1. CASE pc'[c] = "idle"
    BY <2>1, IdleSound
  <2>2. CASE pc'[c] = pc[c] /\ job'[c] = job[c]
    BY <1>1, <1>2, <1>3, <1>5, <2>2 DEF WorkSound, FreshSound, Fresh, PhaseSound, Busy, Tx
  <2>3. QED
    BY <1>4, <2>1, <2>2
<1>11. ASSUME NEW d \in Procs, d # c PROVE Keeps(d)
  <2>1. Still(d) /\ KeepsRecovery(d)
    BY <1>1, <1>3, <1>4, <1>11 DEF Still, KeepsRecovery
  <2>2. KeepsResume(d)
    BY <1>1, <1>3, <1>6, NobodyAssumption DEF KeepsResume, HasJournal
  <2>3. KeepsFresh(d)
    <3>1. SUFFICES ASSUME Fresh(d) PROVE KeepsFresh(d)
      BY DEF KeepsFresh
    <3>2. Tx(d) # Tx(c) /\ Tx(d) \in Plans
      BY <1>1, <1>11, <3>1, FreshElsewhere DEF TwoInv, WorkSound, Busy, Fresh
    <3>3. \A e \in Procs : Busy(e)' /\ job'[e].keep => Tx(e)' /= Tx(d)
      BY <1>1, <1>4, <1>11, <3>1, FreshKept
    <3>4. QED
      BY <1>1, <1>3, <1>6, <3>2, <3>3 DEF KeepsFresh
  <2>4. QED
    BY <2>1, <2>2, <2>3 DEF Keeps
<1>12. QED
  BY <1>1, <1>3, <1>4, <1>7, <1>8, <1>9, <1>10, <1>11, StepSound

\* A recovery starts on a transaction that was begun, never on one just confirmed.
LEMMA RecoveryStartKeeps ==
    ASSUME TwoInv, NEW c \in Procs, RecoveryStart(c)
    PROVE  TwoInv'
<1>1. PICK t \in Plans, l \in {"recover", "cleanup"} :
        /\ \/ wf.status = "applying" /\ wf.tx = t /\ Bound(t) /\ HasJournal(t) /\ l = "recover"
           \/ wf.status = "applied" /\ wf.tx = t /\ Bound(t) /\ l = "cleanup"
           \/ t \in recovered /\ HasJournal(t) /\ l = "cleanup"
        /\ pc' = [pc EXCEPT ![c] = l]
        /\ job' = [job EXCEPT ![c] = [NoJob EXCEPT !.tx = t, !.status = wf.status, !.keep = TRUE]]
  BY DEF RecoveryStart, Goto
<1>2. pc[c] = "idle" /\ NoDb /\ NoFs
  BY DEF RecoveryStart, At
<1>3. Types /\ PlansSound /\ TwoPhaseSafe /\ wf.status \in Statuses
  BY DEF TwoInv, Types, IsRow
<1>4. /\ wf' = wf /\ plan' = plan /\ recovered' = recovered
      /\ ws' = ws /\ dir' = dir /\ lock' = lock
  BY <1>2 DEF NoDb, NoFs, dbVars, fsVars
<1> DEFINE j == [NoJob EXCEPT !.tx = t, !.status = wf.status, !.keep = TRUE]
<1>5. j \in Jobs /\ j.tx = t /\ j.keep = TRUE
  BY <1>3 DEF NoJob, Jobs
<1>6. job' = [job EXCEPT ![c] = j]
  BY <1>1
<1> HIDE DEF j
<1>7. /\ pc' \in [Procs -> Labels] /\ job' \in [Procs -> Jobs]
      /\ pc'[c] = l /\ job'[c] = j
      /\ \A e \in Procs : e # c => pc'[e] = pc[e] /\ job'[e] = job[e]
  BY <1>1, <1>3, <1>5, <1>6 DEF Types, Labels
<1>8. Types' /\ PlansSound' /\ TwoPhaseSafe'
  BY <1>2, <1>7, QuietShared
<1>9. plan[t].consumed /\ plan[t].issued /= None
  BY <1>1, <1>3 DEF Bound, PlansSound
<1>10. WorkSound(c)' /\ FreshSound(c)'
  BY <1>4, <1>5, <1>7, <1>9 DEF WorkSound, FreshSound, Fresh, Busy, Tx
<1>11. PhaseSound(c)'
  BY <1>1, <1>4, <1>5, <1>7 DEF PhaseSound, Tx
<1>12. ASSUME NEW d \in Procs, d # c PROVE Keeps(d)
  <2>1. Still(d) /\ KeepsResume(d) /\ KeepsRecovery(d)
    BY <1>3, <1>4, <1>7, <1>12 DEF Still, KeepsResume, KeepsRecovery, HasJournal, Types
  <2>2. KeepsFresh(d)
    <3>1. SUFFICES ASSUME Fresh(d) PROVE KeepsFresh(d)
      BY DEF KeepsFresh
    <3>2. FreshSound(d)
      BY DEF TwoInv
    <3>3. t # Tx(d)
      BY <1>1, <3>1, <3>2 DEF FreshSound
    <3>4. \A e \in Procs : Busy(e)' /\ job'[e].keep => Tx(e)' /= Tx(d)
      BY <1>5, <1>7, <3>1, <3>2, <3>3 DEF FreshSound, Busy, Tx
    <3>5. QED
      BY <1>4, <3>4 DEF KeepsFresh
  <2>3. QED
    BY <2>1, <2>2 DEF Keeps
<1>13. QED
  BY <1>7, <1>8, <1>10, <1>11, <1>12, StepSound

-----------------------------------------------------------------------------
LEMMA TwoInvInit ==
    ASSUME TwoInit
    PROVE  TwoInv
<1>1. IsRow(wf) /\ wf.status = "staged"
  BY DEF TwoInit, IsRow, Statuses
<1>2. ASSUME NEW k \in Plans
      PROVE IsPlan(plan[k]) /\ plan[k].consumed = FALSE /\ dir[k] = "none"
  BY DEF TwoInit, NoPlan, IsPlan
<1>3. NoJob \in Jobs
  BY DEF NoJob, Jobs
<1>4. Types
  BY <1>1, <1>2, <1>3 DEF TwoInit, Types, Contents, JournalStates, Labels
<1>5. PlansSound /\ TwoPhaseSafe
  BY <1>1, <1>2 DEF TwoInit, PlansSound, TwoPhaseSafe, NothingOrphaned, SpentOnce, HasJournal
<1>6. \A c \in Procs : pc[c] = "idle"
  BY DEF TwoInit
<1>7. QED
  BY <1>4, <1>5, <1>6 DEF TwoInv, WorkSound, FreshSound, PhaseSound, Busy, Fresh

(***************************************************************************)
(* One step: the invariant is kept, a write starts under authority and an  *)
(* applied workflow stays as it is.                                        *)
(***************************************************************************)
StepOK == TwoInv' /\ WriteUnderAuthority /\ AppliedIsFinal

LEMMA QuietOK ==
    ASSUME TwoInv', wf' = wf, ws' \in {"source", "candidate", "drift", ws}
    PROVE  StepOK
BY DEF StepOK, WriteUnderAuthority, AppliedIsFinal

LEMMA RowOK ==
    ASSUME TwoInv', ws' = ws, wf.status = "applied" => wf' = wf,
           wf'.status = "applied" /\ wf.status /= "applied" => ws \in {"candidate", "drift"}
    PROVE  StepOK
BY DEF StepOK, WriteUnderAuthority, AppliedIsFinal

LEMMA ResumeOK ==
    ASSUME OneResumer, TwoInv, NEW c \in Procs, Resume(c)
    PROVE  StepOK
<1>1. CASE ResumeStart(c)
  BY <1>1, ResumeStartKeeps, RowOK DEF ResumeStart, NoFs, fsVars
<1>2. CASE Look(c)
  BY <1>2, LookKeeps, QuietOK DEF Look, NoDb, NoFs, dbVars, fsVars
<1>3. CASE Consume(c)
  BY <1>3, ConsumeKeeps, RowOK DEF Consume, NoFs, fsVars
<1>4. CASE Decide(c)
  BY <1>4, DecideKeeps, QuietOK DEF Decide, NoDb, NoFs, dbVars, fsVars
<1>5. CASE ApplyBegin(c)
  BY <1>5, ApplyBeginKeeps DEF StepOK, AppliedIsFinal
<1>6. CASE ApplyWrite(c)
  BY <1>6, ApplyWriteKeeps, QuietOK
<1>7. CASE ApplyFinish(c)
  BY <1>7, ApplyFinishKeeps, RowOK
<1>8. CASE ApplyFailed(c)
  BY <1>8, ApplyFailedKeeps, QuietOK DEF ApplyFailed, NoDb, NoFs, dbVars, fsVars
<1>9. QED
  BY <1>1, <1>2, <1>3, <1>4, <1>5, <1>6, <1>7, <1>8 DEF Resume

LEMMA RecoveryOK ==
    ASSUME OneResumer, TwoInv, NEW c \in Procs, Recovery(c)
    PROVE  StepOK
<1>1. CASE RecoveryStart(c)
  BY <1>1, RecoveryStartKeeps, QuietOK DEF RecoveryStart, NoDb, NoFs, dbVars, fsVars
<1>2. CASE RecoverFinish(c)
  BY <1>2, RecoverFinishKeeps, RowOK DEF RecoverFinish, NoFs, fsVars
<1>3. CASE RecoverRollback(c)
  BY <1>3, RecoverRollbackKeeps, QuietOK
<1>4. CASE RecoverCheck(c)
  BY <1>4, RecoverCheckKeeps, QuietOK DEF RecoverCheck, NoDb, NoFs, dbVars, fsVars
<1>5. CASE RecoverFailed(c)
  BY <1>5, RecoverFailedKeeps, QuietOK DEF RecoverFailed, NoDb, NoFs, dbVars, fsVars
<1>6. CASE Await(c)
  BY <1>6, AwaitKeeps, QuietOK DEF Await, NoDb, NoFs, dbVars, fsVars
<1>7. CASE Reset(c)
  BY <1>7, ResetKeeps, RowOK DEF Reset, NoFs, fsVars
<1>8. CASE Conflict(c)
  BY <1>8, ConflictKeeps, RowOK DEF Conflict, NoFs, fsVars
<1>9. CASE Mark(c)
  BY <1>9, MarkKeeps, QuietOK DEF Mark, NoFs, fsVars
<1>10. CASE Cleanup(c)
  BY <1>10, CleanupKeeps, QuietOK
<1>11. QED
  BY <1>1, <1>2, <1>3, <1>4, <1>5, <1>6, <1>7, <1>8, <1>9, <1>10 DEF Recovery

LEMMA TwoInvNext ==
    ASSUME OneResumer, TwoInv, TwoNext
    PROVE  StepOK
<1>1. ASSUME NEW v \in Verifiers, RecordAttestation(v) PROVE StepOK
  BY <1>1, RecordAttestationKeeps, RowOK DEF RecordAttestation, fsVars
<1>2. ASSUME NEW k \in Plans, IssuePlan(k) PROVE StepOK
  BY <1>2, IssuePlanKeeps, RowOK DEF IssuePlan, fsVars
<1>3. CASE PlanConflict
  BY <1>3, PlanConflictKeeps, RowOK DEF PlanConflict, fsVars
<1>4. ASSUME NEW c \in Procs, Crash(c) PROVE StepOK
  BY <1>4, CrashKeeps, QuietOK DEF Crash
<1>5. CASE Edit
  BY <1>5, EditKeeps, QuietOK DEF Edit
<1>6. CASE Tick
  BY <1>6, TickKeeps, QuietOK DEF Tick, NoFs, fsVars
<1>7. QED
  BY <1>1, <1>2, <1>3, <1>4, <1>5, <1>6, ResumeOK, RecoveryOK DEF TwoNext

LEMMA TwoInvStutter ==
    ASSUME TwoInv, UNCHANGED twoVars
    PROVE  TwoInv'
<1>1. pc' = pc /\ job' = job /\ NoDb /\ NoFs /\ plan' = plan /\ recovered' = recovered
  BY DEF twoVars, NoDb, NoFs, dbVars, fsVars
<1>2. Types' /\ PlansSound' /\ TwoPhaseSafe'
  BY <1>1, QuietShared DEF TwoInv, Types
<1>3. Refreshes
  BY <1>1 DEF Refreshes, NoDb, dbVars, TwoInv, Types
<1>4. ASSUME NEW d \in Procs PROVE Keeps(d)
  BY <1>1, <1>3, RefreshOthers DEF Busy, Tx
<1>5. QED
  BY <1>2, <1>4, WorldStep

(***************************************************************************)
(* The inductive invariant holds in every state, as long as one caller at  *)
(* a time resumes the workflow, whatever recoveries run beside it.         *)
(***************************************************************************)
THEOREM TwoInvariant ==
    ASSUME OneResumer
    PROVE  TwoSpec => []TwoInv
<1>1. TwoInit => TwoInv
  BY TwoInvInit
<1>2. TwoInv /\ [TwoNext]_twoVars => TwoInv'
  BY TwoInvNext, TwoInvStutter DEF StepOK
<1>3. QED
  BY <1>1, <1>2, PTL DEF TwoSpec

(***************************************************************************)
(* assistant_bridge_two_phase.py and _recovery.py: whatever crashes, edits *)
(* and clock settings happen, no half-done apply is left without the row   *)
(* and the journal that explain it, a confirmation is spent once, writing  *)
(* starts only under authority that stands, and applied is final and true. *)
(***************************************************************************)
THEOREM TwoPhaseSoundAlways ==
    ASSUME OneResumer
    PROVE  TwoSpec => TwoPhaseSound
<1>1. TwoInv => TwoPhaseSafe
  BY DEF TwoInv
<1>2. TwoInv /\ [TwoNext]_twoVars => [WriteUnderAuthority /\ AppliedIsFinal]_twoVars
  BY TwoInvNext DEF StepOK
<1>3. QED
  BY <1>1, <1>2, TwoInvariant, PTL DEF TwoSpec, TwoPhaseSound

(***************************************************************************)
(* docs/hybrid-assistant-bridge.md:373: "Recovery verifies the restored    *)
(* source before resetting workflow state".  It does: a workflow that asks *)
(* for a new confirmation never has its candidate in the workspace.        *)
(***************************************************************************)
THEOREM ResetMeansRestoredAlways ==
    ASSUME OneResumer
    PROVE  TwoSpec => []ResetMeansRestored
<1>1. TwoInv => ResetMeansRestored
  BY DEF TwoInv, TwoPhaseSafe, NothingOrphaned, ResetMeansRestored, Open
<1>2. QED
  BY <1>1, TwoInvariant, PTL
=============================================================================
