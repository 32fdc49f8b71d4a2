-------------------------- MODULE WorkspaceProofs --------------------------
(***************************************************************************)
(* Proofs about what a workspace's verification rests on: the run of a     *)
(* command verifier over a tree of processes, and the routing evidence     *)
(* from its outcomes to the activation of a manifest.                      *)
(***************************************************************************)
EXTENDS WorkspaceTransaction, VerifierHost, VerifiedRouting, FiniteSetTheorems, TLAPS

-----------------------------------------------------------------------------
(***************************************************************************)
(* The run of a command verifier.                                          *)
(***************************************************************************)
Before == {"batch", "rebuild", "attest", "popen"}
Launching == {"track", "reattest"}
Running == {"poll", "term", "kill", "signal", "close", "verify"}
Over == {"leave", "report", "end"}

Process == [live : BOOLEAN, group : BOOLEAN, pipe : BOOLEAN,
            parent : Members \cup {"host", "init", "none"}]
Run == [pc : Before \cup Launching \cup Running \cup {"emergency"} \cup Over, ran : Int,
        term : {"none", "error", "completed", "nonzero_exit", "timed_out", "limit_exceeded",
                "io_failed", "unverified", "cleanup"},
        rc : {0, 1}, late : BOOLEAN, temp : {"none", "made", "gone"}, grown : BOOLEAN,
        end : {"none", "raised", "failed", "cleanup", "passed"}]
Handles == [seen : SUBSET Members, blind : BOOLEAN]
Machine == [changes : Nat, exe : Nat, launcher : Launchers, sandbox : BOOLEAN,
            backend : Backends]
Moved == [st : [Workers -> {"idle", "open", "eof", "done", "failed"}], over : [Streams -> BOOLEAN]]

HostTypeOK ==
    /\ tree \in [Members -> Process] /\ exec \in Run /\ tracker \in Handles /\ io \in Moved
    /\ host \in Machine /\ host.exe \in Nat /\ planned.exe = 0

\* Only what was started lives or is known: nothing that is kept can be forked anew.
Started(t, k) ==
    \A p \in Members : p \in k.seen \/ t[p].live => t[p].parent # "none"

\* Nothing that the host could know of is left.
Gone(t, k) ==
    ~t["root"].live /\ \A p \in Members : t[p].live => ~t[p].group /\ p \notin k.seen

\* The streams at the end of a run that counts as completed.
Whole(e) ==
    /\ e.ran = planned.exe /\ planned.sandbox
    /\ \A s \in Streams : io.st[s] = "eof"
    /\ io.st["stdin"] = "done"

\* What the run e may rely on in each phase, with the processes t and the handles k.
RunPhase(e, t, k) ==
    /\ e.pc \in Before => k.seen = {} /\ \A p \in Members : t[p] = Absent
    /\ e.pc \in Before \cup Launching \cup {"poll"} => e.term = "none"
    /\ e.pc = "emergency" => e.term \in {"none", "unverified"}
    /\ e.pc \in {"attest", "popen"} \cup Launching \cup Running => planned.sandbox
    /\ e.pc \in Launching => 0 <= e.ran /\ e.ran <= host.exe
    /\ e.pc \in Running => e.ran = planned.exe
    /\ e.term = "completed" => ~t["root"].live /\ e.rc = 0
    /\ e.pc \in Over /\ e.term = "completed" => Whole(e)
    /\ e.pc \in Over /\ e.term \notin {"cleanup", "none"} => Gone(t, k)
    /\ e.end # "none" => e.pc = "end"
    /\ e.end = "passed" =>
         /\ e.term = "completed" /\ ~e.grown /\ ~Missing(planned.backend)
         /\ \A s \in Streams : ~io.over[s]

HostInv == HostTypeOK /\ Started(tree, tracker) /\ RunPhase(exec, tree, tracker)

\* Names of processes that are not those of the host.
ChildrenApart == Children \cap {"root", "host", "init", "none"} = {}

\* A step of the run alone.
LEMMA RunMoves ==
    ASSUME HostInv, NEW e \in Run, exec' = e, RunPhase(e, tree, tracker),
           UNCHANGED <<host, planned, policy, tree, tracker, io>>
    PROVE  HostInv'
<1>1. RunPhase(exec, tree, tracker)'
  BY SMTT(60) DEF HostInv, RunPhase, Gone, Whole, Missing, Members
<1> QED BY <1>1 DEF HostInv, HostTypeOK, Started, Members, Workers

\* The fields of the run after a step to another phase, and after its end.
LEMMA Proceeds ==
    ASSUME HostInv, NEW to, NEW e, e = [exec EXCEPT !.pc = to],
           to \in Before \cup Launching \cup Running \cup {"emergency"} \cup Over
    PROVE  /\ e \in Run /\ e.pc = to /\ e.ran = exec.ran /\ e.term = exec.term
           /\ e.rc = exec.rc /\ e.grown = exec.grown /\ e.end = exec.end
  BY DEF HostInv, HostTypeOK, Run

LEMMA Ended ==
    ASSUME HostInv, NEW how \in {"raised", "failed", "cleanup", "passed"},
           NEW e, e = [exec EXCEPT !.pc = "end", !.end = how]
    PROVE  /\ e \in Run /\ e.pc = "end" /\ e.ran = exec.ran /\ e.term = exec.term
           /\ e.rc = exec.rc /\ e.grown = exec.grown /\ e.end = how
  BY DEF HostInv, HostTypeOK, Run, Over

\* A run that ends by an exception or without its evidence.
LEMMA EndKeeps ==
    ASSUME HostInv, exec.pc \in {"rebuild", "leave", "report"}, Quiet,
           NEW how \in {"raised", "failed", "cleanup"}, Ends(how)
    PROVE  HostInv'
<1>1. PICK e : e = [exec EXCEPT !.pc = "end", !.end = how]
  OBVIOUS
<1>2. e \in Run /\ e.pc = "end" /\ e.ran = exec.ran /\ e.term = exec.term
      /\ e.rc = exec.rc /\ e.end = how
  BY ZenonT(60), <1>1, Ended
<1>3. RunPhase(e, tree, tracker)
  BY <1>2 DEF HostInv, RunPhase, Whole, Before, Launching, Running, Over
<1> QED BY <1>1, <1>2, <1>3, RunMoves DEF Quiet, Ends

\* What _ProcessTracker.observe keeps was started.
LEMMA ObserveKeeps ==
    ASSUME HostInv, Observe
    PROVE  /\ tracker' \in Handles /\ Started(tree, tracker')
           /\ exec.pc \notin Before \cup Over => RunPhase(exec, tree, tracker')
<1>1. Reachable(tracker.seen \cup {"root"}) \subseteq Live
  BY DEF Reachable
<1>2. tracker' \in Handles /\ tracker'.seen \subseteq tracker.seen \cup Live
  BY ZenonT(60), <1>1 DEF Observe, Observed, HostInv, HostTypeOK, Handles, Live
<1>3. Started(tree, tracker')
  BY <1>2 DEF HostInv, Started, Live
<1>4. exec.pc \notin Before \cup Over => RunPhase(exec, tree, tracker')
  BY DEF HostInv, RunPhase
<1> QED BY <1>2, <1>3, <1>4

\* A step of the run that observes the tree.
LEMMA RunObserves ==
    ASSUME HostInv, Observe, NEW e \in Run, exec' = e, RunPhase(e, tree, tracker'),
           UNCHANGED <<host, planned, policy, tree, io>>
    PROVE  HostInv'
<1>1. tracker' \in Handles /\ Started(tree, tracker')
  BY ObserveKeeps
<1> QED BY <1>1 DEF HostInv, HostTypeOK, Started, RunPhase, Gone, Whole, Missing, Members, Workers

LEMMA PlanKeeps ==
    ASSUME HostInv, SnapshotCapabilities \/ PlanUnattested \/ PlanDrifted \/ PlanBlocked
    PROVE  HostInv'
<1>1. CASE SnapshotCapabilities
  <2>1. PICK e : e = [exec EXCEPT !.pc = "rebuild"]
    OBVIOUS
  <2>2. e \in Run /\ e.pc = "rebuild" /\ e.ran = exec.ran /\ e.term = exec.term
        /\ e.rc = exec.rc /\ e.grown = exec.grown /\ e.end = exec.end
    BY <2>1, Proceeds DEF Before
  <2>3. RunPhase(e, tree, tracker)
    BY <1>1, <2>2 DEF SnapshotCapabilities, HostInv, RunPhase, Before, Launching, Running, Over
  <2> QED BY <1>1, <2>1, <2>2, <2>3, RunMoves DEF SnapshotCapabilities, Proceed
<1>2. CASE PlanUnattested
  BY <1>2, EndKeeps DEF PlanUnattested
<1>3. CASE PlanDrifted
  BY <1>3, EndKeeps DEF PlanDrifted
<1>4. CASE PlanBlocked
  BY <1>4, EndKeeps DEF PlanBlocked
<1> QED BY <1>1, <1>2, <1>3, <1>4

LEMMA MakeTempKeeps == ASSUME HostInv, MakeTemp PROVE HostInv'
<1>1. CASE exec' = [exec EXCEPT !.pc = "attest", !.temp = "made"]
  <2>1. PICK e : e = [exec EXCEPT !.pc = "attest", !.temp = "made"]
    OBVIOUS
  <2>2. e \in Run /\ e.pc = "attest" /\ e.ran = exec.ran /\ e.term = exec.term
        /\ e.rc = exec.rc /\ e.grown = exec.grown /\ e.end = exec.end
    BY <2>1 DEF HostInv, HostTypeOK, Run, Before
  <2>3. RunPhase(e, tree, tracker)
    BY <2>2 DEF MakeTemp, Runnable, HostInv, RunPhase, Before, Launching, Running, Over
  <2> QED BY <1>1, <2>1, <2>2, <2>3, RunMoves DEF MakeTemp, Quiet
<1> QED BY <1>1, EndKeeps DEF MakeTemp

LEMMA AttestBeforeKeeps == ASSUME HostInv, AttestBefore PROVE HostInv'
<1>1. CASE Proceed("popen")
  <2>1. PICK e : e = [exec EXCEPT !.pc = "popen"]
    OBVIOUS
  <2>2. e \in Run /\ e.pc = "popen" /\ e.ran = exec.ran /\ e.term = exec.term
        /\ e.rc = exec.rc /\ e.grown = exec.grown /\ e.end = exec.end
    BY <2>1, Proceeds DEF Before
  <2>3. RunPhase(e, tree, tracker)
    BY <2>2 DEF AttestBefore, HostInv, RunPhase, Before, Launching, Running, Over
  <2> QED BY <1>1, <2>1, <2>2, <2>3, RunMoves DEF AttestBefore, Quiet, Proceed
<1>2. CASE exec' = [exec EXCEPT !.pc = "leave", !.term = "error"]
  <2>1. PICK e : e = [exec EXCEPT !.pc = "leave", !.term = "error"]
    OBVIOUS
  <2>2. e \in Run /\ e.pc = "leave" /\ e.term = "error"
        /\ e.rc = exec.rc /\ e.end = exec.end
    BY <2>1 DEF HostInv, HostTypeOK, Run, Over
  <2>3. Gone(tree, tracker)
    BY DEF AttestBefore, HostInv, RunPhase, Before, Gone, Absent, Members
  <2>4. RunPhase(e, tree, tracker)
    BY <2>2, <2>3 DEF AttestBefore, HostInv, RunPhase, Before, Launching, Running, Over
  <2> QED BY <1>2, <2>1, <2>2, <2>4, RunMoves DEF AttestBefore, Quiet
<1> QED BY <1>1, <1>2 DEF AttestBefore

LEMMA PopenKeeps == ASSUME HostInv, Popen PROVE HostInv'
<1>1. CASE /\ tree' = [tree EXCEPT !["root"] = [live |-> TRUE, group |-> TRUE,
                                               pipe |-> TRUE, parent |-> "host"]]
           /\ exec' = [exec EXCEPT !.pc = "track", !.ran = host.exe]
  <2>a. host.exe \in Int
    BY DEF HostInv, HostTypeOK
  <2>b. PICK e : e = [exec EXCEPT !.pc = "track", !.ran = host.exe] /\ exec' = e
    BY <1>1
  <2>1. exec' \in Run /\ exec'.pc = "track" /\ exec'.term = exec.term /\ exec'.ran = host.exe
        /\ exec'.rc = exec.rc /\ exec'.end = exec.end
    BY <2>a, <2>b DEF HostInv, HostTypeOK, Run, Launching
  <2>2. tree' \in [Members -> Process] /\ Started(tree', tracker)
    BY <1>1 DEF HostInv, HostTypeOK, Started, Process, Members
  <2>3. RunPhase(exec, tree, tracker)' /\ Started(tree, tracker)'
    BY <2>1, <2>2 DEF Popen, HostInv, HostTypeOK, RunPhase, Before, Launching, Running, Over, Started
  <2> QED BY <1>1, <2>1, <2>2, <2>3 DEF Popen, HostInv, HostTypeOK
<1>2. CASE exec' = [exec EXCEPT !.pc = "leave", !.term = "error"] /\ UNCHANGED tree
  <2>1. PICK e : e = [exec EXCEPT !.pc = "leave", !.term = "error"]
    OBVIOUS
  <2>2. e \in Run /\ e.pc = "leave" /\ e.term = "error"
        /\ e.rc = exec.rc /\ e.end = exec.end
    BY <2>1 DEF HostInv, HostTypeOK, Run, Over
  <2>3. Gone(tree, tracker)
    BY DEF Popen, HostInv, RunPhase, Before, Gone, Absent, Members
  <2>4. RunPhase(e, tree, tracker)
    BY <2>2, <2>3 DEF Popen, HostInv, RunPhase, Before, Launching, Running, Over
  <2> QED BY <1>2, <2>1, <2>2, <2>4, RunMoves DEF Popen
<1> QED BY <1>1, <1>2 DEF Popen

LEMMA TrackKeeps == ASSUME HostInv, Track PROVE HostInv'
<1>0. PICK to \in {"emergency", "reattest"} : exec' = [exec EXCEPT !.pc = to]
  BY DEF Track, Proceed
<1>1. PICK e : e = [exec EXCEPT !.pc = to] /\ exec' = e
  BY <1>0
<1>2. e \in Run /\ e.pc = to /\ e.ran = exec.ran /\ e.term = exec.term
      /\ e.rc = exec.rc /\ e.grown = exec.grown /\ e.end = exec.end
  BY <1>1, Proceeds DEF Launching
<1>3. RunPhase(exec, tree, tracker')
  BY ObserveKeeps DEF Track, Before, Over
<1>4. RunPhase(e, tree, tracker')
  BY <1>2, <1>3 DEF Track, RunPhase, Before, Launching, Running, Over
<1> QED BY <1>1, <1>2, <1>4, RunObserves DEF Track

\* The files that run are the confirmed ones when they still are on disk after the start.
LEMMA AttestAfterKeeps == ASSUME HostInv, AttestAfter PROVE HostInv'
<1>0. PICK to \in {"emergency", "poll"} : exec' = [exec EXCEPT !.pc = to] /\ (to = "poll" => Attested)
  BY DEF AttestAfter, Proceed
<1>1. PICK e : e = [exec EXCEPT !.pc = to] /\ exec' = e
  BY <1>0
<1>2. e \in Run /\ e.pc = to /\ e.ran = exec.ran /\ e.term = exec.term
      /\ e.rc = exec.rc /\ e.grown = exec.grown /\ e.end = exec.end
  BY <1>1, Proceeds DEF Running
<1>3. io' \in Moved
  BY DEF AttestAfter, HostInv, HostTypeOK, Moved
<1>4. to = "poll" => exec.ran = planned.exe
  BY <1>0 DEF AttestAfter, Attested, ExecutableSame, HostInv, HostTypeOK, RunPhase, Launching, Run
<1>5. RunPhase(exec, tree, tracker)'
  BY <1>1, <1>2, <1>4 DEF AttestAfter, HostInv, RunPhase, Before, Launching, Running, Over
<1> QED BY <1>1, <1>2, <1>3, <1>5 DEF AttestAfter, HostInv, HostTypeOK, Started

LEMMA PollKeeps == ASSUME HostInv, Poll PROVE HostInv'
<1>1. RunPhase(exec, tree, tracker')
  BY ObserveKeeps DEF Poll, Before, Over
<1>2. CASE Proceed("emergency")
  <2>1. PICK e : e = [exec EXCEPT !.pc = "emergency"]
    OBVIOUS
  <2>2. e \in Run /\ e.pc = "emergency" /\ e.ran = exec.ran /\ e.term = exec.term
        /\ e.rc = exec.rc /\ e.grown = exec.grown /\ e.end = exec.end
    BY <2>1, Proceeds
  <2>3. RunPhase(e, tree, tracker')
    BY <1>1, <2>2 DEF Poll, RunPhase, Before, Launching, Running, Over
  <2> QED BY <1>2, <2>1, <2>2, <2>3, RunObserves DEF Poll, Proceed
<1>3. CASE UNCHANGED exec
  BY <1>1, <1>3, RunObserves DEF Poll, HostInv, HostTypeOK
<1>4. ASSUME NEW v \in Verdict, v # "none", exec' = [exec EXCEPT !.pc = "term", !.term = v]
      PROVE  HostInv'
  <2>1. v \in {"limit_exceeded", "io_failed", "timed_out", "completed", "nonzero_exit"}
        /\ (v = "completed" => RootExited /\ exec.rc = 0)
    BY <1>4 DEF Verdict, ExitCode
  <2>2. PICK e : e = [exec EXCEPT !.pc = "term", !.term = v]
    OBVIOUS
  <2>3. e \in Run /\ e.pc = "term" /\ e.ran = exec.ran /\ e.term = v
        /\ e.rc = exec.rc /\ e.grown = exec.grown /\ e.end = exec.end
    BY <2>1, <2>2 DEF HostInv, HostTypeOK, Run, Running
  <2>4. RunPhase(e, tree, tracker')
    BY <1>1, <2>1, <2>3 DEF Poll, RootExited, RunPhase, Before, Launching, Running, Over
  <2> QED BY <1>4, <2>2, <2>3, <2>4, RunObserves DEF Poll
<1> QED BY <1>2, <1>3, <1>4 DEF Poll

LEMMA CleanupObserves == ASSUME HostInv, CleanupTerm \/ CleanupObserve PROVE HostInv'
<1>0. PICK to \in {"kill", "signal"} : exec' = [exec EXCEPT !.pc = to]
  BY DEF CleanupTerm, CleanupObserve, Proceed
<1>1. PICK e : e = [exec EXCEPT !.pc = to] /\ exec' = e
  BY <1>0
<1>2. e \in Run /\ e.pc = to /\ e.ran = exec.ran /\ e.term = exec.term
      /\ e.rc = exec.rc /\ e.grown = exec.grown /\ e.end = exec.end
  BY <1>1, Proceeds DEF Running
<1>3. RunPhase(exec, tree, tracker') /\ exec.pc \in {"term", "kill"}
  BY ObserveKeeps DEF CleanupTerm, CleanupObserve, Before, Over
<1>4. RunPhase(e, tree, tracker')
  BY <1>2, <1>3 DEF RunPhase, Before, Launching, Running, Over
<1> QED BY <1>1, <1>2, <1>4, RunObserves DEF CleanupTerm, CleanupObserve

\* What a signal that reaches the processes of S leaves of the tree.
LEMMA SurvivorsKeep ==
    ASSUME HostInv, NEW S \in SUBSET Members
    PROVE  /\ Survivors(S) \in [Members -> Process]
           /\ Started(Survivors(S), tracker)
           /\ \A p \in Members : /\ Survivors(S)[p].live <=> tree[p].live /\ p \notin S
                                 /\ Survivors(S)[p].group = tree[p].group
<1>1. ASSUME NEW p \in Members
      PROVE  /\ Survivors(S)[p] \in Process
             /\ Survivors(S)[p].live <=> tree[p].live /\ p \notin S
             /\ Survivors(S)[p].group = tree[p].group
             /\ tree[p].parent # "none" => Survivors(S)[p].parent # "none"
  <2>1. tree[p] \in Process
    BY DEF HostInv, HostTypeOK
  <2>2. Survivors(S)[p] = IF p \in S THEN [tree[p] EXCEPT !.live = FALSE]
                          ELSE IF tree[p].parent \in S THEN [tree[p] EXCEPT !.parent = "init"]
                          ELSE tree[p]
    BY DEF Survivors
  <2>3. CASE p \in S
    BY <2>1, <2>2, <2>3 DEF Process
  <2>4. CASE p \notin S /\ tree[p].parent \in S
    BY <2>1, <2>2, <2>4 DEF Process
  <2>5. CASE p \notin S /\ tree[p].parent \notin S
    BY <2>1, <2>2, <2>5 DEF Process
  <2> QED BY <2>3, <2>4, <2>5
<1>2. Survivors(S) \in [Members -> Process]
  BY <1>1 DEF Survivors
<1> QED BY <1>1, <1>2 DEF HostInv, Started

LEMMA CleanupKillKeeps == ASSUME HostInv, CleanupKill PROVE HostInv'
<1>1. PICK S \in SUBSET Members : tree' = Survivors(S)
  BY DEF CleanupKill, Targets, Group, Live
<1>2. PICK e : e = [exec EXCEPT !.pc = "close"] /\ exec' = e
  BY DEF CleanupKill, Proceed
<1>3. e \in Run /\ e.pc = "close" /\ e.ran = exec.ran /\ e.term = exec.term
      /\ e.rc = exec.rc /\ e.grown = exec.grown /\ e.end = exec.end
  BY <1>2, Proceeds DEF Running
<1>4. tree' \in [Members -> Process] /\ Started(tree', tracker)
      /\ (~tree["root"].live => ~tree'["root"].live)
  BY <1>1, SurvivorsKeep DEF Members
<1>5. RunPhase(exec, tree, tracker)'
  BY <1>2, <1>3, <1>4 DEF CleanupKill, HostInv, RunPhase, Before, Launching, Running, Over
<1> QED BY <1>2, <1>3, <1>4, <1>5 DEF CleanupKill, HostInv, HostTypeOK, Started

LEMMA CleanupCloseKeeps == ASSUME HostInv, CleanupClose PROVE HostInv'
<1>1. PICK e : e = [exec EXCEPT !.pc = "verify"] /\ exec' = e
  BY DEF CleanupClose, Proceed
<1>2. e \in Run /\ e.pc = "verify" /\ e.ran = exec.ran /\ e.term = exec.term
      /\ e.rc = exec.rc /\ e.grown = exec.grown /\ e.end = exec.end
  BY <1>1, Proceeds DEF Running
<1>3. io' \in Moved
  BY DEF CleanupClose, HostInv, HostTypeOK, Moved
<1>4. RunPhase(exec, tree, tracker)'
  BY <1>1, <1>2 DEF CleanupClose, HostInv, RunPhase, Before, Launching, Running, Over
<1> QED BY <1>1, <1>2, <1>3, <1>4 DEF CleanupClose, HostInv, HostTypeOK, Started

LEMMA CleanupVerifyKeeps == ASSUME HostInv, CleanupVerify PROVE HostInv'
<1>1. RunPhase(exec, tree, tracker') /\ tracker' \in Handles
  BY ObserveKeeps DEF CleanupVerify, Before, Over
<1>2. CASE Verified
  <2>1. Classified \in {"error", "completed", "nonzero_exit", "timed_out", "limit_exceeded", "io_failed",
                        "unverified", "cleanup", "none"}
    BY DEF Classified, HostInv, HostTypeOK, Run
  <2>2. Classified = "completed" =>
          /\ exec.term = "completed" /\ io.st["stdin"] = "done"
          /\ \A s \in Streams : io.st[s] = "eof"
    BY DEF Classified
  <2>3. PICK e : e = [exec EXCEPT !.pc = "leave", !.term = Classified]
    OBVIOUS
  <2>4. e \in Run /\ e.pc = "leave" /\ e.ran = exec.ran /\ e.term = Classified
        /\ e.rc = exec.rc /\ e.grown = exec.grown /\ e.end = exec.end
    BY <2>1, <2>3 DEF HostInv, HostTypeOK, Run, Over
  <2>5. Gone(tree, tracker')
    BY <1>2, <1>1 DEF Verified, RootExited, Group, Live, Gone, Handles
  <2>6. RunPhase(e, tree, tracker')
    BY <1>1, <2>2, <2>4, <2>5 DEF CleanupVerify, RunPhase, Whole, Before, Launching, Running, Over
  <2> QED BY <1>2, <2>3, <2>4, <2>6, RunObserves DEF CleanupVerify
<1>3. CASE ~Verified
  <2>1. PICK e : e = [exec EXCEPT !.pc = "emergency", !.term = "unverified"]
    OBVIOUS
  <2>2. e \in Run /\ e.pc = "emergency" /\ e.ran = exec.ran /\ e.term = "unverified"
        /\ e.rc = exec.rc /\ e.grown = exec.grown /\ e.end = exec.end
    BY <2>1 DEF HostInv, HostTypeOK, Run
  <2>3. RunPhase(e, tree, tracker')
    BY <1>1, <2>2 DEF CleanupVerify, RunPhase, Before, Launching, Running, Over
  <2> QED BY <1>3, <2>1, <2>2, <2>3, RunObserves DEF CleanupVerify
<1> QED BY <1>2, <1>3

LEMMA EmergencyKeeps == ASSUME HostInv, Emergency PROVE HostInv'
<1>1. PICK S \in SUBSET Targets, term \in {"error", "cleanup"} :
         /\ tree' = Survivors(S)
         /\ exec' = [exec EXCEPT !.pc = "leave", !.term = term]
         /\ term = "error" => Targets = S
  BY DEF Emergency
<1>2. S \in SUBSET Members
  BY DEF Targets, Group, Live, Members
<1>3. PICK e : e = [exec EXCEPT !.pc = "leave", !.term = term] /\ exec' = e
  BY <1>1
<1>4. e \in Run /\ e.pc = "leave" /\ e.term = term /\ e.end = exec.end
  BY <1>3 DEF HostInv, HostTypeOK, Run, Over
<1>5. /\ tree' \in [Members -> Process] /\ Started(tree', tracker)
      /\ \A p \in Members : /\ tree'[p].live <=> tree[p].live /\ p \notin S
                            /\ tree'[p].group = tree[p].group
  BY <1>1, <1>2, SurvivorsKeep
<1>6. term = "error" => Gone(tree', tracker)
  BY <1>1, <1>5 DEF Gone, Targets, Group, Live, Members
<1>7. RunPhase(exec, tree, tracker)'
  BY <1>3, <1>4, <1>6 DEF Emergency, HostInv, RunPhase, Before, Launching, Running, Over
<1> QED BY <1>3, <1>4, <1>5, <1>7 DEF Emergency, HostInv, HostTypeOK, Started

LEMMA InterruptKeeps == ASSUME HostInv, Interrupt PROVE HostInv'
<1>1. PICK term \in {"none", "unverified"} :
         exec' = [exec EXCEPT !.pc = "emergency", !.term = term]
  BY DEF Interrupt, HostInv, RunPhase, Before, Launching
<1>2. PICK e : e = [exec EXCEPT !.pc = "emergency", !.term = term] /\ exec' = e
  BY <1>1
<1>3. e \in Run /\ e.pc = "emergency" /\ e.term = term /\ e.end = exec.end
  BY <1>2 DEF HostInv, HostTypeOK, Run
<1>4. RunPhase(e, tree, tracker)
  BY <1>3 DEF Interrupt, HostInv, RunPhase, Before, Launching, Running, Over
<1> QED BY <1>2, <1>3, <1>4, RunMoves DEF Interrupt, Quiet

LEMMA LeaveTempKeeps == ASSUME HostInv, LeaveTemp PROVE HostInv'
<1>1. CASE exec' = [exec EXCEPT !.pc = "report", !.temp = "gone"]
  <2>1. PICK e : e = [exec EXCEPT !.pc = "report", !.temp = "gone"] /\ exec' = e
    BY <1>1
  <2>2. e \in Run /\ e.pc = "report" /\ e.ran = exec.ran /\ e.term = exec.term
        /\ e.rc = exec.rc /\ e.grown = exec.grown /\ e.end = exec.end
    BY <2>1 DEF HostInv, HostTypeOK, Run, Over
  <2>3. RunPhase(e, tree, tracker)
    BY <2>2 DEF LeaveTemp, HostInv, RunPhase, Whole, Before, Launching, Running, Over
  <2> QED BY <2>1, <2>2, <2>3, RunMoves DEF LeaveTemp, Quiet
<1>2. CASE Ends(IF exec.term = "cleanup" THEN "cleanup" ELSE "raised")
  BY <1>2, EndKeeps DEF LeaveTemp
<1> QED BY <1>1, <1>2 DEF LeaveTemp

\* Evidence that passed is evidence of a completed run within its bounds.
LEMMA ReportKeeps == ASSUME HostInv, Report PROVE HostInv'
<1>1. ASSUME NEW grown \in BOOLEAN,
             exec' = [exec EXCEPT !.pc = "end", !.grown = grown,
                       !.end = IF exec.term = "completed" /\ Compliant(grown) THEN "passed" ELSE "failed"]
      PROVE  HostInv'
  <2>1. PICK end \in {"passed", "failed"} :
           /\ exec' = [exec EXCEPT !.pc = "end", !.grown = grown, !.end = end]
           /\ end = "passed" => exec.term = "completed" /\ Compliant(grown)
    BY <1>1
  <2>2. PICK e : e = [exec EXCEPT !.pc = "end", !.grown = grown, !.end = end] /\ exec' = e
    BY <2>1
  <2>3. e \in Run /\ e.pc = "end" /\ e.ran = exec.ran /\ e.term = exec.term
        /\ e.rc = exec.rc /\ e.grown = grown /\ e.end = end
    BY <2>2 DEF HostInv, HostTypeOK, Run, Over
  <2>4. end = "passed" => ~grown /\ ~Missing(planned.backend) /\ \A s \in Streams : ~io.over[s]
    BY <2>1 DEF Compliant
  <2>5. RunPhase(e, tree, tracker)
    BY <2>1, <2>3, <2>4 DEF Report, HostInv, RunPhase, Whole, Before, Launching, Running, Over
  <2> QED BY <2>2, <2>3, <2>5, RunMoves DEF Report, Quiet
<1> QED BY <1>1, EndKeeps DEF Report

LEMMA HostStepKeeps == ASSUME HostInv, HostStep PROVE HostInv'
  BY PlanKeeps, MakeTempKeeps, AttestBeforeKeeps, PopenKeeps, TrackKeeps, AttestAfterKeeps,
     PollKeeps, CleanupObserves, CleanupKillKeeps, CleanupCloseKeeps, CleanupVerifyKeeps,
     EmergencyKeeps, LeaveTempKeeps, ReportKeeps DEF HostStep

-----------------------------------------------------------------------------
\* The tree changes by itself: what it does, whatever the run does meanwhile.
LEMMA TreeMoves ==
    ASSUME HostInv, NEW t \in [Members -> Process], tree' = t, Started(t, tracker),
           \E p \in Members : tree[p].live,
           exec.pc # "end", ~tree["root"].live => ~t["root"].live,
           Gone(tree, tracker) => Gone(t, tracker),
           UNCHANGED <<host, planned, policy, tracker, io, exec>>
    PROVE  HostInv'
<1>1. exec.pc \notin Before
  BY DEF HostInv, RunPhase, Absent
<1>2. RunPhase(exec, tree, tracker)'
  BY <1>1 DEF HostInv, RunPhase, Whole, Missing
<1> QED BY <1>2 DEF HostInv, HostTypeOK, Started, Members, Workers

LEMMA ForkKeeps ==
    ASSUME HostInv, ChildrenApart, NEW p \in Members, NEW c \in Children, Fork(p, c)
    PROVE  HostInv'
<1>1. PICK child : child = [tree[p] EXCEPT !.parent = p]
  OBVIOUS
<1>2. child \in Process /\ child.parent = p /\ child.group = tree[p].group /\ p # "none"
  BY <1>1 DEF HostInv, HostTypeOK, Process, Members, ChildrenApart
<1>3. c \in Members /\ c # "root" /\ tree' = [tree EXCEPT ![c] = child]
  BY <1>1 DEF Fork, Members, ChildrenApart
<1>4. c \notin tracker.seen
  BY <1>3 DEF Fork, Absent, HostInv, Started
<1>5. tree' \in [Members -> Process] /\ Started(tree', tracker)
  BY <1>2, <1>3 DEF HostInv, HostTypeOK, Started
<1>6. Gone(tree, tracker) => Gone(tree', tracker)
  BY <1>2, <1>3, <1>4 DEF Fork, Gone, HostInv, HostTypeOK
<1>7. ~tree["root"].live => ~tree'["root"].live
  BY <1>3 DEF HostInv, HostTypeOK, Members
<1> QED BY <1>5, <1>6, <1>7, TreeMoves DEF Fork

LEMMA LeaveGroupKeeps ==
    ASSUME HostInv, NEW p \in Members, LeaveGroup(p)
    PROVE  HostInv'
<1>1. PICK keeps \in BOOLEAN : tree' = [tree EXCEPT ![p].group = FALSE, ![p].pipe = keeps /\ @]
  BY DEF LeaveGroup
<1>2. PICK pipe \in BOOLEAN : pipe = (keeps /\ tree[p].pipe)
  OBVIOUS
<1>3. PICK one : one = [tree[p] EXCEPT !.group = FALSE, !.pipe = pipe]
  OBVIOUS
<1>4. one \in Process /\ one.live = tree[p].live /\ one.group = FALSE /\ one.parent = tree[p].parent
  BY <1>3 DEF HostInv, HostTypeOK, Process
<1>5. tree' = [tree EXCEPT ![p] = one]
  BY <1>1, <1>2, <1>3 DEF HostInv, HostTypeOK
<1>6. tree' \in [Members -> Process] /\ Started(tree', tracker)
  BY <1>4, <1>5 DEF HostInv, HostTypeOK, Started
<1>7. Gone(tree, tracker) => Gone(tree', tracker)
  BY <1>4, <1>5 DEF LeaveGroup, Gone, HostInv, HostTypeOK
<1>8. ~tree["root"].live => ~tree'["root"].live
  BY <1>4, <1>5 DEF HostInv, HostTypeOK
<1> QED BY <1>6, <1>7, <1>8, TreeMoves DEF LeaveGroup

LEMMA ExitKeeps ==
    ASSUME HostInv, NEW p \in Members, Exit(p)
    PROVE  HostInv'
<1>1. PICK rc \in {0, 1} : exec' = [exec EXCEPT !.rc = rc] /\ (p # "root" => rc = exec.rc)
  BY DEF Exit, HostInv, HostTypeOK, Run
<1>2. PICK e : e = [exec EXCEPT !.rc = rc] /\ exec' = e
  BY <1>1
<1>3. e \in Run /\ e.pc = exec.pc /\ e.ran = exec.ran /\ e.term = exec.term /\ e.rc = rc
      /\ e.grown = exec.grown /\ e.end = exec.end
  BY <1>2 DEF HostInv, HostTypeOK, Run
<1>4. /\ tree' \in [Members -> Process] /\ Started(tree', tracker)
      /\ \A q \in Members : /\ tree'[q].live <=> tree[q].live /\ q # p
                            /\ tree'[q].group = tree[q].group
  BY SurvivorsKeep DEF Exit
<1>5. Gone(tree, tracker) => Gone(tree', tracker)
  BY <1>4 DEF Gone, Members
<1>6. ~tree["root"].live => ~tree'["root"].live
  BY <1>4 DEF Members
<1>7. exec.pc \notin Before \cup {"end"} /\ exec.end = "none"
  BY DEF Exit, HostInv, HostTypeOK, Run, RunPhase, Absent
<1>8. exec.term = "completed" => rc = exec.rc
  BY <1>1 DEF Exit, HostInv, RunPhase
<1>9. RunPhase(exec, tree, tracker)'
  BY <1>2, <1>3, <1>5, <1>6, <1>7, <1>8 DEF Exit, HostInv, RunPhase, Whole
<1> QED BY <1>2, <1>3, <1>4, <1>9 DEF Exit, HostInv, HostTypeOK, Started

LEMMA WorkersKeep ==
    ASSUME HostInv, WriteStdin \/ \E s \in Streams : ReadPipe(s)
    PROVE  HostInv'
<1>1. io.st \in [Workers -> {"idle", "open", "eof", "done", "failed"}] /\ io.over \in [Streams -> BOOLEAN]
      /\ io \in Moved
  BY DEF HostInv, HostTypeOK, Moved
<1>2. ASSUME NEW w \in Workers, NEW st \in {"eof", "done", "failed"}, io' = [io EXCEPT !.st[w] = st]
      PROVE  io' \in Moved
  BY <1>1, <1>2 DEF Moved
<1>3. ASSUME NEW s \in Streams, io' = [io EXCEPT !.over[s] = TRUE]
      PROVE  io' \in Moved
  BY <1>1, <1>3 DEF Moved
<1>4. io' \in Moved
  BY <1>2, <1>3 DEF WriteStdin, ReadPipe, Workers
<1>5. exec.pc \notin Over /\ UNCHANGED <<policy, host, planned, tree, tracker, exec>>
  BY DEF WriteStdin, ReadPipe, Over
<1>6. RunPhase(exec, tree, tracker)'
  BY <1>5 DEF HostInv, RunPhase, Gone, Over, Members, Missing
<1> QED BY <1>4, <1>5, <1>6 DEF HostInv, HostTypeOK, Started

\* A change of the host is a change of one of its fields.
LEMMA MachineFields ==
    ASSUME NEW m \in Machine, NEW h, NEW n \in Nat, NEW x \in Nat, m.exe <= x,
           NEW b \in Backends, NEW l \in Launchers, NEW sb \in BOOLEAN,
           \/ h = [m EXCEPT !.changes = n, !.exe = x]
           \/ h = [m EXCEPT !.changes = n, !.backend = b]
           \/ h = [m EXCEPT !.changes = n, !.launcher = l]
           \/ h = [m EXCEPT !.changes = n, !.sandbox = sb]
    PROVE  h \in Machine /\ m.exe <= h.exe /\ h.exe \in Nat
<1>1. m.exe \in Nat
  BY DEF Machine
<1>2. h \in Machine
  BY DEF Machine
<1>3. h.exe = m.exe \/ h.exe = x
  BY DEF Machine
<1> QED BY <1>1, <1>2, <1>3

LEMMA HostChangesKeeps == ASSUME HostInv, HostChanges PROVE HostInv'
<1>0. host \in Machine /\ host.exe + 1 \in Nat /\ host.changes + 1 \in Nat /\ host.exe \in Nat
  BY DEF HostInv, HostTypeOK, Machine
<1>1. host'.exe \in Nat /\ host.exe <= host'.exe /\ host' \in Machine
  <2>0. PICK n, x : n = host.changes + 1 /\ x = host.exe + 1
    OBVIOUS
  <2>1. n \in Nat /\ x \in Nat /\ host.exe <= x
    BY <1>0, <2>0
  <2>2. PICK sb : sb = ~host.sandbox
    OBVIOUS
  <2>3. host.sandbox \in BOOLEAN /\ host.backend \in Backends /\ host.launcher \in Launchers
    BY <1>0 DEF Machine
  <2>4. sb \in BOOLEAN
    BY <2>2, <2>3
  <2>5. \/ host' = [host EXCEPT !.changes = n, !.exe = x]
        \/ \E b \in Backends : host' = [host EXCEPT !.changes = n, !.backend = b]
        \/ \E l \in Launchers : host' = [host EXCEPT !.changes = n, !.launcher = l]
        \/ host' = [host EXCEPT !.changes = n, !.sandbox = sb]
    BY <2>0, <2>2 DEF HostChanges
  <2> QED BY <1>0, <2>1, <2>3, <2>4, <2>5, MachineFields
<1>2. exec.ran \in Int /\ UNCHANGED <<policy, planned, snap, tree, tracker, io, exec>>
  BY DEF HostChanges, HostInv, HostTypeOK, Run
<1>3. RunPhase(exec, tree, tracker)'
  BY <1>1, <1>2 DEF HostInv, HostTypeOK, RunPhase, Gone, Whole, Missing, Members
<1> QED BY <1>1, <1>2, <1>3 DEF HostInv, HostTypeOK, Started

LEMMA DeadlineKeeps == ASSUME HostInv, DeadlinePasses PROVE HostInv'
<1>1. PICK e : e = [exec EXCEPT !.late = TRUE] /\ exec' = e
  BY DEF DeadlinePasses
<1>2. e \in Run /\ e.pc = exec.pc /\ e.ran = exec.ran /\ e.term = exec.term /\ e.rc = exec.rc
      /\ e.grown = exec.grown /\ e.end = exec.end
  BY <1>1 DEF HostInv, HostTypeOK, Run
<1>3. RunPhase(e, tree, tracker)
  BY <1>2 DEF HostInv, RunPhase, Whole
<1> QED BY <1>1, <1>2, <1>3, RunMoves DEF DeadlinePasses, Quiet

LEMMA HostNextKeeps == ASSUME ChildrenApart, HostInv, [HostNext]_hostVars PROVE HostInv'
<1>1. CASE UNCHANGED hostVars
  <2>1. UNCHANGED <<policy, host, planned, tree, tracker, io, exec>>
    BY <1>1 DEF hostVars
  <2>2. RunPhase(exec, tree, tracker)'
    BY <2>1 DEF HostInv, RunPhase, Gone, Whole, Missing, Members
  <2> QED BY <2>1, <2>2 DEF HostInv, HostTypeOK, Started
<1> QED
  BY <1>1, HostStepKeeps, InterruptKeeps, WorkersKeep, HostChangesKeeps, DeadlineKeeps,
     LeaveGroupKeeps, ExitKeeps, ForkKeeps DEF HostNext

(***************************************************************************)
(* For every number of processes that fork, detach and are orphaned, and   *)
(* of captured streams: evidence that a verifier passed stands for one     *)
(* whole run of what was confirmed, and unless the run says that its       *)
(* cleanup failed nothing it could know of survives it (execute_process,   *)
(* _run_bound_verifier): VerifierHost.VerifierSafe.                        *)
(***************************************************************************)
THEOREM VerifierRunsAreWhole ==
    ASSUME ChildrenApart
    PROVE  HostSpec => []VerifierSafe
<1>1. HostInit => HostInv
  <2> SUFFICES ASSUME HostInit PROVE HostInv
    OBVIOUS
  <2>1. HostTypeOK
    BY DEF HostInit, HostTypeOK, Process, Run, Handles, Moved, Machine, Absent, Before, Launchers
  <2>2. Started(tree, tracker) /\ RunPhase(exec, tree, tracker)
    BY DEF HostInit, Started, RunPhase, Absent, Before, Launching, Running, Over, Members
  <2> QED BY <2>1, <2>2 DEF HostInv
<1>2. HostInv /\ [HostNext]_hostVars => HostInv'
  BY HostNextKeeps
<1>3. HostInv => VerifierSafe
  BY DEF HostInv, HostTypeOK, Handles, RunPhase, Whole, Gone, VerifierSafe, PassedIsWhole,
     NoKnownSurvivor, Group, Live, RootExited, Over, Members
<1>4. QED
  BY <1>1, <1>2, <1>3, PTL DEF HostSpec

-----------------------------------------------------------------------------
(***************************************************************************)
(* Verified-outcome routing.                                               *)
(***************************************************************************)

\* The training sets are finite, and times and lifetimes are integers.
TimesAreNumbers ==
    /\ \A h \in Histories : IsFiniteSet(h) /\ \A r \in h : r.time \in Int
    /\ Gate.scorecardTtl \in Int /\ Gate.manifestTtl \in Int /\ Gate.maxAge \in Int

Steps == {"idle", "verify", "decide", "moved"}
Planning == [pc : Steps, now : Int, auth : signed \cup {NoSeal}, base : Routes,
             to : {Case.candidate, "premium"}]

\* What a manifest rests on, and how long that lasts.
Evidenced(m) ==
    /\ \E b, c \in m.holdout :
          /\ m.holdout = {b, c} /\ b.run = c.run
          /\ b.route = Case.baseline /\ c.route = Case.candidate /\ b.time < c.time
          /\ RecordPassed(b) => RecordPassed(c)
    /\ \A h \in m.holdout, t \in m.sc.source :
          h.time >= m.made /\ m.made >= m.sc.gen /\ m.sc.gen >= t.time /\ h.task # t.task
    /\ m.exp \in Int /\ m.sc.exp \in Int /\ m.exp <= m.sc.exp
    /\ \A h \in m.holdout : h.time \in Int /\ m.exp <= h.time + Gate.maxAge

\* The chronology is never behind an activation that was accepted.
Foremost(x) ==
    /\ x.now \in Int /\ x.issued \in Int
    /\ x.now <= chronology.observed /\ x.issued <= chronology.issued
    /\ x.issued = chronology.issued => x.id = chronology.id

StoreOK ==
    /\ clock \in Int /\ IsFiniteSet(records) /\ \A r \in records : r.time \in Int
    /\ scorecard.exp \in Int /\ plan.sc.exp \in Int
SignedOK ==
    \A a \in signed : a.man \in manifests /\ a.issued \in Int /\ a.exp \in Int
PlannersOK ==
    /\ planner \in [Planners -> Planning]
    /\ \A e \in Planners :
         /\ planner[e].pc # "idle" => planner[e].auth \in signed
         /\ planner[e].pc = "moved" =>
              /\ AuthorizationActive(planner[e].auth, planner[e].now)
              /\ RouteRank[planner[e].to] < RouteRank[planner[e].base]
ChronologyOK ==
    /\ chronology.observed \in Int /\ chronology.issued \in Int
    /\ \A x \in accepted : Foremost(x)

RoutingInv ==
    /\ StoreOK /\ SignedOK /\ PlannersOK /\ ChronologyOK
    /\ \A m \in manifests : Evidenced(m)
    /\ ActivationsMoveForward

\* The least of four integers is one of them and at most each of them.
LEMMA LeastOfFour ==
    ASSUME NEW a \in Int, NEW b \in Int, NEW c \in Int, NEW d \in Int,
           NEW S, S = {a, b, c, d}
    PROVE  Min(S) \in S /\ \A x \in S : Min(S) <= x
<1>1. \E x \in S : \A y \in S : x <= y
  OBVIOUS
<1> QED BY <1>1 DEF Min

LEMMA TwoElements ==
    ASSUME NEW x, NEW y, x # y
    PROVE  Cardinality({x, y}) = 2
<1>1. IsFiniteSet({x}) /\ Cardinality({x}) = 1
  BY FS_Singleton
<1>2. y \notin {x}
  OBVIOUS
<1>3. Cardinality({x} \cup {y}) = 2
  BY <1>1, <1>2, FS_AddElement
<1>4. {x} \cup {y} = {x, y}
  OBVIOUS
<1> QED BY <1>3, <1>4

\* Two arms make a pair, and the pair is all that is held out.
LEMMA PairIsHoldout ==
    ASSUME NEW holdout, IsFiniteSet(holdout), Cardinality(holdout) = 2,
           Cardinality(PairsOf(holdout)) = 1
    PROVE  \E b, c \in holdout :
              /\ <<b, c>> \in PairsOf(holdout) /\ PairedLineageMatchesPlan(b, c)
              /\ holdout = {b, c}
<1>1. PairsOf(holdout) # {}
  BY FS_EmptySet
<1>2. PICK b \in holdout, c \in holdout :
         <<b, c>> \in PairsOf(holdout) /\ b # c /\ PairedLineageMatchesPlan(b, c)
  BY <1>1 DEF PairsOf
<1>3. Cardinality({b, c}) = 2
  BY <1>2, TwoElements
<1>4. {b, c} \in SUBSET holdout
  OBVIOUS
<1>5. {b, c} = holdout
  BY <1>3, <1>4, FS_Subset
<1> QED BY <1>2, <1>5

\* A manifest that the gate emits is evidenced and does not outlive its evidence.
LEMMA PromotionIsEvidenced ==
    ASSUME TimesAreNumbers, RoutingInv, NEW holdout \in SUBSET HeldOut,
           EvaluateRoutePromotion(holdout),
           NEW m, m = [holdout |-> holdout, sc |-> plan.sc, made |-> plan.made,
                       nb |-> clock, exp |-> ManifestExpiry(holdout, clock)]
    PROVE  Evidenced(m)
<1>1. holdout \subseteq records /\ IsFiniteSet(holdout) /\ \A h \in holdout : h.time \in Int
  BY FS_Subset DEF HeldOut, RoutingInv, StoreOK
<1>2. PICK b \in holdout, c \in holdout :
         /\ <<b, c>> \in PairsOf(holdout) /\ PairedLineageMatchesPlan(b, c)
         /\ holdout = {b, c}
  BY <1>1, PairIsHoldout DEF EvaluateRoutePromotion, PairsSound
<1>3. b.time \in Int /\ c.time \in Int
  BY <1>1
<1>4. b.time < c.time
  BY <1>2 DEF EvaluateRoutePromotion, PairsSound
<1>5. RecordPassed(b) => RecordPassed(c)
  BY <1>2 DEF EvaluateRoutePromotion, EvaluateCell, NeverWorse
<1>6. b.run = c.run /\ b.route = Case.baseline /\ c.route = Case.candidate
  BY <1>2 DEF PairedLineageMatchesPlan
<1>7. \A h \in holdout, t \in plan.sc.source :
         h.time >= plan.made /\ plan.made >= plan.sc.gen /\ plan.sc.gen >= t.time /\ h.task # t.task
  BY DEF EvaluateRoutePromotion, PairsSound, TrainingSound, HoldoutApart
<1>8. ManifestExpiry(holdout, clock) \in Int /\ ManifestExpiry(holdout, clock) <= plan.sc.exp
      /\ \A h \in holdout : ManifestExpiry(holdout, clock) <= h.time + Gate.maxAge
  <2> DEFINE S == {clock + Gate.manifestTtl, plan.sc.exp} \cup {r.time + Gate.maxAge : r \in holdout}
  <2>0. {r.time + Gate.maxAge : r \in holdout} = {b.time + Gate.maxAge, c.time + Gate.maxAge}
    BY <1>2, Zenon
  <2>1. S = {clock + Gate.manifestTtl, plan.sc.exp, b.time + Gate.maxAge, c.time + Gate.maxAge}
    BY <2>0
  <2>2. clock \in Int /\ plan.sc.exp \in Int /\ Gate.manifestTtl \in Int /\ Gate.maxAge \in Int
    BY DEF RoutingInv, StoreOK, TimesAreNumbers
  <2>3. /\ clock + Gate.manifestTtl \in Int
        /\ b.time + Gate.maxAge \in Int /\ c.time + Gate.maxAge \in Int
    BY <2>2, <1>3
  <2>4. ManifestExpiry(holdout, clock) = Min(S)
    BY DEF ManifestExpiry
  <2>5. \A h \in holdout : h.time + Gate.maxAge \in S
    OBVIOUS
  <2> HIDE DEF S
  <2>6. Min(S) \in S /\ \A x \in S : Min(S) <= x
    <3>1. PICK w \in Int, x \in Int, y \in Int, z \in Int : S = {w, x, y, z}
      BY <2>1, <2>2, <2>3
    <3> QED BY <3>1, LeastOfFour
  <2>7. Min(S) \in Int /\ plan.sc.exp \in S
    BY <2>1, <2>2, <2>3, <2>6
  <2> QED BY <2>4, <2>5, <2>6, <2>7
<1>9. /\ m.holdout = holdout /\ m.sc = plan.sc /\ m.made = plan.made
      /\ m.exp = ManifestExpiry(holdout, clock)
  OBVIOUS
<1>10. plan.sc.exp \in Int
  BY DEF RoutingInv, StoreOK
<1> QED
  BY <1>1, <1>2, <1>4, <1>5, <1>6, <1>7, <1>8, <1>9, <1>10 DEF Evidenced

LEMMA PromoteKeeps ==
    ASSUME TimesAreNumbers, RoutingInv, NEW holdout \in SUBSET HeldOut,
           EvaluateRoutePromotion(holdout)
    PROVE  RoutingInv'
<1>1. PICK m : m = [holdout |-> holdout, sc |-> plan.sc, made |-> plan.made,
                    nb |-> clock, exp |-> ManifestExpiry(holdout, clock)]
  OBVIOUS
<1>2. Evidenced(m)
  BY <1>1, PromotionIsEvidenced
<1>3. manifests' = manifests \cup {m}
  BY <1>1 DEF EvaluateRoutePromotion
<1>4. UNCHANGED <<clock, records, scorecard, plan, signed, chronology, planner, accepted>>
  BY DEF EvaluateRoutePromotion
<1>5. \A x \in manifests' : Evidenced(x)
  BY <1>2, <1>3 DEF RoutingInv
<1>6. SignedOK' /\ StoreOK'
  BY <1>3, <1>4 DEF RoutingInv, SignedOK, StoreOK
<1>7. PlannersOK' /\ ChronologyOK' /\ ActivationsMoveForward'
  BY <1>4 DEF RoutingInv, PlannersOK, Planning, AuthorizationActive, ChronologyOK, Foremost,
              ActivationsMoveForward
<1>8. (\A x \in manifests : Evidenced(x))'
  BY <1>5 DEF Evidenced
<1> QED BY <1>6, <1>7, <1>8 DEF RoutingInv

\* A step of the store that touches no manifest, activation or planner.
LEMMA StoreMoves ==
    ASSUME RoutingInv, StoreOK',
           UNCHANGED <<manifests, signed, chronology, planner, accepted>>
    PROVE  RoutingInv'
<1>1. SignedOK' /\ ActivationsMoveForward' /\ ChronologyOK' /\ PlannersOK'
  BY DEF RoutingInv, SignedOK, PlannersOK, Planning, AuthorizationActive, ChronologyOK, Foremost,
         ActivationsMoveForward
<1>2. (\A x \in manifests : Evidenced(x))'
  BY DEF RoutingInv, Evidenced
<1> QED BY <1>1, <1>2 DEF RoutingInv

LEMMA StoreKeeps ==
    ASSUME TimesAreNumbers, RoutingInv,
           \/ BuildScorecard \/ BuildEvidencePlan \/ AppendTorn \/ Tick \/ SetBack
           \/ \E run \in 1..2 : AppendOutcome(run)
    PROVE  RoutingInv'
<1>0. clock \in Int /\ IsFiniteSet(records) /\ (\A r \in records : r.time \in Int)
      /\ scorecard.exp \in Int /\ plan.sc.exp \in Int /\ Gate.scorecardTtl \in Int
  BY DEF RoutingInv, StoreOK, TimesAreNumbers
<1>1. CASE BuildScorecard
  <2>1. scorecard'.exp \in Int /\ UNCHANGED <<clock, records, plan>>
    BY <1>0, <1>1 DEF BuildScorecard
  <2>2. StoreOK'
    BY <1>0, <2>1 DEF StoreOK
  <2> QED BY <1>1, <2>2, StoreMoves DEF BuildScorecard
<1>2. CASE BuildEvidencePlan
  <2>1. plan'.sc.exp \in Int /\ UNCHANGED <<clock, records, scorecard>>
    BY <1>0, <1>2 DEF BuildEvidencePlan
  <2>2. StoreOK'
    BY <1>0, <2>1 DEF StoreOK
  <2> QED BY <1>2, <2>2, StoreMoves DEF BuildEvidencePlan
<1>3. CASE AppendTorn \/ Tick \/ SetBack
  <2>1. clock' \in Int /\ UNCHANGED <<records, scorecard, plan>>
    BY <1>0, <1>3 DEF AppendTorn, Tick, SetBack
  <2>2. StoreOK'
    BY <1>0, <2>1 DEF StoreOK
  <2> QED BY <1>3, <2>2, StoreMoves DEF AppendTorn, Tick, SetBack
<1>4. ASSUME NEW run \in 1..2, AppendOutcome(run) PROVE RoutingInv'
  <2> DEFINE q == IF Arm(run, Case.baseline) = {} THEN Case.baseline ELSE Case.candidate
  <2>0. PICK a \in Arms[q] :
           records' = records \cup
              {[kind |-> "holdout", task |-> Case.task, run |-> run, route |-> q, time |-> clock,
                prev |-> (q = Case.candidate), strong |-> a.strong, attested |-> TRUE,
                outcome |-> a.outcome, cost |-> a.cost, prem |-> a.prem]}
    BY <1>4 DEF AppendOutcome
  <2>a. PICK r :
           r = [kind |-> "holdout", task |-> Case.task, run |-> run, route |-> q, time |-> clock,
                prev |-> (q = Case.candidate), strong |-> a.strong, attested |-> TRUE,
                outcome |-> a.outcome, cost |-> a.cost, prem |-> a.prem]
    OBVIOUS
  <2>1. records' = records \cup {r} /\ r.time = clock
    BY <2>0, <2>a
  <2>2. IsFiniteSet(records') /\ \A x \in records' : x.time \in Int
    BY <1>0, <2>1, FS_AddElement
  <2>3. StoreOK'
    BY <1>0, <1>4, <2>2 DEF StoreOK, AppendOutcome
  <2> QED BY <1>4, <2>3, StoreMoves DEF AppendOutcome
<1> QED BY <1>1, <1>2, <1>3, <1>4

LEMMA SignKeeps ==
    ASSUME RoutingInv, NEW m \in manifests, Sign(m)
    PROVE  RoutingInv'
<1>0. PICK a : a = [man |-> m, issued |-> clock, exp |-> m.exp, id |-> Cardinality(signed) + 1]
  OBVIOUS
<1>1. signed' = signed \cup {a} /\ a.man = m /\ a.issued = clock /\ a.exp = m.exp
  BY <1>0 DEF Sign
<1>2. UNCHANGED <<clock, records, scorecard, plan, manifests, chronology, planner, accepted>>
  BY DEF Sign
<1>3. a.man \in manifests /\ a.issued \in Int /\ a.exp \in Int
  BY <1>1 DEF RoutingInv, StoreOK, Evidenced
<1>4. SignedOK'
  BY <1>1, <1>2, <1>3 DEF RoutingInv, SignedOK
<1>5. planner' \in [Planners -> Planning']
  BY <1>1, <1>2 DEF RoutingInv, PlannersOK, Planning
<1>6. PlannersOK'
  BY <1>1, <1>2, <1>5 DEF RoutingInv, PlannersOK, AuthorizationActive
<1>7. StoreOK' /\ ChronologyOK' /\ ActivationsMoveForward'
  BY <1>2 DEF RoutingInv, StoreOK, ChronologyOK, Foremost, ActivationsMoveForward
<1>8. (\A x \in manifests : Evidenced(x))'
  BY <1>2 DEF RoutingInv, Evidenced
<1> QED BY <1>4, <1>6, <1>7, <1>8 DEF RoutingInv

\* A step of one planner.
LEMMA PlannerMoves ==
    ASSUME RoutingInv, NEW e \in Planners, NEW p \in Planning, planner' = [planner EXCEPT ![e] = p],
           p.pc # "idle" => p.auth \in signed,
           p.pc = "moved" => AuthorizationActive(p.auth, p.now) /\ RouteRank[p.to] < RouteRank[p.base],
           UNCHANGED <<clock, records, scorecard, plan, manifests, signed>>,
           ChronologyOK', ActivationsMoveForward'
    PROVE  RoutingInv'
<1>1. PlannersOK'
  <2>1. planner' \in [Planners -> Planning]
    BY DEF RoutingInv, PlannersOK
  <2>2. ASSUME NEW q \in Planners
        PROVE  /\ planner'[q].pc # "idle" => planner'[q].auth \in signed
               /\ planner'[q].pc = "moved" =>
                    /\ AuthorizationActive(planner'[q].auth, planner'[q].now)
                    /\ RouteRank[planner'[q].to] < RouteRank[planner'[q].base]
    <3>1. planner'[q] = IF q = e THEN p ELSE planner[q]
      BY DEF RoutingInv, PlannersOK
    <3> QED BY <3>1 DEF RoutingInv, PlannersOK
  <2> QED BY <2>1, <2>2 DEF PlannersOK, Planning, AuthorizationActive
<1>2. StoreOK' /\ SignedOK'
  BY DEF RoutingInv, StoreOK, SignedOK
<1>3. (\A x \in manifests : Evidenced(x))'
  BY DEF RoutingInv, Evidenced
<1> QED BY <1>1, <1>2, <1>3 DEF RoutingInv

LEMMA IdleIsPlanning == Idle \in Planning /\ Idle.pc = "idle"
  BY DEF Idle, Planning, Steps, Routes

LEMMA ChronologyStays ==
    ASSUME RoutingInv, UNCHANGED <<chronology, accepted>>
    PROVE  ChronologyOK' /\ ActivationsMoveForward'
  BY DEF RoutingInv, ChronologyOK, Foremost, ActivationsMoveForward

LEMMA StartKeeps ==
    ASSUME RoutingInv, NEW e \in Planners, NEW a \in signed, StartPlanning(e, a)
    PROVE  RoutingInv'
<1>1. PICK p : p = [planner[e] EXCEPT !.pc = "verify", !.now = clock, !.auth = a]
  OBVIOUS
<1>2. p \in Planning /\ p.pc = "verify" /\ p.auth = a
  BY <1>1 DEF RoutingInv, StoreOK, PlannersOK, Planning, Steps
<1>3. planner' = [planner EXCEPT ![e] = p]
  BY <1>1 DEF StartPlanning, RoutingInv, PlannersOK
<1> QED BY <1>2, <1>3, PlannerMoves, ChronologyStays DEF StartPlanning

\* Accepting an activation moves the chronology forward.
LEMMA AcceptMovesForward ==
    ASSUME RoutingInv, NEW e \in Planners, planner[e].pc = "verify",
           ChronologyAllows(planner[e].auth, planner[e].now),
           chronology' = [issued |-> planner[e].auth.issued, id |-> planner[e].auth.id,
                          observed |-> planner[e].now],
           accepted' = accepted \cup {[issued |-> planner[e].auth.issued,
                                       id |-> planner[e].auth.id, now |-> planner[e].now]}
    PROVE  ChronologyOK' /\ ActivationsMoveForward'
<1>1. PICK z : z = [issued |-> planner[e].auth.issued, id |-> planner[e].auth.id,
                    now |-> planner[e].now]
  OBVIOUS
<1>2. z.now \in Int /\ z.issued \in Int
  BY <1>1 DEF RoutingInv, PlannersOK, Planning, SignedOK
<1>3. /\ chronology'.observed = z.now /\ chronology'.issued = z.issued /\ chronology'.id = z.id
      /\ accepted' = accepted \cup {z}
  BY <1>1
<1>4. /\ z.now >= chronology.observed /\ z.issued >= chronology.issued
      /\ z.issued = chronology.issued => z.id = chronology.id
  BY <1>1 DEF ChronologyAllows
<1>5. /\ chronology.observed \in Int /\ chronology.issued \in Int
      /\ \A x \in accepted : Foremost(x)
  BY DEF RoutingInv, ChronologyOK
<1>6. ASSUME NEW x \in accepted
      PROVE  /\ x.now \in Int /\ x.issued \in Int /\ x.now <= z.now /\ x.issued <= z.issued
             /\ x.issued = z.issued => x.id = z.id
  BY <1>2, <1>4, <1>5 DEF Foremost
<1>7. ChronologyOK'
  BY <1>2, <1>3, <1>6 DEF ChronologyOK, Foremost
<1>8. ASSUME NEW x \in accepted', NEW y \in accepted'
      PROVE  /\ x.now < y.now => x.issued <= y.issued
             /\ x.issued = y.issued => x.id = y.id
  <2>1. CASE x \in accepted /\ y \in accepted
    BY <2>1 DEF RoutingInv, ActivationsMoveForward
  <2>2. CASE x = z \/ y = z
    BY <1>2, <1>3, <1>6, <2>2
  <2> QED BY <1>3, <2>1, <2>2
<1> QED BY <1>7, <1>8 DEF ActivationsMoveForward

LEMMA VerifyKeeps ==
    ASSUME RoutingInv, NEW e \in Planners, LoadAndVerifyAuthorization(e)
    PROVE  RoutingInv'
<1>1. CASE AuthorizationActive(planner[e].auth, planner[e].now)
           /\ ChronologyAllows(planner[e].auth, planner[e].now)
  <2>1. PICK p : p = [planner[e] EXCEPT !.pc = "decide"]
    OBVIOUS
  <2>2. p \in Planning /\ p.pc = "decide" /\ p.auth = planner[e].auth /\ p.auth \in signed
    BY <2>1 DEF LoadAndVerifyAuthorization, RoutingInv, PlannersOK, Planning, Steps
  <2>3. planner' = [planner EXCEPT ![e] = p]
    BY <1>1, <2>1 DEF LoadAndVerifyAuthorization, RoutingInv, PlannersOK
  <2>4. ChronologyOK' /\ ActivationsMoveForward'
    BY <1>1, AcceptMovesForward DEF LoadAndVerifyAuthorization
  <2> QED BY <2>2, <2>3, <2>4, PlannerMoves DEF LoadAndVerifyAuthorization
<1>2. CASE ~(AuthorizationActive(planner[e].auth, planner[e].now)
             /\ ChronologyAllows(planner[e].auth, planner[e].now))
  BY <1>2, IdleIsPlanning, PlannerMoves, ChronologyStays DEF LoadAndVerifyAuthorization
<1> QED BY <1>1, <1>2

LEMMA DecideKeeps ==
    ASSUME RoutingInv, NEW e \in Planners, DecideRouteCanary(e) \/ RouteTask(e)
    PROVE  RoutingInv'
<1>1. UNCHANGED <<clock, records, scorecard, plan, manifests, signed, chronology, accepted>>
  BY DEF DecideRouteCanary, RouteTask
<1>2. CASE planner' = [planner EXCEPT ![e] = Idle]
  BY <1>1, <1>2, IdleIsPlanning, PlannerMoves, ChronologyStays
<1>3. ASSUME NEW base \in Routes, NEW to, planner[e].pc = "decide",
             AuthorizationActive(planner[e].auth, planner[e].now),
             CanaryApplies(base, to, planner[e].auth.man),
             planner' = [planner EXCEPT ![e] = [planner[e] EXCEPT !.pc = "moved", !.base = base, !.to = to]]
      PROVE  RoutingInv'
  <2>1. to = Case.candidate /\ RouteRank[to] < RouteRank[base]
    BY <1>3 DEF CanaryApplies
  <2>2. PICK p : p = [planner[e] EXCEPT !.pc = "moved", !.base = base, !.to = to]
    OBVIOUS
  <2>3. p \in Planning /\ p.pc = "moved" /\ p.auth = planner[e].auth /\ p.now = planner[e].now
        /\ p.base = base /\ p.to = to
    BY <2>1, <2>2 DEF RoutingInv, PlannersOK, Planning, Steps
  <2>4. p.auth \in signed
    BY <1>3, <2>3 DEF RoutingInv, PlannersOK
  <2> QED BY <1>1, <1>3, <2>1, <2>2, <2>3, <2>4, PlannerMoves, ChronologyStays
<1> QED BY <1>2, <1>3 DEF DecideRouteCanary, RouteTask

(***************************************************************************)
(* For any planners, histories and clock that is set back: a manifest      *)
(* rests on pairs gathered after their plan, a task moves only while every *)
(* held-out record of it is young enough, and activations never go back    *)
(* (evaluate_route_promotion, decide_route_canary,                         *)
(* _record_trusted_chronology): VerifiedRouting.RoutingSafe.               *)
(***************************************************************************)
THEOREM RoutesMoveOnEvidence ==
    ASSUME TimesAreNumbers
    PROVE  RoutingSpec => []RoutingSafe
<1>1. Init => RoutingInv
  <2> SUFFICES ASSUME Init PROVE RoutingInv
    OBVIOUS
  <2>1. StoreOK
    BY DEF Init, StoreOK, TimesAreNumbers, NoScorecard, NoPlan
  <2>2. PlannersOK
    BY IdleIsPlanning DEF Init, PlannersOK
  <2> QED BY <2>1, <2>2 DEF Init, RoutingInv, SignedOK, ChronologyOK, ActivationsMoveForward
<1>2. RoutingInv /\ [Next]_vars => RoutingInv'
  <2> SUFFICES ASSUME RoutingInv, [Next]_vars PROVE RoutingInv'
    OBVIOUS
  <2>1. CASE UNCHANGED vars
    <3>1. StoreOK'
      BY <2>1 DEF vars, RoutingInv, StoreOK
    <3> QED BY <2>1, <3>1, StoreMoves DEF vars
  <2> QED
    BY <2>1, StoreKeeps, PromoteKeeps, SignKeeps, VerifyKeeps, DecideKeeps, StartKeeps DEF Next
<1>3. RoutingInv => RoutingSafe
  <2> SUFFICES ASSUME RoutingInv PROVE RoutingSafe
    OBVIOUS
  <2>1. ManifestPreregistered
    BY DEF RoutingInv, Evidenced, ManifestPreregistered
  <2>2. ASSUME NEW e \in Planners, planner[e].pc = "moved"
        PROVE  /\ RouteRank[planner[e].to] < RouteRank[planner[e].base]
               /\ planner[e].now < planner[e].auth.man.sc.exp
               /\ \A h \in planner[e].auth.man.holdout : planner[e].now - h.time < Gate.maxAge
    <3>1. /\ planner[e].now \in Int /\ planner[e].auth \in signed
          /\ planner[e].now < planner[e].auth.man.exp
          /\ RouteRank[planner[e].to] < RouteRank[planner[e].base]
      BY <2>2 DEF RoutingInv, PlannersOK, Planning, AuthorizationActive
    <3>2. Evidenced(planner[e].auth.man)
      BY <3>1 DEF RoutingInv, SignedOK
    <3>3. Gate.maxAge \in Int
      BY DEF TimesAreNumbers
    <3> QED BY <3>1, <3>2, <3>3 DEF Evidenced
  <2> QED BY <2>1, <2>2 DEF RoutingSafe, CanaryWithinEvidence, RoutingInv
<1>4. QED
  BY <1>1, <1>2, <1>3, PTL DEF RoutingSpec
=============================================================================
