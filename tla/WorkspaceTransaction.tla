------------------------ MODULE WorkspaceTransaction ------------------------
(***************************************************************************)
(* One transaction of the assistant bridge on the files of a workspace:    *)
(* apply_changeset, the rollback inside it, and the recovery that a later  *)
(* process runs from the journal.  One step is one change of the disk: a   *)
(* journal write, the creation or a write of an artifact, a link, a rename *)
(* that does not replace, an unlink or a change of mode, with the checks   *)
(* that precede it.  The process may die between any two, every step may   *)
(* fail with an OSError, and somebody else may edit a target at any time.  *)
(* The workspace lock admits one such process at a time.  The directories  *)
(* that a plan creates are not modelled.                                   *)
(* Source: assistant_bridge_workspace.py.                                  *)
(***************************************************************************)
EXTENDS Integers, FiniteSets, Sequences

CONSTANTS
    N,         \* number of changes; change p is the p-th in the journal
    Changes,   \* the changes a plan may hold: what a path holds before and after
    Ids,       \* file identities (device and inode) in a directory
    MaxTrouble,  \* crashes, failed operations and edits by somebody else, together
    None

ASSUME SizeAssumption == N \in Nat \ {0} /\ MaxTrouble \in Nat

Paths == 1..N

\* The path itself and the names beside it that the journal reserves.
Names == {"target", "install", "quarantine", "rollback", "restore"}

VARIABLES
    change,   \* what each path held when the plan was made and what it shall hold
    entry,    \* path -> name -> identity of the file of that name
    file,     \* path -> identity -> content and mode
    backup,   \* paths whose backup is in the transaction directory
    journal,  \* journal.json: None when there is none
    proc,     \* the process at work: "none", "apply", "undo" (its rollback) or "recover"
    mem,      \* the journal in its memory
    pc,       \* its next step
    at,       \* the change it is at
    loc,      \* what it saw of the target before the rollback of a change
    stops,    \* crashes and failed operations so far
    edits,    \* edits made by somebody else
    mine,     \* paths where somebody else's value should still be found
    refused   \* a check has failed although nobody had edited anything

diskVars == <<entry, file, backup>>
stepVars == <<proc, at, loc>>
txVars == <<change, entry, file, backup, journal, proc, mem, pc, at, loc, stops, edits, mine,
            refused>>

NewRecord == [status |-> "pending", rollback |-> "pending",
              phase |-> [a \in {"install", "restore"} |-> "pending"],
              id |-> [a \in {"install", "restore"} |-> None]]

\* _ROLLBACK_PHASES, in order.
RollbackPhases == <<"pending", "detach_intent", "detached", "restore_intent", "restored",
                    "restore_unlink_intent", "restore_unlinked", "rollback_unlink_intent",
                    "rollback_unlinked", "quarantine_unlink_intent", "quarantine_unlinked",
                    "complete">>
Number(phase) == CHOOSE i \in DOMAIN RollbackPhases : RollbackPhases[i] = phase

NoLocals == [before |-> FALSE, restoring |-> FALSE]

TxInit ==
    /\ change \in [Paths -> Changes]
    /\ entry = [p \in Paths |-> [n \in Names |->
                  IF n = "target" /\ change[p].before /= None THEN 1 ELSE None]]
    /\ file = [p \in Paths |-> [i \in Ids |-> IF i = 1 THEN change[p].before ELSE None]]
    /\ backup = {}
    /\ journal = None /\ mem = None
    /\ proc = "none" /\ pc = <<"apply", "begin">> /\ at = 1 /\ loc = NoLocals
    /\ stops = 0 /\ edits = 0 /\ mine = {} /\ refused = FALSE

-----------------------------------------------------------------------------
Has(p, side) == change[p][side] /= None
Exists(p, n) == entry[p][n] /= None
File(p, n) == file[p][entry[p][n]]
Linked(p) == {entry[p][n] : n \in Names} \ {None}
Rec == mem.rec[at]

\* The value that an artifact is made of: the new one to install, the old one to restore.
Side(a) == IF a = "restore" THEN "before" ELSE "after"

\* _entry_matches and _assert_current_entry: the bytes and the mode are the expected ones.
Matches(p, n, side) ==
    IF Has(p, side) THEN Exists(p, n) /\ File(p, n) = change[p][side] ELSE ~Exists(p, n)

\* _assert_install_artifact, _entry_matches_installed, _assert_owned_rollback: the recorded
\* identity and the bytes, in a private or in the final mode.
Owned(p, n, a) ==
    /\ Has(p, Side(a)) /\ mem.rec[p].id[a] /= None
    /\ entry[p][n] = mem.rec[p].id[a]
    /\ File(p, n).content = change[p][Side(a)].content
    /\ File(p, n).mode \in {"private", change[p][Side(a)].mode}

\* _assert_install_content
ContentComplete(p, a) ==
    File(p, a) = [content |-> change[p][Side(a)].content, mode |-> "private"]

\* _assert_owned_partial_artifact: the identity, however much of it is written.
OwnedPartial(p, a) == entry[p][a] = mem.rec[p].id[a] /\ File(p, a).mode = "private"

\* _snapshot_once: the workspace has the fingerprint it has when every path holds this side.
SnapshotIs(side) == \A p \in Paths : Matches(p, "target", side)

Reached(phase) == Number(Rec.rollback) >= Number(phase)

-----------------------------------------------------------------------------
(***************************************************************************)
(* Changes of the disk.  The identity of a new file is one that no name    *)
(* uses, perhaps one used before.                                          *)
(***************************************************************************)
Bind(p, n, id) == entry' = [entry EXCEPT ![p][n] = id]

Create(p, n) ==
    \E id \in Ids \ Linked(p) :
      /\ Bind(p, n, id)
      /\ file' = [file EXCEPT ![p][id] = [content |-> "empty", mode |-> "private"]]
      /\ UNCHANGED backup

WriteContent(p, n, content) ==
    /\ file' = [file EXCEPT ![p][entry[p][n]].content = content]
    /\ UNCHANGED <<entry, backup>>

\* os.link, on a name that is free.
Link(p, from, to) == Bind(p, to, entry[p][from]) /\ UNCHANGED <<file, backup>>

\* A file that no name links any more is gone.
Without(p, n) ==
    IF ~Exists(p, n) \/ \E m \in Names \ {n} : entry[p][m] = entry[p][n] THEN file
    ELSE [file EXCEPT ![p][entry[p][n]] = None]

\* _rename_no_replace
Rename(p, from, to) ==
    /\ Exists(p, from) /\ ~Exists(p, to)
    /\ entry' = [entry EXCEPT ![p][to] = entry[p][from], ![p][from] = None]
    /\ UNCHANGED <<file, backup>>

\* The end of _unlink_recovery_artifact.
Unlink(p, n) == Bind(p, n, None) /\ file' = Without(p, n) /\ UNCHANGED backup

\* _set_file_mode_durable
SetMode(p, n, mode) ==
    /\ file' = [file EXCEPT ![p][entry[p][n]].mode = mode]
    /\ UNCHANGED <<entry, backup>>

-----------------------------------------------------------------------------
Here(part, step) == proc /= "none" /\ pc = <<part, step>>
Rest == UNCHANGED <<change, stops, edits, mine>>
Stop == stops + edits < MaxTrouble /\ stops' = stops + 1 /\ UNCHANGED <<change, edits, mine>>

Go(part, step) == pc' = <<part, step>> /\ UNCHANGED stepVars
End == /\ proc' = "none" /\ pc' = <<"apply", "begin">> /\ at' = 1 /\ loc' = NoLocals

(***************************************************************************)
(* What an exception leads to, m being the journal in memory.  In          *)
(* apply_changeset the transaction was only prepared, or is committed, or  *)
(* is rolled back; a rollback that fails there is recorded as              *)
(* recovery_required; a recovery that fails just ends.                     *)
(***************************************************************************)
Raise(m) ==
    IF \/ proc = "recover"
       \/ pc[2] \in {"discard", "required"}
       \/ proc = "apply" /\ m.status = "committed"
      THEN End
      ELSE /\ loc' = NoLocals /\ at' = N
           /\ CASE proc = "undo" -> proc' = "undo" /\ pc' = <<"apply", "required">>
                [] proc = "apply" /\ m.status = "prepared" ->
                     proc' = "apply" /\ pc' = <<"apply", "discard">>
                [] OTHER -> proc' = "undo" /\ pc' = <<"rollback", "start">>

\* A check of the code fails: WorkspaceSecurityError.
Refuse ==
    /\ refused' = (refused \/ edits = 0)
    /\ Raise(mem)
    /\ UNCHANGED <<diskVars, journal, mem>> /\ Rest

\* _write_journal: the file is replaced as a whole, or the write fails and memory is ahead of it.
LogAt(m, part, step, p) ==
    /\ mem' = m
    /\ \/ journal' = m /\ pc' = <<part, step>> /\ at' = p /\ UNCHANGED <<proc, loc>> /\ Rest
       \/ UNCHANGED journal /\ Raise(m) /\ Stop
    /\ UNCHANGED <<diskVars, refused>>
Log(m, part, step) == LogAt(m, part, step, at)

\* A change of the disk, after which the process goes on.
Do(effect, part, step) ==
    /\ effect /\ Go(part, step)
    /\ UNCHANGED <<journal, mem, refused>> /\ Rest
Skip(part, step) == Do(UNCHANGED diskVars, part, step)

\* The owner may not write the file.
Locked(p, n) == Exists(p, n) /\ File(p, n).mode = "readonly"

\* _unlink_recovery_artifact: a file is made writable for its owner, and unlinked next.
Remove(n, part, step) ==
    IF Locked(at, n) THEN Do(SetMode(at, n, "open"), pc[1], pc[2])
                     ELSE Do(Unlink(at, n), part, step)

Phase(a, phase) == [mem EXCEPT !.rec[at].phase[a] = phase]
Status(status) == [mem EXCEPT !.rec[at].status = status]

\* _advance_rollback_phase: the journal is written only when the phase grows.
Advance(phase, part, step) ==
    IF Reached(phase) THEN Skip(part, step)
                      ELSE Log([mem EXCEPT !.rec[at].rollback = phase], part, step)

-----------------------------------------------------------------------------
(***************************************************************************)
(* apply_changeset                                                         *)
(***************************************************************************)

\* The lock, the transaction directory and a journal of pending records.
Begin ==
    /\ proc = "none" /\ journal = None /\ mem = None
    /\ mem' = [status |-> "prepared", rec |-> [p \in Paths |-> NewRecord]]
    /\ journal' = mem'
    /\ proc' = "apply" /\ pc' = <<"apply", "stage">>
    /\ UNCHANGED <<diskVars, at, loc, refused>> /\ Rest

\* The snapshot is still the confirmed one and no artifact name is taken.
Stage ==
    /\ Here("apply", "stage")
    /\ IF SnapshotIs("before")
         THEN Log([mem EXCEPT !.status = "applying"], "install", "intent")
         ELSE Refuse

\* _prepare_install_artifacts: every new value is written beside its target first.
Prepare ==
    /\ Here("install", "intent")
    /\ IF Has(at, "after")
         THEN Log(Phase("install", "create_intent"), "install", "create")
         ELSE LogAt(mem, IF at = N THEN "apply" ELSE "install",
                         IF at = N THEN "backup" ELSE "intent", IF at = N THEN 1 ELSE at + 1)

\* _create_journaled_artifact, for the value to install and the one to restore.
CreateArtifact(a) ==
    \/ Here(a, "create") /\ ~Exists(at, a) /\ Do(Create(at, a), a, "identify")
    \/ /\ Here(a, "identify")
       /\ Log([Phase(a, "write_intent") EXCEPT !.rec[at].id[a] = entry[at][a]], a, "half")
    \/ Here(a, "half") /\ Do(WriteContent(at, a, "half"), a, "full")
    \/ /\ Here(a, "full")
       /\ Do(WriteContent(at, a, change[at][Side(a)].content), a, "created")

InstallCreated ==
    /\ Here("install", "created")
    /\ CASE ~Owned(at, "install", "install") -> Refuse
         [] Owned(at, "install", "install") /\ at < N ->
              LogAt(Phase("install", "created"), "install", "intent", at + 1)
         [] OTHER -> LogAt(Phase("install", "created"), "apply", "backup", 1)

Backup ==
    \/ /\ Here("apply", "backup")
       /\ IF Matches(at, "target", "before")
            THEN Do(/\ backup' = backup \cup (IF Has(at, "before") THEN {at} ELSE {})
                    /\ UNCHANGED <<entry, file>>, "apply", "backedUp")
            ELSE Refuse
    \/ Here("apply", "backedUp") /\ Log(Status("backed_up"), "apply", "mutating")
    \/ Here("apply", "mutating") /\ Log(Status("mutating"), "apply", "detach")

\* _apply_change_fail_closed: the old value is moved aside, then looked at.
Detach ==
    /\ Here("apply", "detach")
    /\ CASE Has(at, "before") ->
              Do(Rename(at, "target", "quarantine"), "apply", "detached")
         [] ~Has(at, "before") /\ Exists(at, "target") -> Refuse
         [] OTHER -> Skip("install", "linkIntent")

Detached ==
    /\ Here("apply", "detached")
    /\ CASE ~Matches(at, "quarantine", "before") -> Skip("apply", "undetach")
         [] Matches(at, "quarantine", "before") /\ Has(at, "after") ->
              Skip("install", "linkIntent")
         [] OTHER -> Skip("apply", "seal")

\* _restore_quarantine_no_replace: somebody's value goes back unless the name is taken again.
RestoreQuarantine ==
    \/ /\ Here("apply", "undetach")
       /\ IF Exists(at, "target") THEN Refuse
          ELSE Do(Link(at, "quarantine", "target"), "apply", "undetached")
    \/ /\ Here("apply", "undetached") /\ Locked(at, "quarantine")
       /\ Remove("quarantine", "apply", "undetached")
    \/ /\ Here("apply", "undetached") /\ ~Locked(at, "quarantine")
       /\ Unlink(at, "quarantine")
       /\ refused' = (refused \/ edits = 0)
       /\ Raise(mem) /\ UNCHANGED <<journal, mem>> /\ Rest

\* Mutant of Install: the link replaces what is there.
InstallReplacing ==
    \/ /\ Here("install", "linkIntent")
       /\ Log(Phase("install", "link_intent"), "install", "link")
    \/ /\ Here("install", "link")
       /\ Bind(at, "target", entry[at]["install"]) /\ file' = Without(at, "target")
       /\ Go("apply", "finish") /\ UNCHANGED <<backup, journal, mem, refused>> /\ Rest

\* _install_bytes_no_replace
Install ==
    \/ /\ Here("install", "linkIntent")
       /\ IF Owned(at, "install", "install")
            THEN Log(Phase("install", "link_intent"), "install", "link") ELSE Refuse
    \/ /\ Here("install", "link")
       /\ IF Exists(at, "target") THEN Refuse
          ELSE Do(Link(at, "install", "target"), "install", "linked")
    \/ /\ Here("install", "linked")
       /\ IF entry[at]["target"] = Rec.id["install"]
            THEN Log(Phase("install", "linked"), "install", "unlink") ELSE Refuse
    \/ Here("install", "unlink") /\ Remove("install", "install", "unlinked")
    \/ Here("install", "unlinked") /\ Log(Phase("install", "temp_unlinked"), "install", "mode")
    \/ /\ Here("install", "mode")
       /\ IF entry[at]["target"] = Rec.id["install"]
            THEN Do(SetMode(at, "target", change[at].after.mode), "install", "modeApplied")
            ELSE Refuse
    \/ Here("install", "modeApplied") /\ Log(Phase("install", "mode_applied"), "apply", "seal")

\* The end of _apply_change_fail_closed and of the loop in apply_changeset.
Seal ==
    \/ /\ Here("apply", "seal")
       /\ IF /\ Matches(at, "target", "after")
             /\ Has(at, "after") => entry[at]["target"] = Rec.id["install"]
             /\ Has(at, "before") => Matches(at, "quarantine", "before")
            THEN Skip("apply", "drop") ELSE Refuse
    \/ Here("apply", "drop") /\ Remove("quarantine", "apply", "applied")
    \/ /\ Here("apply", "applied")
       /\ IF at < N THEN LogAt(Status("applied"), "apply", "backup", at + 1)
                    ELSE Log(Status("applied"), "apply", "finish")

\* The result is the verified candidate: committed, and the callback runs.
Finish ==
    \/ /\ Here("apply", "finish")
       /\ IF SnapshotIs("after")
            THEN Log([mem EXCEPT !.status = "committed"], "apply", "committed") ELSE Refuse
    \/ /\ Here("apply", "committed")
       /\ End /\ UNCHANGED <<diskVars, journal, mem, refused>> /\ Rest

\* The exception handler of apply_changeset: an unused transaction directory is removed.
Discard ==
    /\ Here("apply", "discard")
    /\ journal' = None /\ End
    /\ UNCHANGED <<diskVars, mem, refused>> /\ Rest

RecoveryRequired ==
    /\ Here("apply", "required")
    /\ mem' = [mem EXCEPT !.status = "recovery_required"]
    /\ journal' = mem' /\ End
    /\ UNCHANGED <<diskVars, refused>> /\ Rest

-----------------------------------------------------------------------------
(***************************************************************************)
(* _rollback_from_journal: the changes in reverse.                         *)
(***************************************************************************)
\* Mutant of RollbackChange: the loop ends one change too early.
RollbackAllButFirst ==
    /\ Here("rollback", "start")
    /\ CASE Rec.status /= "rolled_back" -> Log(mem, "install", "adopt")
         [] Rec.status = "rolled_back" /\ at > 2 ->
              /\ at' = at - 1 /\ loc' = NoLocals
              /\ UNCHANGED <<diskVars, journal, proc, mem, pc, refused>> /\ Rest
         [] OTHER -> Skip("rollback", "end")

RollbackChange ==
    /\ Here("rollback", "start")
    /\ CASE Rec.status /= "rolled_back" -> Log(mem, "install", "adopt")
         [] Rec.status = "rolled_back" /\ at > 1 ->
              /\ at' = at - 1 /\ loc' = NoLocals
              /\ UNCHANGED <<diskVars, journal, proc, mem, pc, refused>> /\ Rest
         [] OTHER -> Skip("rollback", "end")

\* Mutant of MayBePartial: only an artifact whose identity was not written may be half made.
OnlyUnidentified(p, a) == Rec.id[a] = None /\ ~Exists(p, "rollback") /\ Rec.status /= "applied"

\* install_prewrite_state and restore_creation_state: the artifact may be half made.
MayBePartial(p, a) ==
    IF a = "install"
      THEN /\ Rec.status = "pending"
           /\ Rec.phase["install"] \in {"create_intent", "write_intent"}
           /\ Matches(p, "target", "before")
           /\ \A n \in {"rollback", "restore", "quarantine"} : ~Exists(p, n)
      ELSE /\ Rec.rollback = "restore_intent"
           /\ ~Exists(p, "target") /\ ~Exists(p, "install")
           /\ CASE Exists(p, "rollback") -> Owned(p, "rollback", "install")
                [] ~Exists(p, "rollback") /\ Has(p, "after") ->
                     Rec.status = "mutating" /\ Exists(p, "quarantine")
                [] OTHER -> Exists(p, "quarantine") => Rec.status = "mutating"

\* An artifact found on disk is adopted, dropped when half made, or refused.
Adopt(a) ==
    LET done == IF a = "install" THEN <<"restore", "adopt">> ELSE <<"rollback", "classify">>
        stranger == Exists(at, "quarantine") /\ ~Matches(at, "quarantine", "before")
    IN
    \/ /\ Here(a, "adopt")
       /\ CASE a = "install" /\ stranger -> Refuse
            [] ~(a = "install" /\ stranger) /\ ~Exists(at, a) -> Skip(done[1], done[2])
            [] OTHER ->
                 IF ~Has(at, Side(a)) THEN (IF a = "install" THEN Refuse ELSE Skip(done[1], done[2]))
                 ELSE IF Rec.id[a] = None
                 THEN IF ~MayBePartial(at, a) THEN Refuse
                      ELSE LET complete == ContentComplete(at, a)
                               m == Phase(a, IF complete THEN "created" ELSE "write_intent")
                           IN Log([m EXCEPT !.rec[at].id[a] = entry[at][a]],
                                  IF complete THEN done[1] ELSE a,
                                  IF complete THEN done[2] ELSE "partial")
                 ELSE IF Rec.phase[a] = "write_intent"
                 THEN IF MayBePartial(at, a) /\ OwnedPartial(at, a)
                        THEN Skip(a, "partial") ELSE Refuse
                 ELSE IF Owned(at, a, a) THEN Skip(done[1], done[2]) ELSE Refuse
    \/ Here(a, "partial") /\ Remove(a, a, "dropped")
    \/ /\ Here(a, "dropped")
       /\ Log([Phase(a, "recovered_partial_unlinked") EXCEPT !.rec[at].id[a] = None],
              done[1], done[2])

(***************************************************************************)
(* What the target holds decides, once, what is undone; the later steps    *)
(* use what was seen here.                                                 *)
(***************************************************************************)
Classify ==
    /\ Here("rollback", "classify")
    /\ LET isBefore == Matches(at, "target", "before")
           isAfter == Matches(at, "target", "after")
           isInstalled == Has(at, "after") /\ Owned(at, "target", "install")
           isRestoring == Has(at, "before") /\ Owned(at, "target", "restore")
           known == Rec.id["install"] /= None
           saw == loc' = [before |-> isBefore, restoring |-> isRestoring]
           on(step) == /\ saw /\ pc' = <<"rollback", step>>
                       /\ UNCHANGED <<diskVars, journal, proc, mem, at, refused>> /\ Rest
           grow(phase, step) ==
             IF Reached(phase) THEN on(step)
             ELSE /\ mem' = [mem EXCEPT !.rec[at].rollback = phase]
                  /\ \/ saw /\ journal' = mem' /\ pc' = <<"rollback", step>>
                        /\ UNCHANGED <<proc, at>> /\ Rest
                     \/ UNCHANGED journal /\ Raise(mem) /\ Stop
                  /\ UNCHANGED <<diskVars, refused>>
       IN
       CASE Has(at, "after") /\ isAfter /\ known /\ ~isInstalled -> Refuse
         [] Rec.status \in {"pending", "backed_up"}
              /\ ~(Has(at, "after") /\ isAfter /\ known /\ ~isInstalled) ->
              IF /\ isBefore /\ ~isInstalled
                 /\ \A n \in {"rollback", "restore", "quarantine"} : ~Exists(at, n)
                 /\ Exists(at, "install") => Owned(at, "install", "install")
                THEN Remove("install", "rollback", "untouched") ELSE Refuse
         [] OTHER ->
              IF \/ /\ Has(at, "after") /\ ~known
                    /\ \/ isAfter \/ isInstalled \/ Exists(at, "rollback")
                       \/ Rec.status = "applied"
                 \/ Exists(at, "rollback") /\ ~Owned(at, "rollback", "install")
                THEN Refuse
              ELSE IF isInstalled
                THEN IF Exists(at, "rollback") \/ Reached("detached") THEN Refuse
                     ELSE grow("detach_intent", "detach")
              ELSE IF Has(at, "after") /\ Exists(at, "rollback")
                THEN IF Exists(at, "target") /\ ~isBefore /\ ~isRestoring THEN Refuse
                     ELSE grow("detached", "dropInstall")
              ELSE IF \/ /\ Has(at, "after") /\ ~Has(at, "before") /\ isBefore /\ known
                         /\ ~Reached("rollback_unlink_intent")
                      \/ ~isBefore /\ ~isRestoring /\ Exists(at, "target")
                THEN Refuse
              ELSE on("dropInstall")

\* A change whose target was not touched.
Untouched ==
    /\ Here("rollback", "untouched")
    /\ LET m == [mem EXCEPT !.rec[at].phase["install"] = "recovered_unlinked",
                            !.rec[at].rollback = "complete", !.rec[at].status = "rolled_back"]
       IN Log(m, "rollback", "start")

\* The installed value is moved aside: what is moved may have changed since it was looked at.
DetachInstalled ==
    \/ /\ Here("rollback", "detach")
       /\ \/ entry[at]["target"] /= Rec.id["install"] /\ Refuse
          \/ Do(Rename(at, "target", "rollback"), "rollback", "detached")
    \/ /\ Here("rollback", "detached")
       /\ IF Owned(at, "rollback", "install")
            THEN Advance("detached", "rollback", "dropInstall") ELSE Refuse

DropInstall ==
    \/ /\ Here("rollback", "dropInstall")
       /\ CASE ~Exists(at, "install") -> Skip("rollback", "installGone")
            [] Owned(at, "install", "install") ->
                 Log(Phase("install", "unlink_intent"), "rollback", "unlinkInstall")
            [] OTHER -> Refuse
    \/ Here("rollback", "unlinkInstall") /\ Remove("install", "rollback", "installGone")
    \/ /\ Here("rollback", "installGone")
       /\ Log(Phase("install", "recovered_unlinked"), "rollback", "restore")

\* Which of the three ways the old value comes back.
Restore ==
    /\ Here("rollback", "restore")
    /\ CASE Has(at, "before") /\ ~loc.before ->
              IF Reached("restored") \/ at \notin backup THEN Refuse
              ELSE Advance("restore_intent", "restore", "place")
         [] ~Has(at, "before") ->
              IF Exists(at, "restore") THEN Refuse ELSE Advance("restored", "rollback", "verify")
         [] Has(at, "before") /\ loc.before /\ Exists(at, "restore") ->
              IF Owned(at, "restore", "restore")
                THEN Remove("restore", "rollback", "restored") ELSE Refuse
         [] OTHER -> Advance("restored", "rollback", "verify")

PlaceRestore ==
    \/ /\ Here("restore", "place")
       /\ CASE loc.restoring -> Skip("restore", "placed")
            [] ~loc.restoring /\ Exists(at, "target") -> Refuse
            [] OTHER -> Skip("restore", IF Exists(at, "restore") THEN "link" ELSE "create")
    \/ /\ Here("restore", "created")
       /\ IF Owned(at, "restore", "restore")
            THEN Log(Phase("restore", "created"), "restore", "link") ELSE Refuse
    \/ /\ Here("restore", "link")
       /\ IF Owned(at, "restore", "restore") /\ ~Exists(at, "target")
            THEN Do(Link(at, "restore", "target"), "restore", "placed") ELSE Refuse
    \/ /\ Here("restore", "placed")
       /\ CASE ~Owned(at, "target", "restore") -> Refuse
            [] Owned(at, "target", "restore") /\ Exists(at, "restore") ->
                 IF Owned(at, "restore", "restore")
                   THEN Log(Phase("restore", "unlink_intent"), "restore", "unlink") ELSE Refuse
            [] OTHER -> Skip("restore", "unlinked")
    \/ Here("restore", "unlink") /\ Remove("restore", "restore", "unlinked")
    \/ Here("restore", "unlinked") /\ Log(Phase("restore", "temp_unlinked"), "restore", "mode")
    \/ /\ Here("restore", "mode")
       /\ IF entry[at]["target"] = Rec.id["restore"]
            THEN Do(SetMode(at, "target", change[at].before.mode), "rollback", "restored")
            ELSE Refuse
    \/ Here("rollback", "restored") /\ Advance("restored", "rollback", "verify")

VerifyRestored ==
    /\ Here("rollback", "verify")
    /\ IF Matches(at, "target", "before")
         THEN Advance("restore_unlinked", "rollback", "dropRollback") ELSE Refuse

\* The two values that were moved aside are dropped, one after the other.
DropMoved(n, step, intent, action, done, gone, next) ==
    \/ /\ Here("rollback", step)
       /\ IF ~Exists(at, n) THEN Skip("rollback", gone)
          ELSE IF \/ Reached(done)
                  \/ n = "rollback" /\ ~Owned(at, n, "install")
                  \/ n = "quarantine" /\ ~Matches(at, n, "before")
            THEN Refuse
          ELSE Advance(intent, "rollback", action)
    \/ Here("rollback", action) /\ Remove(n, "rollback", gone)
    \/ Here("rollback", gone) /\ Advance(done, "rollback", next)

DropRollback ==
    DropMoved("rollback", "dropRollback", "rollback_unlink_intent", "unlinkRollback",
              "rollback_unlinked", "rollbackGone", "dropQuarantine")
DropQuarantine ==
    DropMoved("quarantine", "dropQuarantine", "quarantine_unlink_intent", "unlinkQuarantine",
              "quarantine_unlinked", "quarantineGone", "rolledBack")

RolledBack ==
    /\ Here("rollback", "rolledBack")
    /\ LET m == [mem EXCEPT !.rec[at].rollback = "complete", !.rec[at].status = "rolled_back"]
       IN Log(m, "rollback", "start")

\* Every change is undone: the applying process records it and raises.
EndRollback ==
    /\ Here("rollback", "end")
    /\ proc = "undo"
    /\ Log([mem EXCEPT !.status = "rolled_back"], "apply", "undone")

Undone ==
    /\ Here("apply", "undone")
    /\ End /\ UNCHANGED <<diskVars, journal, mem, refused>> /\ Rest

-----------------------------------------------------------------------------
\* recover_workspace_transaction, from the journal that a dead process left.
Recover ==
    /\ proc = "none" /\ journal /= None
    /\ journal.status \notin {"committed", "recovered"}
    /\ mem' = journal
    /\ proc' = "recover" /\ pc' = <<"rollback", "start">> /\ at' = N /\ loc' = NoLocals
    /\ UNCHANGED <<diskVars, journal, refused>> /\ Rest

\* The restored source has the bound fingerprint.
EndRecovery ==
    /\ Here("rollback", "end")
    /\ proc = "recover"
    /\ IF SnapshotIs("before")
         THEN Log([mem EXCEPT !.status = "recovered"], "apply", "undone") ELSE Refuse

\* finalize_committed and finalize_recovered: the transaction directory is removed.
Finalize ==
    /\ proc = "none" /\ journal /= None
    /\ journal.status \in {"committed", "recovered"}
    /\ journal' = None /\ backup' = {}
    /\ UNCHANGED <<change, entry, file, proc, mem, pc, at, loc, stops, edits, mine,
                   refused>>

-----------------------------------------------------------------------------
\* An OSError: the step has no effect.
Fail ==
    /\ proc /= "none"
    /\ Raise(mem) /\ Stop
    /\ UNCHANGED <<diskVars, journal, mem, refused>>

\* The process dies.
Crash ==
    /\ proc /= "none"
    /\ End /\ Stop /\ UNCHANGED <<diskVars, journal, mem, refused>>

\* Somebody else creates or replaces a target, rewrites it in place or removes it.
Foreign == [content |-> "foreign", mode |-> "open"]
Edit(p) ==
    /\ stops + edits < MaxTrouble
    /\ edits' = edits + 1
    /\ \/ /\ \E id \in Ids \ Linked(p) :
               /\ Bind(p, "target", id)
               /\ file' = [Without(p, "target") EXCEPT ![p][id] = Foreign]
          /\ mine' = mine \cup {p}
       \/ /\ Exists(p, "target")
          /\ file' = [file EXCEPT ![p][entry[p]["target"]].content = "foreign"]
          /\ mine' = mine \cup {p} /\ UNCHANGED entry
       \/ /\ Exists(p, "target")
          /\ Bind(p, "target", None) /\ file' = Without(p, "target") /\ mine' = mine \ {p}
    /\ UNCHANGED <<change, backup, journal, proc, mem, pc, at, loc, stops, refused>>

ApplyStep ==
    \/ Stage \/ Prepare \/ CreateArtifact("install") \/ InstallCreated \/ Backup \/ Detach
    \/ Detached \/ RestoreQuarantine \/ Install \/ Seal \/ Finish \/ Discard \/ RecoveryRequired

RollbackStep ==
    \/ RollbackChange \/ Adopt("install") \/ Adopt("restore") \/ Classify \/ Untouched
    \/ DetachInstalled \/ DropInstall \/ Restore \/ CreateArtifact("restore") \/ PlaceRestore
    \/ VerifyRestored \/ DropRollback \/ DropQuarantine \/ RolledBack \/ EndRollback \/ Undone
    \/ EndRecovery

TxNext ==
    \/ Begin \/ ApplyStep \/ RollbackStep \/ Recover \/ Finalize \/ Fail \/ Crash
    \/ \E p \in Paths : Edit(p)

TxSpec == TxInit /\ [][TxNext]_txVars

-----------------------------------------------------------------------------
(***************************************************************************)
(* What somebody else wrote into a target is never lost: until they remove *)
(* it themselves it is still linked under the target or one of the names   *)
(* beside it, whatever the apply, the rollback or a recovery was doing.    *)
(***************************************************************************)
ForeignKept ==
    \A p \in mine : \E n \in Names : Exists(p, n) /\ File(p, n).content = "foreign"

(***************************************************************************)
(* The journal tells the truth about the whole workspace when nobody else  *)
(* edits: committed means that every target holds its new value, recovered *)
(* or rolled back that every one holds its old value; no artifact is left. *)
(***************************************************************************)
AllOrNothing ==
    (journal /= None /\ edits = 0 /\ journal.status \in {"committed", "recovered", "rolled_back"}) =>
      \A p \in Paths :
        /\ Matches(p, "target", IF journal.status = "committed" THEN "after" ELSE "before")
        /\ \A n \in Names \ {"target"} : ~Exists(p, n)

\* A value moved aside was read-only, was made writable to be removed, and is still there.
Unlocked(p) ==
    \E n \in {"quarantine", "rollback"} :
      LET recorded == change[p][IF n = "quarantine" THEN "before" ELSE "after"] IN
      Exists(p, n) /\ recorded /= None /\ recorded.mode = "readonly" /\ File(p, n).mode = "open"

(***************************************************************************)
(* A transaction over files that exist, interrupted by crashes and errors  *)
(* anywhere and any number of times, is never refused unless somebody else *)
(* has edited a target, or it stopped between making a read-only value     *)
(* writable and removing it.                                               *)
(***************************************************************************)
ModifiedRecoverable ==
    (\A p \in Paths : Has(p, "before")) /\ refused => \E p \in Paths : Unlocked(p)

(***************************************************************************)
(* test_install_journal_recovers_every_durable_boundary: the same of any   *)
(* transaction.                                                            *)
(***************************************************************************)
EveryBoundaryRecoverable == ~refused

\* What _apply_changes, its rollback and recover_pending_workspace_transactions keep
\* through every crash, failed operation and edit by somebody else.
WorkspaceSafe == ForeignKept /\ AllOrNothing /\ ModifiedRecoverable
=============================================================================
