----------------------------- MODULE LedgerLock -----------------------------
(***************************************************************************)
(* The lock that serialises the bridge ledger between processes: a         *)
(* directory made with mkdir, an owner.json inside it, and the recovery of *)
(* a lock whose owner died.  Every step is one system call of              *)
(* BridgeStateLedger._file_lock and _recover_stale_lock; what the lock     *)
(* protects is one reserve_budget with limit 1 on one key, reduced to its  *)
(* read and its write.  Source: assistant_bridge_ledger.py.                *)
(*                                                                         *)
(* Time appears only as the comparison the code makes: a caller reads the  *)
(* clock once, before it first tries the lock, and takes the directory for *)
(* stale when its mtime was more than stale_lock_seconds earlier.  So      *)
(* lock.old says the mtime is that old now, and aged[p] that it was when p *)
(* read the clock; making an entry in the directory, or removing one,      *)
(* renews the mtime and clears both.  A local variable that is not read    *)
(* again is reset.                                                         *)
(***************************************************************************)
EXTENDS Integers, FiniteSets

CONSTANTS
    Procs,      \* operating-system processes that share the ledger
    LongHolds,  \* may a live holder keep the lock for more than stale_lock_seconds
    None

VARIABLES
    alive,   \* is the process running
    pc,      \* the next system call of each process
    lock,    \* the lock directory: None, or its owner.json and its age
    aged,    \* was the directory already stale when the process read the clock
    pid,     \* the owner the process read from owner.json
    used,    \* the budget counter in the ledger file
    seen,    \* the counter the process read
    grants,  \* processes whose reserve_budget returned a lease
    judged,  \* processes whose judgement is about the directory there is (history)
    strays   \* has a recovery moved away another directory than the one it judged (history)

lockVars == <<alive, pc, lock, aged, pid, used, seen, grants, judged, strays>>

ASSUME LongHoldsAssumption == LongHolds \in BOOLEAN
ASSUME NoneAssumption == None \notin Procs

Phases == {"idle", "mkdir", "stat", "owner", "probe", "replace", "wait",
           "sign", "read", "write", "unlink", "rmdir"}

\* Between mkdir and rmdir the process believes that it holds the lock.
Holding == {"sign", "read", "write", "unlink", "rmdir"}

LockTypeOK ==
    /\ alive \in [Procs -> BOOLEAN]
    /\ pc \in [Procs -> Phases]
    /\ lock \in [owner : Procs \cup {None}, old : BOOLEAN] \cup {None}
    /\ aged \in [Procs -> BOOLEAN]
    /\ pid \in [Procs -> Procs \cup {None}]
    /\ used \in 0..1
    /\ seen \in [Procs -> 0..1]
    /\ grants \subseteq Procs
    /\ judged \subseteq Procs
    /\ strays \in BOOLEAN

LockInit ==
    /\ alive = [p \in Procs |-> TRUE]
    /\ pc = [p \in Procs |-> "idle"]
    /\ lock = None
    /\ aged = [p \in Procs |-> FALSE]
    /\ pid = [p \in Procs |-> None]
    /\ used = 0
    /\ seen = [p \in Procs |-> 0]
    /\ grants = {}
    /\ judged = {}
    /\ strays = FALSE

At(p, phase) == alive[p] /\ pc[p] = phase
Go(p, phase) == pc' = [pc EXCEPT ![p] = phase]
Exists == lock /= None

\* The directory gets a new mtime: no clock reading so far is long after it.
Touched(owner) ==
    /\ lock' = [owner |-> owner, old |-> FALSE]
    /\ aged' = [p \in Procs |-> FALSE]

ledgerVars == <<used, seen, grants>>
historyVars == <<judged, strays>>

-----------------------------------------------------------------------------
\* _locked_state reads the clock before it asks for the lock.
Call(p) ==
    /\ At(p, "idle")
    /\ aged' = [aged EXCEPT ![p] = Exists /\ lock.old]
    /\ Go(p, "mkdir")
    /\ UNCHANGED <<alive, lock, pid, ledgerVars, historyVars>>

(***************************************************************************)
(* mkdir makes the directory or finds one.  A caller that another OSError  *)
(* stops has touched nothing, as if it had not called.                     *)
(***************************************************************************)
MakeDirectory(p) ==
    /\ At(p, "mkdir")
    /\ UNCHANGED <<alive, pid, ledgerVars, historyVars>>
    /\ \/ /\ ~Exists
          /\ Touched(None)
          /\ Go(p, "sign")
       \/ /\ Exists
          /\ Go(p, "stat")
          /\ UNCHANGED <<lock, aged>>

\* Fault: the age of the directory is not compared.
StatIgnoresAge(p) ==
    /\ At(p, "stat")
    /\ Go(p, IF Exists THEN "owner" ELSE "wait")
    /\ judged' = judged \cup {p}
    /\ UNCHANGED <<alive, lock, aged, pid, ledgerVars, strays>>

\* age = now - lock.stat().st_mtime, and the early returns of _recover_stale_lock.
Stat(p) ==
    /\ At(p, "stat")
    /\ Go(p, IF Exists /\ aged[p] THEN "owner" ELSE "wait")
    /\ judged' = IF Exists /\ aged[p] THEN judged \cup {p} ELSE judged
    /\ UNCHANGED <<alive, lock, aged, pid, ledgerVars, strays>>

\* A missing or unreadable owner.json leaves pid at -1, here None.
ReadOwner(p) ==
    /\ At(p, "owner")
    /\ pid' = [pid EXCEPT ![p] = IF Exists THEN lock.owner ELSE None]
    /\ Go(p, "probe")
    /\ UNCHANGED <<alive, lock, aged, ledgerVars, historyVars>>

ProcessIsAlive(q) == q /= None /\ alive[q]

\* Fault: a directory without an owner.json is never recovered.
ProbeNeedsOwner(p) ==
    /\ At(p, "probe")
    /\ Go(p, IF pid[p] = None \/ alive[pid[p]] THEN "wait" ELSE "replace")
    /\ pid' = [pid EXCEPT ![p] = None]
    /\ UNCHANGED <<alive, lock, aged, ledgerVars, historyVars>>

Probe(p) ==
    /\ At(p, "probe")
    /\ Go(p, IF ProcessIsAlive(pid[p]) THEN "wait" ELSE "replace")
    /\ pid' = [pid EXCEPT ![p] = None]
    /\ UNCHANGED <<alive, lock, aged, ledgerVars, historyVars>>

(***************************************************************************)
(* os.replace moves away whatever directory has the name now.  A failed    *)
(* rmtree of what was moved returns False, and then the caller waits.      *)
(***************************************************************************)
Replace(p) ==
    /\ At(p, "replace")
    /\ lock' = None
    /\ \/ Exists /\ Go(p, "mkdir")
       \/ Go(p, "wait")
    /\ strays' = (strays \/ (Exists /\ p \notin judged))
    /\ judged' = {}
    /\ UNCHANGED <<alive, aged, pid, ledgerVars>>

\* time.sleep(0.02), and the loop tries mkdir again ...
Retry(p) ==
    /\ At(p, "wait")
    /\ Go(p, "mkdir")
    /\ UNCHANGED <<alive, lock, aged, pid, ledgerVars, historyVars>>

\* ... until the deadline has passed: the call raises, the lock is busy.
GiveUp(p) ==
    /\ At(p, "wait")
    /\ Go(p, "idle")
    /\ aged' = [aged EXCEPT ![p] = FALSE]
    /\ UNCHANGED <<alive, lock, pid, ledgerVars, historyVars>>

\* owner.json is written by path: into the directory of that name, whosever it is.
Sign(p) ==
    /\ At(p, "sign")
    /\ UNCHANGED <<alive, pid, ledgerVars, historyVars>>
    /\ \/ /\ Exists
          /\ IF lock.owner = None
               THEN Touched(p)
               ELSE lock' = [lock EXCEPT !.owner = p] /\ UNCHANGED aged
          /\ Go(p, "read")
       \/ \* OSError: the call raises and the finally block runs
          /\ Go(p, "unlink")
          /\ UNCHANGED <<lock, aged>>

Read(p) ==
    /\ At(p, "read")
    /\ seen' = [seen EXCEPT ![p] = used]
    /\ Go(p, "write")
    /\ UNCHANGED <<alive, lock, aged, pid, used, grants, historyVars>>

(***************************************************************************)
(* Pending authority counts toward the limit: a caller that saw none puts  *)
(* its own.  _write may raise before os.replace or after it, and a caller  *)
(* that is refused writes back what it read.                               *)
(***************************************************************************)
Write(p) ==
    /\ At(p, "write")
    /\ Go(p, "unlink")
    /\ \/ used' = 1 /\ grants' = IF seen[p] = 0 THEN grants \cup {p} ELSE grants
       \/ used' \in {used, 1} /\ UNCHANGED grants
    /\ seen' = [seen EXCEPT ![p] = 0]
    /\ UNCHANGED <<alive, lock, aged, pid, historyVars>>

Unlink(p) ==
    /\ At(p, "unlink")
    /\ IF Exists /\ lock.owner /= None
         THEN Touched(None)
         ELSE UNCHANGED <<lock, aged>>
    /\ Go(p, "rmdir")
    /\ UNCHANGED <<alive, pid, ledgerVars, historyVars>>

\* rmdir fails, silently, on a directory that is gone or not empty.
RemoveDirectory(p) ==
    /\ At(p, "rmdir")
    /\ lock' = IF Exists /\ lock.owner = None THEN None ELSE lock
    /\ judged' = IF Exists /\ lock.owner = None THEN {} ELSE judged
    /\ Go(p, "idle")
    /\ aged' = [aged EXCEPT ![p] = FALSE]
    /\ UNCHANGED <<alive, pid, ledgerVars, strays>>

-----------------------------------------------------------------------------
\* A process is killed, wherever it is; what it knew is gone.
Crash(p) ==
    /\ alive[p]
    /\ \E q \in Procs \ {p} : alive[q]
    /\ alive' = [alive EXCEPT ![p] = FALSE]
    /\ Go(p, "idle")
    /\ aged' = [aged EXCEPT ![p] = FALSE]
    /\ pid' = [pid EXCEPT ![p] = None]
    /\ seen' = [seen EXCEPT ![p] = 0]
    /\ judged' = judged \ {p}
    /\ UNCHANGED <<lock, used, grants, strays>>

\* stale_lock_seconds pass without a change to the directory.
Age ==
    /\ Exists
    /\ ~lock.old
    /\ LongHolds \/ \A p \in Procs : alive[p] => pc[p] \notin Holding
    /\ lock' = [lock EXCEPT !.old = TRUE]
    /\ UNCHANGED <<alive, pc, aged, pid, ledgerVars, historyVars>>

Step(p) ==
    \/ MakeDirectory(p) \/ Stat(p) \/ ReadOwner(p) \/ Probe(p) \/ Replace(p) \/ Retry(p) \/ GiveUp(p)
    \/ Sign(p) \/ Read(p) \/ Write(p) \/ Unlink(p) \/ RemoveDirectory(p)

LockNext ==
    \/ \E p \in Procs : Call(p) \/ Step(p) \/ Crash(p)
    \/ Age

LockSpec == LockInit /\ [][LockNext]_lockVars

(***************************************************************************)
(* A live process takes its next system call, callers come back, a caller  *)
(* that keeps waiting meets its deadline, and time passes over a directory *)
(* nobody touches.                                                         *)
(***************************************************************************)
LockFairSpec ==
    /\ LockSpec
    /\ \A p \in Procs :
          WF_lockVars(Call(p) \/ Step(p)) /\ SF_lockVars(GiveUp(p))
    /\ WF_lockVars(Age)

-----------------------------------------------------------------------------
\* At most one live process is between its read of the ledger file and its write.
Excludes ==
    \A p, q \in Procs :
      At(p, "write") /\ alive[q] /\ pc[q] \in {"read", "write"} => p = q

(***************************************************************************)
(* What _file_lock is for: whichever process died holding the lock, signed *)
(* or not, and whoever recovers it, two live processes are never both      *)
(* between read and write, with one exception, that a recovery moved away  *)
(* a directory made after the one that it judged stale.  AtomicReserve,    *)
(* which has no exception, is not true of the code.                        *)
(***************************************************************************)
MutualExclusion == LockTypeOK /\ (strays \/ Excludes)

(***************************************************************************)
(* reserve_budget is atomic and pending authority counts toward the limit  *)
(* (its docstring), so with limit 1 one caller at most gets a lease.       *)
(***************************************************************************)
AtomicReserve == Cardinality(grants) <= 1

(***************************************************************************)
(* A process killed while it holds the lock, before or after it signed it, *)
(* never keeps the ledger locked: the directory is removed, or a live      *)
(* caller holds it, again and again.                                       *)
(***************************************************************************)
DeadHolderRecovered ==
    []<>(~Exists \/ \E p \in Procs : alive[p] /\ pc[p] \in Holding)
=============================================================================
