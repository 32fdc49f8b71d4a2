----------------------------- MODULE DesktopCell -----------------------------
(* The desktop semantic cell (src/local_moe/desktop_capability.py): a         *)
(* read-only provider that owns one bounded driver daemon and reads one       *)
(* window of one application process, pinned by its start time and hash.      *)
(* The provider's lock serialises its operations, attest(), observe() and     *)
(* close(); while one of them runs, the application restarts under the same   *)
(* process id, the daemon dies, the driver is changed on disk, and the        *)
(* deadline passes.                                                           *)
EXTENDS Integers, FiniteSets

CONSTANTS
    MaxDaemons,   \* bound on daemons launched
    MaxViews,     \* bound on observations delivered
    MaxRestarts   \* bound on restarts of the application and changes of the driver

VARIABLES
    desk,     \* the provider's fields
    daemons,  \* the daemon processes launched, and whether they run
    app,      \* the incarnation of the process behind the pinned id
    driver,   \* the installed driver: as pinned, or another
    op,       \* the operation that holds the lock
    views     \* observations delivered (history)

desktopVars == <<desk, daemons, app, driver, op, views>>

Pinned == 1
Drivers == {"pinned", "other"}
Blank == [receipt |-> "none", daemon |-> 0, sess |-> 0, id |-> 0, rev |-> 0]
NoOp == [pc |-> "free", kind |-> "none", seen |-> 0, read |-> 0]

Daemons == DOMAIN daemons
Running(n) == n # 0 /\ daemons[n]

\* A session talks to the daemon it was opened to.
SessionActive == desk.sess # 0 /\ Running(desk.daemon)

\* close(): the fields are cleared, the session closed and the owned daemon
\* told to stop, then signalled.
CloseDesk ==
    /\ desk' = Blank
    /\ daemons' = [n \in Daemons |-> daemons[n] /\ n # desk.daemon]

\* Every exception inside observe() closes the provider; one inside attest()
\* called by itself is raised and leaves the fields as they are.
Raise ==
    /\ IF op.kind = "observe" THEN CloseDesk ELSE UNCHANGED <<desk, daemons>>
    /\ op' = NoOp
    /\ UNCHANGED <<app, driver, views>>

Step(pc) == op' = [op EXCEPT !.pc = pc]

-----------------------------------------------------------------------------
(* attest() and start() *)

BeginAttest ==
    /\ op.pc = "free"
    /\ op' = [NoOp EXCEPT !.pc = "receipt", !.kind = "attest"]
    /\ UNCHANGED <<desk, daemons, app, driver, views>>

\* start(): an active session is kept; one that died is closed with all the
\* rest before the provider is attested anew.
BeginObserve ==
    /\ op.pc = "free" /\ Cardinality(views) < MaxViews
    /\ op' = [NoOp EXCEPT !.kind = "observe", !.pc = IF SessionActive THEN "identify" ELSE "receipt"]
    /\ IF desk.sess # 0 /\ ~SessionActive THEN CloseDesk ELSE UNCHANGED <<desk, daemons>>
    /\ UNCHANGED <<app, driver, views>>

\* The driver is attested once per lifetime of the fields: its hash, its
\* version and its telemetry, or nothing is stored.
AttestRuntime ==
    /\ op.pc = "receipt"
    /\ desk.receipt # "none" \/ driver = "pinned"
    /\ desk' = [desk EXCEPT !.receipt = "pinned"]
    /\ Step("identity")
    /\ UNCHANGED <<daemons, app, driver, views>>

ValidateIdentity ==
    /\ op.pc = "identity" /\ app = Pinned
    /\ Step("daemon")
    /\ UNCHANGED <<desk, daemons, app, driver, views>>

\* Mutant of DaemonRefused: the daemon that is refused is left running.
DaemonLeftRunning ==
    LET n == Cardinality(Daemons) + 1
    IN  /\ op.pc = "daemon" /\ desk.daemon = 0 /\ n <= MaxDaemons
        /\ daemons' = [k \in Daemons \cup {n} |-> IF k = n THEN TRUE ELSE daemons[k]]
        /\ IF op.kind = "observe" THEN desk' = Blank ELSE UNCHANGED desk
        /\ op' = NoOp
        /\ UNCHANGED <<app, driver, views>>

\* The daemon was launched and does not answer in time, is not the process
\* launched, or is not bounded: it is stopped, and the operation raises.
DaemonRefused ==
    LET n == Cardinality(Daemons) + 1
    IN  /\ op.pc = "daemon" /\ desk.daemon = 0 /\ n <= MaxDaemons
        /\ daemons' = [k \in Daemons \cup {n} |-> IF k = n THEN FALSE ELSE daemons[k]]
        /\ IF op.kind = "observe" THEN desk' = Blank ELSE UNCHANGED desk
        /\ op' = NoOp
        /\ UNCHANGED <<app, driver, views>>

\* The provider's one daemon, launched when there is none; its executable is
\* hashed again first.  Whether the one it has still runs is not looked at.
EnsureDaemon ==
    LET n == Cardinality(Daemons) + 1
    IN  /\ op.pc = "daemon"
        /\ IF desk.daemon # 0 THEN UNCHANGED <<desk, daemons>>
           ELSE /\ n <= MaxDaemons /\ driver # "other"
                /\ daemons' = [k \in Daemons \cup {n} |-> IF k = n THEN TRUE ELSE daemons[k]]
                /\ desk' = [desk EXCEPT !.daemon = n]
        /\ op' = IF op.kind = "attest" THEN NoOp ELSE [op EXCEPT !.pc = "session"]
        /\ UNCHANGED <<app, driver, views>>

\* A session to the daemon, with its server identity and the one tool schema.
OpenSession ==
    /\ op.pc = "session" /\ Running(desk.daemon)
    /\ desk' = [desk EXCEPT !.sess = desk.daemon, !.id = desk.daemon]
    /\ Step("identify")
    /\ UNCHANGED <<daemons, app, driver, views>>

-----------------------------------------------------------------------------
(* observe() *)

IdentifyBefore ==
    /\ op.pc = "identify" /\ app = Pinned
    /\ op' = [op EXCEPT !.pc = "read", !.seen = app]
    /\ UNCHANGED <<desk, daemons, app, driver, views>>

\* The window is read for the pinned process id, whoever has it now.
ReadWindow ==
    /\ op.pc = "read" /\ SessionActive
    /\ op' = [op EXCEPT !.pc = "recheck", !.read = app]
    /\ UNCHANGED <<desk, daemons, app, driver, views>>

\* Mutant of IdentifyAfter: the identity is not read again.
DeliverUnchecked ==
    /\ op.pc = "recheck"
    /\ desk' = [desk EXCEPT !.rev = @ + 1]
    /\ views' = views \cup {[id |-> desk.id, rev |-> desk.rev + 1, of |-> op.read]}
    /\ op' = NoOp
    /\ UNCHANGED <<daemons, app, driver>>

\* The identity is read again, and compared, before the state is delivered
\* under the next revision.
IdentifyAfter ==
    /\ op.pc = "recheck" /\ app = Pinned /\ app = op.seen
    /\ desk' = [desk EXCEPT !.rev = @ + 1]
    /\ views' = views \cup {[id |-> desk.id, rev |-> desk.rev + 1, of |-> op.read]}
    /\ op' = NoOp
    /\ UNCHANGED <<daemons, app, driver>>

\* A check fails, an answer is refused or the deadline has passed.
OperationFails ==
    /\ op.pc # "free"
    /\ Raise

\* The runner or the end of the canary.
CloseProvider ==
    /\ op.pc = "free" /\ desk # Blank
    /\ CloseDesk
    /\ UNCHANGED <<app, driver, op, views>>

-----------------------------------------------------------------------------
(* The surroundings *)

AppRestarts ==
    /\ app <= MaxRestarts
    /\ app' = app + 1
    /\ UNCHANGED <<desk, daemons, driver, op, views>>

DriverChanges ==
    /\ driver' \in Drivers \ {driver}
    /\ UNCHANGED <<desk, daemons, app, op, views>>

DaemonDies ==
    /\ Running(desk.daemon)
    /\ daemons' = [daemons EXCEPT ![desk.daemon] = FALSE]
    /\ UNCHANGED <<desk, app, driver, op, views>>

DesktopInit ==
    /\ desk = Blank /\ daemons = <<>> /\ app = Pinned /\ driver \in Drivers
    /\ op = NoOp /\ views = {}

DesktopNext ==
    \/ BeginAttest \/ BeginObserve \/ AttestRuntime \/ ValidateIdentity
    \/ DaemonRefused \/ EnsureDaemon \/ OpenSession
    \/ IdentifyBefore \/ ReadWindow \/ IdentifyAfter \/ OperationFails \/ CloseProvider
    \/ AppRestarts \/ DriverChanges \/ DaemonDies

DesktopSpec == DesktopInit /\ [][DesktopNext]_desktopVars

-----------------------------------------------------------------------------
(* Properties *)

\* What is delivered was read from the pinned incarnation of the application
\* (observe: identity checked before and after), though it may restart under
\* the same process id at any step.
ReadsPinnedApp == \A v \in views : v.of = Pinned

\* Every daemon that runs is the one the provider holds, so closing the
\* provider leaves none behind.
NoOrphanDaemon == \A n \in Daemons : daemons[n] => n = desk.daemon

\* What the desktop cell promises of the application it reads and of its own daemon.
DesktopSafe == ReadsPinnedApp /\ NoOrphanDaemon
=============================================================================
