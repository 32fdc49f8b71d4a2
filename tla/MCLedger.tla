----------------------------- MODULE MCLedger ------------------------------
(***************************************************************************)
(* TLC instance of what accounts and serves: premium runs on one budget    *)
(* key; the ledger's confirmation tickets; the local cascade; the experts  *)
(* of the web process, its cron jobs, model servers, chats and memory;     *)
(* start-up and plugins; the browser and the desktop cell.                 *)
(* Every behaviour of this run is one of a single part, which it picks     *)
(* first; the parts share nothing.  A component met in one part only is    *)
(* extended and rests in an initial state in the other parts; the others   *)
(* take their variables from the slots.                                    *)
(***************************************************************************)
EXTENDS PremiumLaunch, BrowserCell, DesktopCell, LocalStores, LocalCascade, LocalServing, TLC

CONSTANTS
    CronJobs, CronConfirm, CronSpecs, CronLocal, CronRunners, CronStarters, CronMaxClock,
    CronMaxProcs,  \* of BackgroundServices
    ServersRunners, ServersStarters, ServersMaxClock, ServersMaxProcs,  \* of BackgroundServices
    SetupBackends, SetupModels, SetupPublishers, SetupMaxStartups, SetupMaxHostChanges,  \* of RuntimeSetup
    PluginPublishers, PluginMaxStartups, PluginMaxHostChanges  \* of RuntimeSetup

VARIABLES
    part,  \* the part of the system that this behaviour is about
    v1, v2, v3, v4, v5, v6, v7, v8, v9  \* the variables of any other part

MCTiers == <<"t1", "t2">>

MCDeclared ==
    [a |-> [scope |-> "unset", transport |-> "unset", loopback |-> TRUE, openai |-> TRUE],
     b |-> [scope |-> "device_only", transport |-> "direct_local", loopback |-> TRUE, openai |-> FALSE],
     m |-> [scope |-> "private_mesh", transport |-> "mesh_llm", loopback |-> TRUE, openai |-> TRUE],
     p |-> [scope |-> "private_mesh", transport |-> "unset", loopback |-> FALSE, openai |-> TRUE]]
MCFallbacks == <<"m", "p", "b">>

MCJobs == << [id |-> "boot", kind |-> "startup", write |-> FALSE],
             [id |-> "prune", kind |-> "interval", write |-> TRUE] >>
MCSpecs == <<"e1", "e2">>

Cron == INSTANCE BackgroundServices WITH
    Jobs <- CronJobs, Confirm <- CronConfirm, Specs <- CronSpecs, Local <- CronLocal,
    Runners <- CronRunners, Starters <- CronStarters, MaxClock <- CronMaxClock,
    MaxProcs <- CronMaxProcs, clock <- v1, cronfile <- v2, runner <- v3, okruns <- v4,
    procs <- v5, tracked <- v6, starter <- v7, raced <- v8, host <- v9

Servers == INSTANCE BackgroundServices WITH
    Jobs <- CronJobs, Confirm <- CronConfirm, Specs <- CronSpecs, Local <- CronLocal,
    Runners <- ServersRunners, Starters <- ServersStarters, MaxClock <- ServersMaxClock,
    MaxProcs <- ServersMaxProcs, clock <- v1, cronfile <- v2, runner <- v3, okruns <- v4,
    procs <- v5, tracked <- v6, starter <- v7, raced <- v8, host <- v9

Setup == INSTANCE RuntimeSetup WITH
    Backends <- SetupBackends, Models <- SetupModels, Publishers <- SetupPublishers,
    MaxStartups <- SetupMaxStartups, MaxHostChanges <- SetupMaxHostChanges, host <- v1,
    probed <- v2, run <- v3, acts <- v4, pub <- v5, plugin <- v6, startups <- v7,
    hostchanges <- v8

Plugin == INSTANCE RuntimeSetup WITH
    Backends <- SetupBackends, Models <- SetupModels, Publishers <- PluginPublishers,
    MaxStartups <- PluginMaxStartups, MaxHostChanges <- PluginMaxHostChanges, host <- v1,
    probed <- v2, run <- v3, acts <- v4, pub <- v5, plugin <- v6, startups <- v7,
    hostchanges <- v8

slots == <<v1, v2, v3, v4, v5, v6, v7, v8, v9>>
\* The variables of the components that are extended.
ownVars == <<launchVars, cascadeVars, servingVars, browserVars, desktopVars, storeVars>>
mcVars == <<part, ownVars, slots>>
restVars == <<part, ownVars>>

NoSlots ==
    /\ v1 = 0 /\ v2 = 0 /\ v3 = 0 /\ v4 = 0
    /\ v5 = 0 /\ v6 = 0 /\ v7 = 0 /\ v8 = 0 /\ v9 = 0

\* Where a component rests: each has one of its initial states.
LaunchRests == LaunchInit /\ clock = 0 /\ schema = "2.2"
ServingRests == ServingInit /\ req.mode = "gateway"
DesktopRests == DesktopInit /\ driver = "pinned"
Resting == LaunchRests /\ CascadeInit /\ ServingRests /\ BrowserInit /\ DesktopRests /\ StoreInit

MCInit ==
    \/ part = "launch" /\ LaunchInit /\ CascadeInit /\ ServingRests /\ BrowserInit /\ DesktopRests
       /\ StoreInit /\ NoSlots
    \/ part = "serving" /\ LaunchRests /\ CascadeInit /\ ServingInit /\ BrowserInit /\ DesktopRests
       /\ StoreInit /\ NoSlots
    \/ part = "desktop" /\ LaunchRests /\ CascadeInit /\ ServingRests /\ BrowserInit /\ DesktopInit
       /\ StoreInit /\ NoSlots
    \/ part \in {"cascade", "browser", "stores"} /\ Resting /\ NoSlots
    \/ part = "tickets" /\ LaunchInit /\ budgets = Empty /\ CascadeInit /\ ServingRests /\ BrowserInit
       /\ DesktopRests /\ StoreInit /\ NoSlots
    \/ part = "cron" /\ Cron!BackInit /\ Resting
    \/ part = "servers" /\ Servers!BackInit /\ Resting
    \/ part = "setup" /\ Setup!SetupInit /\ v9 = 0 /\ Resting
    \/ part = "plugin" /\ Plugin!SetupInit /\ v9 = 0 /\ Resting

\* Parts that may rightly come to rest; any other must always have a step.
MayStop == {"cascade", "serving", "cron", "servers", "browser", "desktop", "setup", "plugin",
            "stores"}

MCNext ==
    \/ /\ part = "launch" /\ LaunchNext
       /\ UNCHANGED <<part, slots, cascadeVars, servingVars, browserVars, desktopVars, storeVars>>
    \/ /\ part = "tickets" /\ TicketNext
       /\ UNCHANGED <<part, slots, pc, process, accounted, reported, cascadeVars, servingVars,
                       browserVars, desktopVars, storeVars>>
    \/ /\ part = "cascade" /\ CascadeNext
       /\ UNCHANGED <<part, slots, launchVars, servingVars, browserVars, desktopVars, storeVars>>
    \/ /\ part = "serving" /\ ServingNext
       /\ UNCHANGED <<part, slots, launchVars, cascadeVars, browserVars, desktopVars, storeVars>>
    \/ /\ part = "browser" /\ BrowserNext
       /\ UNCHANGED <<part, slots, launchVars, cascadeVars, servingVars, desktopVars, storeVars>>
    \/ /\ part = "desktop" /\ DesktopNext
       /\ UNCHANGED <<part, slots, launchVars, cascadeVars, servingVars, browserVars, storeVars>>
    \/ /\ part = "stores" /\ StoreNext
       /\ UNCHANGED <<part, slots, launchVars, cascadeVars, servingVars, browserVars, desktopVars>>
    \/ part = "cron" /\ Cron!BackNext /\ UNCHANGED restVars
    \/ part = "servers" /\ Servers!BackNext /\ UNCHANGED restVars
    \/ part = "setup" /\ Setup!SetupNext /\ v9' = 0 /\ UNCHANGED restVars
    \/ part = "plugin" /\ Plugin!SetupNext /\ v9' = 0 /\ UNCHANGED restVars
    \/ part \in MayStop /\ UNCHANGED mcVars

MCSpec == MCInit /\ [][MCNext]_mcVars

\* Tickets and the stores' requests are drawn from the names of tokens.
MCSymmetry == Permutations(Tokens)

-----------------------------------------------------------------------------
(***************************************************************************)
(* Cron records only what happened (run_due_jobs), and the manager keeps   *)
(* track of every server it started (start_all, stop, close).              *)
(***************************************************************************)
ServicesSafe ==
    /\ part = "cron" => Cron!RecordedRunsHappened
    /\ part = "servers" => Servers!NoStrayServer

(***************************************************************************)
(* What a start-up's inspections say of the host after an installation     *)
(* (run_startup_readiness) and what a published plugin is                  *)
(* (create_plugin_scaffold).                                               *)
(***************************************************************************)
SetupSafe ==
    /\ part = "setup" => Setup!FirstInstallSeen
    /\ part = "plugin" => Plugin!PublishedWhole
=============================================================================
