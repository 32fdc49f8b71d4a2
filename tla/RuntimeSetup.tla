---------------------------- MODULE RuntimeSetup ----------------------------
(* Preparing the local runtime: src/local_moe/startup.py, setup_runner.py,    *)
(* setup_status.py, doctor.py, health.py, model_downloads.py, bootstrap.py,   *)
(* and the publication of plugin scaffolds in extensions.py.                  *)
(*                                                                            *)
(* One process serves start-up requests; the host changes under it, commands  *)
(* and downloads fail half-way, and what an import probe found is kept for    *)
(* the life of the process.  Two requests publish a plugin of the same name.  *)
EXTENDS Integers, Sequences, FiniteSets

CONSTANTS
    Backends,       \* of "mlx", "llama_cpp" and "ollama", the ones a profile may use
    Models,         \* the models the experts name
    Publishers,     \* requests that publish the plugin
    MaxStartups,    \* bound on start-up requests
    MaxHostChanges  \* bound on changes that others make to the host

VARIABLES
    host,     \* the profile's backend, the venv, the backend's module, model -> files, the live endpoints
    probed,   \* what _probe_python_module has cached: "none", "available" or "missing"
    run,      \* the start-up request being served
    acts,     \* what was changed, and whether that request was confirmed
    pub,      \* publisher -> what it is doing
    plugin,   \* the plugin's directory: who published it and which files it has
    startups, hostchanges

setupVars == <<host, probed, run, acts, pub, plugin, startups, hostchanges>>

NoPlugin == [by |-> 0, files |-> {}]
NoRun == [pc |-> "idle", prepare |-> FALSE, download |-> FALSE, start |-> FALSE,
          confirm |-> FALSE, todo |-> <<>>, steps |-> {}, fetched |-> {}, before |-> "none", after |-> "none",
          action |-> "none", setup |-> "none", health |-> FALSE, seen |-> FALSE, other |-> "pass",
          status |-> "none"]

SetupInit ==
    /\ host \in [backend : Backends, venv : BOOLEAN, module : {FALSE}, files : [Models -> {"none"}], live : {{}}]
    /\ probed = "none" /\ run = NoRun /\ acts = {}
    /\ pub = [p \in Publishers |-> [pc |-> "idle", staged |-> {}]] /\ plugin = NoPlugin
    /\ startups = 0 /\ hostchanges = 0

-----------------------------------------------------------------------------
(* What the configuration asks for *)

\* build_runtime_plan: the install commands of a backend, in order.
InstallCommands ==
    CASE host.backend = "mlx" -> <<"venv", "pip">>
      [] host.backend = "llama_cpp" -> <<"venv", "pip", "manual">>
      [] OTHER -> <<"manual">>

\* build_model_download_requests: one request for each model of the backend.
DownloadKind ==
    CASE host.backend = "mlx" -> "huggingface" [] host.backend = "llama_cpp" -> "local_file" [] OTHER -> "ollama_pull"

\* Only a server command of the form "python -m module" has a module to probe.
NeedsModule == host.backend = "mlx"

\* _inspect_request, _inspect_huggingface_snapshot: any file in the cache counts.
ModelReady(m) ==
    CASE DownloadKind = "ollama_pull" -> FALSE
      [] DownloadKind = "local_file" -> host.files[m] = "whole"
      [] OTHER -> host.files[m] \in {"part", "whole"}

\* _probe_python_module behind functools.lru_cache: asked once per process.
Probe == IF probed # "none" THEN probed ELSE IF host.module THEN "available" ELSE "missing"

\* _inspect_runtime_dependencies: no interpreter, no probe and nothing cached.
RuntimeReady == ~NeedsModule \/ (host.venv /\ Probe = "available")

\* Mutant of ProbedAfter: a missing interpreter is probed, and the failure kept.
ProbedWithout == IF NeedsModule THEN Probe ELSE probed

ProbedAfter == IF NeedsModule /\ host.venv THEN Probe ELSE probed

\* inspect_setup_status
InspectSetup ==
    IF (\A m \in Models : ModelReady(m)) /\ RuntimeReady THEN "ready" ELSE "needs_setup"

Shared == UNCHANGED <<pub, plugin, startups, hostchanges>>

-----------------------------------------------------------------------------
(* run_startup_readiness *)

\* The configuration is read and the host inspected; a request with effects and
\* without confirmation goes straight to the report.
Begin(prepare, download, start, confirm) ==
    /\ run.pc = "idle" /\ startups < MaxStartups /\ startups' = startups + 1
    /\ LET effects == prepare \/ download \/ start
           r == [NoRun EXCEPT !.prepare = prepare, !.download = download, !.start = start,
                   !.confirm = confirm, !.before = InspectSetup, !.after = InspectSetup] IN
         run' = IF effects /\ ~confirm
                  THEN [r EXCEPT !.pc = "doctor", !.steps = {"confirmation_required"}]
                  ELSE [r EXCEPT !.pc = IF prepare THEN "install" ELSE IF download THEN "download"
                                        ELSE "start",
                          !.todo = IF prepare THEN InstallCommands ELSE <<>>]
    /\ probed' = ProbedAfter
    /\ UNCHANGED <<host, acts, pub, plugin, hostchanges>>

\* _run_install_commands: a manual step is only reported, an existing venv is
\* kept, and the first command that fails ends the phase.
InstallCommand(works) ==
    /\ run.pc = "install" /\ run.todo # <<>>
    /\ LET c == Head(run.todo)
           runs == c # "manual" /\ ~(c = "venv" /\ host.venv)
           note == IF c = "manual" THEN "manual_required" ELSE IF ~runs THEN "skipped"
                   ELSE IF works THEN "ok" ELSE "error" IN
         /\ run' = [run EXCEPT !.steps = @ \cup {note},
                      !.todo = IF note = "error" THEN <<>> ELSE Tail(@)]
         /\ host' = IF ~runs \/ ~works THEN host
                    ELSE IF c = "venv" THEN [host EXCEPT !.venv = TRUE]
                    ELSE [host EXCEPT !.module = TRUE]
         /\ acts' = IF runs THEN acts \cup {<<c, run.confirm>>} ELSE acts
    /\ UNCHANGED probed /\ Shared

\* _has_blocking_failure: nothing is downloaded after a failed installation.
Installed ==
    /\ run.pc = "install" /\ run.todo = <<>>
    /\ run' = [run EXCEPT !.pc = IF run.download /\ "error" \notin run.steps THEN "download" ELSE "after"]
    /\ UNCHANGED <<host, probed, acts>> /\ Shared

\* _run_model_downloads: a local file is looked up, the others are fetched; what
\* a failed download left in the cache stays there.
Download(m, works) ==
    /\ run.pc = "download" /\ "error" \notin run.steps
    /\ m \notin run.fetched
    /\ LET fetch == DownloadKind # "local_file"
           good == IF fetch THEN works ELSE host.files[m] = "whole" IN
         /\ run' = IF good THEN [run EXCEPT !.fetched = @ \cup {m}]
                   ELSE [run EXCEPT !.steps = @ \cup {"error"}]
         /\ host' = IF ~fetch THEN host
                    ELSE IF good THEN [host EXCEPT !.files[m] = "whole"]
                    ELSE [host EXCEPT !.files[m] = IF @ = "whole" THEN @ ELSE "part"]
         /\ acts' = IF fetch THEN acts \cup {<<"download", run.confirm>>} ELSE acts
    /\ UNCHANGED probed /\ Shared

Downloaded ==
    /\ run.pc = "download"
    /\ "error" \in run.steps \/ run.fetched = Models
    /\ run' = [run EXCEPT !.pc = "after"]
    /\ UNCHANGED <<host, probed, acts>> /\ Shared

\* run_runtime_setup inspects again when it is done.
InspectAfter ==
    /\ run.pc = "after"
    /\ run' = [run EXCEPT !.pc = "start", !.after = InspectSetup]
    /\ probed' = ProbedAfter
    /\ UNCHANGED <<host, acts>> /\ Shared

\* Model servers are started only when the set-up is ready; a server that is
\* started may come up or not while the endpoints are polled.
StartModels ==
    /\ run.pc = "start"
    /\ IF run.start /\ run.after = "ready"
         THEN /\ run' = [run EXCEPT !.pc = "wait", !.action = "started"]
              /\ acts' = acts \cup {<<"server", run.confirm>>}
         ELSE /\ run' = [run EXCEPT !.pc = "doctor", !.action = IF run.start THEN "skipped" ELSE "none"]
              /\ UNCHANGED acts
    /\ UNCHANGED <<host, probed>> /\ Shared

\* _wait_for_reachable_model_endpoints: all are reachable, or the time is over.
WaitEndpoints ==
    /\ run.pc = "wait"
    /\ \E late \in BOOLEAN : late \/ host.live = Models
    /\ run' = [run EXCEPT !.pc = "doctor"]
    /\ UNCHANGED <<host, probed, acts>> /\ Shared

\* build_doctor_report: the set-up is inspected first ...
DoctorSetup ==
    /\ run.pc = "doctor"
    /\ run' = [run EXCEPT !.pc = "health", !.setup = InspectSetup]
    /\ probed' = ProbedAfter
    /\ UNCHANGED <<host, acts>> /\ Shared

\* ... then every endpoint is asked for its health ...
CheckHealth ==
    /\ run.pc = "health"
    /\ run' = [run EXCEPT !.pc = "processes", !.health = (host.live = Models)]
    /\ UNCHANGED <<host, probed, acts>> /\ Shared

\* ... and the process manager for what it can reach; extensions, hardware,
\* storage and cron are checked as well.
CheckProcesses ==
    /\ run.pc = "processes"
    /\ \E other \in {"pass", "warn", "fail"} :
         run' = [run EXCEPT !.pc = "report", !.seen = (host.live = Models), !.other = other]
    /\ UNCHANGED <<host, probed, acts>> /\ Shared

\* _overall_status of the doctor: a required failure blocks, a warning attends.
DoctorStatus ==
    IF run.setup # "ready" \/ ~run.health \/ run.other = "fail" THEN "blocked"
    ELSE IF ~run.seen \/ run.other = "warn" THEN "attention" ELSE "ready"

\* _overall_status of the set-up run.
SetupRunStatus ==
    IF "error" \in run.steps THEN "error"
    ELSE IF "manual_required" \in run.steps THEN "manual_required"
    ELSE run.after

\* _overall_startup_status
StartupStatus ==
    IF "confirmation_required" \in run.steps THEN "confirmation_required"
    ELSE IF (run.prepare \/ run.download) /\ SetupRunStatus # "ready" THEN SetupRunStatus
    ELSE IF run.action = "skipped" THEN "skipped"
    ELSE IF ~(run.prepare \/ run.download \/ run.start) THEN "planned"
    ELSE IF DoctorStatus = "ready" THEN "ready" ELSE "needs_attention"

Report ==
    /\ run.pc = "report"
    /\ run' = [run EXCEPT !.pc = "reported", !.status = StartupStatus]
    /\ UNCHANGED <<host, probed, acts>> /\ Shared

NextRequest ==
    /\ run.pc = "reported" /\ run' = NoRun
    /\ UNCHANGED <<host, probed, acts>> /\ Shared

-----------------------------------------------------------------------------
(* create_plugin_scaffold *)

Here == UNCHANGED <<host, probed, run, acts, startups, hostchanges>>

\* The name must be free, and a private staging directory is made.
StagePlugin(p) ==
    /\ pub[p].pc = "idle"
    /\ pub' = [pub EXCEPT ![p].pc = IF plugin = NoPlugin THEN "writing" ELSE "exists"]
    /\ UNCHANGED plugin /\ Here

\* Manifest, then skill, each written to the staging directory; a write may fail.
WriteStaged(p) ==
    /\ pub[p].pc = "writing" /\ pub[p].staged # {"manifest", "skill"}
    /\ LET f == IF pub[p].staged = {} THEN "manifest" ELSE "skill" IN
         \/ pub' = [pub EXCEPT ![p].staged = @ \cup {f}]
         \/ pub' = [pub EXCEPT ![p].pc = "cleanup"]
    /\ UNCHANGED plugin /\ Here

\* One rename: it fails when the name holds another publisher's files.
PublishPlugin(p) ==
    /\ pub[p].pc = "writing" /\ pub[p].staged = {"manifest", "skill"}
    /\ IF plugin.files = {}
         THEN /\ plugin' = [by |-> p, files |-> pub[p].staged]
              /\ pub' = [pub EXCEPT ![p].pc = "published"]
         ELSE pub' = [pub EXCEPT ![p].pc = "cleanup"] /\ UNCHANGED plugin
    /\ Here

\* _remove_staging_directory
CleanStaging(p) ==
    /\ pub[p].pc = "cleanup"
    /\ pub' = [pub EXCEPT ![p] = [pc |-> "exists", staged |-> {}]]
    /\ UNCHANGED plugin /\ Here

-----------------------------------------------------------------------------
(* The world *)

\* Servers come up and go down; files and modules are added and removed.
HostChanges ==
    /\ hostchanges < MaxHostChanges /\ hostchanges' = hostchanges + 1
    /\ \/ \E m \in Models : host' = [host EXCEPT !.live = IF m \in @ THEN @ \ {m} ELSE @ \cup {m}]
       \/ \E m \in Models, f \in {"none", "whole"} : host' = [host EXCEPT !.files[m] = f]
       \/ host' = [host EXCEPT !.module = ~@]
    /\ UNCHANGED <<probed, run, acts, pub, plugin, startups>>

SetupNext ==
    \/ \E prepare, download, start, confirm \in BOOLEAN : Begin(prepare, download, start, confirm)
    \/ \E works \in BOOLEAN : InstallCommand(works) \/ \E m \in Models : Download(m, works)
    \/ Installed \/ Downloaded \/ InspectAfter \/ StartModels \/ WaitEndpoints
    \/ DoctorSetup \/ CheckHealth \/ CheckProcesses \/ Report \/ NextRequest
    \/ \E p \in Publishers : StagePlugin(p) \/ WriteStaged(p) \/ PublishPlugin(p) \/ CleanStaging(p)
    \/ HostChanges

SetupSpec == SetupInit /\ [][SetupNext]_setupVars

-----------------------------------------------------------------------------
(* Properties *)

\* The host as it is, without the cache.
HostReady == (\A m \in Models : ModelReady(m)) /\ (NeedsModule => host.venv /\ host.module)

Inspected == run.pc \in {"start", "wait", "doctor", "health", "processes", "report", "reported"}

\* While nobody else changes the host, no inspection finds it ready when it is
\* not; and in a process that began without an interpreter, the inspections
\* after the first installation, the doctor's included, find what it put there:
\* the probe's answer is kept for the life of the process, but none is kept
\* while there is no interpreter to ask.
FirstInstallSeen ==
    hostchanges = 0 =>
      /\ run.after = "ready" \/ run.setup = "ready" => HostReady
      /\ startups = 1 /\ <<"venv", TRUE>> \in acts /\ Inspected /\ HostReady =>
            run.after = "ready" /\ run.setup \in {"none", "ready"}

\* A plugin appears whole, as one publisher's work, and a publisher that was told
\* it published is the one whose files are there.
PublishedWhole ==
    /\ plugin.by # 0 => plugin.files = {"manifest", "skill"}
    /\ \A p \in Publishers : pub[p].pc = "published" => plugin.by = p

=============================================================================
