-------------------------- MODULE BackgroundServices --------------------------
(* What the web server runs beside its requests: the cron runner               *)
(* (scheduler.py) and the model server manager (model_servers.py), from        *)
(* start-up to the shutdown in web.py main().  Requests are threads; neither   *)
(* the cron state file nor the manager's table of processes has a lock.        *)
EXTENDS Integers, Sequences, FiniteSets, TLC

CONSTANTS
    Jobs,       \* configured cron jobs, in order: id, kind, write
    Confirm,    \* runtime.cron_confirm_writes
    Specs,      \* configured model servers, in order
    Local,      \* those the manager may start itself
    Runners,    \* who runs due jobs: the loop of the web process, a manual run
    Starters,   \* requests that start or stop model servers
    MaxClock, MaxProcs

VARIABLES clock, cronfile, runner, okruns, procs, tracked, starter, raced, host

cronVars == <<clock, cronfile, runner, okruns>>
serverVars == <<procs, tracked, starter, raced>>
backVars == <<cronVars, serverVars, host>>

Torn == <<>>                  \* truncated and not yet written
Up == host = "up"

-----------------------------------------------------------------------------
(* Cron *)

Tick == clock < MaxClock /\ clock' = clock + 1 /\ UNCHANGED <<cronfile, runner, okruns, serverVars, host>>

\* A start-up job is due until it has a record, an interval job (of one tick)
\* when its record is old.
Due(jobs, state) ==
    SelectSeq(jobs, LAMBDA j :
        IF j.kind = "startup" THEN j.id \notin DOMAIN state
        ELSE j.id \notin DOMAIN state \/ clock - state[j.id] >= 1)

\* The runner of the web process considers only what needs no confirmation.
AutoRunnable == SelectSeq(Jobs, LAMBDA j : Confirm \/ ~j.write)

\* The state file is read; a torn one raises: the loop notes the error and polls
\* again, a request fails.
CronLoad(x) ==
    /\ Up /\ runner[x].pc = "wait"
    /\ cronfile # Torn
    /\ \E confirm \in (IF x = "loop" THEN {Confirm} ELSE BOOLEAN) :
          runner' = [runner EXCEPT ![x] = [pc |-> "jobs", confirm |-> confirm, now |-> clock,
                        state |-> cronfile[1],
                        todo |-> Due(IF x = "loop" THEN AutoRunnable ELSE Jobs, cronfile[1])]]
    /\ UNCHANGED <<clock, cronfile, okruns, serverVars, host>>

\* Mutant of RunJob: a job is recorded when it is started.
RunJobRecorded(x) ==
    /\ host # "down" /\ runner[x].pc = "jobs" /\ runner[x].todo # <<>>
    /\ LET j == Head(runner[x].todo)
           skip == j.write /\ ~runner[x].confirm
           rest == [runner[x] EXCEPT !.todo = Tail(@)]
           done == [rest EXCEPT !.state = (j.id :> runner[x].now) @@ @]
       IN  \/ /\ runner' = [runner EXCEPT ![x] = IF skip THEN rest ELSE done]
              /\ UNCHANGED okruns
           \/ /\ ~skip
              /\ runner' = [runner EXCEPT ![x] = done]
              /\ okruns' = okruns \cup {<<j.id, runner[x].now>>}
    /\ UNCHANGED <<clock, cronfile, serverVars, host>>

\* A job that writes and is not confirmed is passed over.  One that succeeds is
\* recorded, one that reports an error is not, and one that raises ends the run:
\* the records of the jobs before it are never saved.
RunJob(x) ==
    /\ host # "down" /\ runner[x].pc = "jobs" /\ runner[x].todo # <<>>
    /\ LET j == Head(runner[x].todo)
           skip == j.write /\ ~runner[x].confirm
           rest == [runner[x] EXCEPT !.todo = Tail(@)]
       IN  \/ /\ runner' = [runner EXCEPT ![x] = rest]
              /\ UNCHANGED okruns
           \/ /\ ~skip
              /\ runner' = [runner EXCEPT ![x] = [rest EXCEPT !.state = (j.id :> runner[x].now) @@ @]]
              /\ okruns' = okruns \cup {<<j.id, runner[x].now>>}
           \/ /\ ~skip
              /\ runner' = [runner EXCEPT ![x].pc = "wait"]
              /\ UNCHANGED okruns
    /\ UNCHANGED <<clock, cronfile, serverVars, host>>

\* A dry run saves nothing; a real one truncates the file and then writes it.
CronSave(x) ==
    /\ host # "down" /\ runner[x].pc = "jobs" /\ runner[x].todo = <<>>
    /\ \/ /\ cronfile' = Torn /\ runner' = [runner EXCEPT ![x].pc = "save"]
       \/ /\ x = "manual" /\ runner' = [runner EXCEPT ![x].pc = "wait"] /\ UNCHANGED cronfile
    /\ UNCHANGED <<clock, okruns, serverVars, host>>

CronWrite(x) ==
    /\ host # "down" /\ runner[x].pc = "save"
    /\ cronfile' = <<runner[x].state>>
    /\ runner' = [runner EXCEPT ![x].pc = "wait"]
    /\ UNCHANGED <<clock, okruns, serverVars, host>>

-----------------------------------------------------------------------------
(* Model servers *)

Alive(p) == procs[p].pc # "dead"
TrackedAlive(e) == e \in DOMAIN tracked /\ Alive(tracked[e])
Reachable(e) == \E p \in DOMAIN procs : procs[p].expert = e /\ procs[p].pc = "ready"
Busy(s) == starter[s].pc # "idle"

\* A confirmed request works through the configured servers in order.
BeginStart(s) ==
    /\ Up /\ ~Busy(s)
    /\ starter' = [starter EXCEPT ![s] = [pc |-> "check", i |-> 1, p |-> 0]]
    /\ raced' = (raced \/ \E t \in Starters : Busy(t))
    /\ UNCHANGED <<cronVars, procs, tracked, host>>

BeginStop(s) ==
    /\ Up /\ ~Busy(s)
    /\ starter' = [starter EXCEPT ![s] = [pc |-> "stop", i |-> 1, p |-> 0]]
    /\ raced' = (raced \/ \E t \in Starters : Busy(t))
    /\ UNCHANGED <<cronVars, procs, tracked, host>>

NextSpec(s) ==
    [starter EXCEPT ![s] = IF @.i = Len(Specs) THEN [@ EXCEPT !.pc = "idle"]
                           ELSE [@ EXCEPT !.pc = IF @ = "stop" THEN "stop" ELSE "check", !.i = @ + 1]]

\* Outside the execution policy, managed and running already, answering, or not
\* the manager's to start: nothing is launched.
StartCheck(s) ==
    /\ host # "down" /\ starter[s].pc = "check"
    /\ LET e == Specs[starter[s].i] IN
       \/ starter' = NextSpec(s)
       \/ /\ ~TrackedAlive(e) /\ ~Reachable(e) /\ e \in Local
          /\ starter' = [starter EXCEPT ![s].pc = "launch"]
    /\ UNCHANGED <<cronVars, procs, tracked, raced, host>>

\* The policy is asked again; the process is created and then entered.
Launch(s) ==
    /\ host # "down" /\ starter[s].pc = "launch"
    /\ \/ starter' = NextSpec(s) /\ UNCHANGED procs
       \/ \E p \in (1..MaxProcs) \ DOMAIN procs :
             /\ procs' = (p :> [expert |-> Specs[starter[s].i], pc |-> "loading"]) @@ procs
             /\ starter' = [starter EXCEPT ![s] = [@ EXCEPT !.pc = "track", !.p = p]]
    /\ UNCHANGED <<cronVars, tracked, raced, host>>

Track(s) ==
    /\ host # "down" /\ starter[s].pc = "track"
    /\ tracked' = (Specs[starter[s].i] :> starter[s].p) @@ tracked
    /\ starter' = NextSpec(s)
    /\ UNCHANGED <<cronVars, procs, raced, host>>

\* Terminated and, if that takes too long, killed.
Terminated(e) ==
    IF TrackedAlive(e) THEN [procs EXCEPT ![tracked[e]].pc = "dead"] ELSE procs

StopSpec(s) ==
    /\ host # "down" /\ starter[s].pc = "stop"
    /\ procs' = Terminated(Specs[starter[s].i])
    /\ starter' = NextSpec(s)
    /\ UNCHANGED <<cronVars, tracked, raced, host>>

ServerReady(p) ==
    /\ p \in DOMAIN procs /\ procs[p].pc = "loading"
    /\ procs' = [procs EXCEPT ![p].pc = "ready"]
    /\ UNCHANGED <<cronVars, tracked, starter, raced, host>>

ServerExits(p) ==
    /\ p \in DOMAIN procs /\ Alive(p)
    /\ procs' = [procs EXCEPT ![p].pc = "dead"]
    /\ UNCHANGED <<cronVars, tracked, starter, raced, host>>

-----------------------------------------------------------------------------
(* Shutdown *)

\* The cron thread is joined for five seconds at most, the requests not at all.
Interrupt ==
    /\ Up
    /\ host' = "closing"
    /\ raced' = (raced \/ \E s \in Starters : Busy(s))
    /\ UNCHANGED <<cronVars, procs, tracked, starter>>

\* close() terminates what the table holds; a table that grows meanwhile stops
\* it.  With the process go its threads, wherever they are.
Close ==
    /\ host = "closing"
    /\ \/ procs' = [p \in DOMAIN procs |->
                       IF \E e \in DOMAIN tracked : tracked[e] = p THEN [procs[p] EXCEPT !.pc = "dead"] ELSE procs[p]]
       \/ (\E s \in Starters : starter[s].pc \in {"launch", "track"}) /\ UNCHANGED procs
    /\ host' = "down"
    /\ starter' = [s \in Starters |-> [pc |-> "idle", i |-> 1, p |-> 0]]
    /\ runner' = [x \in Runners |-> [runner[x] EXCEPT !.pc = "gone"]]
    /\ UNCHANGED <<clock, cronfile, okruns, tracked, raced>>

-----------------------------------------------------------------------------
BackInit ==
    /\ clock = 1 /\ okruns = {}
    /\ cronfile = << <<>> >>
    /\ runner = [x \in Runners |-> [pc |-> "wait", confirm |-> FALSE, now |-> 1, state |-> <<>>, todo |-> <<>>]]
    /\ procs = <<>> /\ tracked = <<>>
    /\ starter = [s \in Starters |-> [pc |-> "idle", i |-> 1, p |-> 0]]
    /\ raced = FALSE /\ host = "up"

BackNext ==
    \/ Tick
    \/ \E x \in Runners : CronLoad(x) \/ RunJob(x) \/ CronSave(x) \/ CronWrite(x)
    \/ \E s \in Starters : BeginStart(s) \/ BeginStop(s) \/ StartCheck(s) \/ Launch(s) \/ Track(s) \/ StopSpec(s)
    \/ \E p \in 1..MaxProcs : ServerReady(p) \/ ServerExits(p)
    \/ Interrupt \/ Close

BackSpec == BackInit /\ [][BackNext]_backVars

-----------------------------------------------------------------------------
(* Properties *)

\* A time in the cron state file is the time of a run of that job that ended
\* well: runs that fail, overlap, or are cut off by the shutdown never make a
\* job look done.
RecordedRunsHappened ==
    cronfile # Torn => \A j \in DOMAIN cronfile[1] : <<j, cronfile[1][j]>> \in okruns

\* While requests come one at a time, every server the manager launched and that
\* still runs is in its table, one per expert, and none outlives the shutdown
\* ("tracks processes started by the web server", agent-runtime.md).
NoStrayServer ==
    ~raced =>
       \A p \in DOMAIN procs : Alive(p) =>
          /\ host # "down"
          /\ \/ \E e \in DOMAIN tracked : tracked[e] = p
             \/ \E s \in Starters : starter[s].pc = "track" /\ starter[s].p = p
=============================================================================
