-------------------------- MODULE BridgeRunProofs --------------------------
(***************************************************************************)
(* Proofs about the bridge's orchestration of one task, for any number of  *)
(* invocations, any tasks and worlds and any drift between their steps.    *)
(* BridgeInv says, for each phase of an invocation, how its ticket, the    *)
(* execution it prepared, what it launched and what it found are related.  *)
(***************************************************************************)
EXTENDS BridgeRun, SequenceTheorems, TLAPS

Remote == {"local_then_verify", "premium"}

\* A prepared execution goes remote only where the task may, and never beyond the guards.
PlanSound(p) ==
    /\ p.route \in Routes \cup {"blocked"}
    /\ p.route \in Remote => RemoteAllowed(task)
    /\ p.guard # "blocked" => Rank[p.route] <= Rank[p.guard]

\* The confirmation is spent.
Confirmed(rec) == rec.pc \notin {"idle", "prepared", "raised"}

\* The local tier was tried and found wanting where the route says so.
Wanting(rec) ==
    /\ rec.p.route \in Remote
    /\ rec.p.route = "local_then_verify" =>
         "local" \in rec.launched /\ (rec.evidence # {} \/ task.prior = "failed")
    /\ "workspace_mutation_forbidden" \notin rec.evidence

Fields == {"pc", "p", "ticket", "cand", "seen", "evidence", "last", "launched", "capsule",
           "staged", "paid", "status", "code", "handed"}

RecSound(r, rec) ==
    /\ DOMAIN rec = Fields
    /\ rec.pc # "idle" => rec.ticket \in 1..Len(tickets) /\ PlanSound(rec.p)
    /\ Confirmed(rec) => tickets[rec.ticket].by = r /\ tickets[rec.ticket].binding = rec.p
    /\ rec.pc = "prepared" => rec.evidence = {}
    /\ rec.pc = "local" => rec.p.route \in {"local", "local_then_verify"}
    /\ rec.pc = "verify" /\ ~AtPremium(rec) =>
         /\ rec.p.route \in {"local", "local_then_verify"}
         /\ rec.last = "blocked" \/ "local" \in rec.launched
    /\ rec.pc \in {"escalate", "stage", "reserve"} => Wanting(rec)
    /\ rec.pc = "reserve" => rec.staged = rec.p.auth /\ rec.staged # Nil
    /\ rec.pc = "premium" => "premium" \in rec.launched
    /\ rec.pc = "generated" /\ rec.p.intent = "candidate" /\ rec.status = "completed" =>
         ~ScopeInvalid(rec.evidence)

\* The tickets are a list of records; a canary recommends a route.
TicketsOK ==
    /\ \E S : tickets \in Seq(S)
    /\ \A i \in 1..Len(tickets) : DOMAIN tickets[i] = {"binding", "by"}

WorldSound ==
    /\ DOMAIN world = {"source", "auth", "tools", "writable", "sandbox", "canary"}
    /\ DOMAIN world.canary = {"enabled", "active", "cell", "cohort", "recommended"}
    /\ world.canary.recommended \in Routes

BridgeInv ==
    /\ TicketsOK /\ WorldSound
    /\ applied = {}
    /\ run = [r \in Runs |-> run[r]]
    /\ \A r \in Runs : RecSound(r, run[r])

-----------------------------------------------------------------------------
\* Routes: the guards give a route, and only a task that may go remote gets a remote one.
LEMMA Planned ==
    ASSUME NEW t
    PROVE  /\ PlanAssistantRoute(t) \in Routes \cup {"blocked"}
           /\ PlanAssistantRoute(t) \in Remote => RemoteAllowed(t)
BY DEF PlanAssistantRoute, PremiumAvailable, Routes, Remote

LEMMA Guarded ==
    ASSUME NEW t, NEW intent, NEW w
    PROVE  /\ GuardedRoute(t, intent, w) \in Routes \cup {"blocked"}
           /\ GuardedRoute(t, intent, w) \in Remote => RemoteAllowed(t)
BY Planned DEF GuardedRoute, Routes, Remote

LEMMA Ranked ==
    /\ Rank["local"] = 0 /\ Rank["local_then_verify"] = 1 /\ Rank["premium"] = 2
    /\ \A x \in Routes : Rank[x] \in 0..2
BY DEF Rank, Routes

\* What the signed canary makes of a route costs no more than the route.
LEMMA Canaried ==
    ASSUME NEW route \in Routes \cup {"blocked"}, NEW c, c.recommended \in Routes,
           NEW new, new = ApplyVerifiedRouteCanary(route, c)
    PROVE  /\ new \in Routes \cup {"blocked"}
           /\ route = "blocked" => new = "blocked"
           /\ route # "blocked" => new \in Routes /\ Rank[new] <= Rank[route]
           /\ new \in Remote => route \in Remote
<1>1. new = route \/ (route # "blocked" /\ new = c.recommended /\ Rank[new] < Rank[route])
  BY DEF ApplyVerifiedRouteCanary, DecideRouteCanary
<1>2. CASE new = route
  BY <1>2, Ranked DEF Routes
<1>3. CASE route # "blocked" /\ new = c.recommended /\ Rank[new] < Rank[route]
  BY <1>3, Ranked DEF Routes, Remote
<1>4. QED
  BY <1>1, <1>2, <1>3

\* Whatever intent and arm, what is prepared is sound.
LEMMA Prepares ==
    ASSUME WorldSound, NEW intent, NEW arm, intent = "paired" => arm \in Routes,
           NEW p \in PrepareExecution(task, intent, arm, world)
    PROVE  PlanSound(p) /\ p.intent = intent
<1> DEFINE guard == GuardedRoute(task, intent, world)
<1>1. PICK route \in EffectiveRoute(task, intent, arm, world) :
        p.route = route /\ p.guard = guard /\ p.intent = intent
  BY DEF PrepareExecution
<1>2. guard \in Routes \cup {"blocked"} /\ (guard \in Remote => RemoteAllowed(task))
  BY Guarded
<1>3. world.canary.recommended \in Routes
  BY DEF WorldSound
<1> HIDE DEF guard
<1>4. CASE intent = "paired"
  <2>1. /\ route = arm /\ guard \in Routes /\ Rank[arm] <= Rank[guard]
        /\ arm # "local" => PremiumAvailable(task)
    BY <1>1, <1>4 DEF EffectiveRoute, PairedEvidenceRoute, guard
  <2>2. QED
    BY <1>1, <1>4, <2>1 DEF PlanSound, PremiumAvailable, Remote, Routes
<1>5. CASE intent # "paired"
  <2>1. route = ApplyVerifiedRouteCanary(guard, world.canary)
    BY <1>1, <1>5 DEF EffectiveRoute, guard
  <2>2. QED
    BY <1>1, <1>2, <1>3, <2>1, Canaried DEF PlanSound, Remote
<1>6. QED
  BY <1>1, <1>4, <1>5

-----------------------------------------------------------------------------
(* One step of one invocation, the others standing still *)

\* What a step that leaves an invocation with the record new may launch or hand over.
Allowed(r, new) ==
    /\ "premium" \in new.launched \ run[r].launched =>
         /\ RemoteAllowed(task)
         /\ new.p.route \in {"local_then_verify", "premium"}
         /\ new.paid
         /\ tickets[new.ticket].by = r
         /\ new.staged = tickets[new.ticket].binding.auth
         /\ new.p.route = "local_then_verify" =>
              "local" \in new.launched /\ (new.evidence # {} \/ task.prior = "failed")
         /\ "workspace_mutation_forbidden" \notin new.evidence
    /\ run[r].pc = "handed" /\ new.pc = "done" =>
         world.source = tickets[run[r].ticket].binding.source /\ new.cand = run[r].handed
    /\ run[r].pc = "generated" /\ new.pc = "handed" =>
         /\ new.handed = run[r].cand /\ new.cand = run[r].cand
         /\ run[r].p.intent = "candidate" =>
              /\ world.source = tickets[run[r].ticket].binding.source
              /\ run[r].status = "completed" /\ ~ScopeInvalid(run[r].evidence)

Bound == PremiumUnderAuthority /\ DeliveredOnPlannedSource

LEMMA Moved ==
    ASSUME BridgeInv, NEW r \in Runs, NEW new, RecSound(r, new), Allowed(r, new),
           run' = [run EXCEPT ![r] = new], UNCHANGED <<task, world, tickets, applied>>
    PROVE  BridgeInv' /\ Bound
<1>1. run'[r] = new /\ \A q \in Runs \ {r} : run'[q] = run[q]
  BY DEF BridgeInv
<1>2. run' = [q \in Runs |-> run'[q]]
  BY DEF BridgeInv
<1>3. TicketsOK' /\ WorldSound' /\ applied' = {}
  BY DEF BridgeInv, TicketsOK, WorldSound
<1>4. ASSUME NEW q \in Runs PROVE RecSound(q, run[q])'
  <2>1. RecSound(q, run'[q])
    BY <1>1 DEF BridgeInv
  <2>2. QED
    BY <2>1 DEF RecSound, PlanSound, Confirmed, Wanting, AtPremium
<1>5. PremiumUnderAuthority
  BY <1>1 DEF PremiumUnderAuthority, Allowed
<1>6. DeliveredOnPlannedSource
  BY <1>1 DEF DeliveredOnPlannedSource, Allowed
<1>7. QED
  BY <1>2, <1>3, <1>4, <1>5, <1>6 DEF BridgeInv, Bound

\* A step that moves no phase of an invocation launches and hands over nothing.
LEMMA Still ==
    ASSUME BridgeInv, UNCHANGED run
    PROVE  Bound
BY DEF Bound, PremiumUnderAuthority, DeliveredOnPlannedSource

\* An invocation that raises keeps its plan.
LEMMA Raised ==
    ASSUME NEW r, NEW rec, RecSound(r, rec), rec.pc # "idle"
    PROVE  RecSound(r, Raise(rec)) /\ Raise(rec).launched = rec.launched /\ Raise(rec).pc = "raised"
<1> DEFINE new == Raise(rec)
<1>1. /\ DOMAIN new = Fields /\ new.pc = "raised" /\ new.ticket = rec.ticket /\ new.p = rec.p
      /\ new.launched = rec.launched
  BY DEF Raise, RecSound, Fields
<1> HIDE DEF new
<1>2. RecSound(r, new)
  BY <1>1 DEF RecSound, Confirmed
<1>3. QED
  BY <1>1, <1>2 DEF new

\* A result keeps its confirmation; a completed candidate stayed within its scope.
LEMMA Resulted ==
    ASSUME NEW r, NEW rec, NEW status, NEW code, RecSound(r, rec), Confirmed(rec),
           rec.p.intent = "candidate" /\ status = "completed" => ~ScopeInvalid(rec.evidence),
           NEW new, new = Result(rec, status, code)
    PROVE  /\ RecSound(r, new) /\ new.launched = rec.launched /\ new.status = status
           /\ new.pc = IF rec.p.intent = "direct" THEN "done" ELSE "generated"
<1>1. /\ DOMAIN new = Fields /\ new.pc \in {"done", "generated"} /\ new.ticket = rec.ticket
      /\ new.pc = IF rec.p.intent = "direct" THEN "done" ELSE "generated"
      /\ new.p = rec.p /\ new.launched = rec.launched /\ new.status = status
      /\ new.evidence = rec.evidence
  BY DEF Result, RecSound, Fields
<1>2. RecSound(r, new)
  BY <1>1 DEF RecSound, Confirmed
<1>3. QED
  BY <1>1, <1>2

-----------------------------------------------------------------------------
(* The actions *)

LEMMA PrepareKeeps ==
    ASSUME BridgeInv, NEW r \in Runs, NEW intent, NEW arm, intent = "paired" => arm \in Routes,
           NEW t, Prepare(r, intent, arm, t)
    PROVE  BridgeInv' /\ Bound
<1>1. PICK p \in PrepareExecution(task, intent, arm, world) :
        run' = [run EXCEPT ![r] = [Idle EXCEPT !.pc = "prepared", !.p = p, !.ticket = t]]
  BY DEF Prepare
<1>2. ASSUME NEW new, new = [Idle EXCEPT !.pc = "prepared", !.p = p, !.ticket = t]
      PROVE  RecSound(r, new) /\ Allowed(r, new)
  <2>1. /\ DOMAIN new = Fields /\ new.pc = "prepared" /\ new.p = p /\ new.ticket = t
        /\ new.evidence = {} /\ new.launched = {}
    BY <1>2 DEF Idle, Fields
  <2>2. PlanSound(p) /\ t \in 1..Len(tickets)
    BY Prepares DEF Prepare, BridgeInv
  <2>3. QED
    BY <2>1, <2>2 DEF RecSound, Allowed, Confirmed
<1>3. UNCHANGED <<task, world, tickets, applied>>
  BY DEF Prepare, Same
<1>4. QED
  BY <1>1, <1>2, <1>3, Moved

LEMMA ConsumeKeeps ==
    ASSUME BridgeInv, NEW r \in Runs, ConsumeConfirmation(r)
    PROVE  BridgeInv' /\ Bound
<1> DEFINE rec == run[r]
           i == rec.ticket
<1>1. /\ RecSound(r, rec) /\ rec.pc = "prepared" /\ i \in 1..Len(tickets) /\ PlanSound(rec.p)
      /\ DOMAIN rec = Fields /\ rec.evidence = {} /\ UNCHANGED <<task, world, applied>>
  BY DEF ConsumeConfirmation, BridgeInv, RecSound, Same
<1>2. CASE ~TicketFits(rec)
  <2>1. run' = [run EXCEPT ![r] = Raise(rec)] /\ UNCHANGED tickets
    BY <1>2 DEF ConsumeConfirmation
  <2>2. RecSound(r, Raise(rec)) /\ Allowed(r, Raise(rec))
    BY <1>1, Raised DEF Allowed
  <2>3. QED
    BY <1>1, <2>1, <2>2, Moved
<1>3. CASE TicketFits(rec)
  <2>1. PICK new :
          /\ run' = [run EXCEPT ![r] = new]
          /\ new = CASE rec.p.route = "blocked" -> Result(rec, "blocked", "route_blocked")
                     [] rec.p.route = "premium" -> [rec EXCEPT !.pc = "escalate"]
                     [] OTHER                   -> [rec EXCEPT !.pc = "local"]
    BY <1>3 DEF ConsumeConfirmation
  <2>2. tickets' = [tickets EXCEPT ![i].by = r]
    BY <1>3 DEF ConsumeConfirmation
  <2>3. tickets[i].by = Nil /\ tickets[i].binding = rec.p
    BY <1>3 DEF TicketFits, ConfirmationBinding
  <2>4. /\ TicketsOK' /\ Len(tickets') = Len(tickets)
        /\ \A j \in 1..Len(tickets) :
             /\ tickets'[j].binding = tickets[j].binding
             /\ tickets'[j].by = IF j = i THEN r ELSE tickets[j].by
    <3> DEFINE e == [tickets[i] EXCEPT !.by = r]
    <3>1. PICK S : tickets \in Seq(S)
      BY DEF BridgeInv, TicketsOK
    <3>2. DOMAIN tickets[i] = {"binding", "by"}
      BY <1>1 DEF BridgeInv, TicketsOK
    <3>3. DOMAIN e = {"binding", "by"} /\ e.by = r /\ e.binding = tickets[i].binding
      BY <3>2
    <3>4. tickets' = [tickets EXCEPT ![i] = e]
      BY <2>2
    <3> HIDE DEF e
    <3>5. tickets \in Seq(S \cup {e})
      BY <3>1
    <3>6. /\ tickets' \in Seq(S \cup {e}) /\ Len(tickets') = Len(tickets)
          /\ \A j \in 1..Len(tickets) : tickets'[j] = IF j = i THEN e ELSE tickets[j]
      <4> HIDE DEF i
      <4>1. QED
        BY <1>1, <3>4, <3>5, ExceptSeq
    <3>7. QED
      BY <3>3, <3>6 DEF BridgeInv, TicketsOK
  <2>5. /\ DOMAIN new = Fields /\ new.p = rec.p /\ new.ticket = i /\ new.evidence = {}
        /\ new.launched = rec.launched
        /\ \/ new.pc \in {"done", "generated"} /\ new.status = "blocked"
           \/ new.pc = "escalate" /\ rec.p.route = "premium"
           \/ new.pc = "local" /\ rec.p.route \notin {"blocked", "premium"}
    <3>1. CASE rec.p.route = "blocked"
      <4>1. new = Result(rec, "blocked", "route_blocked")
        BY <2>1, <3>1
      <4>2. QED
        BY <1>1, <4>1 DEF Result, Fields
    <3>2. CASE rec.p.route = "premium"
      <4>1. new = [rec EXCEPT !.pc = "escalate"]
        BY <2>1, <3>2
      <4>2. QED
        BY <1>1, <3>2, <4>1 DEF Fields
    <3>3. CASE rec.p.route \notin {"blocked", "premium"}
      <4>1. new = [rec EXCEPT !.pc = "local"]
        BY <2>1, <3>3
      <4>2. QED
        BY <1>1, <3>3, <4>1 DEF Fields
    <3>4. QED
      BY <3>1, <3>2, <3>3
  <2>6. run'[r] = new /\ \A q \in Runs \ {r} : run'[q] = run[q]
    BY <2>1 DEF BridgeInv
  <2>7. RecSound(r, new)'
    BY <1>1, <2>3, <2>4, <2>5
    DEF RecSound, PlanSound, Confirmed, Wanting, AtPremium, Routes, Remote, Nil
  <2>8. ASSUME NEW q \in Runs \ {r} PROVE RecSound(q, run[q])'
    <3>1. RecSound(q, run[q]) /\ q # Nil
      BY RunsAssumption DEF BridgeInv, Nil
    <3>2. run'[q] = run[q] /\ task' = task
      BY <1>1, <2>6
    <3>3. run[q].pc # "idle" => run[q].ticket \in 1..Len(tickets') /\ PlanSound(run[q].p)'
      BY <2>4, <3>1, <3>2 DEF RecSound, PlanSound
    <3>4. Confirmed(run[q]) =>
            tickets'[run[q].ticket].by = q /\ tickets'[run[q].ticket].binding = run[q].p
      BY <2>3, <2>4, <3>1 DEF RecSound, Confirmed
    <3>5. QED
      BY <3>1, <3>2, <3>3, <3>4 DEF RecSound, PlanSound, Confirmed, Wanting, AtPremium
  <2>9. run' = [q \in Runs |-> run'[q]] /\ WorldSound' /\ applied' = {}
    BY <1>1, <2>1 DEF BridgeInv, WorldSound
  <2>10. RecSound(r, run[r])'
    BY <2>6, <2>7 DEF RecSound, PlanSound, Confirmed, Wanting, AtPremium
  <2>11. Bound
    BY <1>1, <2>5, <2>6 DEF Bound, PremiumUnderAuthority, DeliveredOnPlannedSource
  <2>12. QED
    BY <2>4, <2>8, <2>9, <2>10, <2>11 DEF BridgeInv
<1>4. QED
  BY <1>2, <1>3

LEMMA LocalKeeps ==
    ASSUME BridgeInv, NEW r \in Runs, ExecuteLocalCandidate(r)
    PROVE  BridgeInv' /\ Bound
<1> DEFINE rec == run[r]
<1>1. /\ RecSound(r, rec) /\ rec.pc = "local" /\ DOMAIN rec = Fields
      /\ UNCHANGED <<task, world, tickets, applied>>
  BY DEF ExecuteLocalCandidate, BridgeInv, RecSound, Same
<1>2. CASE run' = [run EXCEPT ![r] = Raise(rec)]
  <2>1. RecSound(r, Raise(rec)) /\ Allowed(r, Raise(rec))
    BY <1>1, Raised DEF Allowed
  <2>2. QED
    BY <1>1, <1>2, <2>1, Moved
<1>3. CASE run' = [run EXCEPT ![r] = [rec EXCEPT !.pc = "verify", !.last = "blocked"]]
  <2>1. ASSUME NEW new, new = [rec EXCEPT !.pc = "verify", !.last = "blocked"]
        PROVE  RecSound(r, new) /\ Allowed(r, new)
    <3>1. /\ DOMAIN new = Fields /\ new.pc = "verify" /\ new.last = "blocked"
          /\ new.ticket = rec.ticket /\ new.p = rec.p /\ new.launched = rec.launched
      BY <1>1, <2>1 DEF Fields
    <3>2. QED
      BY <1>1, <3>1 DEF RecSound, Confirmed, Allowed
  <2>2. QED
    BY <1>1, <1>3, <2>1, Moved
<1>4. ASSUME NEW status \in {"completed", "failed"}, NEW changed \in {0, 1},
             run' = [run EXCEPT ![r] = [rec EXCEPT
                        !.pc = "verify", !.last = status, !.cand = @ + changed,
                        !.seen = rec.cand + changed, !.launched = @ \cup {"local"}]]
      PROVE  BridgeInv' /\ Bound
  <2>1. ASSUME NEW new,
               new = [rec EXCEPT
                        !.pc = "verify", !.last = status, !.cand = @ + changed,
                        !.seen = rec.cand + changed, !.launched = @ \cup {"local"}]
        PROVE  RecSound(r, new) /\ Allowed(r, new)
    <3>1. /\ DOMAIN new = Fields /\ new.pc = "verify" /\ new.ticket = rec.ticket
          /\ new.p = rec.p /\ new.launched = rec.launched \cup {"local"}
      BY <1>1, <2>1 DEF Fields
    <3>2. QED
      BY <1>1, <3>1 DEF RecSound, Confirmed, Allowed
  <2>2. QED
    BY <1>1, <1>4, <2>1, Moved
<1>5. QED
  BY <1>2, <1>3, <1>4 DEF ExecuteLocalCandidate

\* What an invocation does with the findings of a verification: it ends, or it
\* escalates a candidate found wanting; a direct run completes only without findings.
LEMMA Judged ==
    ASSUME NEW r, NEW rec, RecSound(r, rec), rec.pc = "verify",
           NEW codes, NEW judged, judged = [rec EXCEPT !.evidence = codes],
           NEW new,
           new = IF AtPremium(rec) THEN PremiumVerdict(judged, codes)
                 ELSE IF Generation(rec.p.intent) THEN CandidateVerdict(judged, codes)
                 ELSE DirectVerdict(judged, codes)
    PROVE  /\ RecSound(r, new) /\ new.launched = rec.launched /\ new.pc # "handed"
           /\ new.pc = "done" /\ new.status = "completed" =>
                codes = {} /\ ~Generation(rec.p.intent)
<1>1. /\ DOMAIN judged = Fields /\ judged.pc = "verify" /\ judged.evidence = codes
      /\ judged.p = rec.p /\ judged.last = rec.last /\ judged.launched = rec.launched
      /\ judged.staged = rec.staged /\ judged.ticket = rec.ticket
  BY DEF RecSound, Fields
<1>2. RecSound(r, judged) /\ Confirmed(judged)
  BY <1>1 DEF RecSound, Confirmed, AtPremium
<1>3. ASSUME NEW status, NEW code, new = Result(judged, status, code),
             status \in {"blocked", "failed", "completed"},
             status = "completed" => (codes = {} \/ Generation(rec.p.intent)),
             status = "completed" => ~ScopeInvalid(codes)
      PROVE  /\ RecSound(r, new) /\ new.launched = rec.launched /\ new.pc # "handed"
             /\ new.pc = "done" /\ new.status = "completed" =>
                  codes = {} /\ ~Generation(rec.p.intent)
  <2>1. judged.p.intent = "candidate" /\ status = "completed" => ~ScopeInvalid(judged.evidence)
    BY <1>1, <1>3
  <2>2. /\ RecSound(r, new) /\ new.launched = judged.launched /\ new.status = status
        /\ new.pc = IF judged.p.intent = "direct" THEN "done" ELSE "generated"
    <3>1. new = Result(judged, status, code)
      BY <1>3
    <3>2. QED
      BY ONLY <1>2, <2>1, <3>1, Resulted
  <2>3. QED
    BY <1>1, <1>3, <2>2 DEF Generation
<1>4. ASSUME new = [judged EXCEPT !.pc = "escalate"], ~AtPremium(rec), rec.last # "blocked",
             codes # {} \/ task.prior = "failed", "workspace_mutation_forbidden" \notin codes,
             rec.p.route # "local"
      PROVE  /\ RecSound(r, new) /\ new.launched = rec.launched /\ new.pc # "handed"
             /\ new.pc = "done" /\ new.status = "completed" =>
                  codes = {} /\ ~Generation(rec.p.intent)
  <2>1. /\ DOMAIN new = Fields /\ new.pc = "escalate" /\ new.evidence = codes
        /\ new.p = rec.p /\ new.launched = rec.launched /\ new.ticket = rec.ticket
    BY <1>1, <1>4 DEF Fields
  <2>2. rec.p.route = "local_then_verify" /\ "local" \in rec.launched
    BY <1>4 DEF RecSound
  <2>3. Wanting(new)
    BY <1>4, <2>1, <2>2 DEF Wanting, Remote
  <2>4. QED
    BY <2>1, <2>3 DEF RecSound, Confirmed
<1>5. ~ScopeInvalid({})
  BY DEF ScopeInvalid
<1>6. CASE AtPremium(rec)
  <2>1. \/ new = Result(judged, "blocked", "premium_runtime_unavailable")
        \/ codes = {} /\ new = Result(judged, "completed", "premium_verification_passed")
        \/ new = Result(judged, "failed", "premium_verification_failed")
        \/ new = Result(judged, "failed", "premium_runtime_failed")
        \/ new = Result(judged, "failed", "candidate_scope_invalid")
        \/ codes = {} /\ new = Result(judged, "completed", "premium_candidate_generated")
        \/ /\ ~ScopeInvalid(codes) /\ Generation(rec.p.intent)
           /\ new = Result(judged, "completed", "premium_candidate_generated_with_quality_findings")
    BY <1>1, <1>6 DEF PremiumVerdict, Generation
  <2>2. QED
    BY <1>3, <1>5, <2>1
<1>7. CASE ~AtPremium(rec) /\ Generation(rec.p.intent)
  <2>1. \/ new = Result(judged, "blocked", "local_runtime_unavailable")
        \/ new = Result(judged, "failed", "workspace_authority_violated")
        \/ codes = {} /\ new = Result(judged, "completed", "local_candidate_generated")
        \/ /\ new = [judged EXCEPT !.pc = "escalate"] /\ rec.last # "blocked"
           /\ codes # {} \/ task.prior = "failed"
           /\ "workspace_mutation_forbidden" \notin codes /\ rec.p.route # "local"
        \/ new = Result(judged, "failed", "local_runtime_failed")
        \/ new = Result(judged, "failed", "candidate_scope_invalid")
        \/ /\ ~ScopeInvalid(codes)
           /\ new = Result(judged, "completed", "local_candidate_generated_with_quality_findings")
    BY <1>1, <1>7 DEF CandidateVerdict
  <2>2. QED
    BY <1>3, <1>4, <1>5, <1>7, <2>1
<1>8. CASE ~AtPremium(rec) /\ ~Generation(rec.p.intent)
  <2>1. \/ new = Result(judged, "blocked", "local_runtime_unavailable")
        \/ codes = {} /\ new = Result(judged, "completed", "local_verification_passed")
        \/ new = Result(judged, "failed", "workspace_authority_violated")
        \/ new = Result(judged, "failed", "local_verification_failed_remote_forbidden")
        \/ /\ new = [judged EXCEPT !.pc = "escalate"] /\ rec.last # "blocked"
           /\ codes # {} \/ task.prior = "failed"
           /\ "workspace_mutation_forbidden" \notin codes /\ rec.p.route # "local"
    BY <1>1, <1>8 DEF DirectVerdict
  <2>2. QED
    BY <1>3, <1>4, <1>5, <1>8, <2>1
<1>9. QED
  BY <1>6, <1>7, <1>8

LEMMA VerifyKeeps ==
    ASSUME BridgeInv, NEW r \in Runs, VerifyCandidate(r)
    PROVE  BridgeInv' /\ Bound
<1> DEFINE rec == run[r]
<1>1. /\ RecSound(r, rec) /\ rec.pc = "verify" /\ UNCHANGED <<task, world, tickets>>
      /\ applied = {}
  BY DEF VerifyCandidate, BridgeInv, Same
<1>2. PICK clean \in BOOLEAN :
        LET codes   == EnforceCompletionContract(rec, VerifyCommandResult(rec, clean))
            judged  == [rec EXCEPT !.evidence = codes]
            next    == IF AtPremium(rec) THEN PremiumVerdict(judged, codes)
                       ELSE IF Generation(rec.p.intent) THEN CandidateVerdict(judged, codes)
                       ELSE DirectVerdict(judged, codes)
            applies == next.pc = "done" /\ next.status = "completed"
        IN  \E raises \in BOOLEAN :
              /\ run' = [run EXCEPT ![r] = IF raises THEN Raise(rec) ELSE next]
              /\ applied' = IF ~raises /\ applies /\ TRUE \in ApplyVerifiedCandidate(rec)
                            THEN applied \cup {r} ELSE applied
  BY DEF VerifyCandidate
<1> DEFINE codes  == EnforceCompletionContract(rec, VerifyCommandResult(rec, clean))
           judged == [rec EXCEPT !.evidence = codes]
           next   == IF AtPremium(rec) THEN PremiumVerdict(judged, codes)
                     ELSE IF Generation(rec.p.intent) THEN CandidateVerdict(judged, codes)
                     ELSE DirectVerdict(judged, codes)
<1>3. PICK raises \in BOOLEAN :
        /\ run' = [run EXCEPT ![r] = IF raises THEN Raise(rec) ELSE next]
        /\ applied' = IF /\ ~raises /\ next.pc = "done" /\ next.status = "completed"
                         /\ TRUE \in ApplyVerifiedCandidate(rec)
                      THEN applied \cup {r} ELSE applied
  BY <1>2
<1>4. /\ RecSound(r, next) /\ next.launched = rec.launched /\ next.pc # "handed"
      /\ next.pc = "done" /\ next.status = "completed" => codes = {} /\ ~Generation(rec.p.intent)
  <2> HIDE DEF codes
  <2>1. QED
    BY <1>1, Judged
\* A candidate that may be applied belongs to a writing task, which needs two phases.
<1>5. ~Generation(rec.p.intent) /\ TRUE \in ApplyVerifiedCandidate(rec) =>
        "two_phase_required" \in codes
  BY DEF ApplyVerifiedCandidate, EnforceCompletionContract
<1> HIDE DEF codes, next
<1>6. UNCHANGED applied
  BY <1>3, <1>4, <1>5
<1>7. CASE raises
  <2>1. RecSound(r, Raise(rec)) /\ Allowed(r, Raise(rec))
    BY <1>1, Raised DEF Allowed
  <2>2. QED
    BY <1>1, <1>3, <1>6, <1>7, <2>1, Moved
<1>8. CASE ~raises
  <2>1. Allowed(r, next)
    BY <1>1, <1>4 DEF Allowed
  <2>2. QED
    BY <1>1, <1>3, <1>4, <1>6, <1>8, <2>1, Moved
<1>9. QED
  BY <1>7, <1>8

LEMMA CapsuleKeeps ==
    ASSUME BridgeInv, NEW r \in Runs, BuildEscalationCapsule(r)
    PROVE  BridgeInv' /\ Bound
<1> DEFINE rec == run[r]
<1>1. /\ RecSound(r, rec) /\ rec.pc = "escalate" /\ DOMAIN rec = Fields
      /\ UNCHANGED <<task, world, tickets, applied>>
  BY DEF BuildEscalationCapsule, Step, BridgeInv, RecSound, Same
<1>2. CASE run' = [run EXCEPT ![r] = Raise(rec)]
  <2>1. RecSound(r, Raise(rec)) /\ Allowed(r, Raise(rec))
    BY <1>1, Raised DEF Allowed
  <2>2. QED
    BY <1>1, <1>2, <2>1, Moved
<1>3. CASE run' = [run EXCEPT ![r] = [rec EXCEPT !.pc = "stage", !.capsule = rec.cand]]
  <2>1. ASSUME NEW new, new = [rec EXCEPT !.pc = "stage", !.capsule = rec.cand]
        PROVE  RecSound(r, new) /\ Allowed(r, new)
    <3>1. /\ DOMAIN new = Fields /\ new.pc = "stage" /\ new.evidence = rec.evidence
          /\ new.ticket = rec.ticket /\ new.p = rec.p /\ new.launched = rec.launched
      BY <1>1, <2>1 DEF Fields
    <3>2. QED
      BY <1>1, <3>1 DEF RecSound, Confirmed, Allowed, Wanting
  <2>2. QED
    BY <1>1, <1>3, <2>1, Moved
<1>4. QED
  BY <1>2, <1>3 DEF BuildEscalationCapsule, Step

\* Only the credentials of the plan are staged.
LEMMA StageKeeps ==
    ASSUME BridgeInv, NEW r \in Runs, StagePremiumAuth(r)
    PROVE  BridgeInv' /\ Bound
<1> DEFINE rec == run[r]
<1>1. /\ RecSound(r, rec) /\ rec.pc = "stage" /\ DOMAIN rec = Fields
      /\ UNCHANGED <<task, world, tickets, applied>>
  BY DEF StagePremiumAuth, Step, BridgeInv, RecSound, Same
<1>2. CASE run' = [run EXCEPT ![r] = Raise(rec)]
  <2>1. RecSound(r, Raise(rec)) /\ Allowed(r, Raise(rec))
    BY <1>1, Raised DEF Allowed
  <2>2. QED
    BY <1>1, <1>2, <2>1, Moved
<1>3. CASE /\ rec.p.auth # Nil /\ world.auth = rec.p.auth
           /\ run' = [run EXCEPT ![r] = [rec EXCEPT !.pc = "reserve", !.staged = world.auth]]
  <2>1. ASSUME NEW new, new = [rec EXCEPT !.pc = "reserve", !.staged = world.auth]
        PROVE  RecSound(r, new) /\ Allowed(r, new)
    <3>1. /\ DOMAIN new = Fields /\ new.pc = "reserve" /\ new.evidence = rec.evidence
          /\ new.ticket = rec.ticket /\ new.p = rec.p /\ new.launched = rec.launched
          /\ new.staged = rec.p.auth
      BY <1>1, <1>3, <2>1 DEF Fields
    <3>2. QED
      BY <1>1, <1>3, <3>1 DEF RecSound, Confirmed, Allowed, Wanting
  <2>2. QED
    BY <1>1, <1>3, <2>1, Moved
<1>4. QED
  BY <1>2, <1>3 DEF StagePremiumAuth, Step

\* The premium process: charged, under the staged credentials, on a wanting candidate.
LEMMA ReserveKeeps ==
    ASSUME BridgeInv, NEW r \in Runs, ReservePremiumLaunch(r)
    PROVE  BridgeInv' /\ Bound
<1> DEFINE rec == run[r]
<1>1. /\ RecSound(r, rec) /\ rec.pc = "reserve" /\ DOMAIN rec = Fields
      /\ UNCHANGED <<task, world, tickets, applied>>
  BY DEF ReservePremiumLaunch, BridgeInv, RecSound, Same
<1>2. CASE run' = [run EXCEPT ![r] = [rec EXCEPT !.pc = "verify", !.last = "blocked",
                                               !.seen = rec.cand]]
  <2>1. ASSUME NEW new, new = [rec EXCEPT !.pc = "verify", !.last = "blocked",
                                          !.seen = rec.cand]
        PROVE  RecSound(r, new) /\ Allowed(r, new)
    <3>1. /\ DOMAIN new = Fields /\ new.pc = "verify" /\ new.ticket = rec.ticket
          /\ new.p = rec.p /\ new.launched = rec.launched /\ new.staged = rec.staged
      BY <1>1, <2>1 DEF Fields
    <3>2. QED
      BY <1>1, <3>1 DEF RecSound, Confirmed, Allowed, AtPremium
  <2>2. QED
    BY <1>1, <1>2, <2>1, Moved
<1>3. CASE run' = [run EXCEPT ![r] = Result(rec, "blocked", "durable_premium_budget_exhausted")]
  <2>1. ASSUME NEW new, new = Result(rec, "blocked", "durable_premium_budget_exhausted")
        PROVE  RecSound(r, new) /\ Allowed(r, new)
    <3>1. Confirmed(rec)
      BY <1>1 DEF Confirmed
    <3>2. RecSound(r, new) /\ new.launched = rec.launched
      BY <1>1, <2>1, <3>1, Resulted
    <3>3. QED
      BY <1>1, <3>2 DEF Allowed
  <2>2. QED
    BY <1>1, <1>3, <2>1, Moved
<1>4. CASE run' = [run EXCEPT ![r] = [rec EXCEPT !.pc = "premium", !.paid = TRUE,
                                               !.launched = @ \cup {"premium"}]]
  <2>1. ASSUME NEW new, new = [rec EXCEPT !.pc = "premium", !.paid = TRUE,
                                          !.launched = @ \cup {"premium"}]
        PROVE  RecSound(r, new) /\ Allowed(r, new)
    <3>1. /\ DOMAIN new = Fields /\ new.pc = "premium" /\ new.evidence = rec.evidence
          /\ new.ticket = rec.ticket /\ new.p = rec.p /\ new.paid = TRUE
          /\ new.launched = rec.launched \cup {"premium"} /\ new.staged = rec.staged
      BY <1>1, <2>1 DEF Fields
    <3>2. /\ Wanting(rec) /\ RemoteAllowed(task) /\ rec.staged = rec.p.auth
          /\ tickets[rec.ticket].by = r /\ tickets[rec.ticket].binding = rec.p
      BY <1>1 DEF RecSound, Confirmed, PlanSound, Wanting
    <3>3. Allowed(r, new)
      BY <1>1, <3>1, <3>2 DEF Allowed, Wanting, Remote
    <3>4. RecSound(r, new)
      BY <1>1, <3>1 DEF RecSound, Confirmed
    <3>5. QED
      BY <3>3, <3>4
  <2>2. QED
    BY <1>1, <1>4, <2>1, Moved
<1>5. QED
  BY <1>2, <1>3, <1>4 DEF ReservePremiumLaunch, Step

LEMMA PremiumKeeps ==
    ASSUME BridgeInv, NEW r \in Runs, ExecutePremiumCommand(r)
    PROVE  BridgeInv' /\ Bound
<1> DEFINE rec == run[r]
<1>1. /\ RecSound(r, rec) /\ rec.pc = "premium" /\ DOMAIN rec = Fields
      /\ UNCHANGED <<task, world, tickets, applied>>
  BY DEF ExecutePremiumCommand, Step, BridgeInv, RecSound, Same
<1>2. PICK status \in {"completed", "failed"}, changed \in {0, 1} :
        run' = [run EXCEPT ![r] = [rec EXCEPT !.pc = "verify", !.last = status,
                                     !.cand = @ + changed, !.seen = rec.cand + changed]]
  BY DEF ExecutePremiumCommand, Step
<1>3. ASSUME NEW new, new = [rec EXCEPT !.pc = "verify", !.last = status,
                                        !.cand = @ + changed, !.seen = rec.cand + changed]
      PROVE  RecSound(r, new) /\ Allowed(r, new)
  <2>1. /\ DOMAIN new = Fields /\ new.pc = "verify" /\ new.ticket = rec.ticket
        /\ new.p = rec.p /\ new.launched = rec.launched
    BY <1>1, <1>3 DEF Fields
  <2>2. QED
    BY <1>1, <2>1 DEF RecSound, Confirmed, Allowed, AtPremium
<1>4. QED
  BY <1>1, <1>2, <1>3, Moved

\* A candidate is staged completed, in scope, and on the planned source.
LEMMA DeliverKeeps ==
    ASSUME BridgeInv, NEW r \in Runs, DeliverCandidate(r)
    PROVE  BridgeInv' /\ Bound
<1> DEFINE rec == run[r]
<1>1. /\ RecSound(r, rec) /\ rec.pc = "generated" /\ DOMAIN rec = Fields
      /\ UNCHANGED <<task, world, tickets, applied>>
  BY DEF DeliverCandidate, Step, BridgeInv, RecSound, Same
<1>2. CASE run' = [run EXCEPT ![r] = Raise(rec)]
  <2>1. RecSound(r, Raise(rec)) /\ Allowed(r, Raise(rec))
    BY <1>1, Raised DEF Allowed
  <2>2. QED
    BY <1>1, <1>2, <2>1, Moved
<1>3. CASE /\ rec.p.intent = "candidate" => rec.status = "completed" /\ world.source = rec.p.source
           /\ run' = [run EXCEPT ![r] = [rec EXCEPT !.pc = "handed", !.handed = rec.cand]]
  <2>1. ASSUME NEW new, new = [rec EXCEPT !.pc = "handed", !.handed = rec.cand]
        PROVE  RecSound(r, new) /\ Allowed(r, new)
    <3>1. /\ DOMAIN new = Fields /\ new.pc = "handed" /\ new.ticket = rec.ticket
          /\ new.p = rec.p /\ new.launched = rec.launched
          /\ new.cand = rec.cand /\ new.handed = rec.cand
      BY <1>1, <2>1 DEF Fields
    <3>2. RecSound(r, new)
      BY <1>1, <3>1 DEF RecSound, Confirmed
    <3>3. Allowed(r, new)
      BY <1>1, <1>3, <3>1 DEF Allowed, RecSound, Confirmed
    <3>4. QED
      BY <3>2, <3>3
  <2>2. QED
    BY <1>1, <1>3, <2>1, Moved
<1>4. QED
  BY <1>2, <1>3 DEF DeliverCandidate, Step

LEMMA CloseKeeps ==
    ASSUME BridgeInv, NEW r \in Runs, CloseCandidate(r)
    PROVE  BridgeInv' /\ Bound
<1> DEFINE rec == run[r]
<1>1. /\ RecSound(r, rec) /\ rec.pc = "handed" /\ DOMAIN rec = Fields
      /\ UNCHANGED <<task, world, tickets, applied>>
  BY DEF CloseCandidate, Step, BridgeInv, RecSound, Same
<1>2. CASE run' = [run EXCEPT ![r] = Raise(rec)]
  <2>1. RecSound(r, Raise(rec)) /\ Allowed(r, Raise(rec))
    BY <1>1, Raised DEF Allowed
  <2>2. QED
    BY <1>1, <1>2, <2>1, Moved
<1>3. CASE /\ world.source = rec.p.source /\ rec.cand = rec.handed
           /\ run' = [run EXCEPT ![r] = [rec EXCEPT !.pc = "done"]]
  <2>1. ASSUME NEW new, new = [rec EXCEPT !.pc = "done"]
        PROVE  RecSound(r, new) /\ Allowed(r, new)
    <3>1. /\ DOMAIN new = Fields /\ new.pc = "done" /\ new.ticket = rec.ticket
          /\ new.p = rec.p /\ new.launched = rec.launched /\ new.cand = rec.cand
      BY <1>1, <2>1 DEF Fields
    <3>2. QED
      BY <1>1, <1>3, <3>1 DEF RecSound, Confirmed, Allowed
  <2>2. QED
    BY <1>1, <1>3, <2>1, Moved
<1>4. QED
  BY <1>2, <1>3 DEF CloseCandidate, Step

\* A stray write changes a candidate, and nothing that is bound.
LEMMA StrayKeeps ==
    ASSUME BridgeInv, NEW r \in Runs, StrayWrite(r)
    PROVE  BridgeInv' /\ Bound
<1> DEFINE rec == run[r]
<1>1. /\ RecSound(r, rec) /\ DOMAIN rec = Fields /\ UNCHANGED <<task, world, tickets, applied>>
      /\ run' = [run EXCEPT ![r] = [rec EXCEPT !.cand = @ + 1]]
  BY DEF StrayWrite, BridgeInv, RecSound
<1>2. ASSUME NEW new, new = [rec EXCEPT !.cand = @ + 1]
      PROVE  RecSound(r, new) /\ Allowed(r, new)
  <2>1. /\ DOMAIN new = Fields /\ \A f \in Fields \ {"cand"} : new[f] = rec[f]
    BY <1>1, <1>2 DEF Fields
  <2>2. /\ new.pc = rec.pc /\ new.p = rec.p /\ new.ticket = rec.ticket
        /\ new.evidence = rec.evidence /\ new.last = rec.last /\ new.launched = rec.launched
        /\ new.staged = rec.staged /\ new.status = rec.status
    BY <2>1 DEF Fields
  <2>3. RecSound(r, new)
    BY <1>1, <2>1, <2>2 DEF RecSound, Confirmed, Wanting, AtPremium
  <2>4. QED
    BY <2>2, <2>3 DEF Allowed
<1>3. QED
  BY <1>1, <1>2, Moved

\* A new ticket leaves every earlier one as it was.
LEMMA IssueKeeps ==
    ASSUME BridgeInv, Plan \/ PlanCandidate \/ PlanPairedEvidenceArm
    PROVE  BridgeInv' /\ Bound
<1>1. PICK p : Issue(p)
  BY DEF Plan, PlanCandidate, PlanPairedEvidenceArm
<1>2. UNCHANGED <<task, world, run, applied>>
  BY DEF Plan, PlanCandidate, PlanPairedEvidenceArm, Planning
<1>3. /\ TicketsOK'
      /\ \A i \in 1..Len(tickets) : i \in 1..Len(tickets') /\ tickets'[i] = tickets[i]
  <2> DEFINE e == [binding |-> p, by |-> Nil]
  <2>1. PICK S : tickets \in Seq(S)
    BY DEF BridgeInv, TicketsOK
  <2>2. tickets' = Append(tickets, e) /\ DOMAIN e = {"binding", "by"}
    BY <1>1 DEF Issue, ConfirmationBinding
  <2> HIDE DEF e
  <2>3. tickets \in Seq(S \cup {e})
    BY <2>1
  <2>4. /\ tickets' \in Seq(S \cup {e}) /\ Len(tickets') = Len(tickets) + 1
        /\ \A i \in 1..Len(tickets) : tickets'[i] = tickets[i]
        /\ tickets'[Len(tickets) + 1] = e
    BY <2>2, <2>3, AppendProperties
  <2>5. Len(tickets) \in Nat
    BY <2>1
  <2>6. \A i \in 1..Len(tickets') : DOMAIN tickets'[i] = {"binding", "by"}
    BY <2>2, <2>4, <2>5 DEF BridgeInv, TicketsOK
  <2>7. QED
    BY <2>4, <2>5, <2>6 DEF TicketsOK
<1>4. ASSUME NEW q \in Runs PROVE RecSound(q, run[q])'
  <2>1. RecSound(q, run[q])
    BY DEF BridgeInv
  <2>2. QED
    BY <1>2, <1>3, <2>1 DEF RecSound, PlanSound, Confirmed, Wanting, AtPremium
<1>5. QED
  BY <1>2, <1>3, <1>4, Still DEF BridgeInv, WorldSound

\* The world moving on changes nothing that is bound.
LEMMA DriftKeeps ==
    ASSUME BridgeInv, EditSource \/ RotateAuth \/ UpgradeTools \/ LoseSandbox \/ CanaryLapses
    PROVE  BridgeInv' /\ Bound
<1>1. UNCHANGED <<task, tickets, run, applied>>
  BY DEF EditSource, RotateAuth, UpgradeTools, LoseSandbox, CanaryLapses, Drift
<1>2. WorldSound'
  <2>1. CASE EditSource
    BY <2>1 DEF EditSource, Drift, BridgeInv, WorldSound
  <2>2. CASE RotateAuth
    BY <2>2 DEF RotateAuth, Drift, BridgeInv, WorldSound
  <2>3. CASE UpgradeTools
    BY <2>3 DEF UpgradeTools, Drift, BridgeInv, WorldSound
  <2>4. CASE LoseSandbox
    BY <2>4 DEF LoseSandbox, Drift, BridgeInv, WorldSound
  <2>5. CASE CanaryLapses
    <3>1. world' = [world EXCEPT !.canary = [world.canary EXCEPT !.active = FALSE]]
      BY <2>5 DEF CanaryLapses, Drift, BridgeInv, WorldSound
    <3> DEFINE c == [world.canary EXCEPT !.active = FALSE]
    <3>2. /\ DOMAIN c = {"enabled", "active", "cell", "cohort", "recommended"}
          /\ c.recommended \in Routes
      BY DEF BridgeInv, WorldSound
    <3> HIDE DEF c
    <3>3. world' = [world EXCEPT !.canary = c]
      BY <3>1 DEF c
    <3>4. QED
      BY <3>2, <3>3 DEF BridgeInv, WorldSound
  <2>6. QED
    BY <2>1, <2>2, <2>3, <2>4, <2>5
<1>3. TicketsOK' /\ applied' = {} /\ run' = [r \in Runs |-> run'[r]]
  BY <1>1 DEF BridgeInv, TicketsOK
<1>4. ASSUME NEW q \in Runs PROVE RecSound(q, run[q])'
  <2>1. RecSound(q, run[q])
    BY DEF BridgeInv
  <2>2. QED
    BY <1>1, <2>1 DEF RecSound, PlanSound, Confirmed, Wanting, AtPremium
<1>5. QED
  BY <1>1, <1>2, <1>3, <1>4, Still DEF BridgeInv

-----------------------------------------------------------------------------
\* The invariant is inductive, and every step launches and hands over only what is bound.
LEMMA BridgeInitial == BridgeInit => BridgeInv
<1> SUFFICES ASSUME BridgeInit PROVE BridgeInv
  OBVIOUS
<1>1. TicketsOK
  <2>1. tickets \in Seq({}) /\ Len(tickets) = 0
    BY EmptySeq DEF BridgeInit
  <2>2. QED
    BY <2>1 DEF TicketsOK
<1>2. WorldSound
  BY WorldsAssumption DEF BridgeInit, WorldSound, Routes
<1>3. ASSUME NEW r \in Runs PROVE RecSound(r, run[r])
  <2>1. run[r] = Idle
    BY DEF BridgeInit
  <2>2. DOMAIN Idle = Fields /\ Idle.pc = "idle"
    BY DEF Idle, Fields
  <2>3. QED
    BY <2>1, <2>2 DEF RecSound, Confirmed
<1>4. QED
  BY <1>1, <1>2, <1>3 DEF BridgeInit, BridgeInv

LEMMA BridgeKeeps == BridgeInv /\ BridgeNext => BridgeInv' /\ Bound
<1> SUFFICES ASSUME BridgeInv, BridgeNext PROVE BridgeInv' /\ Bound
  OBVIOUS
<1>1. CASE Plan \/ PlanCandidate \/ PlanPairedEvidenceArm
  BY <1>1, IssueKeeps
<1>2. CASE EditSource \/ RotateAuth \/ UpgradeTools \/ LoseSandbox \/ CanaryLapses
  BY <1>2, DriftKeeps
<1>3. ASSUME NEW r \in Runs, RunStep(r) \/ StrayWrite(r) PROVE BridgeInv' /\ Bound
  <2>1. CASE \E intent \in {"direct", "candidate"}, t \in 1..MaxTickets : Prepare(r, intent, Nil, t)
    BY <2>1, PrepareKeeps
  <2>2. CASE \E arm \in Routes, t \in 1..MaxTickets : Prepare(r, "paired", arm, t)
    BY <2>2, PrepareKeeps
  <2>3. QED
    BY <1>3, <2>1, <2>2, ConsumeKeeps, LocalKeeps, VerifyKeeps, CapsuleKeeps, StageKeeps,
       ReserveKeeps, PremiumKeeps, DeliverKeeps, CloseKeeps, StrayKeeps DEF RunStep
<1>4. QED
  BY <1>1, <1>2, <1>3 DEF BridgeNext

LEMMA BridgeStutters == BridgeInv /\ UNCHANGED vars => BridgeInv'
<1> SUFFICES ASSUME BridgeInv, UNCHANGED vars PROVE BridgeInv'
  OBVIOUS
<1>1. ASSUME NEW q \in Runs PROVE RecSound(q, run[q])'
  BY DEF vars, BridgeInv, RecSound, PlanSound, Confirmed, Wanting, AtPremium
<1>2. QED
  BY <1>1 DEF vars, BridgeInv, TicketsOK, WorldSound

LEMMA BridgeInvSafe == BridgeInv => BridgeSafe
<1> SUFFICES ASSUME BridgeInv PROVE BridgeSafe
  OBVIOUS
<1>1. RunsAsConfirmed
  BY DEF BridgeInv, RecSound, RunsAsConfirmed, Confirmed, PlanSound
<1>2. QED
  BY <1>1 DEF BridgeSafe, DirectRunNeverWrites, BridgeInv

\* Whatever drifts between the steps, an invocation runs what its ticket bound: no
\* direct run writes the source, no premium process starts without its charge, its
\* credentials and its reason, and no candidate leaves on a source it was not planned for.
THEOREM BridgeSoundAlways == BridgeSpec => BridgeSound
<1>1. BridgeInv /\ [BridgeNext]_vars => BridgeInv'
  BY BridgeKeeps, BridgeStutters
<1>2. BridgeInv /\ [BridgeNext]_vars => [PremiumUnderAuthority /\ DeliveredOnPlannedSource]_vars
  BY BridgeKeeps DEF Bound
<1>3. QED
  BY <1>1, <1>2, BridgeInitial, BridgeInvSafe, PTL DEF BridgeSpec, BridgeSound
=============================================================================
