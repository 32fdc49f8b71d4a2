-------------------------- MODULE VerifiedRouting --------------------------
(* Verified-outcome routing (src/local_moe/route_outcomes.py,                *)
(* route_scorecard.py, route_promotion.py, route_policy.py, route_canary.py):*)
(* attested outcomes are summed up in a scorecard; a pre-registered plan     *)
(* gathers held-out pairs; a gate turns them into a canary manifest; the     *)
(* operator signs an activation of it; and a planner that finds the          *)
(* activation in force may move a task to a less premium route.              *)
(*                                                                           *)
(* Planners are processes of their own that read the clock, load a file and  *)
(* only then take the chronology lock, while the clock, which may be set     *)
(* back, and the files move on.  Money, rates and times are integers.        *)
EXTENDS Integers, FiniteSets, FiniteSetsExt

CONSTANTS
    Planners,    \* processes that plan a task under the canary
    Histories,   \* the sets of training records explored
    Arms,        \* what an arm of a held-out case may come to, by route
    Gate,        \* the promotion gate policy
    Profile,     \* the route policy of the profile
    Case,        \* the held-out case: task, baseline and candidate route
    MaxClock,    \* bound on the clock
    MaxMishaps   \* bound on clocks set back, torn appends and scorecards rebuilt

VARIABLES
    clock,      \* what the system clock shows
    records,    \* the outcome store
    torn,       \* an append died half-way through its line
    scorecard,  \* the scorecard on disk
    plan,       \* the pre-registered evidence plan
    manifests,  \* manifests the gate emitted
    signed,     \* activations the operator signed
    chronology, \* the trusted record of the latest activation seen
    planner,    \* the planning processes
    accepted,   \* activations accepted, and when (history)
    trouble

vars == <<clock, records, torn, scorecard, plan, manifests, signed,
          chronology, planner, accepted, trouble>>

Routes == {"local", "local_then_verify", "premium"}
RouteRank == [local |-> 0, local_then_verify |-> 1, premium |-> 2]

-----------------------------------------------------------------------------
(* Outcome records *)

\* Whether a record counts as evidence at all: strong enough, confident, not
\* abstained and binary.
Qualifies(r) == r.strong /\ r.outcome # "inconclusive"

RecordPassed(r) == r.outcome = "passed"
FailureIsBlocking(r) == r.outcome = "blocking"

\* A record is rebuilt from its signed receipt or it is no evidence.
VerifyPairedRecords(set) == \A r \in set : r.attested

-----------------------------------------------------------------------------
(* The scorecard: one entry per route of the cell *)

SumOf(set, val(_)) == MapThenSumSet(val, set)

AggregateEntry(set) ==
    [ n    |-> Cardinality(set),
      ok   |-> Cardinality({r \in set : RecordPassed(r)}),
      cost |-> SumOf({r \in set : r.cost >= 0}, LAMBDA r: r.cost),
      priced |-> Cardinality({r \in set : r.cost >= 0}),
      prem |-> SumOf(set, LAMBDA r: r.prem) ]

EntriesOf(set) ==
    [q \in Routes |-> AggregateEntry({r \in set : r.route = q /\ Qualifies(r)})]

\* A scorecard is written with the entries of its source.
NoScorecard == [source |-> {}, gen |-> 0, exp |-> 0]

NoPlan == [made |-> 0, sc |-> NoScorecard]

BuildScorecard ==
    /\ ~torn
    /\ \E r \in records : Qualifies(r)
    /\ scorecard = NoScorecard \/ trouble < MaxMishaps
    /\ trouble' = IF scorecard = NoScorecard THEN trouble ELSE trouble + 1
    /\ scorecard' = [source |-> records, gen |-> clock, exp |-> clock + Gate.scorecardTtl]
    /\ UNCHANGED <<clock, records, torn, plan, manifests, signed, chronology, planner, accepted>>

IsStale(sc, now) == sc.gen > now \/ now >= sc.exp

-----------------------------------------------------------------------------
(* The plan and the held-out runs *)

\* A plan binds the scorecard it was written against.
BuildEvidencePlan ==
    /\ scorecard # NoScorecard /\ plan = NoPlan
    /\ plan' = [made |-> clock, sc |-> scorecard]
    /\ UNCHANGED <<clock, records, torn, scorecard, manifests, signed, chronology, planner, accepted, trouble>>

HeldOut == {r \in records : r.kind = "holdout"}
Arm(run, q) == {r \in HeldOut : r.run = run /\ r.route = q}

\* A paired run of the case appends its arms in the frozen order, the second
\* naming the first; a run that stops after one arm leaves that record alone.
\* An append first reads the whole store, and refuses one it cannot read.
\* (Bound: nothing more is gathered, or evaluated, once there is a manifest.)
AppendOutcome(run) ==
    LET q == IF Arm(run, Case.baseline) = {} THEN Case.baseline ELSE Case.candidate
    IN  /\ manifests = {} /\ ~torn /\ plan # NoPlan
        /\ run > 1 => Arm(run - 1, Case.baseline) # {}
        /\ Arm(run, Case.candidate) = {}
        /\ \E a \in Arms[q] :
              records' = records \cup
                 {[kind |-> "holdout", task |-> Case.task, run |-> run, route |-> q, time |-> clock,
                   prev |-> (q = Case.candidate), strong |-> a.strong, attested |-> TRUE,
                   outcome |-> a.outcome, cost |-> a.cost, prem |-> a.prem]}
        /\ UNCHANGED <<clock, torn, scorecard, plan, manifests, signed, chronology, planner, accepted, trouble>>

\* The process dies inside an append: the line has no newline, and nothing
\* reads or appends to the store until somebody repairs it.
AppendTorn ==
    /\ trouble < MaxMishaps /\ ~torn /\ manifests = {} /\ plan # NoPlan
    /\ torn' = TRUE /\ trouble' = trouble + 1
    /\ UNCHANGED <<clock, records, scorecard, plan, manifests, signed, chronology, planner, accepted>>

-----------------------------------------------------------------------------
(* The promotion gate *)

\* The two arms of a case are the two slots of one run, in the frozen order,
\* with exact costs.
PairedLineageMatchesPlan(b, c) ==
    /\ b.route = Case.baseline /\ c.route = Case.candidate
    /\ b.run = c.run
    /\ b.cost >= 0 /\ c.cost >= 0
    /\ ~b.prev /\ c.prev /\ b.time <= c.time

PairsOf(holdout) ==
    {p \in holdout \X holdout : p[1] # p[2] /\ PairedLineageMatchesPlan(p[1], p[2])}

\* The lower end of the Wilson interval of s successes in n is at least m/100:
\* with z2 the square of the quantile in hundredths, solved for m.
WilsonAtLeast(s, n, m) ==
    /\ 100 * s >= m * n
    /\ (100 * s - m * n) * (100 * s - m * n) * 100 >= Gate.z2 * m * (100 - m) * n

Improves(b, c) == IF b <= 0 THEN Gate.improvement = 0 ELSE (b - c) * 100 >= Gate.improvement * b

\* The candidate never fails where the baseline passed.
NeverWorse(pairs) == \A p \in pairs : RecordPassed(p[1]) => RecordPassed(p[2])

\* Its success is good enough, it costs and calls no more in any pair, and it is
\* better in something.
GoodEnough(pairs) ==
    LET n == Cardinality(pairs)
        s == Cardinality({p \in pairs : RecordPassed(p[2])})
        b == Cardinality({p \in pairs : RecordPassed(p[1])})
        Total(i, f(_)) == SumOf(pairs, LAMBDA p: f(p[i]))
        costB == Total(1, LAMBDA r: r.cost)
        costC == Total(2, LAMBDA r: r.cost)
        premB == Total(1, LAMBDA r: r.prem)
        premC == Total(2, LAMBDA r: r.prem)
    IN  /\ 100 * s >= Profile.minRate * n
        /\ WilsonAtLeast(s, n, Profile.minRate)
        /\ \A p \in pairs : ~FailureIsBlocking(p[1]) /\ ~FailureIsBlocking(p[2])
        /\ \A p \in pairs : p[2].cost <= p[1].cost /\ p[2].prem <= p[1].prem
        /\ costC <= costB /\ premC <= premB
        /\ s > b \/ Improves(premB, premC) \/ Improves(costB, costC)

EvaluateCell(pairs) == NeverWorse(pairs) /\ GoodEnough(pairs)

\* The plan was written after its scorecard, which is still fresh and is later
\* than all of its training set.
TrainingSound(training, now) ==
    /\ plan.made >= plan.sc.gen /\ now < plan.sc.exp
    /\ \A r \in training : r.time <= plan.sc.gen

\* The held-out records share no task with the training set, and every run
\* among them shows exactly its two arms.
HoldoutApart(training, holdout) ==
    /\ \A r \in training, h \in holdout : r.task # h.task
    /\ \A h \in holdout : Cardinality({g \in holdout : g.run = h.run}) = 2

\* One pair per case, of good evidence gathered after the plan and not too
\* long ago, its arms in order and close in time; enough pairs.
PairsSound(holdout, now) ==
    LET pairs == PairsOf(holdout)
    IN  /\ Cardinality(holdout) = 2 /\ Cardinality(pairs) = 1
        /\ \A r \in holdout : Qualifies(r) /\ r.time >= plan.made /\ r.time <= now
                              /\ now - r.time < Gate.maxAge
        /\ \A p \in pairs : p[1].time < p[2].time /\ p[2].time - p[1].time <= Gate.maxSkew
        /\ Cardinality(pairs) >= Gate.minPairs

\* A manifest lives no longer than it asked for, than the scorecard, and than
\* its oldest held-out record may be used.
ManifestExpiry(holdout, now) ==
    Min({now + Gate.manifestTtl, plan.sc.exp} \cup {r.time + Gate.maxAge : r \in holdout})

\* The gate evaluates the held-out records it is handed, any of those the plan
\* gathered, against the scorecard's own training set.
EvaluateRoutePromotion(holdout) ==
    /\ manifests = {} /\ ~torn
    /\ plan # NoPlan /\ plan.sc = scorecard
    /\ VerifyPairedRecords(scorecard.source \cup holdout)
    /\ TrainingSound(scorecard.source, clock)
    /\ HoldoutApart(scorecard.source, holdout)
    /\ PairsSound(holdout, clock)
    /\ \A q \in {Case.baseline, Case.candidate} :
          LET e == EntriesOf(plan.sc.source)[q]
          IN  e.n >= Profile.minSamples /\ 100 * e.ok >= Profile.minRate * e.n
    /\ EvaluateCell(PairsOf(holdout))
    /\ manifests' = manifests \cup {[holdout |-> holdout, sc |-> plan.sc, made |-> plan.made,
                        nb |-> clock, exp |-> ManifestExpiry(holdout, clock)]}
    /\ UNCHANGED <<clock, records, torn, scorecard, plan, signed, chronology, planner, accepted, trouble>>

-----------------------------------------------------------------------------
(* Activation *)

\* The operator signs an activation inside the manifest's window.  (External.)
Sign(m) ==
    /\ Cardinality(signed) < 2 /\ clock < m.exp /\ clock >= m.nb
    /\ signed' = signed \cup {[man |-> m, issued |-> clock, exp |-> m.exp, id |-> Cardinality(signed) + 1]}
    /\ UNCHANGED <<clock, records, torn, scorecard, plan, manifests, chronology, planner, accepted, trouble>>

NoSeal == [man |-> [holdout |-> {}, sc |-> NoScorecard, made |-> 0, nb |-> 0, exp |-> 0],
           issued |-> -1, exp |-> 0, id |-> 0]
Idle == [pc |-> "idle", now |-> 0, auth |-> NoSeal, base |-> "premium", to |-> "premium"]

\* A planner reads the clock and the activation file it is pointed at, which
\* may be any that was ever signed.
StartPlanning(e, a) ==
    /\ planner[e].pc = "idle"
    /\ planner' = [planner EXCEPT ![e].pc = "verify", ![e].now = clock, ![e].auth = a]
    /\ UNCHANGED <<clock, records, torn, scorecard, plan, manifests, signed, chronology, accepted, trouble>>

\* Mutant of ChronologyAllows: the clock is compared, and activations only for
\* equivocation.
ClockAllows(a, now) ==
    /\ now >= chronology.observed
    /\ a.issued = chronology.issued => a.id = chronology.id

\* The activation is in force at the planner's time, and so is its manifest.
AuthorizationActive(a, now) ==
    /\ a.issued <= now /\ now < a.exp
    /\ a.man.nb <= now /\ now < a.man.exp
    /\ a.exp <= a.man.exp

\* Under the chronology lock: no earlier time, no earlier activation, and no
\* other activation of the same instant.
ChronologyAllows(a, now) ==
    /\ now >= chronology.observed
    /\ a.issued >= chronology.issued
    /\ a.issued = chronology.issued => a.id = chronology.id

LoadAndVerifyAuthorization(e) ==
    LET a == planner[e].auth  now == planner[e].now
    IN  /\ planner[e].pc = "verify"
        /\ IF AuthorizationActive(a, now) /\ ChronologyAllows(a, now)
           THEN /\ chronology' = [issued |-> a.issued, id |-> a.id, observed |-> now]
                /\ accepted' = accepted \cup {[issued |-> a.issued, id |-> a.id, now |-> now]}
                /\ planner' = [planner EXCEPT ![e].pc = "decide"]
           ELSE /\ planner' = [planner EXCEPT ![e] = Idle]
                /\ UNCHANGED <<chronology, accepted>>
        /\ UNCHANGED <<clock, records, torn, scorecard, plan, manifests, signed, trouble>>

-----------------------------------------------------------------------------
(* The shadow recommendation and the canary decision *)

\* Routes a guarded task may take at all: here every provider is capable and
\* the premium budget is left, so only the offline profile rules routes out.
HardEligible(q) == Profile.offline => q = "local"

\* Why a route's evidence makes the whole recommendation abstain.
EvidenceGap(e) ==
    \/ e.n < Profile.minSamples
    \/ Profile.wCost > 0 /\ e.priced < e.n

\* Utility of an entry, times its sample count: quality less the normalised
\* penalties, each capped at one per sample.
Utility(e) ==
    Profile.wQuality * e.ok
      - Profile.wCost * Min({e.cost, e.n}) - Profile.wPremium * Min({e.prem, e.n})

Better(x, y) == Utility(x) * y.n > Utility(y) * x.n

\* x is at least as good as y in every weighted metric and better in one.
Dominates(x, y) ==
    LET cmp == { <<x.ok * y.n, y.ok * x.n>>, <<y.cost * x.n, x.cost * y.n>>,
                 <<y.prem * x.n, x.prem * y.n>> }
    IN  (\A c \in cmp : c[1] >= c[2]) /\ (\E c \in cmp : c[1] > c[2])

ParetoRoutes(acceptable, entry) ==
    {q \in acceptable : ~\E o \in acceptable : o # q /\ Dominates(entry[o], entry[q])}

\* The recommended route, or the baseline when the evidence is stale, thin or
\* incomplete for any route the task could take, or no route is good enough.
RecommendShadowRoute(base, sc, now) ==
    LET entry      == EntriesOf(sc.source)
        eligible   == {q \in Routes : HardEligible(q)}
        acceptable == {q \in eligible : 100 * entry[q].ok >= Profile.minRate * entry[q].n}
        finalists  == ParetoRoutes(acceptable, entry)
        best       == {q \in finalists : ~\E o \in finalists : Better(entry[o], entry[q])}
    IN  IF \/ IsStale(sc, now)
           \/ \E q \in eligible : EvidenceGap(entry[q])
           \/ acceptable = {}
        THEN base
        ELSE IF base \in best THEN base
        ELSE CHOOSE q \in best : \A o \in best : RouteRank[q] <= RouteRank[o]

\* A recommendation is applied only if it lies in an enabled cell and moves the
\* task to a less premium route.
CanaryApplies(base, to, man) ==
    /\ base = Case.baseline /\ to = Case.candidate
    /\ RouteRank[to] < RouteRank[base]

\* The decision for a task with some guarded baseline, in or out of the
\* cohort, is made on the scorecard the manifest was built from, at the time
\* the authority was verified.
DecideRouteCanary(e) ==
    LET p == planner[e]
    IN  /\ p.pc = "decide"
        /\ \E base \in Routes, cohort \in BOOLEAN :
              LET to == RecommendShadowRoute(base, scorecard, p.now)
              IN  planner' = [planner EXCEPT ![e] =
                                IF /\ cohort /\ scorecard = p.auth.man.sc
                                   /\ AuthorizationActive(p.auth, p.now)
                                   /\ CanaryApplies(base, to, p.auth.man)
                                THEN [p EXCEPT !.pc = "moved", !.base = base, !.to = to]
                                ELSE Idle]
        /\ UNCHANGED <<clock, records, torn, scorecard, plan, manifests, signed, chronology, accepted, trouble>>

\* The routed task is handed on.
RouteTask(e) ==
    /\ planner[e].pc = "moved"
    /\ planner' = [planner EXCEPT ![e] = Idle]
    /\ UNCHANGED <<clock, records, torn, scorecard, plan, manifests, signed, chronology, accepted, trouble>>

-----------------------------------------------------------------------------
\* Time passes.  (Only differences matter: it starts with the scorecard.)
Tick ==
    /\ clock < MaxClock /\ scorecard # NoScorecard
    /\ clock' = clock + 1
    /\ UNCHANGED <<records, torn, scorecard, plan, manifests, signed, chronology, planner, accepted, trouble>>

\* The system clock is set back.
SetBack ==
    /\ trouble < MaxMishaps /\ clock > 1
    /\ clock' = clock - 1 /\ trouble' = trouble + 1
    /\ UNCHANGED <<records, torn, scorecard, plan, manifests, signed, chronology, planner, accepted>>

Init ==
    /\ clock = 1
    /\ records \in Histories /\ torn = FALSE
    /\ scorecard = NoScorecard /\ plan = NoPlan
    /\ manifests = {} /\ signed = {}
    /\ chronology = [issued |-> -1, id |-> 0, observed |-> 0]
    /\ planner = [e \in Planners |-> Idle]
    /\ accepted = {} /\ trouble = 0

Next ==
    \/ BuildScorecard \/ BuildEvidencePlan \/ AppendTorn \/ Tick \/ SetBack
    \/ \E run \in 1..2 : AppendOutcome(run)
    \/ \E h \in SUBSET HeldOut : EvaluateRoutePromotion(h)
    \/ \E m \in manifests : Sign(m)
    \/ \E e \in Planners : LoadAndVerifyAuthorization(e) \/ DecideRouteCanary(e) \/ RouteTask(e)
                           \/ \E a \in signed : StartPlanning(e, a)

RoutingSpec == Init /\ [][Next]_vars

-----------------------------------------------------------------------------
(* Properties *)

\* What an eligible manifest rests on (evaluate_route_promotion and
\* _paired_lineage_matches_plan): the two arms of one single run of the case,
\* in the frozen order, gathered after the plan, which came after the
\* scorecard, which came after all its training, none of it on the same task.
ManifestPreregistered ==
    \A m \in manifests :
        /\ \E b, c \in m.holdout :
              /\ m.holdout = {b, c} /\ b.run = c.run
              /\ b.route = Case.baseline /\ c.route = Case.candidate /\ b.time < c.time
              /\ RecordPassed(b) => RecordPassed(c)
        /\ \A h \in m.holdout, t \in m.sc.source :
              h.time >= m.made /\ m.made >= m.sc.gen /\ m.sc.gen >= t.time /\ h.task # t.task

\* A task is moved only to a less premium route, while the scorecard is fresh
\* and no held-out record of the manifest has outlived the age the gate allows.
CanaryWithinEvidence ==
    \A e \in Planners : LET d == planner[e] IN d.pc = "moved" =>
        /\ RouteRank[d.to] < RouteRank[d.base]
        /\ d.now < d.auth.man.sc.exp
        /\ \A h \in d.auth.man.holdout : d.now - h.time < Gate.maxAge

\* Signed activations only move forward (_record_trusted_chronology): over
\* every planner and whatever the clock does, an activation observed later was
\* issued no earlier, and no two activations of one instant are both accepted.
ActivationsMoveForward ==
    \A x, y \in accepted :
        /\ x.now < y.now => x.issued <= y.issued
        /\ x.issued = y.issued => x.id = y.id

\* A route is moved only on evidence planned before it was gathered, for as long as
\* that evidence lasts, and under activations that never go back.
RoutingSafe == ManifestPreregistered /\ CanaryWithinEvidence /\ ActivationsMoveForward
=============================================================================
