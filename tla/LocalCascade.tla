----------------------------- MODULE LocalCascade -----------------------------
(* LocalCascade: a task is planned and later run through local model tiers,    *)
(* cheapest first, until a deterministic verifier accepts a result             *)
(* (local_cascade.py, local_cascade_contracts.py, local_cascade_mcp.py).       *)
(* Callers are concurrent tool calls on one in-memory adapter.                 *)
EXTENDS Integers, Sequences, SequencesExt, FiniteSets

CONSTANTS
    Callers, Tasks,
    Steps,        \* step limits callers ask for
    Tiers,        \* configured tiers, by cost rank
    MaxPlans, MaxReceipts,   \* plans and receipts kept, oldest dropped first
    MaxTokens,    \* the largest token total a receipt may state
    MaxCalls      \* plan and run calls in the behaviour

VARIABLES
    plans, receipts, busy, call, calls,
    delivered     \* the last run's outcome

cascadeVars == <<plans, receipts, busy, call, delivered, calls>>

Profiles == {"economy", "balanced", "quality"}
Nil == "none"
Idle == [pc |-> "idle"]

-----------------------------------------------------------------------------
(* Planning *)

\* economy: the cheapest tier alone; balanced: the first max_steps; quality: the
\* dearest alone.
Selected(profile, steps) ==
    CASE profile = "economy" -> SubSeq(Tiers, 1, 1)
      [] profile = "balanced" -> SubSeq(Tiers, 1, IF steps < Len(Tiers) THEN steps ELSE Len(Tiers))
      [] profile = "quality" -> SubSeq(Tiers, Len(Tiers), Len(Tiers))

\* A plan is named by what it binds: planning the same again is the same plan.
PlanOf(t, profile, steps) == [task |-> t, tiers |-> Selected(profile, steps), profile |-> profile, steps |-> steps]

\* Entered, or moved to the end; past the limit the oldest go.
Touched(s, x) ==
    Append(IF x \in Range(s) THEN RemoveAt(s, CHOOSE i \in DOMAIN s : s[i] = x) ELSE s, x)
Newest(s, n) == IF Len(s) > n THEN SubSeq(s, Len(s) - n + 1, Len(s)) ELSE s

\* A plan that is dropped takes its receipt along.
StorePlan(p) ==
    LET ps == Touched(plans, p)
        gone == IF Len(ps) > MaxPlans THEN {[kind |-> "plan", plan |-> Head(ps), run |-> 0]} ELSE {}
    IN  /\ plans' = Newest(ps, MaxPlans)
        /\ receipts' = Newest(SelectSeq(Touched(receipts, [kind |-> "plan", plan |-> p, run |-> 0]),
                                        LAMBDA r : r \notin gone), MaxReceipts)

\* Tiers have distinct names and cost ranks, and there is one at least.
ConfigValid(ts) == ts # <<>> /\ \A i, j \in DOMAIN ts : ts[i] = ts[j] => i = j

Plan ==
    /\ calls < MaxCalls
    /\ \E t \in Tasks, profile \in Profiles, steps \in Steps :
          ConfigValid(Selected(profile, steps)) /\ StorePlan(PlanOf(t, profile, steps))
    /\ calls' = calls + 1
    /\ UNCHANGED <<busy, call, delivered>>

-----------------------------------------------------------------------------
(* Running *)

\* Mutant of Bound: a plan may be run with any task.
BoundToPlan(p, t) == p \in Range(plans)

\* The plan must be stored, its digest the caller's, and the task its task.
Bound(p, t) == p \in Range(plans) /\ p.task = t

\* A run that names no stored plan, or another task, or finds the one
\* invocation slot taken, is refused.
RunRefused(c) ==
    /\ calls < MaxCalls /\ call[c] = Idle
    /\ \E t \in Tasks : plans = <<>> \/ busy # Nil \/ \E p \in Range(plans) : ~Bound(p, t)
    /\ calls' = calls + 1
    /\ UNCHANGED <<plans, receipts, busy, call, delivered>>

RunBegin(c) ==
    /\ calls < MaxCalls /\ call[c] = Idle /\ busy = Nil
    /\ \E p \in Range(plans), t \in Tasks :
          /\ Bound(p, t)
          /\ call' = [call EXCEPT ![c] = [pc |-> "run", run |-> calls + 1, task |-> t, plan |-> p, tried |-> <<>>]]
    /\ busy' = c /\ calls' = calls + 1
    /\ UNCHANGED <<plans, receipts, delivered>>

\* An expert that is gone, that is not on this device by its address and its
\* scope, or that fails; an answer in another expert's name: no token counts.
Errors == [status : {"error"}, good : {FALSE}, tokens : {Nil}]

\* An answer that did not end by itself is an abstention.
Answers == [status : {"abstained", "completed"}, good : BOOLEAN, tokens : {Nil, "some", "over"}]

\* An abstention carries no content.
ResultValid(r) == r.status = "abstained" => ~r.good

\* What one tier may yield.
Results == Errors \cup {r \in Answers : ResultValid(r)}

\* Reasons to escalate: not completed, rejected by the verifier, over the tier's
\* token limit.
Reasons(r) ==
    (IF r.status = "error" THEN {"attempt_port_error"} ELSE {})
    \cup (IF r.status = "abstained" THEN {"attempt_abstained"} ELSE {})
    \cup (IF r.status = "completed" /\ ~r.good THEN {"content"} ELSE {})
    \cup (IF r.tokens = "over" THEN {"token_limit"} ELSE {})

AttemptReceipt(tier, r) ==
    [tier |-> tier, status |-> r.status, passed |-> Reasons(r) = {}, reasons |-> Reasons(r),
     digest |-> r.status = "completed", tokens |-> r.tokens]

\* The next tier is tried, with the reasons of the one before.
Attempt(c) ==
    /\ call[c].pc = "run"
    /\ LET k == Len(call[c].tried) + 1 IN
       \E r \in Results :
          LET a == AttemptReceipt(call[c].plan.tiers[k], r)
          IN  call' = [call EXCEPT ![c].tried = Append(@, a),
                        ![c].pc = IF a.passed \/ k = Len(call[c].plan.tiers) THEN "receipt" ELSE "run"]
    /\ UNCHANGED <<plans, receipts, busy, delivered, calls>>

-----------------------------------------------------------------------------
(* Receipts *)

\* A passed attempt has content and no reasons; an escalation has reasons that
\* fit its status; only errors lack counts of necessity.
AttemptValid(a) ==
    /\ a.passed <=> a.reasons = {}
    /\ a.digest <=> a.status = "completed"
    /\ a.status = "completed" => a.reasons \subseteq {"content", "token_limit"}
    /\ a.status = "abstained" => "attempt_abstained" \in a.reasons /\ a.reasons \subseteq {"attempt_abstained", "token_limit"}
    /\ a.status = "error" => Cardinality(a.reasons) = 1 /\ a.tokens = Nil

\* Token counts that are known; one over its limit counts double here.
TokenTotal(as) ==
    Cardinality({i \in DOMAIN as : as[i].tokens = "some"})
    + 2 * Cardinality({i \in DOMAIN as : as[i].tokens = "over"})

Status(as) ==
    IF Last(as).passed THEN "passed"
    ELSE IF \A i \in DOMAIN as : as[i].status = "abstained" THEN "all_abstained" ELSE "exhausted"

\* The contract of the whole receipt.
ReceiptValid(as, status) ==
    /\ as # <<>> /\ \A i \in DOMAIN as : AttemptValid(as[i])
    /\ \A i, j \in DOMAIN as : i < j => \E m, n \in DOMAIN Tiers : m < n /\ Tiers[m] = as[i].tier /\ Tiers[n] = as[j].tier
    /\ TokenTotal(as) <= MaxTokens
    /\ status = "passed" <=> Last(as).passed
    /\ \A i \in DOMAIN as : as[i].passed => i = Len(as)
    /\ status = "all_abstained" <=> \A i \in DOMAIN as : as[i].status = "abstained"

\* The receipt is built, checked and stored, and the content returned.  A
\* receipt its own contract refuses loses the run.  The slot is free again.
RunEnd(c) ==
    /\ call[c].pc = "receipt"
    /\ LET as == call[c].tried
           ok == ReceiptValid(as, Status(as))
           r  == [kind |-> "run", plan |-> call[c].plan, run |-> call[c].run]
       IN  /\ receipts' = IF ok THEN Newest(Touched(receipts, r), MaxReceipts) ELSE receipts
           /\ delivered' = {[task |-> call[c].task, plan |-> call[c].plan, tried |-> as, ok |-> ok]}
    /\ call' = [call EXCEPT ![c] = Idle]
    /\ busy' = Nil
    /\ UNCHANGED <<plans, calls>>

-----------------------------------------------------------------------------
CascadeInit ==
    /\ plans = <<>> /\ receipts = <<>> /\ busy = Nil
    /\ call = [c \in Callers |-> Idle]
    /\ delivered = {} /\ calls = 0

CascadeNext == Plan \/ \E c \in Callers : RunRefused(c) \/ RunBegin(c) \/ Attempt(c) \/ RunEnd(c)

CascadeSpec == CascadeInit /\ [][CascadeNext]_cascadeVars

-----------------------------------------------------------------------------
(* Properties *)

\* What a caller gets is for the task that was planned; the tiers were tried in
\* cost order with none skipped; a result returned as passed is one the verifier
\* accepted and every cheaper tier of the plan failed.  And the receipt of a run
\* that used its models is never refused by its own contract, short of the token
\* total's limit.
CascadeDelivery ==
    \A d \in delivered :
       /\ d.plan.task = d.task
       /\ \A i \in DOMAIN d.tried : d.tried[i].tier = d.plan.tiers[i]
       /\ \A i \in DOMAIN d.tried : d.tried[i].passed => i = Len(d.tried) /\ d.tried[i].reasons = {}
       /\ Last(d.tried).passed \/ Len(d.tried) = Len(d.plan.tiers)
       /\ d.ok \/ TokenTotal(d.tried) > MaxTokens

=============================================================================
