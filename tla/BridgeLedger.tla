---------------------------- MODULE BridgeLedger ----------------------------
(***************************************************************************)
(* BridgeStateLedger: the durable budget of premium calls and the one-shot *)
(* confirmation tickets of the assistant bridge, kept in one JSON file.    *)
(* An operation reads the file, changes it in memory and writes it back    *)
(* under the ledger's lock (LedgerLock), so it is one action here.  A call *)
(* that raises before os.replace leaves the file alone and is a stutter;   *)
(* one that raises after it has changed the file without its caller        *)
(* learning so.  Source: assistant_bridge_ledger.py.                       *)
(***************************************************************************)
EXTENDS Integers, FiniteSets, Functions

CONSTANTS
    Keys,             \* budget keys: task, configuration and workspace digests
    Tokens,           \* the budget leases that will ever be drawn
    LegacyUses,       \* usage counts that a file of an older schema may hold
    LeaseTtl,         \* budget_lease_ttl_seconds
    Retention,        \* budget_retention_seconds
    MaxBudgets,       \* max_budget_entries
    Tickets,          \* the confirmation tokens that will ever be drawn
    Bindings,         \* digests of the plans that are confirmed
    TicketTtl,        \* confirmation_ttl_seconds
    TicketRetention,  \* confirmation_retention_seconds
    MaxTickets,       \* max_confirmation_entries
    MaxTime,          \* bound on the wall clock
    None

VARIABLES
    clock,          \* time.time(): may step backwards
    schema,         \* schema_version of the file
    budgets,        \* key -> used, updated_at and pending leases
    confirmations,  \* ticket -> binding, window and consumed_at
    leases,         \* history: what each drawn budget lease was granted for
    issued,         \* history: what became of each drawn ticket, how often it was accepted
    latest          \* history: the latest time the clock has shown

ledgerVars == <<clock, schema, budgets, confirmations, leases, issued, latest>>

ASSUME LimitAssumption ==
    /\ LeaseTtl \in Nat \ {0} /\ Retention \in Nat \ {0} /\ MaxBudgets \in Nat \ {0}
    /\ TicketTtl \in Nat \ {0} /\ TicketRetention \in Nat \ {0} /\ MaxTickets \in Nat \ {0}
    /\ LegacyUses \subseteq Nat /\ MaxTime \in Nat

Times == 0..MaxTime
Stamps == 0..(MaxTime + LeaseTtl + TicketTtl)

PendingLeases == UNION {[T -> [reserved : Times, expires : Stamps]] : T \in SUBSET Tokens}
BudgetRecords == [used : Nat, updated : Times, pending : PendingLeases]
TicketRecords == [binding : Bindings, issued : Times, expires : Stamps,
                  consumed : Times \cup {None}]
IssueRecords == [expires : Stamps, accepted : Nat, state : {"open", "lost", "burned"}]
LeaseRecords == [key : Keys, at : Times, state : {"held", "lost", "committed", "released"}]

\* None stands for Python's None, which is neither a record nor a number.
ASSUME NoneAssumption == None \notin Int \cup LeaseRecords \cup IssueRecords
ASSUME TokensAssumption == IsFiniteSet(Tokens)

LedgerTypeOK ==
    /\ clock \in Times /\ latest \in Times
    /\ schema \in {"2.0", "2.1", "2.2"}
    /\ DOMAIN budgets \subseteq Keys
    /\ \A k \in DOMAIN budgets : budgets[k] \in BudgetRecords
    /\ DOMAIN confirmations \subseteq Tickets
    /\ \A t \in DOMAIN confirmations : confirmations[t] \in TicketRecords
    /\ leases \in [Tokens -> LeaseRecords \cup {None}]
    /\ issued \in [Tickets -> IssueRecords \cup {None}]

Empty == [x \in {} |-> None]

\* No file yet, or one that an older release left with its usage counts.
LedgerInit ==
    /\ clock \in Times
    /\ latest = clock
    /\ schema \in {"2.0", "2.1", "2.2"}
    /\ budgets \in UNION {[K -> [used : LegacyUses, updated : Times, pending : {Empty}]] :
                             K \in SUBSET Keys}
    /\ schema = "2.2" => budgets = Empty
    /\ schema = "2.0" => \A k \in DOMAIN budgets : budgets[k].updated = clock
    /\ confirmations = Empty
    /\ leases = [k \in Tokens |-> None]
    /\ issued = [t \in Tickets |-> None]

-----------------------------------------------------------------------------
(***************************************************************************)
(* _read: _migrate_legacy_state stamps the rows of a 2.0 file, which had   *)
(* no time, with that of the reading, and does so on every reading until   *)
(* an operation writes the file; a 2.1 file keeps its times.               *)
(***************************************************************************)
Migrated == IF schema = "2.0"
              THEN [k \in DOMAIN budgets |-> [budgets[k] EXCEPT !.updated = clock]]
              ELSE budgets

\* _require_non_regressing_clock does not raise.
ClockFollows(b) == clock >= b.updated

Expired(b) == {t \in DOMAIN b.pending : clock >= b.pending[t].expires}

\* Fault: an expired lease is dropped, not counted.
PromoteDrops(b) ==
    [b EXCEPT !.pending = Restrict(b.pending, DOMAIN b.pending \ Expired(b))]

\* _promote_expired_pending: an expired lease is spent, for its process may run.
Promote(b) ==
    IF Expired(b) = {} THEN b
    ELSE [used    |-> b.used + Cardinality(Expired(b)),
          updated |-> clock,
          pending |-> Restrict(b.pending, DOMAIN b.pending \ Expired(b))]

\* Fault: a row is forgotten when it reaches the retention, not after it.
MaintainedEager(bs) ==
    LET promoted == [k \in DOMAIN bs |-> IF ClockFollows(bs[k]) THEN Promote(bs[k]) ELSE bs[k]]
        forgotten == {k \in DOMAIN bs : /\ ClockFollows(bs[k])
                                        /\ promoted[k].pending = Empty
                                        /\ promoted[k].updated <= clock - Retention}
    IN Restrict(promoted, DOMAIN bs \ forgotten)

\* _maintain_budgets: promote, then forget what is older than the retention.
Maintained(bs) ==
    LET promoted == [k \in DOMAIN bs |-> IF ClockFollows(bs[k]) THEN Promote(bs[k]) ELSE bs[k]]
        forgotten == {k \in DOMAIN bs : /\ ClockFollows(bs[k])
                                        /\ promoted[k].pending = Empty
                                        /\ promoted[k].updated < clock - Retention}
    IN Restrict(promoted, DOMAIN bs \ forgotten)

Put(f, x, v) == [y \in DOMAIN f \cup {x} |-> IF y = x THEN v ELSE f[y]]

Load(b) == b.used + Cardinality(DOMAIN b.pending)
FreshBudget == [used |-> 0, updated |-> clock, pending |-> Empty]

\* _write: what operation computed is in the file, in the current schema.
Written(bs, cs) ==
    /\ budgets' = bs
    /\ confirmations' = cs
    /\ schema' = "2.2"

-----------------------------------------------------------------------------
\* reserve_budget reaches its check of the limit: it found or made a row for the key.
Reservable(k) ==
    LET bs == Maintained(Migrated) IN
      /\ k \notin DOMAIN bs => Cardinality(DOMAIN bs) < MaxBudgets
      /\ k \in DOMAIN bs => ClockFollows(bs[k])

RowFor(k) == LET bs == Maintained(Migrated) IN
               IF k \in DOMAIN bs THEN bs[k] ELSE FreshBudget

\* Fault: the row's updated_at stays what it was.
ReservedUnstamped(k, t, state) ==
    /\ Written(Put(Maintained(Migrated), k,
                   [RowFor(k) EXCEPT !.pending = Put(@, t, [reserved |-> clock,
                                                            expires  |-> clock + LeaseTtl])]),
               confirmations)
    /\ leases' = [leases EXCEPT ![t] = [key |-> k, at |-> clock, state |-> state]]

\* The file and the history after token t is reserved for key k.
Reserved(k, t, state) ==
    /\ Written(Put(Maintained(Migrated), k,
                   [RowFor(k) EXCEPT !.updated = clock,
                                     !.pending = Put(@, t, [reserved |-> clock,
                                                            expires  |-> clock + LeaseTtl])]),
               confirmations)
    /\ leases' = [leases EXCEPT ![t] = [key |-> k, at |-> clock, state |-> state]]

\* reserve_budget with limit 1 grants the lease; a limit of 0 returns before the lock.
Reserve(k, t) ==
    /\ leases[t] = None
    /\ Reservable(k)
    /\ Load(RowFor(k)) < 1
    /\ Reserved(k, t, "held")
    /\ UNCHANGED <<clock, issued, latest>>

\* It raises after os.replace: the lease is in the file and nobody has it.
ReserveLost(k, t) ==
    /\ leases[t] = None
    /\ Reservable(k)
    /\ Load(RowFor(k)) < 1
    /\ Reserved(k, t, "lost")
    /\ UNCHANGED <<clock, issued, latest>>

\* It returns None: the limit is reached, and the maintenance is written.
ReserveRefused(k) ==
    /\ Reservable(k)
    /\ Load(RowFor(k)) >= 1
    /\ Written(Maintained(Migrated), confirmations)
    /\ UNCHANGED <<clock, leases, issued, latest>>

\* commit_budget and release_budget_after_popen_failure find a row they may change.
Settleable(k) == k \in DOMAIN Migrated /\ ClockFollows(Migrated[k])

SettledRow(k) == Promote(Migrated[k])
Without(b, t) == [b EXCEPT !.pending = Restrict(@, DOMAIN @ \ {t}), !.updated = clock]
IsPending(k, t) == Settleable(k) /\ t \in DOMAIN SettledRow(k).pending

\* Fault: the commit leaves updated_at alone.
CommitUnstamped(k, t) ==
    /\ IsPending(k, t)
    /\ LET b == SettledRow(k) IN
         Written([Migrated EXCEPT ![k] =
                    [Without(b, t) EXCEPT !.used = @ + 1, !.updated = b.updated]],
                 confirmations)
    /\ leases' = [leases EXCEPT ![t] = [@ EXCEPT !.state = "committed", !.at = clock]]
    /\ UNCHANGED <<clock, issued, latest>>

Commit(k, t) ==
    /\ IsPending(k, t)
    /\ Written([Migrated EXCEPT ![k] = [Without(SettledRow(k), t) EXCEPT !.used = @ + 1]],
               confirmations)
    /\ leases' = [leases EXCEPT ![t] = [@ EXCEPT !.state = "committed", !.at = clock]]
    /\ UNCHANGED <<clock, issued, latest>>

\* Fault: the release also takes back a use.
ReleaseUncounts(k, t) ==
    /\ IsPending(k, t)
    /\ Written([Migrated EXCEPT ![k] = [Without(SettledRow(k), t) EXCEPT !.used = @ - 1]],
               confirmations)
    /\ leases' = [leases EXCEPT ![t] = [@ EXCEPT !.state = "released"]]
    /\ UNCHANGED <<clock, issued, latest>>

\* A row that the release leaves without use or pending lease is removed.
Release(k, t) ==
    /\ IsPending(k, t)
    /\ LET b == Without(SettledRow(k), t) IN
         Written(IF b.used = 0 /\ b.pending = Empty
                   THEN Restrict(Migrated, DOMAIN Migrated \ {k})
                   ELSE [Migrated EXCEPT ![k] = b],
                 confirmations)
    /\ leases' = [leases EXCEPT ![t] = [@ EXCEPT !.state = "released"]]
    /\ UNCHANGED <<clock, issued, latest>>

\* Either call on a lease that is no longer pending: the promotion is written, then it raises.
SettleMissing(k, t) ==
    /\ Settleable(k)
    /\ ~IsPending(k, t)
    /\ Written([Migrated EXCEPT ![k] = SettledRow(k)], confirmations)
    /\ UNCHANGED <<clock, leases, issued, latest>>

\* The holder of a lease may commit or release it, and may ask again or too late.
Settle(t) ==
    /\ leases[t] /= None
    /\ leases[t].state /= "lost"
    /\ LET k == leases[t].key IN Commit(k, t) \/ Release(k, t) \/ SettleMissing(k, t)

(***************************************************************************)
(* consume_budget: the use is counted in one call.  The history records it *)
(* under a token, although the code draws none.                            *)
(***************************************************************************)
ConsumeBudget(k, t) ==
    /\ leases[t] = None
    /\ Reservable(k)
    /\ Load(RowFor(k)) < 1
    /\ Written(Put(Maintained(Migrated), k,
                   [RowFor(k) EXCEPT !.used = @ + 1, !.updated = clock]),
               confirmations)
    /\ leases' = [leases EXCEPT ![t] = [key |-> k, at |-> clock, state |-> "committed"]]
    /\ UNCHANGED <<clock, issued, latest>>

-----------------------------------------------------------------------------
TerminalAt(c) == IF c.consumed = None THEN c.expires ELSE c.consumed

Terminal == {t \in DOMAIN confirmations :
               confirmations[t].consumed /= None \/ confirmations[t].expires < clock}

Outdated == {t \in Terminal : TerminalAt(confirmations[t]) < clock - TicketRetention}

\* Fault: tickets are evicted by age alone, live ones too.
EvictableAnyAge(n) ==
    {E \in SUBSET (DOMAIN confirmations \ Outdated) : Cardinality(E) = n}

\* The first n terminal tickets by terminal time; hashes break the ties, in any order.
Evictable(n) ==
    LET retained == Terminal \ Outdated IN
      {E \in SUBSET retained :
         /\ Cardinality(E) = n
         /\ \A t \in E, u \in retained \ E :
               TerminalAt(confirmations[t]) <= TerminalAt(confirmations[u])}

\* _prune_confirmations made room for one more ticket, leaving this set.
Pruned(kept) ==
    LET live == DOMAIN confirmations \ Outdated
        overflow == Cardinality(live) + 1 - MaxTickets
    IN IF overflow <= 0 THEN kept = live
       ELSE \E E \in Evictable(overflow) : kept = live \ E

IssueConfirmation(t, binding, state) ==
    /\ issued[t] = None
    /\ \E kept \in SUBSET DOMAIN confirmations :
         /\ Pruned(kept)
         /\ Written(Migrated,
                    Put(Restrict(confirmations, kept), t,
                        [binding |-> binding, issued |-> clock,
                         expires |-> clock + TicketTtl, consumed |-> None]))
    /\ issued' = [issued EXCEPT ![t] = [expires |-> clock + TicketTtl, accepted |-> 0,
                                         state |-> state]]
    /\ UNCHANGED <<clock, leases, latest>>

\* Fault: a consumed ticket is not refused.
ConsumableTwice(t, binding) ==
    /\ t \in DOMAIN confirmations
    /\ confirmations[t].binding = binding
    /\ clock \in confirmations[t].issued .. confirmations[t].expires

\* Fault: the ticket's window is not compared with the clock.
ConsumableAnyTime(t, binding) ==
    /\ t \in DOMAIN confirmations
    /\ confirmations[t].binding = binding
    /\ confirmations[t].consumed = None

\* consume_confirmation passes its checks.
Consumable(t, binding) ==
    /\ t \in DOMAIN confirmations
    /\ confirmations[t].binding = binding
    /\ confirmations[t].consumed = None
    /\ clock \in confirmations[t].issued .. confirmations[t].expires

\* The ticket's holder presents it; the call may raise after the file was replaced.
ConsumeConfirmation(t, binding) ==
    /\ issued[t] /= None
    /\ issued[t].state /= "lost"
    /\ Consumable(t, binding)
    /\ Written(Migrated, [confirmations EXCEPT ![t].consumed = clock])
    /\ \/ issued' = [issued EXCEPT ![t].accepted = @ + 1]
       \/ issued' = [issued EXCEPT ![t].state = "burned"]
    /\ UNCHANGED <<clock, leases, latest>>

-----------------------------------------------------------------------------
\* The wall clock advances, or is set back.
Tick ==
    /\ clock < MaxTime
    /\ clock' = clock + 1
    /\ latest' = IF clock' > latest THEN clock' ELSE latest
    /\ UNCHANGED <<schema, budgets, confirmations, leases, issued>>

SetBack ==
    /\ clock' \in {time \in Times : time < clock}
    /\ UNCHANGED <<schema, budgets, confirmations, leases, issued, latest>>

\* Callers that only confirm, while time passes.
TicketNext ==
    \/ \E t \in Tickets, b \in Bindings :
         IssueConfirmation(t, b, "open") \/ IssueConfirmation(t, b, "lost")
         \/ ConsumeConfirmation(t, b)
    \/ Tick \/ SetBack

LedgerNext ==
    \/ \E k \in Keys, t \in Tokens : Reserve(k, t) \/ ReserveLost(k, t) \/ ConsumeBudget(k, t)
    \/ \E k \in Keys : ReserveRefused(k)
    \/ \E t \in Tokens : Settle(t)
    \/ TicketNext

LedgerSpec == LedgerInit /\ [][LedgerNext]_ledgerVars

-----------------------------------------------------------------------------
(***************************************************************************)
(* What _validate_budget and _validate_confirmation demand of a stored     *)
(* file, so that no sequence of operations, clock steps and migrations     *)
(* writes a file that every later operation refuses to read.               *)
(***************************************************************************)
FileReadable ==
    /\ \A k \in DOMAIN budgets : \A t \in DOMAIN budgets[k].pending :
          LET p == budgets[k].pending[t] IN
            p.reserved <= budgets[k].updated /\ p.reserved < p.expires
    /\ \A t \in DOMAIN confirmations :
          LET c == confirmations[t] IN
            /\ c.issued < c.expires
            /\ c.consumed /= None => c.consumed \in c.issued .. c.expires

(***************************************************************************)
(* One premium call per key: used and pending together never pass the      *)
(* limit of one, except for counts that an older file brought along, and   *)
(* to those nothing is added.                                              *)
(***************************************************************************)
LoadBounded ==
    \A k \in DOMAIN budgets :
      \/ Load(budgets[k]) <= 1
      \/ budgets[k].pending = Empty /\ budgets[k].used \in LegacyUses

Unreleased(t) == leases[t] /= None /\ leases[t].state /= "released"

(***************************************************************************)
(* A lease that was granted and not released stays charged to its key for  *)
(* the whole retention after its last recorded use, whether it was         *)
(* committed, expired or lost, and however the clock was set meanwhile.    *)
(***************************************************************************)
ChargeKept ==
    \A t \in Tokens :
      Unreleased(t) /\ latest <= leases[t].at + Retention =>
        leases[t].key \in DOMAIN budgets /\ Load(budgets[leases[t].key]) >= 1

(***************************************************************************)
(* reserve_budget and consume_budget give a key a new use only when every  *)
(* earlier use that was not released is older than the retention.          *)
(***************************************************************************)
GrantsSpaced ==
    [][\A t, u \in Tokens :
         /\ leases[t] = None /\ leases'[t] /= None
         /\ Unreleased(u) /\ leases[u].key = leases'[t].key
         => latest > leases[u].at + Retention]_ledgerVars

\* A confirmation ticket is accepted at most once, also after it was pruned.
AcceptedOnce == \A t \in Tickets : issued[t] /= None => issued[t].accepted <= 1

(***************************************************************************)
(* A ticket handed out stays usable until it expires: no capacity pressure *)
(* and no other ticket removes it before.                                  *)
(***************************************************************************)
OpenTicketKept ==
    \A t \in Tickets :
      /\ issued[t] /= None
      /\ issued[t].state = "open" /\ issued[t].accepted = 0
      /\ latest <= issued[t].expires
      => t \in DOMAIN confirmations /\ confirmations[t].consumed = None

\* What the ledger file keeps for the budgets.
BudgetsSafe == FileReadable /\ LoadBounded /\ ChargeKept

\* What it keeps for the confirmation tickets.
TicketsSafe == FileReadable /\ AcceptedOnce /\ OpenTicketKept
=============================================================================
