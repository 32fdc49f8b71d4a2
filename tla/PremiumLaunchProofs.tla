------------------------- MODULE PremiumLaunchProofs -------------------------
(***************************************************************************)
(* Proofs about the bridge ledger, for any keys, tokens and tickets, any   *)
(* retention, time to live and bound, and any sequence of clock settings:  *)
(* BudgetInv, TicketInv and FileInv are the inductive invariants. Then     *)
(* about the premium commands over it, for any number of runs: every step  *)
(* of a run is an operation of the ledger or leaves it alone, so what is   *)
(* proved of the ledger holds here; LaunchInv adds what a run knows of its *)
(* lease in each phase.                                                    *)
(***************************************************************************)
EXTENDS PremiumLaunch, FiniteSetTheorems, TLAPS

\* The row of u's key carries u: as a pending lease, or as a use.
Charge(bs, u) ==
    LET k == leases[u].key IN
      /\ k \in DOMAIN bs
      /\ bs[k].updated >= leases[u].at
      /\ u \in DOMAIN bs[k].pending \/ bs[k].used >= 1

Recent(u) == Unreleased(u) /\ latest <= leases[u].at + Retention

BudgetInv ==
    /\ LedgerTypeOK
    /\ clock <= latest
    /\ schema = "2.0" => \A t \in Tokens : leases[t] = None
    /\ \A u \in Tokens : Recent(u) => Charge(budgets, u)

\* A ticket that was accepted is consumed or gone; an open one is stored with its expiry.
TicketInv ==
    \A t \in Tickets : issued[t] /= None =>
      /\ issued[t].accepted <= 1
      /\ issued[t].accepted >= 1 /\ t \in DOMAIN confirmations =>
           confirmations[t].consumed /= None
      /\ issued[t].state = "open" /\ issued[t].accepted = 0 /\ latest <= issued[t].expires =>
           /\ t \in DOMAIN confirmations
           /\ confirmations[t].consumed = None
           /\ confirmations[t].expires = issued[t].expires

\* What _validate_budget demands of a row, and the limit of one call on its load.
RowSound(b) ==
    /\ Load(b) <= 1 \/ (b.pending = Empty /\ b.used \in LegacyUses)
    /\ \A t \in DOMAIN b.pending :
         b.pending[t].reserved <= b.updated /\ b.pending[t].reserved < b.pending[t].expires

RowsSound(bs) == \A k \in DOMAIN bs : RowSound(bs[k])

\* What _validate_confirmation demands of a ticket.
TicketSound(c) ==
    /\ c.issued < c.expires
    /\ c.consumed /= None => c.consumed \in c.issued .. c.expires

\* A file without times has no pending leases, so that stamping its rows is harmless.
FileInv ==
    /\ RowsSound(budgets)
    /\ schema = "2.0" => \A k \in DOMAIN budgets : budgets[k].pending = Empty
    /\ \A t \in DOMAIN confirmations : TicketSound(confirmations[t])

Reservations == [reserved : Times, expires : Stamps]

RowsOK(bs) == DOMAIN bs \subseteq Keys /\ \A k \in DOMAIN bs : bs[k] \in BudgetRecords

-----------------------------------------------------------------------------
\* What the dictionary of pending leases is, as a function.
LEMMA PendingShape ==
    ASSUME NEW p \in PendingLeases
    PROVE  /\ DOMAIN p \subseteq Tokens
           /\ IsFiniteSet(DOMAIN p)
           /\ \A t \in DOMAIN p : p[t] \in Reservations
<1>1. PICK T \in SUBSET Tokens : p \in [T -> Reservations]
  BY DEF PendingLeases, Reservations
<1>2. DOMAIN p \subseteq Tokens /\ \A t \in DOMAIN p : p[t] \in Reservations
  BY <1>1
<1>3. QED
  BY <1>2, FS_Subset, TokensAssumption

\* Any function of that shape is a dictionary of pending leases.
LEMMA PendingIntro ==
    ASSUME NEW T \in SUBSET Tokens, NEW p \in [T -> Reservations]
    PROVE  p \in PendingLeases
BY DEF PendingLeases, Reservations

\* Dropping leases from the dictionary.
LEMMA PendingRestrict ==
    ASSUME NEW p \in PendingLeases, NEW S
    PROVE  /\ Restrict(p, DOMAIN p \ S) \in PendingLeases
           /\ DOMAIN Restrict(p, DOMAIN p \ S) = DOMAIN p \ S
<1>1. DOMAIN p \ S \in SUBSET Tokens /\ \A t \in DOMAIN p : p[t] \in Reservations
  BY PendingShape
<1>2. Restrict(p, DOMAIN p \ S) \in [DOMAIN p \ S -> Reservations]
  BY <1>1 DEF Restrict
<1>3. QED
  BY <1>1, <1>2, PendingIntro

\* Adding a lease to the dictionary.
LEMMA PendingPut ==
    ASSUME NEW p \in PendingLeases, NEW t \in Tokens, NEW v \in Reservations
    PROVE  /\ Put(p, t, v) \in PendingLeases
           /\ DOMAIN Put(p, t, v) = DOMAIN p \cup {t}
<1>1. DOMAIN p \cup {t} \in SUBSET Tokens /\ \A u \in DOMAIN p : p[u] \in Reservations
  BY PendingShape
<1>2. Put(p, t, v) \in [DOMAIN p \cup {t} -> Reservations]
  BY <1>1 DEF Put
<1>3. QED
  BY <1>1, <1>2, PendingIntro

LEMMA EmptyPending == Empty \in PendingLeases /\ DOMAIN Empty = {}
<1>1. Empty \in [{} -> Reservations]
  BY DEF Empty
<1>2. QED
  BY <1>1, PendingIntro DEF Empty

(***************************************************************************)
(* _promote_expired_pending keeps a row well formed, never lowers its use  *)
(* or its time, and turns every lease it drops into a use.                 *)
(***************************************************************************)
LEMMA PromoteRow ==
    ASSUME NEW b \in BudgetRecords, clock \in Times
    PROVE  /\ Promote(b) \in BudgetRecords
           /\ Promote(b).used >= b.used
           /\ clock >= b.updated => Promote(b).updated >= b.updated /\ Promote(b).updated <= clock
           /\ DOMAIN Promote(b).pending \subseteq DOMAIN b.pending
           /\ \A u \in DOMAIN b.pending :
                u \in DOMAIN Promote(b).pending \/ Promote(b).used >= 1
<1> DEFINE E == Expired(b)
           p == Restrict(b.pending, DOMAIN b.pending \ E)
<1>1. b.used \in Nat /\ b.updated \in Times /\ b.pending \in PendingLeases
  BY DEF BudgetRecords
<1>2. CASE E = {}
  <2>1. Promote(b) = b
    BY <1>2 DEF Promote
  <2>2. QED
    BY <1>1, <2>1, LimitAssumption DEF Times
<1>3. CASE E # {}
  <2>1. E \subseteq DOMAIN b.pending /\ IsFiniteSet(E)
    BY <1>1, PendingShape, FS_Subset DEF Expired
  <2>2. Cardinality(E) \in Nat /\ Cardinality(E) # 0
    BY <2>1, <1>3, FS_CardinalityType, FS_EmptySet
  <2>3. Promote(b) = [used |-> b.used + Cardinality(E), updated |-> clock, pending |-> p]
    BY <1>3 DEF Promote
  <2>4. p \in PendingLeases /\ DOMAIN p = DOMAIN b.pending \ E
    BY <1>1, PendingRestrict
  <2>5. b.used + Cardinality(E) \in Nat /\ b.used + Cardinality(E) >= 1
        /\ b.used + Cardinality(E) >= b.used
    BY <1>1, <2>2
  <2> HIDE DEF p, E
  <2>6. Promote(b) \in BudgetRecords
    BY <2>3, <2>4, <2>5 DEF BudgetRecords
  <2>7. QED
    BY <1>1, <2>3, <2>4, <2>5, <2>6, LimitAssumption DEF Times
<1>4. QED
  BY <1>2, <1>3

\* The rows as _read returns them; a row that a lease was granted on is not restamped.
LEMMA MigratedRows ==
    ASSUME BudgetInv
    PROVE  /\ RowsOK(Migrated)
           /\ \A u \in Tokens : Recent(u) => Charge(Migrated, u)
<1>1. CASE schema = "2.0"
  <2>1. DOMAIN Migrated = DOMAIN budgets
        /\ \A k \in DOMAIN budgets : Migrated[k] = [budgets[k] EXCEPT !.updated = clock]
    BY <1>1 DEF Migrated
  <2>2. RowsOK(Migrated)
    BY <2>1 DEF RowsOK, BudgetInv, LedgerTypeOK, BudgetRecords
  <2>3. QED
    BY <1>1, <2>2 DEF BudgetInv, Recent, Unreleased
<1>2. CASE schema # "2.0"
  BY <1>2 DEF Migrated, BudgetInv, RowsOK, LedgerTypeOK
<1>3. QED
  BY <1>1, <1>2

(***************************************************************************)
(* _maintain_budgets keeps the charge of every lease that is recent: its   *)
(* row is younger than the retention, whatever the clock shows.            *)
(***************************************************************************)
LEMMA MaintainedRows ==
    ASSUME BudgetInv
    PROVE  /\ RowsOK(Maintained(Migrated))
           /\ \A u \in Tokens : Recent(u) => Charge(Maintained(Migrated), u)
<1> DEFINE bs == Migrated
           promoted == [k \in DOMAIN bs |-> IF ClockFollows(bs[k]) THEN Promote(bs[k]) ELSE bs[k]]
           forgotten == {k \in DOMAIN bs : /\ ClockFollows(bs[k])
                                           /\ promoted[k].pending = Empty
                                           /\ promoted[k].updated < clock - Retention}
           ms == Maintained(bs)
<1>1. RowsOK(bs) /\ (\A u \in Tokens : Recent(u) => Charge(bs, u)) /\ clock \in Times
  BY MigratedRows DEF BudgetInv, LedgerTypeOK
<1>2. DOMAIN ms = DOMAIN bs \ forgotten /\ \A k \in DOMAIN ms : ms[k] = promoted[k]
  BY DEF Maintained, Restrict
<1> HIDE DEF ms, bs
<1>3. ASSUME NEW k \in DOMAIN bs
      PROVE  /\ promoted[k] \in BudgetRecords
             /\ promoted[k].used >= bs[k].used
             /\ promoted[k].updated >= bs[k].updated
             /\ \A u \in DOMAIN bs[k].pending :
                  u \in DOMAIN promoted[k].pending \/ promoted[k].used >= 1
  <2>1. bs[k] \in BudgetRecords /\ bs[k].used \in Nat /\ bs[k].updated \in Times
    BY <1>1 DEF RowsOK, BudgetRecords
  <2>2. CASE ClockFollows(bs[k])
    BY <1>1, <2>1, <2>2, PromoteRow DEF ClockFollows
  <2>3. CASE ~ClockFollows(bs[k])
    BY <2>1, <2>3, LimitAssumption DEF Times
  <2>4. QED
    BY <2>2, <2>3
<1>4. ASSUME NEW u \in Tokens, Recent(u)
      PROVE  Charge(ms, u)
  <2> DEFINE k == leases[u].key
  <2>1. /\ k \in DOMAIN bs
        /\ bs[k].updated >= leases[u].at
        /\ u \in DOMAIN bs[k].pending \/ bs[k].used >= 1
    BY <1>1, <1>4 DEF Charge
  <2>2. leases[u] \in LeaseRecords /\ leases[u].at \in Times
    BY <1>4 DEF Recent, Unreleased, BudgetInv, LedgerTypeOK, LeaseRecords
  <2>3. bs[k].updated \in Times /\ bs[k].used \in Nat /\ promoted[k] \in BudgetRecords
        /\ promoted[k].updated \in Times /\ promoted[k].used \in Nat
    BY <1>1, <1>3, <2>1 DEF RowsOK, BudgetRecords
  <2>4. promoted[k].updated >= leases[u].at
    BY <1>3, <2>1, <2>2, <2>3, LimitAssumption DEF Times
  <2>5. latest \in Times /\ clock \in Times /\ clock <= latest /\ latest <= leases[u].at + Retention
    BY <1>4 DEF Recent, BudgetInv, LedgerTypeOK
  <2>6. ~(promoted[k].updated < clock - Retention)
    BY <2>2, <2>3, <2>4, <2>5, LimitAssumption DEF Times
  <2>7. k \in DOMAIN ms /\ ms[k] = promoted[k]
    BY <1>2, <2>1, <2>6
  <2>8. u \in DOMAIN promoted[k].pending \/ promoted[k].used >= 1
    BY <1>3, <2>1, <2>3
  <2> HIDE DEF promoted
  <2>9. QED
    BY <2>4, <2>7, <2>8 DEF Charge
<1>5. RowsOK(ms)
  BY <1>1, <1>2, <1>3 DEF RowsOK
<1>6. QED
  BY <1>4, <1>5 DEF ms, bs

-----------------------------------------------------------------------------
\* A row that carries a lease has a load.
LEMMA CarriedIsLoad ==
    ASSUME NEW b \in BudgetRecords, NEW u, u \in DOMAIN b.pending \/ b.used >= 1
    PROVE  Load(b) >= 1
<1>1. b.used \in Nat /\ b.pending \in PendingLeases
  BY DEF BudgetRecords
<1>2. IsFiniteSet(DOMAIN b.pending) /\ Cardinality(DOMAIN b.pending) \in Nat
  BY <1>1, PendingShape, FS_CardinalityType
<1>3. u \in DOMAIN b.pending => Cardinality(DOMAIN b.pending) # 0
  BY <1>2, FS_EmptySet
<1>4. QED
  BY <1>1, <1>2, <1>3 DEF Load

\* A recent lease leaves its key no room: the limit of reserve_budget is reached.
LEMMA RecentIsLoad ==
    ASSUME BudgetInv, NEW u \in Tokens, Recent(u)
    PROVE  Load(RowFor(leases[u].key)) >= 1
<1> DEFINE ms == Maintained(Migrated)
           k == leases[u].key
<1>1. RowsOK(ms) /\ Charge(ms, u)
  BY MaintainedRows
<1>2. RowFor(k) = ms[k] /\ ms[k] \in BudgetRecords
  BY <1>1 DEF RowFor, Charge, RowsOK
<1>3. u \in DOMAIN ms[k].pending \/ ms[k].used >= 1
  BY <1>1 DEF Charge
<1> HIDE DEF ms
<1>4. QED
  BY <1>2, <1>3, CarriedIsLoad

\* The load of a row is a number.
LEMMA LoadIsInt ==
    ASSUME NEW b \in BudgetRecords
    PROVE  Load(b) \in Int
<1>1. b.used \in Nat /\ b.pending \in PendingLeases
  BY DEF BudgetRecords
<1>2. Cardinality(DOMAIN b.pending) \in Nat
  BY <1>1, PendingShape, FS_CardinalityType
<1>3. QED
  BY <1>1, <1>2 DEF Load

\* The row that reserve_budget works on is well formed.
LEMMA RowForOK ==
    ASSUME BudgetInv, NEW k \in Keys
    PROVE  RowFor(k) \in BudgetRecords
<1>1. FreshBudget \in BudgetRecords
  BY EmptyPending DEF FreshBudget, BudgetRecords, BudgetInv, LedgerTypeOK
<1>2. QED
  BY <1>1, MaintainedRows DEF RowFor, RowsOK

\* A new lease for k, on a row that carries it, disturbs no other lease.
LEMMA GrantKeeps ==
    ASSUME BudgetInv, NEW k \in Keys, NEW t \in Tokens, NEW row \in BudgetRecords,
           NEW state \in {"held", "lost", "committed"},
           leases[t] = None, Load(RowFor(k)) < 1,
           row.updated = clock, t \in DOMAIN row.pending \/ row.used >= 1,
           Written(Put(Maintained(Migrated), k, row), confirmations),
           leases' = [leases EXCEPT ![t] = [key |-> k, at |-> clock, state |-> state]],
           UNCHANGED <<clock, issued, latest>>
    PROVE  BudgetInv'
<1> DEFINE ms == Maintained(Migrated)
<1>1. RowsOK(ms) /\ \A u \in Tokens : Recent(u) => Charge(ms, u)
  BY MaintainedRows
<1>2. budgets' = Put(ms, k, row) /\ confirmations' = confirmations /\ schema' = "2.2"
  BY DEF Written
<1> HIDE DEF ms
<1>3. DOMAIN budgets' = DOMAIN ms \cup {k} /\ budgets'[k] = row
      /\ \A j \in DOMAIN ms : j # k => budgets'[j] = ms[j]
  BY <1>2 DEF Put
<1>4. leases' \in [Tokens -> LeaseRecords \cup {None}]
      /\ leases'[t] = [key |-> k, at |-> clock, state |-> state]
      /\ \A u \in Tokens : u # t => leases'[u] = leases[u]
  BY DEF BudgetInv, LedgerTypeOK, LeaseRecords
<1>5. LedgerTypeOK'
  BY <1>1, <1>2, <1>3, <1>4 DEF BudgetInv, LedgerTypeOK, RowsOK
<1>6. ASSUME NEW u \in Tokens, Recent(u)'
      PROVE  Charge(budgets, u)'
  <2>1. CASE u = t
    <3>1. leases'[u].key = k /\ leases'[u].at = clock
      BY <1>4, <2>1
    <3>2. clock \in Times
      BY DEF BudgetInv, LedgerTypeOK
    <3>3. clock >= clock
      BY <3>2, LimitAssumption DEF Times
    <3>4. QED
      BY <1>3, <2>1, <3>1, <3>3 DEF Charge
  <2>2. CASE u # t
    <3>1. leases'[u] = leases[u] /\ Recent(u)
      BY <1>4, <1>6, <2>2 DEF Recent, Unreleased
    <3>2. Charge(ms, u) /\ Load(RowFor(leases[u].key)) >= 1
      BY <1>1, <3>1, RecentIsLoad
    <3>3. Load(RowFor(k)) \in Int
      BY RowForOK, LoadIsInt
    <3>4. leases[u].key # k
      BY <3>2, <3>3
    <3>5. QED
      BY <1>3, <3>1, <3>2, <3>4 DEF Charge
  <2>3. QED
    BY <2>1, <2>2
<1>7. QED
  BY <1>2, <1>5, <1>6 DEF BudgetInv

\* Reserving puts the token among the row's pending leases, under the present time.
LEMMA ReservedKeeps ==
    ASSUME BudgetInv, NEW k \in Keys, NEW t \in Tokens, NEW state \in {"held", "lost"},
           leases[t] = None, Load(RowFor(k)) < 1, Reserved(k, t, state),
           UNCHANGED <<clock, issued, latest>>
    PROVE  BudgetInv'
<1> DEFINE v == [reserved |-> clock, expires |-> clock + LeaseTtl]
           b == RowFor(k)
           row == [b EXCEPT !.updated = clock, !.pending = Put(@, t, v)]
<1>1. b \in BudgetRecords /\ b.pending \in PendingLeases
  BY RowForOK DEF BudgetRecords
<1>2. clock \in Times /\ v \in Reservations
  BY LimitAssumption DEF BudgetInv, LedgerTypeOK, Reservations, Times, Stamps
<1> HIDE DEF b, v
<1> DEFINE p == b.pending
<1>3. Put(p, t, v) \in PendingLeases /\ t \in DOMAIN Put(p, t, v)
  <2> HIDE DEF p
  <2>1. p \in PendingLeases
    BY <1>1 DEF p
  <2>2. DOMAIN Put(p, t, v) = DOMAIN p \cup {t}
    BY <1>2, <2>1, PendingPut, Zenon
  <2>3. Put(p, t, v) \in PendingLeases
    BY <1>2, <2>1, PendingPut, Zenon
  <2>4. QED
    BY <2>2, <2>3
<1>4. row \in BudgetRecords /\ row.updated = clock /\ t \in DOMAIN row.pending
  BY <1>1, <1>2, <1>3 DEF BudgetRecords
<1> HIDE DEF row
<1>5. Written(Put(Maintained(Migrated), k, row), confirmations)
      /\ leases' = [leases EXCEPT ![t] = [key |-> k, at |-> clock, state |-> state]]
  BY DEF Reserved, row, b, v
<1>6. QED
  BY <1>4, <1>5, GrantKeeps

LEMMA ConsumeKeeps ==
    ASSUME BudgetInv, NEW k \in Keys, NEW t \in Tokens, ConsumeBudget(k, t)
    PROVE  BudgetInv'
<1> DEFINE b == RowFor(k)
           row == [b EXCEPT !.used = @ + 1, !.updated = clock]
<1>1. b \in BudgetRecords /\ b.used \in Nat /\ clock \in Times
  BY RowForOK DEF BudgetRecords, BudgetInv, LedgerTypeOK
<1> HIDE DEF b
<1>2. row \in BudgetRecords /\ row.updated = clock /\ row.used >= 1
  <2> DEFINE n == b.used + 1
  <2>1. n \in Nat /\ n >= 1
    BY <1>1
  <2>2. row = [b EXCEPT !.used = n, !.updated = clock]
    OBVIOUS
  <2> HIDE DEF n, row
  <2>3. QED
    BY <1>1, <2>1, <2>2 DEF BudgetRecords
<1> HIDE DEF row
<1>3. Written(Put(Maintained(Migrated), k, row), confirmations)
      /\ leases' = [leases EXCEPT ![t] = [key |-> k, at |-> clock, state |-> "committed"]]
  BY DEF ConsumeBudget, row, b
<1>4. QED
  BY <1>2, <1>3, GrantKeeps DEF ConsumeBudget

\* The refused reservation writes the maintained rows.
LEMMA RefusedKeeps ==
    ASSUME BudgetInv, NEW k \in Keys, ReserveRefused(k)
    PROVE  BudgetInv'
<1>1. RowsOK(Maintained(Migrated))
      /\ \A u \in Tokens : Recent(u) => Charge(Maintained(Migrated), u)
  BY MaintainedRows
<1>2. budgets' = Maintained(Migrated) /\ confirmations' = confirmations /\ schema' = "2.2"
      /\ UNCHANGED <<clock, leases, issued, latest>>
  BY DEF ReserveRefused, Written
<1>3. LedgerTypeOK'
  BY <1>1, <1>2 DEF BudgetInv, LedgerTypeOK, RowsOK
<1>4. \A u \in Tokens : Recent(u)' => Charge(budgets, u)'
  BY <1>1, <1>2 DEF Recent, Unreleased, Charge
<1>5. QED
  BY <1>2, <1>3, <1>4 DEF BudgetInv

-----------------------------------------------------------------------------
\* The row that commit and release work on still carries every recent lease of the key.
LEMMA SettledCharge ==
    ASSUME BudgetInv, NEW k, Settleable(k)
    PROVE  /\ k \in Keys
           /\ SettledRow(k) \in BudgetRecords
           /\ SettledRow(k).updated <= clock
           /\ \A u \in Tokens : Recent(u) /\ leases[u].key = k =>
                /\ SettledRow(k).updated >= leases[u].at
                /\ u \in DOMAIN SettledRow(k).pending \/ SettledRow(k).used >= 1
<1> DEFINE m == Migrated[k]
           b == Promote(m)
<1>1. RowsOK(Migrated) /\ (\A u \in Tokens : Recent(u) => Charge(Migrated, u)) /\ clock \in Times
  BY MigratedRows DEF BudgetInv, LedgerTypeOK
<1>2. k \in DOMAIN Migrated /\ k \in Keys /\ m \in BudgetRecords /\ clock >= m.updated
  BY <1>1 DEF Settleable, RowsOK, ClockFollows
<1> HIDE DEF m
<1>3. /\ b \in BudgetRecords
      /\ b.used >= m.used
      /\ b.updated >= m.updated
      /\ b.updated <= clock
      /\ \A u \in DOMAIN m.pending : u \in DOMAIN b.pending \/ b.used >= 1
  BY <1>1, <1>2, PromoteRow
<1> HIDE DEF b
<1>4. m.used \in Nat /\ m.updated \in Times /\ b.used \in Nat /\ b.updated \in Times
  BY <1>2, <1>3 DEF BudgetRecords
<1>5. ASSUME NEW u \in Tokens, Recent(u), leases[u].key = k
      PROVE  b.updated >= leases[u].at /\ (u \in DOMAIN b.pending \/ b.used >= 1)
  <2>1. m.updated >= leases[u].at /\ (u \in DOMAIN m.pending \/ m.used >= 1)
    BY <1>1, <1>5 DEF Charge, m
  <2>2. leases[u].at \in Times
    BY <1>5 DEF Recent, Unreleased, BudgetInv, LedgerTypeOK, LeaseRecords
  <2>3. QED
    BY <1>3, <1>4, <2>1, <2>2, LimitAssumption DEF Times
<1>6. QED
  BY <1>2, <1>3, <1>5 DEF SettledRow, b, m

(***************************************************************************)
(* Writing back one row for k keeps the invariant when the row carries     *)
(* every recent lease of k as the leases are afterwards.                   *)
(***************************************************************************)
LEMMA RowWritten ==
    ASSUME BudgetInv, NEW k \in DOMAIN Migrated, NEW row \in BudgetRecords,
           Written([Migrated EXCEPT ![k] = row], confirmations),
           leases' \in [Tokens -> LeaseRecords \cup {None}],
           UNCHANGED <<clock, issued, latest>>,
           \A u \in Tokens : Recent(u)' =>
             \/ /\ leases'[u].key = k
                /\ row.updated >= leases'[u].at
                /\ u \in DOMAIN row.pending \/ row.used >= 1
             \/ Recent(u) /\ leases'[u] = leases[u] /\ leases[u].key # k
    PROVE  BudgetInv'
<1>1. RowsOK(Migrated) /\ \A u \in Tokens : Recent(u) => Charge(Migrated, u)
  BY MigratedRows
<1>2. budgets' = [Migrated EXCEPT ![k] = row] /\ confirmations' = confirmations /\ schema' = "2.2"
  BY DEF Written
<1>3. DOMAIN budgets' = DOMAIN Migrated /\ budgets'[k] = row
      /\ \A j \in DOMAIN Migrated : j # k => budgets'[j] = Migrated[j]
  BY <1>2
<1>4. LedgerTypeOK'
  BY <1>1, <1>2, <1>3 DEF BudgetInv, LedgerTypeOK, RowsOK
<1>5. ASSUME NEW u \in Tokens, Recent(u)'
      PROVE  Charge(budgets, u)'
  <2>1. CASE leases'[u].key = k
    BY <1>3, <1>5, <2>1 DEF Charge
  <2>2. CASE leases'[u].key # k
    BY <1>1, <1>3, <1>5, <2>2 DEF Charge
  <2>3. QED
    BY <2>1, <2>2
<1>6. QED
  BY <1>2, <1>4, <1>5 DEF BudgetInv

\* A commit or a release takes the token out of the row and stamps the row.
LEMMA WithoutRow ==
    ASSUME BudgetInv, NEW b \in BudgetRecords, NEW t
    PROVE  /\ Without(b, t) \in BudgetRecords
           /\ Without(b, t).used = b.used
           /\ Without(b, t).updated = clock
           /\ DOMAIN Without(b, t).pending = DOMAIN b.pending \ {t}
<1> DEFINE p == Restrict(b.pending, DOMAIN b.pending \ {t})
<1>1. p \in PendingLeases /\ DOMAIN p = DOMAIN b.pending \ {t}
  BY PendingRestrict DEF BudgetRecords
<1> HIDE DEF p
<1>2. Without(b, t) = [b EXCEPT !.pending = p, !.updated = clock]
  BY DEF Without, p
<1>3. clock \in Times
  BY DEF BudgetInv, LedgerTypeOK
<1>4. QED
  BY <1>1, <1>2, <1>3 DEF BudgetRecords

LEMMA CommitKeeps ==
    ASSUME BudgetInv, NEW t \in Tokens, leases[t] # None, Commit(leases[t].key, t)
    PROVE  BudgetInv'
<1> DEFINE k == leases[t].key
           b == Without(SettledRow(k), t)
           n == b.used + 1
           row == [b EXCEPT !.used = n]
<1>1. Settleable(k) /\ k \in DOMAIN Migrated
  BY DEF Commit, IsPending, Settleable
<1>2. b \in BudgetRecords /\ b.updated = clock /\ b.used \in Nat
  BY <1>1, SettledCharge, WithoutRow DEF BudgetRecords
<1>3. Written([Migrated EXCEPT ![k] = row], confirmations)
      /\ leases' = [leases EXCEPT ![t] = [@ EXCEPT !.state = "committed", !.at = clock]]
      /\ UNCHANGED <<clock, issued, latest>>
  BY DEF Commit
<1> HIDE DEF b
<1>4. n \in Nat /\ n >= 1
  BY <1>2
<1> HIDE DEF n
<1>5. row \in BudgetRecords /\ row.updated = clock /\ row.used >= 1
  BY <1>2, <1>4 DEF BudgetRecords
<1> HIDE DEF row
<1>6. clock \in Times /\ leases[t] \in LeaseRecords
  BY DEF BudgetInv, LedgerTypeOK
<1>7. leases' \in [Tokens -> LeaseRecords \cup {None}]
      /\ leases'[t].key = k /\ leases'[t].at = clock
      /\ \A u \in Tokens : u # t => leases'[u] = leases[u]
  BY <1>3, <1>6 DEF BudgetInv, LedgerTypeOK, LeaseRecords
<1>8. ASSUME NEW u \in Tokens, Recent(u)'
      PROVE  \/ /\ leases'[u].key = k
                /\ row.updated >= leases'[u].at
                /\ u \in DOMAIN row.pending \/ row.used >= 1
             \/ Recent(u) /\ leases'[u] = leases[u] /\ leases[u].key # k
  <2>1. CASE u = t
    BY <1>5, <1>6, <1>7, <2>1, LimitAssumption DEF Times
  <2>2. CASE u # t
    <3>1. leases'[u] = leases[u] /\ Recent(u)
      BY <1>3, <1>7, <1>8, <2>2 DEF Recent, Unreleased
    <3>2. CASE leases[u].key = k
      <4>1. SettledRow(k).updated >= leases[u].at /\ SettledRow(k).updated <= clock
            /\ SettledRow(k).updated \in Times
        BY <1>1, <3>1, <3>2, SettledCharge DEF BudgetRecords
      <4>2. leases[u].at \in Times
        BY <3>1 DEF Recent, Unreleased, BudgetInv, LedgerTypeOK, LeaseRecords
      <4>3. QED
        BY <1>5, <1>6, <3>1, <3>2, <4>1, <4>2, LimitAssumption DEF Times
    <3>3. QED
      BY <3>1, <3>2
  <2>3. QED
    BY <2>1, <2>2
<1>9. QED
  BY <1>1, <1>3, <1>5, <1>7, <1>8, RowWritten

\* The only row a release removes is one that carries no other lease.
LEMMA ReleaseKeeps ==
    ASSUME BudgetInv, NEW t \in Tokens, leases[t] # None, Release(leases[t].key, t)
    PROVE  BudgetInv'
<1> DEFINE k == leases[t].key
           s == SettledRow(k)
           b == Without(s, t)
<1>1. Settleable(k) /\ k \in DOMAIN Migrated
  BY DEF Release, IsPending, Settleable
<1>2. s \in BudgetRecords /\ s.updated <= clock /\ s.updated \in Times
  BY <1>1, SettledCharge DEF BudgetRecords
<1>3. b \in BudgetRecords /\ b.updated = clock /\ b.used = s.used
      /\ DOMAIN b.pending = DOMAIN s.pending \ {t}
  BY <1>2, WithoutRow
<1>4. leases' = [leases EXCEPT ![t] = [@ EXCEPT !.state = "released"]]
      /\ UNCHANGED <<clock, issued, latest>>
  BY DEF Release
<1>5. Written(IF b.used = 0 /\ b.pending = Empty
                THEN Restrict(Migrated, DOMAIN Migrated \ {k})
                ELSE [Migrated EXCEPT ![k] = b], confirmations)
  BY DEF Release
<1> HIDE DEF b
<1>6. clock \in Times /\ leases[t] \in LeaseRecords
  BY DEF BudgetInv, LedgerTypeOK
<1>7. leases' \in [Tokens -> LeaseRecords \cup {None}] /\ leases'[t].state = "released"
      /\ \A u \in Tokens : u # t => leases'[u] = leases[u]
  BY <1>4, <1>6 DEF BudgetInv, LedgerTypeOK, LeaseRecords
<1>8. ASSUME NEW u \in Tokens, Recent(u)'
      PROVE  u # t /\ leases'[u] = leases[u] /\ Recent(u)
  BY <1>4, <1>7, <1>8 DEF Recent, Unreleased
<1>9. ASSUME NEW u \in Tokens, Recent(u)', leases[u].key = k
      PROVE  b.updated >= leases[u].at /\ (u \in DOMAIN b.pending \/ b.used >= 1)
  <2>1. u # t /\ Recent(u)
    BY <1>8, <1>9
  <2>2. s.updated >= leases[u].at /\ (u \in DOMAIN s.pending \/ s.used >= 1)
    BY <1>1, <1>9, <2>1, SettledCharge
  <2>3. leases[u].at \in Times
    BY <2>1 DEF Recent, Unreleased, BudgetInv, LedgerTypeOK, LeaseRecords
  <2>4. QED
    BY <1>2, <1>3, <1>6, <2>1, <2>2, <2>3, LimitAssumption DEF Times
<1>10. CASE b.used = 0 /\ b.pending = Empty
  <2>1. budgets' = Restrict(Migrated, DOMAIN Migrated \ {k}) /\ confirmations' = confirmations
        /\ schema' = "2.2"
    BY <1>5, <1>10 DEF Written
  <2>2. DOMAIN budgets' = DOMAIN Migrated \ {k}
        /\ \A j \in DOMAIN budgets' : budgets'[j] = Migrated[j]
    BY <2>1 DEF Restrict
  <2>3. RowsOK(Migrated) /\ \A u \in Tokens : Recent(u) => Charge(Migrated, u)
    BY MigratedRows
  <2>4. LedgerTypeOK'
    BY <1>4, <1>7, <2>1, <2>2, <2>3 DEF BudgetInv, LedgerTypeOK, RowsOK
  <2>5. ASSUME NEW u \in Tokens, Recent(u)'
        PROVE  Charge(budgets, u)'
    <3>1. leases'[u] = leases[u] /\ Charge(Migrated, u)
      BY <1>8, <2>3, <2>5
    <3>2. leases[u].key # k
      BY <1>9, <1>10, <2>5, EmptyPending
    <3>3. QED
      BY <2>2, <3>1, <3>2 DEF Charge
  <2>6. QED
    BY <1>4, <2>1, <2>4, <2>5 DEF BudgetInv
<1>11. CASE ~(b.used = 0 /\ b.pending = Empty)
  <2>1. Written([Migrated EXCEPT ![k] = b], confirmations)
    BY <1>5, <1>11
  <2>2. QED
    BY <1>1, <1>3, <1>4, <1>7, <1>8, <1>9, <2>1, RowWritten
<1>12. QED
  BY <1>10, <1>11

LEMMA MissingKeeps ==
    ASSUME BudgetInv, NEW k, NEW t, SettleMissing(k, t)
    PROVE  BudgetInv'
<1>1. Settleable(k) /\ k \in DOMAIN Migrated /\ SettledRow(k) \in BudgetRecords
  BY SettledCharge DEF SettleMissing, Settleable
<1>2. Written([Migrated EXCEPT ![k] = SettledRow(k)], confirmations)
      /\ UNCHANGED <<clock, leases, issued, latest>>
  BY DEF SettleMissing
<1>3. leases' \in [Tokens -> LeaseRecords \cup {None}]
  BY <1>2 DEF BudgetInv, LedgerTypeOK
<1>4. \A u \in Tokens : Recent(u)' => Recent(u) /\ leases'[u] = leases[u]
  BY <1>2 DEF Recent, Unreleased
<1>5. QED
  BY <1>1, <1>2, <1>3, <1>4, SettledCharge, RowWritten

(***************************************************************************)
(* The ticket operations write the migrated rows and typed tickets.        *)
(***************************************************************************)
LEMMA TicketWritten ==
    ASSUME BudgetInv, NEW cs, Written(Migrated, cs),
           DOMAIN cs \subseteq Tickets, \A t \in DOMAIN cs : cs[t] \in TicketRecords,
           issued' \in [Tickets -> IssueRecords \cup {None}],
           UNCHANGED <<clock, leases, latest>>
    PROVE  BudgetInv'
<1>1. RowsOK(Migrated) /\ \A u \in Tokens : Recent(u) => Charge(Migrated, u)
  BY MigratedRows
<1>2. budgets' = Migrated /\ confirmations' = cs /\ schema' = "2.2"
  BY DEF Written
<1>3. LedgerTypeOK'
  BY <1>1, <1>2 DEF BudgetInv, LedgerTypeOK, RowsOK
<1>4. \A u \in Tokens : Recent(u)' => Charge(budgets, u)'
  BY <1>1, <1>2 DEF Recent, Unreleased, Charge
<1>5. QED
  BY <1>2, <1>3, <1>4 DEF BudgetInv

LEMMA IssueKeeps ==
    ASSUME BudgetInv, NEW t \in Tickets, NEW binding \in Bindings,
           NEW state \in {"open", "lost"}, IssueConfirmation(t, binding, state)
    PROVE  BudgetInv'
<1> DEFINE c == [binding |-> binding, issued |-> clock,
                 expires |-> clock + TicketTtl, consumed |-> None]
           i == [expires |-> clock + TicketTtl, accepted |-> 0, state |-> state]
<1>1. PICK kept \in SUBSET DOMAIN confirmations :
        Written(Migrated, Put(Restrict(confirmations, kept), t, c))
  BY DEF IssueConfirmation
<1>2. clock \in Times /\ clock + TicketTtl \in Stamps
  BY LimitAssumption DEF BudgetInv, LedgerTypeOK, Times, Stamps
<1>3. c \in TicketRecords /\ i \in IssueRecords
  BY <1>2 DEF TicketRecords, IssueRecords
<1>4. issued' = [issued EXCEPT ![t] = i] /\ UNCHANGED <<clock, leases, latest>>
  BY DEF IssueConfirmation
<1> HIDE DEF c, i
<1> DEFINE cs == Put(Restrict(confirmations, kept), t, c)
<1>5. DOMAIN cs = kept \cup {t} /\ cs[t] = c /\ \A u \in kept : u # t => cs[u] = confirmations[u]
  BY DEF Put, Restrict
<1> HIDE DEF cs
<1>6. DOMAIN cs \subseteq Tickets /\ \A u \in DOMAIN cs : cs[u] \in TicketRecords
  BY <1>3, <1>5 DEF BudgetInv, LedgerTypeOK
<1>7. issued' \in [Tickets -> IssueRecords \cup {None}]
  BY <1>3, <1>4 DEF BudgetInv, LedgerTypeOK
<1>8. Written(Migrated, cs)
  BY <1>1 DEF cs
<1>9. QED
  BY <1>4, <1>6, <1>7, <1>8, TicketWritten

LEMMA AcceptKeeps ==
    ASSUME BudgetInv, NEW t \in Tickets, NEW binding, ConsumeConfirmation(t, binding)
    PROVE  BudgetInv'
<1> DEFINE cs == [confirmations EXCEPT ![t].consumed = clock]
           n == issued[t].accepted + 1
<1>1. t \in DOMAIN confirmations /\ issued[t] # None /\ clock \in Times
  BY DEF ConsumeConfirmation, Consumable, BudgetInv, LedgerTypeOK
<1>2. DOMAIN cs = DOMAIN confirmations
      /\ cs[t] = [confirmations[t] EXCEPT !.consumed = clock]
      /\ \A u \in DOMAIN confirmations : u # t => cs[u] = confirmations[u]
  BY <1>1
<1>3. cs[t] \in TicketRecords
  BY <1>1, <1>2 DEF BudgetInv, LedgerTypeOK, TicketRecords
<1>4. Written(Migrated, cs) /\ UNCHANGED <<clock, leases, latest>>
  BY DEF ConsumeConfirmation
<1> HIDE DEF cs
<1>5. DOMAIN cs \subseteq Tickets /\ \A u \in DOMAIN cs : cs[u] \in TicketRecords
  BY <1>2, <1>3 DEF BudgetInv, LedgerTypeOK
<1>6. issued[t] \in IssueRecords /\ n \in Nat
  BY <1>1 DEF BudgetInv, LedgerTypeOK, IssueRecords
<1> HIDE DEF n
<1>7. [issued[t] EXCEPT !.accepted = n] \in IssueRecords
      /\ [issued[t] EXCEPT !.state = "burned"] \in IssueRecords
  BY <1>6 DEF IssueRecords
<1>8. issued' = [issued EXCEPT ![t] = [issued[t] EXCEPT !.accepted = n]]
      \/ issued' = [issued EXCEPT ![t] = [issued[t] EXCEPT !.state = "burned"]]
  BY DEF ConsumeConfirmation, n
<1>9. issued' \in [Tickets -> IssueRecords \cup {None}]
  BY <1>7, <1>8 DEF BudgetInv, LedgerTypeOK
<1>10. QED
  BY <1>4, <1>5, <1>9, TicketWritten

\* Time passes: fewer leases are recent, and nothing stored changes.
LEMMA TimeKeeps ==
    ASSUME BudgetInv, Tick \/ SetBack
    PROVE  BudgetInv'
<1>1. UNCHANGED <<schema, budgets, confirmations, leases, issued>>
  BY DEF Tick, SetBack
<1>2. clock \in Times /\ latest \in Times /\ clock <= latest
  BY DEF BudgetInv, LedgerTypeOK
<1>3. clock' \in Times /\ latest' \in Times /\ clock' <= latest' /\ latest <= latest'
  <2>1. CASE Tick
    BY <1>2, <2>1, LimitAssumption DEF Tick, Times
  <2>2. CASE SetBack
    BY <1>2, <2>2, LimitAssumption DEF SetBack, Times
  <2>3. QED
    BY <2>1, <2>2
<1>4. LedgerTypeOK'
  BY <1>1, <1>3 DEF BudgetInv, LedgerTypeOK
<1>5. ASSUME NEW u \in Tokens, Recent(u)'
      PROVE  Recent(u)
  <2>1. leases[u] # None /\ leases[u].at \in Times
    BY <1>1, <1>5 DEF Recent, Unreleased, BudgetInv, LedgerTypeOK, LeaseRecords
  <2>2. QED
    BY <1>1, <1>2, <1>3, <1>5, <2>1, LimitAssumption DEF Recent, Unreleased, Times
<1>6. \A u \in Tokens : Recent(u)' => Charge(budgets, u)'
  BY <1>1, <1>5 DEF BudgetInv, Charge
<1>7. QED
  BY <1>1, <1>3, <1>4, <1>6 DEF BudgetInv

LEMMA LedgerInitInv == LedgerInit => BudgetInv /\ TicketInv
<1> SUFFICES ASSUME LedgerInit PROVE BudgetInv /\ TicketInv
  OBVIOUS
<1>1. PICK K \in SUBSET Keys :
        budgets \in [K -> [used : LegacyUses, updated : Times, pending : {Empty}]]
  BY DEF LedgerInit
<1>2. DOMAIN budgets \subseteq Keys /\ \A k \in DOMAIN budgets : budgets[k] \in BudgetRecords
  BY <1>1, EmptyPending, LimitAssumption DEF BudgetRecords
<1>3. LedgerTypeOK
  BY <1>2 DEF LedgerInit, LedgerTypeOK, Empty
<1>4. clock <= latest
  BY <1>3, LimitAssumption DEF LedgerInit, Times
<1>5. \A u \in Tokens : ~Recent(u)
  BY DEF LedgerInit, Recent, Unreleased
<1>6. TicketInv
  BY DEF LedgerInit, TicketInv
<1>7. QED
  BY <1>3, <1>4, <1>5, <1>6 DEF BudgetInv, LedgerInit

LEMMA BudgetStep == BudgetInv /\ [LedgerNext]_ledgerVars => BudgetInv'
<1> SUFFICES ASSUME BudgetInv, [LedgerNext]_ledgerVars PROVE BudgetInv'
  OBVIOUS
<1>1. ASSUME NEW k \in Keys, NEW t \in Tokens,
             Reserve(k, t) \/ ReserveLost(k, t) \/ ConsumeBudget(k, t)
      PROVE  BudgetInv'
  <2>1. CASE Reserve(k, t)
    BY <2>1, ReservedKeeps DEF Reserve
  <2>2. CASE ReserveLost(k, t)
    BY <2>2, ReservedKeeps DEF ReserveLost
  <2>3. CASE ConsumeBudget(k, t)
    BY <2>3, ConsumeKeeps
  <2>4. QED
    BY <1>1, <2>1, <2>2, <2>3
<1>2. ASSUME NEW t \in Tokens, Settle(t)
      PROVE  BudgetInv'
  <2> DEFINE k == leases[t].key
  <2>1. leases[t] # None /\ (Commit(k, t) \/ Release(k, t) \/ SettleMissing(k, t))
    BY <1>2 DEF Settle
  <2>2. CASE Commit(k, t)
    BY <2>1, <2>2, CommitKeeps
  <2>3. CASE Release(k, t)
    BY <2>1, <2>3, ReleaseKeeps
  <2>4. CASE SettleMissing(k, t)
    BY <2>4, MissingKeeps
  <2>5. QED
    BY <2>1, <2>2, <2>3, <2>4
<1>3. CASE UNCHANGED ledgerVars
  BY <1>3 DEF ledgerVars, BudgetInv, LedgerTypeOK, Recent, Unreleased, Charge
<1>4. CASE LedgerNext
  BY <1>1, <1>2, <1>4, RefusedKeeps, IssueKeeps, AcceptKeeps, TimeKeeps DEF LedgerNext, TicketNext
<1>5. QED
  BY <1>3, <1>4

-----------------------------------------------------------------------------
\* Pruning removes consumed tickets and expired ones, and no other.
LEMMA PrunedTerminal ==
    ASSUME NEW kept \in SUBSET DOMAIN confirmations, Pruned(kept)
    PROVE  DOMAIN confirmations \ kept \subseteq Terminal
<1>1. Outdated \subseteq Terminal
  BY DEF Outdated
<1>2. \A n : \A E \in Evictable(n) : E \subseteq Terminal
  BY DEF Evictable
<1>3. kept = DOMAIN confirmations \ Outdated
      \/ \E n : \E E \in Evictable(n) : kept = (DOMAIN confirmations \ Outdated) \ E
  BY DEF Pruned
<1>4. QED
  BY <1>1, <1>2, <1>3

LEMMA TicketIssued ==
    ASSUME BudgetInv, TicketInv, NEW t \in Tickets, NEW binding \in Bindings,
           NEW state \in {"open", "lost"}, IssueConfirmation(t, binding, state)
    PROVE  TicketInv'
<1> DEFINE c == [binding |-> binding, issued |-> clock,
                 expires |-> clock + TicketTtl, consumed |-> None]
           i == [expires |-> clock + TicketTtl, accepted |-> 0, state |-> state]
<1>1. PICK kept \in SUBSET DOMAIN confirmations :
        Pruned(kept) /\ Written(Migrated, Put(Restrict(confirmations, kept), t, c))
  BY DEF IssueConfirmation
<1>2. issued' = [issued EXCEPT ![t] = i] /\ latest' = latest
  BY DEF IssueConfirmation
<1>3. c.consumed = None /\ c.expires = i.expires /\ i.accepted = 0
  OBVIOUS
<1> HIDE DEF c, i
<1>4. DOMAIN confirmations' = kept \cup {t} /\ confirmations'[t] = c
      /\ \A u \in kept : u # t => confirmations'[u] = confirmations[u]
  BY <1>1 DEF Written, Put, Restrict
<1>5. issued'[t] = i /\ \A u \in Tickets : u # t => issued'[u] = issued[u]
  BY <1>2 DEF BudgetInv, LedgerTypeOK
<1>6. clock \in Times /\ latest \in Times /\ clock <= latest
  BY DEF BudgetInv, LedgerTypeOK
<1>7. ASSUME NEW u \in Tickets, u # t, u \in DOMAIN confirmations,
             confirmations[u].consumed = None, latest <= confirmations[u].expires
      PROVE  u \in kept
  <2>1. confirmations[u].expires \in Stamps
    BY <1>7 DEF BudgetInv, LedgerTypeOK, TicketRecords
  <2>2. ~(confirmations[u].expires < clock)
    BY <1>6, <1>7, <2>1, LimitAssumption DEF Times, Stamps
  <2>3. u \notin Terminal
    BY <1>7, <2>2 DEF Terminal
  <2>4. QED
    BY <1>1, <1>7, <2>3, PrunedTerminal
<1>8. ASSUME NEW u \in Tickets, issued'[u] # None
      PROVE  /\ issued'[u].accepted <= 1
             /\ issued'[u].accepted >= 1 /\ u \in DOMAIN confirmations' =>
                  confirmations'[u].consumed # None
             /\ issued'[u].state = "open" /\ issued'[u].accepted = 0
                /\ latest' <= issued'[u].expires =>
                  /\ u \in DOMAIN confirmations'
                  /\ confirmations'[u].consumed = None
                  /\ confirmations'[u].expires = issued'[u].expires
  <2>1. CASE u = t
    BY <1>3, <1>4, <1>5, <2>1
  <2>2. CASE u # t
    <3>1. issued'[u] = issued[u] /\ (u \in DOMAIN confirmations' => u \in kept)
      BY <1>4, <1>5, <2>2
    <3>2. /\ issued[u].accepted <= 1
          /\ issued[u].accepted >= 1 /\ u \in DOMAIN confirmations =>
               confirmations[u].consumed # None
          /\ issued[u].state = "open" /\ issued[u].accepted = 0 /\ latest <= issued[u].expires =>
               /\ u \in DOMAIN confirmations
               /\ confirmations[u].consumed = None
               /\ confirmations[u].expires = issued[u].expires
      BY <1>8, <3>1 DEF TicketInv
    <3>3. QED
      BY <1>2, <1>4, <1>7, <2>2, <3>1, <3>2
  <2>3. QED
    BY <2>1, <2>2
<1>9. QED
  BY <1>8 DEF TicketInv

LEMMA TicketAccepted ==
    ASSUME BudgetInv, TicketInv, NEW t \in Tickets, NEW binding, ConsumeConfirmation(t, binding)
    PROVE  TicketInv'
<1> DEFINE n == issued[t].accepted + 1
<1>1. t \in DOMAIN confirmations /\ confirmations[t].consumed = None /\ issued[t] # None
      /\ clock \in Times /\ clock # None
  BY NoneAssumption DEF ConsumeConfirmation, Consumable, BudgetInv, LedgerTypeOK, Times
<1>2. DOMAIN confirmations' = DOMAIN confirmations
      /\ confirmations'[t].consumed = clock
      /\ \A u \in DOMAIN confirmations : u # t => confirmations'[u] = confirmations[u]
  BY <1>1 DEF ConsumeConfirmation, Written, BudgetInv, LedgerTypeOK, TicketRecords
<1>3. issued[t] \in IssueRecords /\ issued[t].accepted \in Nat /\ ~(issued[t].accepted >= 1)
  BY <1>1 DEF TicketInv, BudgetInv, LedgerTypeOK, IssueRecords
<1>4. n = 1
  BY <1>3
<1>5. issued' = [issued EXCEPT ![t] = [issued[t] EXCEPT !.accepted = n]]
      \/ issued' = [issued EXCEPT ![t] = [issued[t] EXCEPT !.state = "burned"]]
  BY DEF ConsumeConfirmation
<1> HIDE DEF n
<1>6. /\ \A u \in Tickets : u # t => issued'[u] = issued[u]
      /\ issued'[t].accepted = 1 \/ (issued'[t].accepted = 0 /\ issued'[t].state = "burned")
  BY <1>3, <1>4, <1>5 DEF BudgetInv, LedgerTypeOK, IssueRecords
<1>7. latest' = latest
  BY DEF ConsumeConfirmation
<1>8. ASSUME NEW u \in Tickets, issued'[u] # None
      PROVE  /\ issued'[u].accepted <= 1
             /\ issued'[u].accepted >= 1 /\ u \in DOMAIN confirmations' =>
                  confirmations'[u].consumed # None
             /\ issued'[u].state = "open" /\ issued'[u].accepted = 0
                /\ latest' <= issued'[u].expires =>
                  /\ u \in DOMAIN confirmations'
                  /\ confirmations'[u].consumed = None
                  /\ confirmations'[u].expires = issued'[u].expires
  <2>1. CASE u = t
    BY <1>1, <1>2, <1>6, <2>1
  <2>2. CASE u # t
    BY <1>2, <1>6, <1>7, <1>8, <2>2 DEF TicketInv
  <2>3. QED
    BY <2>1, <2>2
<1>9. QED
  BY <1>8 DEF TicketInv

\* The budget operations and the clock leave the tickets alone.
LEMMA TicketsUntouched ==
    ASSUME BudgetInv, TicketInv, UNCHANGED <<confirmations, issued>>,
           latest' \in Times, latest <= latest'
    PROVE  TicketInv'
<1>1. latest \in Times /\ issued \in [Tickets -> IssueRecords \cup {None}]
  BY DEF BudgetInv, LedgerTypeOK
<1>2. \A t \in Tickets : issued[t] # None /\ latest' <= issued[t].expires =>
        latest <= issued[t].expires
  BY <1>1, LimitAssumption DEF IssueRecords, Times, Stamps
<1>3. QED
  BY <1>2 DEF TicketInv

LEMMA TicketStep == BudgetInv /\ TicketInv /\ [LedgerNext]_ledgerVars => TicketInv'
<1> SUFFICES ASSUME BudgetInv, TicketInv, [LedgerNext]_ledgerVars PROVE TicketInv'
  OBVIOUS
<1>1. latest \in Times /\ latest <= latest
  BY LimitAssumption DEF BudgetInv, LedgerTypeOK, Times
<1>2. CASE UNCHANGED <<confirmations, issued, latest>>
  BY <1>1, <1>2, TicketsUntouched
<1>3. ASSUME NEW k \in Keys, NEW t \in Tokens,
             Reserve(k, t) \/ ReserveLost(k, t) \/ ConsumeBudget(k, t)
      PROVE  TicketInv'
  BY <1>2, <1>3 DEF Reserve, ReserveLost, ConsumeBudget, Reserved, Written
<1>4. ASSUME NEW k \in Keys, ReserveRefused(k)
      PROVE  TicketInv'
  BY <1>2, <1>4 DEF ReserveRefused, Written
<1>5. ASSUME NEW t \in Tokens, Settle(t)
      PROVE  TicketInv'
  BY <1>2, <1>5 DEF Settle, Commit, Release, SettleMissing, Written
<1>6. CASE Tick \/ SetBack
  <2>1. UNCHANGED <<confirmations, issued>>
    BY <1>6 DEF Tick, SetBack
  <2>2. latest' \in Times
    BY <1>6, TimeKeeps DEF BudgetInv, LedgerTypeOK
  <2>3. latest <= latest'
    BY <1>1, <1>6, <2>2, LimitAssumption DEF Tick, SetBack, Times, BudgetInv, LedgerTypeOK
  <2>4. QED
    BY <2>1, <2>2, <2>3, TicketsUntouched
<1>7. CASE UNCHANGED ledgerVars
  BY <1>2, <1>7 DEF ledgerVars
<1>8. CASE LedgerNext
  BY <1>3, <1>4, <1>5, <1>6, <1>8, TicketIssued, TicketAccepted DEF LedgerNext, TicketNext
<1>9. QED
  BY <1>7, <1>8

-----------------------------------------------------------------------------
\* A row without pending leases is as good as its use.
LEMMA RestingRow ==
    ASSUME NEW b \in BudgetRecords, b.pending = Empty
    PROVE  Load(b) = b.used /\ DOMAIN b.pending = {}
<1>1. DOMAIN b.pending = {} /\ b.used \in Nat
  BY EmptyPending DEF BudgetRecords
<1>2. QED
  BY <1>1, FS_EmptySet DEF Load

(***************************************************************************)
(* _promote_expired_pending moves load from the leases to the uses, so the *)
(* limit that held before holds after it, and no reservation is younger    *)
(* than its row.                                                           *)
(***************************************************************************)
LEMMA PromoteSound ==
    ASSUME NEW b \in BudgetRecords, RowSound(b), clock \in Times, clock >= b.updated
    PROVE  RowSound(Promote(b)) /\ Load(Promote(b)) = Load(b)
<1> DEFINE D == DOMAIN b.pending
           E == Expired(b)
           p == Restrict(b.pending, D \ E)
<1>1. b.used \in Nat /\ b.updated \in Times /\ b.pending \in PendingLeases
  BY DEF BudgetRecords
<1>2. IsFiniteSet(D) /\ \A t \in D : b.pending[t] \in Reservations
  BY <1>1, PendingShape
<1>3. CASE E = {}
  <2>1. Promote(b) = b
    BY <1>3 DEF Promote
  <2>2. Load(b) = Load(b)
    OBVIOUS
  <2>3. QED
    BY <2>1, <2>2
<1>4. CASE E # {}
  <2>1. E \subseteq D /\ IsFiniteSet(E)
    BY <1>2, FS_Subset DEF Expired
  <2>2. Cardinality(E) \in Nat /\ Cardinality(D) \in Nat
    BY <1>2, <2>1, FS_CardinalityType
  <2>3. D \cap E = E
    BY <2>1
  <2>4. Cardinality(D \ E) = Cardinality(D) - Cardinality(E)
    BY <1>2, <2>3, FS_Difference
  <2>5. Promote(b) = [used |-> b.used + Cardinality(E), updated |-> clock, pending |-> p]
    BY <1>4 DEF Promote
  <2>6. DOMAIN p = D \ E /\ \A t \in D \ E : p[t] = b.pending[t]
    BY DEF Restrict
  <2> HIDE DEF p, E
  <2>7. Load(Promote(b)) = Load(b)
    BY <1>1, <2>2, <2>4, <2>5, <2>6 DEF Load
  <2>8. b.pending # Empty
    BY <1>4, <2>1, EmptyPending
  <2>9. Load(Promote(b)) <= 1
    BY <2>7, <2>8 DEF RowSound
  <2>10. ASSUME NEW t \in D \ E
         PROVE  p[t].reserved <= clock /\ p[t].reserved < p[t].expires
    <3>1. b.pending[t].reserved <= b.updated /\ b.pending[t].reserved < b.pending[t].expires
          /\ b.pending[t].reserved \in Times
      BY <1>2 DEF RowSound, Reservations
    <3>2. QED
      BY <1>1, <2>6, <3>1, LimitAssumption DEF Times
  <2>11. RowSound(Promote(b))
    BY <2>5, <2>6, <2>9, <2>10 DEF RowSound
  <2>12. QED
    BY <2>7, <2>11
<1>5. QED
  BY <1>3, <1>4

\* Reading a file of any schema gives sound rows.
LEMMA MigratedSound ==
    ASSUME BudgetInv, FileInv
    PROVE  RowsSound(Migrated)
<1>1. CASE schema = "2.0"
  <2> SUFFICES ASSUME NEW k \in DOMAIN Migrated PROVE RowSound(Migrated[k])
    BY DEF RowsSound
  <2>1. k \in DOMAIN budgets /\ Migrated[k] = [budgets[k] EXCEPT !.updated = clock]
    BY <1>1 DEF Migrated
  <2>2. budgets[k] \in BudgetRecords /\ RowSound(budgets[k]) /\ budgets[k].pending = Empty
    BY <1>1, <2>1 DEF BudgetInv, LedgerTypeOK, FileInv, RowsSound
  <2>3. Migrated[k].used = budgets[k].used /\ Migrated[k].pending = budgets[k].pending
    BY <2>1, <2>2 DEF BudgetRecords
  <2>4. Load(Migrated[k]) = Load(budgets[k]) /\ DOMAIN Migrated[k].pending = {}
    BY <2>2, <2>3, EmptyPending DEF Load
  <2>5. QED
    BY <2>2, <2>3, <2>4 DEF RowSound
<1>2. CASE schema # "2.0"
  BY <1>2 DEF Migrated, FileInv
<1>3. QED
  BY <1>1, <1>2

LEMMA MaintainedSound ==
    ASSUME BudgetInv, FileInv
    PROVE  RowsSound(Maintained(Migrated))
<1> DEFINE bs == Migrated
           ms == Maintained(bs)
<1>1. RowsOK(bs) /\ RowsSound(bs) /\ clock \in Times
  BY MigratedRows, MigratedSound DEF BudgetInv, LedgerTypeOK
<1>2. \A k \in DOMAIN ms :
        k \in DOMAIN bs /\ ms[k] = IF ClockFollows(bs[k]) THEN Promote(bs[k]) ELSE bs[k]
  BY DEF Maintained, Restrict
<1> HIDE DEF bs, ms
<1>3. ASSUME NEW k \in DOMAIN ms PROVE RowSound(ms[k])
  <2>1. bs[k] \in BudgetRecords /\ RowSound(bs[k])
    BY <1>1, <1>2 DEF RowsOK, RowsSound
  <2>2. ClockFollows(bs[k]) => RowSound(Promote(bs[k]))
    BY <1>1, <2>1, PromoteSound DEF ClockFollows
  <2>3. QED
    BY <1>2, <2>1, <2>2
<1>4. QED
  BY <1>3 DEF RowsSound, ms, bs

\* A row that reserve_budget grants on is unused and has no pending lease.
LEMMA RowForSound ==
    ASSUME BudgetInv, FileInv, NEW k \in Keys, Load(RowFor(k)) < 1
    PROVE  RowFor(k).used = 0 /\ DOMAIN RowFor(k).pending = {}
<1> DEFINE b == RowFor(k)
<1>1. b \in BudgetRecords /\ b.used \in Nat /\ b.pending \in PendingLeases
  BY RowForOK DEF BudgetRecords
<1> HIDE DEF b
<1>2. IsFiniteSet(DOMAIN b.pending) /\ Cardinality(DOMAIN b.pending) \in Nat
  BY <1>1, PendingShape, FS_CardinalityType
<1>3. b.used = 0 /\ Cardinality(DOMAIN b.pending) = 0
  BY <1>1, <1>2 DEF Load, b
<1>4. QED
  BY <1>2, <1>3, FS_EmptySet DEF b

\* Replacing one row by a sound one.
LEMMA PutSound ==
    ASSUME NEW bs, RowsSound(bs), NEW k, NEW row, RowSound(row)
    PROVE  RowsSound(Put(bs, k, row))
BY DEF RowsSound, Put

LEMMA ReservedSound ==
    ASSUME BudgetInv, FileInv, NEW k \in Keys, NEW t \in Tokens, NEW state,
           Load(RowFor(k)) < 1, Reserved(k, t, state)
    PROVE  FileInv'
<1> DEFINE v == [reserved |-> clock, expires |-> clock + LeaseTtl]
           b == RowFor(k)
           q == Put(b.pending, t, v)
           row == [b EXCEPT !.updated = clock, !.pending = q]
<1>1. b \in BudgetRecords /\ b.used = 0 /\ DOMAIN b.pending = {}
  BY RowForOK, RowForSound
<1>2. clock \in Times /\ v.reserved = clock /\ v.expires = clock + LeaseTtl
  BY DEF BudgetInv, LedgerTypeOK
<1>3. Written(Put(Maintained(Migrated), k, row), confirmations)
  BY DEF Reserved
<1> HIDE DEF b, v
<1>4. DOMAIN q = {t} /\ q[t] = v
  BY <1>1 DEF Put
<1> HIDE DEF q
<1>5. row.used = 0 /\ row.updated = clock /\ row.pending = q
  BY <1>1 DEF BudgetRecords
<1>6. Load(row) = 1
  <2>1. Cardinality({t}) = 1
    BY FS_Singleton
  <2>2. QED
    BY <1>4, <1>5, <2>1 DEF Load
<1> HIDE DEF row
<1>7. RowSound(row)
  <2>1. v.reserved <= clock /\ v.reserved < v.expires
    BY <1>2, LimitAssumption DEF Times
  <2>2. QED
    BY <1>4, <1>5, <1>6, <2>1 DEF RowSound
<1>8. RowsSound(Put(Maintained(Migrated), k, row))
  BY <1>7, MaintainedSound, PutSound
<1>9. QED
  BY <1>3, <1>8 DEF Written, FileInv

LEMMA ConsumeSound ==
    ASSUME BudgetInv, FileInv, NEW k \in Keys, NEW t \in Tokens, ConsumeBudget(k, t)
    PROVE  FileInv'
<1> DEFINE b == RowFor(k)
           row == [b EXCEPT !.used = @ + 1, !.updated = clock]
<1>1. b \in BudgetRecords /\ b.used = 0 /\ DOMAIN b.pending = {}
  BY RowForOK, RowForSound DEF ConsumeBudget
<1>2. Written(Put(Maintained(Migrated), k, row), confirmations)
  BY DEF ConsumeBudget
<1> HIDE DEF b
<1>3. row.used = 1 /\ row.pending = b.pending
  BY <1>1 DEF BudgetRecords
<1> HIDE DEF row
<1>4. Load(row) = 1
  BY <1>1, <1>3, FS_EmptySet DEF Load
<1>5. RowsSound(Put(Maintained(Migrated), k, row))
  BY <1>1, <1>3, <1>4, MaintainedSound, PutSound DEF RowSound
<1>6. QED
  BY <1>2, <1>5 DEF Written, FileInv

-----------------------------------------------------------------------------
\* The row that commit and release work on is sound; with a pending lease its load is one.
LEMMA SettledSound ==
    ASSUME BudgetInv, FileInv, NEW k, Settleable(k)
    PROVE  /\ SettledRow(k) \in BudgetRecords
           /\ SettledRow(k).updated <= clock
           /\ RowSound(SettledRow(k))
<1>1. Migrated[k] \in BudgetRecords /\ RowSound(Migrated[k])
      /\ clock \in Times /\ clock >= Migrated[k].updated
  BY MigratedRows, MigratedSound
     DEF Settleable, RowsOK, RowsSound, ClockFollows, BudgetInv, LedgerTypeOK
<1>2. RowSound(Promote(Migrated[k]))
  BY <1>1, PromoteSound
<1>3. QED
  BY <1>2, SettledCharge DEF SettledRow

\* Taking out a pending lease empties the row's pending leases.
LEMMA WithoutSound ==
    ASSUME BudgetInv, NEW b \in BudgetRecords, RowSound(b), NEW t \in DOMAIN b.pending
    PROVE  /\ b.used = 0 /\ DOMAIN b.pending = {t}
           /\ Without(b, t) \in BudgetRecords
           /\ Without(b, t).used = 0
           /\ DOMAIN Without(b, t).pending = {}
<1>1. b.used \in Nat /\ b.pending \in PendingLeases /\ b.pending # Empty
  BY EmptyPending DEF BudgetRecords
<1> DEFINE D == DOMAIN b.pending
<1>2. IsFiniteSet(D) /\ Cardinality(D) \in Nat
  BY <1>1, PendingShape, FS_CardinalityType
<1>3. Cardinality(D) # 0
  BY <1>2, FS_EmptySet
<1>4. b.used + Cardinality(D) <= 1
  BY <1>1 DEF RowSound, Load
<1>5. b.used = 0 /\ Cardinality(D) = 1
  BY <1>1, <1>2, <1>3, <1>4
<1>6. PICK x : D = {x}
  BY <1>2, <1>5, FS_Singleton
<1>7. D = {t}
  BY <1>6
<1>8. QED
  BY <1>5, <1>7, WithoutRow

LEMMA SettleSound ==
    ASSUME BudgetInv, FileInv, NEW t \in Tokens, Settle(t)
    PROVE  FileInv'
<1> DEFINE k == leases[t].key
           b == SettledRow(k)
           w == Without(b, t)
<1>1. Commit(k, t) \/ Release(k, t) \/ SettleMissing(k, t)
  BY DEF Settle
<1>2. Settleable(k) /\ k \in DOMAIN Migrated
  BY <1>1 DEF Commit, Release, SettleMissing, IsPending, Settleable
<1>3. b \in BudgetRecords /\ RowSound(b)
  BY <1>2, SettledSound
<1>4. RowsSound(Migrated)
  BY MigratedSound
<1>5. ASSUME NEW row, RowSound(row) PROVE RowsSound([Migrated EXCEPT ![k] = row])
  BY <1>4, <1>5 DEF RowsSound
<1>6. ASSUME t \in DOMAIN b.pending
      PROVE  w \in BudgetRecords /\ w.used = 0 /\ DOMAIN w.pending = {}
  <2> HIDE DEF b
  <2>1. QED
    BY <1>3, <1>6, WithoutSound
<1> HIDE DEF b
<1>7. CASE Commit(k, t)
  <2> DEFINE row == [w EXCEPT !.used = @ + 1]
  <2>1. w \in BudgetRecords /\ w.used = 0 /\ DOMAIN w.pending = {}
    BY <1>6, <1>7 DEF Commit, IsPending, b
  <2>2. Written([Migrated EXCEPT ![k] = row], confirmations)
    BY <1>7 DEF Commit, b
  <2> HIDE DEF w
  <2>3. row.used = 1 /\ DOMAIN row.pending = {}
    BY <2>1 DEF BudgetRecords
  <2> HIDE DEF row
  <2>4. Load(row) = 1
    BY <2>3, FS_EmptySet DEF Load
  <2>5. RowSound(row)
    BY <2>3, <2>4 DEF RowSound
  <2>6. QED
    BY <1>5, <2>2, <2>5 DEF Written, FileInv
<1>8. CASE Release(k, t)
  <2>1. w.used = 0 /\ DOMAIN w.pending = {}
    BY <1>6, <1>8 DEF Release, IsPending, b
  <2>2. Written(IF w.used = 0 /\ w.pending = Empty
                  THEN Restrict(Migrated, DOMAIN Migrated \ {k})
                  ELSE [Migrated EXCEPT ![k] = w], confirmations)
    BY <1>8 DEF Release, b
  <2> HIDE DEF w
  <2>3. RowSound(w)
    BY <2>1, FS_EmptySet DEF RowSound, Load
  <2>4. RowsSound(Restrict(Migrated, DOMAIN Migrated \ {k}))
    BY <1>4 DEF RowsSound, Restrict
  <2>5. RowsSound([Migrated EXCEPT ![k] = w])
    BY <1>5, <2>3
  <2>6. QED
    BY <2>2, <2>4, <2>5 DEF Written, FileInv
<1>9. CASE SettleMissing(k, t)
  BY <1>3, <1>5, <1>9 DEF SettleMissing, Written, FileInv, b
<1>10. QED
  BY <1>1, <1>7, <1>8, <1>9

LEMMA TicketsSound ==
    ASSUME BudgetInv, FileInv, NEW t \in Tickets, NEW binding \in Bindings,
           \/ IssueConfirmation(t, binding, "open") \/ IssueConfirmation(t, binding, "lost")
           \/ ConsumeConfirmation(t, binding)
    PROVE  FileInv'
<1>1. RowsSound(Migrated) /\ clock \in Times /\ None \notin Int
  BY MigratedSound, NoneAssumption DEF BudgetInv, LedgerTypeOK
<1>2. ASSUME NEW state, IssueConfirmation(t, binding, state) PROVE FileInv'
  <2> DEFINE c == [binding |-> binding, issued |-> clock,
                   expires |-> clock + TicketTtl, consumed |-> None]
  <2>1. PICK kept \in SUBSET DOMAIN confirmations :
          Written(Migrated, Put(Restrict(confirmations, kept), t, c))
    BY <1>2 DEF IssueConfirmation
  <2>2. TicketSound(c)
    BY <1>1, LimitAssumption DEF TicketSound, Times
  <2> HIDE DEF c
  <2>3. DOMAIN confirmations' = kept \cup {t} /\ confirmations'[t] = c
        /\ \A u \in kept : u # t => confirmations'[u] = confirmations[u]
    BY <2>1 DEF Written, Put, Restrict
  <2>4. QED
    BY <1>1, <2>1, <2>2, <2>3 DEF Written, FileInv
<1>3. CASE ConsumeConfirmation(t, binding)
  <2>1. Written(Migrated, [confirmations EXCEPT ![t].consumed = clock])
        /\ t \in DOMAIN confirmations
        /\ clock \in confirmations[t].issued .. confirmations[t].expires
    BY <1>3 DEF ConsumeConfirmation, Consumable
  <2>2. confirmations[t] \in TicketRecords /\ TicketSound(confirmations[t])
    BY <2>1 DEF BudgetInv, LedgerTypeOK, FileInv
  <2>3. TicketSound([confirmations[t] EXCEPT !.consumed = clock])
    BY <2>1, <2>2 DEF TicketSound, TicketRecords
  <2>4. QED
    BY <1>1, <2>1, <2>3 DEF Written, FileInv
<1>4. QED
  BY <1>2, <1>3

LEMMA FileStep == BudgetInv /\ FileInv /\ [LedgerNext]_ledgerVars => FileInv'
<1> SUFFICES ASSUME BudgetInv, FileInv, [LedgerNext]_ledgerVars PROVE FileInv'
  OBVIOUS
<1>1. ASSUME NEW k \in Keys, NEW t \in Tokens,
             Reserve(k, t) \/ ReserveLost(k, t) \/ ConsumeBudget(k, t)
      PROVE  FileInv'
  BY <1>1, ReservedSound, ConsumeSound DEF Reserve, ReserveLost
<1>2. ASSUME NEW k \in Keys, ReserveRefused(k)
      PROVE  FileInv'
  BY <1>2, MaintainedSound DEF ReserveRefused, Written, FileInv
<1>3. CASE UNCHANGED <<schema, budgets, confirmations>>
  BY <1>3 DEF FileInv, RowsSound
<1>4. CASE UNCHANGED ledgerVars
  BY <1>3, <1>4 DEF ledgerVars
<1>5. CASE LedgerNext
  BY <1>1, <1>2, <1>3, <1>5, SettleSound, TicketsSound DEF LedgerNext, TicketNext, Tick, SetBack
<1>6. QED
  BY <1>4, <1>5

LEMMA FileInit == LedgerInit => FileInv
<1> SUFFICES ASSUME LedgerInit PROVE FileInv
  OBVIOUS
<1>1. BudgetInv
  BY LedgerInitInv
<1>2. PICK K \in SUBSET Keys :
        budgets \in [K -> [used : LegacyUses, updated : Times, pending : {Empty}]]
  BY DEF LedgerInit
<1>3. \A k \in DOMAIN budgets :
        budgets[k].pending = Empty /\ budgets[k].used \in LegacyUses
  BY <1>2
<1>4. RowsSound(budgets)
  BY <1>3, EmptyPending DEF RowsSound, RowSound
<1>5. confirmations = Empty
  BY DEF LedgerInit
<1>6. QED
  BY <1>3, <1>4, <1>5, EmptyPending DEF FileInv

-----------------------------------------------------------------------------
(***************************************************************************)
(* The two invariants hold in every state the ledger reaches, from an      *)
(* empty file or one of an older schema.                                   *)
(***************************************************************************)
THEOREM LedgerInvariant == LedgerSpec => [](BudgetInv /\ TicketInv)
<1>1. LedgerInit => BudgetInv /\ TicketInv
  BY LedgerInitInv
<1>2. BudgetInv /\ TicketInv /\ [LedgerNext]_ledgerVars => (BudgetInv /\ TicketInv)'
  BY BudgetStep, TicketStep
<1>3. QED
  BY <1>1, <1>2, PTL DEF LedgerSpec

\* Every operation writes a well-typed file and keeps the history well typed.
THEOREM LedgerTypeCorrect == LedgerSpec => []LedgerTypeOK
<1>1. BudgetInv => LedgerTypeOK
  BY DEF BudgetInv
<1>2. QED
  BY <1>1, LedgerInvariant, PTL

(***************************************************************************)
(* A granted lease that was not released stays charged to its key for the  *)
(* retention, however it ended and however the clock was set.              *)
(***************************************************************************)
THEOREM ChargeKeptAlways == LedgerSpec => []ChargeKept
<1>1. ASSUME BudgetInv PROVE ChargeKept
  <2> SUFFICES ASSUME NEW t \in Tokens, Recent(t)
               PROVE  leases[t].key \in DOMAIN budgets /\ Load(budgets[leases[t].key]) >= 1
    BY DEF ChargeKept, Recent
  <2> DEFINE k == leases[t].key
  <2>1. k \in DOMAIN budgets /\ (t \in DOMAIN budgets[k].pending \/ budgets[k].used >= 1)
    BY <1>1 DEF BudgetInv, Charge
  <2>2. budgets[k] \in BudgetRecords
    BY <1>1, <2>1 DEF BudgetInv, LedgerTypeOK
  <2>3. QED
    BY <2>1, <2>2, CarriedIsLoad
<1>2. QED
  BY <1>1, LedgerInvariant, PTL

(***************************************************************************)
(* No key gets a second premium call within the retention of one that was  *)
(* not released: reserve_budget and consume_budget see the first one.      *)
(***************************************************************************)
THEOREM GrantsSpacedAlways == LedgerSpec => GrantsSpaced
<1> DEFINE Spaced ==
      \A t, u \in Tokens :
         /\ leases[t] = None /\ leases'[t] # None
         /\ Unreleased(u) /\ leases[u].key = leases'[t].key
         => latest > leases[u].at + Retention
<1>1. ASSUME BudgetInv, [LedgerNext]_ledgerVars PROVE [Spaced]_ledgerVars
  <2> SUFFICES ASSUME NEW t \in Tokens, NEW u \in Tokens,
                      leases[t] = None, leases'[t] # None,
                      Unreleased(u), leases[u].key = leases'[t].key
               PROVE  latest > leases[u].at + Retention
    OBVIOUS
  <2>1. leases' # leases
    OBVIOUS
  <2>2. LedgerNext
    BY <1>1, <2>1 DEF ledgerVars
  <2>3. ASSUME NEW k \in Keys, NEW r \in Tokens, Load(RowFor(k)) < 1,
               NEW state, leases' = [leases EXCEPT ![r] = [key |-> k, at |-> clock, state |-> state]]
        PROVE  latest > leases[u].at + Retention
    <3>1. t = r /\ leases'[t].key = k
      BY <1>1, <2>3 DEF BudgetInv, LedgerTypeOK
    <3>2. Load(RowFor(k)) \in Int
      BY <1>1, RowForOK, LoadIsInt
    <3>3. ~Recent(u)
      BY <1>1, <2>3, <3>1, <3>2, RecentIsLoad
    <3>4. latest \in Times /\ leases[u].at \in Times
      BY <1>1 DEF BudgetInv, LedgerTypeOK, Unreleased, LeaseRecords
    <3>5. QED
      BY <3>3, <3>4, LimitAssumption DEF Recent, Times
  <2>4. ASSUME NEW k \in Keys, NEW r \in Tokens,
               Reserve(k, r) \/ ReserveLost(k, r) \/ ConsumeBudget(k, r)
        PROVE  latest > leases[u].at + Retention
    <3>1. Load(RowFor(k)) < 1
      BY <2>4 DEF Reserve, ReserveLost, ConsumeBudget
    <3>2. PICK state : leases' = [leases EXCEPT ![r] = [key |-> k, at |-> clock, state |-> state]]
      BY <2>4 DEF Reserve, ReserveLost, ConsumeBudget, Reserved
    <3>3. QED
      BY <2>3, <3>1, <3>2
  <2>5. ASSUME NEW r \in Tokens, Settle(r)
        PROVE  FALSE
    <3>1. leases[r] # None
      BY <2>5 DEF Settle
    <3>2. \A q \in Tokens : q # r => leases'[q] = leases[q]
      BY <1>1, <2>5 DEF Settle, Commit, Release, SettleMissing, BudgetInv, LedgerTypeOK
    <3>3. QED
      BY <3>1, <3>2
  <2>6. CASE UNCHANGED leases
    BY <2>1, <2>6
  <2>7. QED
    BY <2>2, <2>4, <2>5, <2>6
       DEF LedgerNext, TicketNext, ReserveRefused, IssueConfirmation, ConsumeConfirmation, Tick, SetBack
<1>2. QED
  BY <1>1, LedgerInvariant, PTL DEF LedgerSpec, GrantsSpaced

\* A confirmation ticket is accepted at most once, whatever was pruned meanwhile.
THEOREM AcceptedOnceAlways == LedgerSpec => []AcceptedOnce
<1>1. TicketInv => AcceptedOnce
  BY DEF TicketInv, AcceptedOnce
<1>2. QED
  BY <1>1, LedgerInvariant, PTL

\* No pressure on the ticket table removes a ticket that may still be used.
THEOREM OpenTicketKeptAlways == LedgerSpec => []OpenTicketKept
<1>1. TicketInv => OpenTicketKept
  BY DEF TicketInv, OpenTicketKept
<1>2. QED
  BY <1>1, LedgerInvariant, PTL

(***************************************************************************)
(* FileInv holds in every state: each operation writes rows within the     *)
(* limit and files that the next _read accepts.                            *)
(***************************************************************************)
THEOREM FileInvariant == LedgerSpec => []FileInv
<1>1. BudgetInv /\ FileInv /\ [LedgerNext]_ledgerVars => FileInv'
  BY FileStep
<1>2. LedgerInit => FileInv
  BY FileInit
<1>3. QED
  BY <1>1, <1>2, LedgerInvariant, PTL DEF LedgerSpec

(***************************************************************************)
(* What the ledger file keeps for the budgets, for any keys, limits and    *)
(* clock settings: it stays readable, a key's uses and reservations never  *)
(* pass one call, and no unreleased call is forgotten too early.           *)
(***************************************************************************)
THEOREM BudgetsSafeAlways == LedgerSpec => []BudgetsSafe
<1>1. FileInv => FileReadable /\ LoadBounded
  BY DEF FileInv, RowsSound, RowSound, TicketSound, FileReadable, LoadBounded
<1>2. QED
  BY <1>1, FileInvariant, ChargeKeptAlways, PTL DEF BudgetsSafe

(***************************************************************************)
(* What it keeps for the confirmation tickets: the file stays readable, a  *)
(* ticket is accepted at most once and an open one is kept until it        *)
(* expires.                                                                *)
(***************************************************************************)
THEOREM TicketsSafeAlways == LedgerSpec => []TicketsSafe
<1>1. FileInv => FileReadable
  BY DEF FileInv, RowsSound, RowSound, TicketSound, FileReadable
<1>2. QED
  BY <1>1, FileInvariant, AcceptedOnceAlways, OpenTicketKeptAlways, PTL DEF TicketsSafe

-----------------------------------------------------------------------------
Phases == {"reserve", "popen", "release", "track", "commit", "work", "cleanup",
           "emergency", "end"}

LaunchTypeOK ==
    /\ pc \in [Tokens -> Phases]
    /\ process \in [Tokens -> {"none", "alive", "gone"}]
    /\ accounted \in [Tokens -> BOOLEAN]
    /\ reported \in [Tokens -> {0, 1, None}]

(***************************************************************************)
(* The lease of a run is held from its reservation to its commit or        *)
(* release; from Popen on a run has a process, whose lease is never        *)
(* released; and a run that came so far is accounted.                      *)
(***************************************************************************)
PhaseOK(r) ==
    /\ pc[r] = "reserve" => leases[r] = None
    /\ pc[r] \in {"reserve", "popen", "release"} => process[r] = "none"
    /\ pc[r] \in {"track", "commit", "work", "cleanup", "emergency"} => process[r] # "none"
    /\ pc[r] \in {"popen", "release", "track", "commit"} =>
         leases[r] # None /\ leases[r].state = "held"
    /\ pc[r] \notin {"reserve", "end"} => accounted[r] = TRUE
    /\ process[r] # "none" => Unreleased(r)
    /\ reported[r] # None => pc[r] = "end"
    /\ reported[r] = 0 => process[r] = "none"

LaunchInv == BudgetInv /\ LaunchTypeOK /\ \A r \in Tokens : PhaseOK(r)

\* Nothing of another run, nor its lease, changes.
OthersKept(r) ==
    \A q \in Tokens : q # r =>
      /\ leases'[q] = leases[q]
      /\ pc'[q] = pc[q] /\ process'[q] = process[q]
      /\ accounted'[q] = accounted[q] /\ reported'[q] = reported[q]

\* What every step of run r has to keep.
StepKeeps(r) == LaunchTypeOK' /\ PhaseOK(r)' /\ OthersKept(r)

-----------------------------------------------------------------------------
\* Zero, one and None are three values.
LEMMA ReportedValues == None # 0 /\ None # 1
BY NoneAssumption

\* Going on to a phase.
LEMMA GoTypes ==
    ASSUME LaunchTypeOK, NEW r \in Tokens, NEW phase \in Phases, Go(r, phase)
    PROVE  /\ pc' \in [Tokens -> Phases] /\ pc'[r] = phase
           /\ reported' = reported
           /\ \A q \in Tokens : q # r => pc'[q] = pc[q]
BY DEF Go, LaunchTypeOK

\* Returning a result ends the run.
LEMMA ReturnTypes ==
    ASSUME LaunchTypeOK, NEW r \in Tokens, NEW value \in BOOLEAN, Return(r, value)
    PROVE  /\ pc' \in [Tokens -> Phases] /\ pc'[r] = "end"
           /\ reported' \in [Tokens -> {0, 1, None}]
           /\ reported'[r] = IF value THEN 1 ELSE 0
           /\ \A q \in Tokens : q # r => pc'[q] = pc[q] /\ reported'[q] = reported[q]
<1> DEFINE n == IF value THEN 1 ELSE 0
<1>1. n \in {0, 1}
  OBVIOUS
<1>2. pc' = [pc EXCEPT ![r] = "end"] /\ reported' = [reported EXCEPT ![r] = n]
  BY DEF Return
<1> HIDE DEF n
<1>3. reported' \in [Tokens -> {0, 1, None}] /\ reported'[r] = n
      /\ \A q \in Tokens : q # r => reported'[q] = reported[q]
  BY <1>1, <1>2 DEF LaunchTypeOK
<1>4. pc' \in [Tokens -> Phases] /\ pc'[r] = "end" /\ \A q \in Tokens : q # r => pc'[q] = pc[q]
  BY <1>2 DEF LaunchTypeOK, Phases
<1>5. QED
  BY <1>3, <1>4 DEF n

\* A grant changes the lease of its own token only.
LEMMA GrantedLease ==
    ASSUME BudgetInv, NEW k \in Keys, NEW r \in Tokens, NEW state, Reserved(k, r, state)
    PROVE  /\ leases'[r] = [key |-> k, at |-> clock, state |-> state]
           /\ \A q \in Tokens : q # r => leases'[q] = leases[q]
BY DEF Reserved, BudgetInv, LedgerTypeOK

\* So do the calls that settle one.
LEMMA SettledLease ==
    ASSUME BudgetInv, NEW r \in Tokens, leases[r] # None, NEW k
    PROVE  /\ Commit(k, r) => leases'[r] # None /\ leases'[r].state = "committed"
                              /\ \A q \in Tokens : q # r => leases'[q] = leases[q]
           /\ Release(k, r) => leases'[r] # None /\ leases'[r].state = "released"
                               /\ \A q \in Tokens : q # r => leases'[q] = leases[q]
           /\ SettleMissing(k, r) => leases' = leases
<1>1. leases[r] \in LeaseRecords /\ clock \in Times
  BY DEF BudgetInv, LedgerTypeOK
<1>2. ASSUME Commit(k, r)
      PROVE  leases'[r] # None /\ leases'[r].state = "committed"
             /\ \A q \in Tokens : q # r => leases'[q] = leases[q]
  <2>1. leases' = [leases EXCEPT ![r] = [leases[r] EXCEPT !.state = "committed", !.at = clock]]
    BY <1>2 DEF Commit
  <2>2. leases'[r] \in LeaseRecords /\ leases'[r].state = "committed"
        /\ \A q \in Tokens : q # r => leases'[q] = leases[q]
    BY <1>1, <2>1 DEF BudgetInv, LedgerTypeOK, LeaseRecords
  <2>3. QED
    BY <2>2, NoneAssumption
<1>3. ASSUME Release(k, r)
      PROVE  leases'[r] # None /\ leases'[r].state = "released"
             /\ \A q \in Tokens : q # r => leases'[q] = leases[q]
  <2>1. leases' = [leases EXCEPT ![r] = [leases[r] EXCEPT !.state = "released"]]
    BY <1>3 DEF Release
  <2>2. leases'[r] \in LeaseRecords /\ leases'[r].state = "released"
        /\ \A q \in Tokens : q # r => leases'[q] = leases[q]
    BY <1>1, <2>1 DEF BudgetInv, LedgerTypeOK, LeaseRecords
  <2>3. QED
    BY <2>2, NoneAssumption
<1>4. SettleMissing(k, r) => leases' = leases
  BY DEF SettleMissing
<1>5. QED
  BY <1>2, <1>3, <1>4

-----------------------------------------------------------------------------
\* Whatever becomes of the reservation, a run that goes on holds the lease.
LEMMA ReserveKeeps ==
    ASSUME LaunchInv, NEW r \in Tokens, ReserveLaunch(r)
    PROVE  StepKeeps(r)
<1>1. pc[r] = "reserve" /\ process' = process /\ process[r] = "none" /\ leases[r] = None
      /\ reported[r] = None
  BY DEF ReserveLaunch, LaunchInv, PhaseOK
<1>2. PICK k \in Keys :
        \/ Reserve(k, r) /\ Accounted(r, TRUE) /\ Go(r, "popen")
        \/ ReserveLost(k, r) /\ accounted' = accounted /\ (Return(r, FALSE) \/ Go(r, "end"))
        \/ ReserveRefused(k) /\ accounted' = accounted /\ Return(r, FALSE)
  BY DEF ReserveLaunch
<1>3. CASE Reserve(k, r) /\ Accounted(r, TRUE) /\ Go(r, "popen")
  <2>1. Reserved(k, r, "held")
    BY <1>3 DEF Reserve
  <2>2. leases'[r] = [key |-> k, at |-> clock, state |-> "held"]
        /\ \A q \in Tokens : q # r => leases'[q] = leases[q]
    BY <2>1, GrantedLease DEF LaunchInv
  <2>3. clock \in Times
    BY DEF LaunchInv, BudgetInv, LedgerTypeOK
  <2>4. leases'[r] \in LeaseRecords /\ leases'[r].state = "held"
    BY <2>2, <2>3 DEF LeaseRecords
  <2>5. leases'[r] # None
    BY <2>4, NoneAssumption
  <2>6. accounted' \in [Tokens -> BOOLEAN] /\ accounted'[r] = TRUE
        /\ \A q \in Tokens : q # r => accounted'[q] = accounted[q]
    BY <1>3 DEF Accounted, LaunchInv, LaunchTypeOK
  <2>7. pc' \in [Tokens -> Phases] /\ pc'[r] = "popen" /\ reported' = reported
        /\ \A q \in Tokens : q # r => pc'[q] = pc[q]
    BY <1>3, GoTypes DEF LaunchInv, Phases
  <2>8. QED
    BY <1>1, <2>2, <2>4, <2>5, <2>6, <2>7, ReportedValues
       DEF StepKeeps, OthersKept, PhaseOK, LaunchTypeOK, LaunchInv
<1>4. ASSUME accounted' = accounted, Return(r, FALSE) \/ Go(r, "end"),
             \A q \in Tokens : q # r => leases'[q] = leases[q]
      PROVE  StepKeeps(r)
  <2>1. pc' \in [Tokens -> Phases] /\ pc'[r] = "end"
        /\ reported' \in [Tokens -> {0, 1, None}]
        /\ \A q \in Tokens : q # r => pc'[q] = pc[q] /\ reported'[q] = reported[q]
    BY <1>4, GoTypes, ReturnTypes DEF LaunchInv, LaunchTypeOK, Phases
  <2>2. QED
    BY <1>1, <1>4, <2>1 DEF StepKeeps, OthersKept, PhaseOK, LaunchTypeOK, LaunchInv
<1>5. ReserveLost(k, r) => \A q \in Tokens : q # r => leases'[q] = leases[q]
  BY GrantedLease DEF ReserveLost, LaunchInv
<1>6. ReserveRefused(k) => \A q \in Tokens : q # r => leases'[q] = leases[q]
  BY DEF ReserveRefused
<1>7. QED
  BY <1>2, <1>3, <1>4, <1>5, <1>6

\* The run's own lease survives Popen; a process belongs to a held lease.
LEMMA PopenKeeps ==
    ASSUME LaunchInv, NEW r \in Tokens, Popen(r)
    PROVE  StepKeeps(r)
<1>1. pc[r] = "popen" /\ leases' = leases /\ accounted' = accounted
      /\ leases[r] # None /\ leases[r].state = "held" /\ process[r] = "none"
      /\ accounted[r] = TRUE /\ reported[r] = None
  BY DEF Popen, ledgerVars, LaunchInv, PhaseOK
<1>2. \/ process' = [process EXCEPT ![r] = "alive"] /\ (Go(r, "track") \/ Go(r, "end"))
      \/ process' = process /\ (Go(r, "release") \/ Go(r, "end"))
  BY DEF Popen
<1>3. process' \in [Tokens -> {"none", "alive", "gone"}]
      /\ \A q \in Tokens : q # r => process'[q] = process[q]
  BY <1>2 DEF LaunchInv, LaunchTypeOK
<1>4. /\ pc' \in [Tokens -> Phases] /\ reported' = reported
      /\ pc'[r] \in {"track", "end", "release"}
      /\ pc'[r] = "release" => process'[r] = "none"
      /\ pc'[r] = "track" => process'[r] # "none"
      /\ \A q \in Tokens : q # r => pc'[q] = pc[q]
  BY <1>1, <1>2, GoTypes DEF LaunchInv, LaunchTypeOK, Phases
<1>5. QED
  BY <1>1, <1>3, <1>4, ReportedValues
     DEF StepKeeps, OthersKept, PhaseOK, LaunchTypeOK, LaunchInv, Unreleased

\* The release ends a run that never had a process.
LEMMA ReleaseLaunchKeeps ==
    ASSUME LaunchInv, NEW r \in Tokens, ReleaseLaunch(r)
    PROVE  StepKeeps(r)
<1>1. pc[r] = "release" /\ process' = process /\ process[r] = "none" /\ leases[r] # None
  BY DEF ReleaseLaunch, LaunchInv, PhaseOK
<1> DEFINE k == leases[r].key
<1>2. /\ Release(k, r) \/ SettleMissing(k, r) \/ UNCHANGED ledgerVars
      /\ Return(r, FALSE) \/ Return(r, TRUE)
      /\ Accounted(r, FALSE) \/ accounted' = accounted
  BY DEF ReleaseLaunch
<1>3. \A q \in Tokens : q # r => leases'[q] = leases[q]
  BY <1>1, <1>2, SettledLease DEF LaunchInv, ledgerVars
<1>4. pc' \in [Tokens -> Phases] /\ pc'[r] = "end"
      /\ reported' \in [Tokens -> {0, 1, None}]
      /\ \A q \in Tokens : q # r => pc'[q] = pc[q] /\ reported'[q] = reported[q]
  BY <1>2, ReturnTypes DEF LaunchInv
<1>5. accounted' \in [Tokens -> BOOLEAN] /\ \A q \in Tokens : q # r => accounted'[q] = accounted[q]
  BY <1>2 DEF Accounted, LaunchInv, LaunchTypeOK
<1>6. QED
  BY <1>1, <1>3, <1>4, <1>5 DEF StepKeeps, OthersKept, PhaseOK, LaunchTypeOK, LaunchInv

\* A commit keeps the lease charged, whether it returned or not.
LEMMA CommitLaunchKeeps ==
    ASSUME LaunchInv, NEW r \in Tokens, CommitLaunch(r)
    PROVE  StepKeeps(r)
<1>1. pc[r] = "commit" /\ process' = process /\ accounted' = accounted /\ leases[r] # None
      /\ leases[r].state = "held" /\ accounted[r] = TRUE /\ reported[r] = None
  BY DEF CommitLaunch, LaunchInv, PhaseOK
<1> DEFINE k == leases[r].key
<1>2. /\ Commit(k, r) \/ SettleMissing(k, r) \/ UNCHANGED ledgerVars
      /\ Go(r, "work") \/ Go(r, "emergency")
  BY DEF CommitLaunch
<1>3. /\ leases'[r] # None /\ leases'[r].state \in {"held", "committed"}
      /\ \A q \in Tokens : q # r => leases'[q] = leases[q]
  BY <1>1, <1>2, SettledLease DEF LaunchInv, ledgerVars
<1>4. pc' \in [Tokens -> Phases] /\ pc'[r] \in {"work", "emergency"} /\ reported' = reported
      /\ \A q \in Tokens : q # r => pc'[q] = pc[q]
  BY <1>2, GoTypes DEF LaunchInv, Phases
<1>5. QED
  BY <1>1, <1>3, <1>4, ReportedValues
     DEF StepKeeps, OthersKept, PhaseOK, LaunchTypeOK, LaunchInv, Unreleased

(***************************************************************************)
(* The steps that leave the ledger alone: they end a process or leave it,  *)
(* go on to a phase the run may be in, or end it with a result that counts *)
(* the call when there was a process.                                      *)
(***************************************************************************)
LEMMA QuietKeeps ==
    ASSUME LaunchInv, NEW r \in Tokens, UNCHANGED <<ledgerVars, accounted>>,
           \/ process' = process
           \/ process[r] # "none" /\ process' = [process EXCEPT ![r] = "gone"],
           \/ pc' = pc /\ reported' = reported
           \/ Go(r, "end")
           \/ pc[r] = "track" /\ (Go(r, "commit") \/ Go(r, "emergency"))
           \/ pc[r] = "work" /\ (Go(r, "cleanup") \/ Go(r, "emergency"))
           \/ pc[r] \in {"cleanup", "emergency"} /\ Return(r, accounted[r])
           \/ process' = process /\ pc[r] = "reserve" /\ Return(r, FALSE)
    PROVE  StepKeeps(r)
<1>1. leases' = leases /\ accounted' = accounted
  BY DEF ledgerVars
<1>2. process' \in [Tokens -> {"none", "alive", "gone"}]
      /\ (process'[r] = "none" <=> process[r] = "none")
      /\ \A q \in Tokens : q # r => process'[q] = process[q]
  BY DEF LaunchInv, LaunchTypeOK
<1>3. accounted[r] \in BOOLEAN
  BY DEF LaunchInv, LaunchTypeOK
<1>4. /\ pc' \in [Tokens -> Phases] /\ reported' \in [Tokens -> {0, 1, None}]
      /\ \A q \in Tokens : q # r => pc'[q] = pc[q] /\ reported'[q] = reported[q]
  BY ZenonT(60), <1>3, GoTypes, ReturnTypes DEF LaunchInv, LaunchTypeOK, Phases
<1>5. /\ \/ pc'[r] \in {pc[r], "end"}
         \/ pc[r] = "track" /\ pc'[r] \in {"commit", "emergency"}
         \/ pc[r] = "work" /\ pc'[r] \in {"cleanup", "emergency"}
      /\ reported'[r] = reported[r] \/ pc'[r] = "end"
  BY <1>3, GoTypes, ReturnTypes DEF LaunchInv, Phases
<1>6. reported'[r] = 0 => process[r] = "none"
  <2>1. CASE reported' = reported
    BY <2>1 DEF LaunchInv, PhaseOK
  <2>2. CASE pc[r] \in {"cleanup", "emergency"} /\ Return(r, accounted[r])
    <3>1. accounted[r] = TRUE
      BY <2>2 DEF LaunchInv, PhaseOK
    <3>2. Return(r, TRUE)
      BY <2>2, <3>1
    <3>3. reported'[r] = 1
      BY <3>2, ReturnTypes DEF LaunchInv
    <3>4. QED
      BY <3>3
  <2>3. CASE pc[r] = "reserve"
    BY <2>3 DEF LaunchInv, PhaseOK
  <2>4. QED
    BY <2>1, <2>2, <2>3, GoTypes DEF LaunchInv, Phases
<1>7. PhaseOK(r)'
  BY <1>1, <1>2, <1>5, <1>6 DEF LaunchInv, PhaseOK, Unreleased
<1>8. QED
  BY <1>1, <1>2, <1>4, <1>7 DEF StepKeeps, OthersKept, LaunchTypeOK, LaunchInv

LEMMA RunKeeps ==
    ASSUME LaunchInv, NEW r \in Tokens, LaunchStep(r) \/ Killed(r) \/ Exits(r)
    PROVE  StepKeeps(r)
<1>1. pc[r] \in {"work", "cleanup", "emergency"} => process[r] # "none"
  BY DEF LaunchInv, PhaseOK
<1>2. CASE Track(r) \/ Killed(r) \/ ReserveFails(r)
  BY <1>2, QuietKeeps DEF Track, Killed, ReserveFails
<1>3. CASE Exits(r)
  BY <1>3, QuietKeeps DEF Exits
<1>4. CASE Work(r)
  BY <1>1, <1>4, QuietKeeps DEF Work
<1>5. CASE Cleanup(r)
  BY <1>1, <1>5, QuietKeeps DEF Cleanup
<1>6. CASE Emergency(r)
  BY <1>1, <1>6, QuietKeeps DEF Emergency
<1>7. QED
  BY <1>2, <1>3, <1>4, <1>5, <1>6, ReserveKeeps, PopenKeeps, ReleaseLaunchKeeps,
     CommitLaunchKeeps DEF LaunchStep

(***************************************************************************)
(* Every step of a premium command is an operation of the ledger or leaves *)
(* the ledger alone: a run only settles the lease it holds.                *)
(***************************************************************************)
LEMMA LaunchIsLedger ==
    LaunchInv /\ [LaunchNext]_launchVars => [LedgerNext]_ledgerVars
<1> SUFFICES ASSUME LaunchInv, [LaunchNext]_launchVars
             PROVE  LedgerNext \/ UNCHANGED ledgerVars
  OBVIOUS
<1>1. ASSUME NEW r \in Tokens, LaunchStep(r) \/ Killed(r) \/ Exits(r)
      PROVE  LedgerNext \/ UNCHANGED ledgerVars
  <2>1. CASE ReserveLaunch(r)
    BY <2>1 DEF ReserveLaunch, LedgerNext, TicketNext
  <2>2. ASSUME pc[r] \in {"release", "commit"} PROVE leases[r] # None /\ leases[r].state # "lost"
    BY <2>2 DEF LaunchInv, PhaseOK
  <2>3. CASE ReleaseLaunch(r)
    <3>1. Release(leases[r].key, r) \/ SettleMissing(leases[r].key, r) \/ UNCHANGED ledgerVars
      BY <2>3 DEF ReleaseLaunch
    <3>2. Settle(r) \/ UNCHANGED ledgerVars
      BY <2>2, <2>3, <3>1 DEF ReleaseLaunch, Settle
    <3>3. QED
      BY <3>2 DEF LedgerNext, TicketNext
  <2>4. CASE CommitLaunch(r)
    <3>1. Commit(leases[r].key, r) \/ SettleMissing(leases[r].key, r) \/ UNCHANGED ledgerVars
      BY <2>4 DEF CommitLaunch
    <3>2. Settle(r) \/ UNCHANGED ledgerVars
      BY <2>2, <2>4, <3>1 DEF CommitLaunch, Settle
    <3>3. QED
      BY <3>2 DEF LedgerNext, TicketNext
  <2>5. QED
    BY <1>1, <2>1, <2>3, <2>4
       DEF LaunchStep, ReserveFails, Popen, Track, Work, Cleanup, Emergency, Killed, Exits
<1>2. CASE LaunchNext
  BY <1>1, <1>2 DEF LaunchNext, LedgerNext, TicketNext
<1>3. CASE UNCHANGED launchVars
  BY <1>3 DEF launchVars
<1>4. QED
  BY <1>2, <1>3

LEMMA LaunchInitInv == LaunchInit => LaunchInv
<1> SUFFICES ASSUME LaunchInit PROVE LaunchInv
  OBVIOUS
<1>1. BudgetInv
  BY LedgerInitInv DEF LaunchInit
<1>2. LaunchTypeOK
  BY DEF LaunchInit, LaunchTypeOK, Phases
<1>3. ASSUME NEW r \in Tokens PROVE PhaseOK(r)
  BY ReportedValues DEF LaunchInit, LedgerInit, PhaseOK
<1>4. QED
  BY <1>1, <1>2, <1>3 DEF LaunchInv

LEMMA LaunchInvStep == LaunchInv /\ [LaunchNext]_launchVars => LaunchInv'
<1> SUFFICES ASSUME LaunchInv, [LaunchNext]_launchVars PROVE LaunchInv'
  OBVIOUS
<1>1. BudgetInv'
  BY LaunchIsLedger, BudgetStep DEF LaunchInv
<1>2. ASSUME NEW r \in Tokens, LaunchStep(r) \/ Killed(r) \/ Exits(r)
      PROVE  LaunchInv'
  <2>1. StepKeeps(r)
    BY <1>2, RunKeeps
  <2>2. ASSUME NEW q \in Tokens, q # r PROVE PhaseOK(q)'
    BY <2>1, <2>2 DEF StepKeeps, OthersKept, LaunchInv, PhaseOK, Unreleased
  <2>3. QED
    BY <1>1, <2>1, <2>2 DEF LaunchInv, StepKeeps
<1>3. CASE UNCHANGED <<leases, pc, process, accounted, reported>>
  BY <1>1, <1>3 DEF LaunchInv, LaunchTypeOK, PhaseOK, Unreleased
<1>4. CASE LaunchNext
  BY <1>2, <1>3, <1>4 DEF LaunchNext, Tick, SetBack
<1>5. CASE UNCHANGED launchVars
  BY <1>3, <1>5 DEF launchVars, ledgerVars
<1>6. QED
  BY <1>4, <1>5

-----------------------------------------------------------------------------
\* The phases of a run and the state of its lease agree in every state.
THEOREM LaunchInvariant == LaunchSpec => []LaunchInv
<1>1. LaunchInit => LaunchInv
  BY LaunchInitInv
<1>2. LaunchInv /\ [LaunchNext]_launchVars => LaunchInv'
  BY LaunchInvStep
<1>3. QED
  BY <1>1, <1>2, PTL DEF LaunchSpec

\* Premium commands use the ledger only through its operations.
THEOREM LaunchesUseTheLedger == LaunchSpec => LedgerSpec
<1>1. LaunchInit => LedgerInit
  BY DEF LaunchInit
<1>2. LaunchInv /\ [LaunchNext]_launchVars => [LedgerNext]_ledgerVars
  BY LaunchIsLedger
<1>3. QED
  BY <1>1, <1>2, LaunchInvariant, PTL DEF LaunchSpec, LedgerSpec

(***************************************************************************)
(* A provider process is charged to its key for the whole retention by     *)
(* whatever path its run ended, and a result that reports no premium call  *)
(* belongs to a run that created no process.                               *)
(***************************************************************************)
THEOREM LaunchSafeAlways == LaunchSpec => []LaunchSafe
<1>1. ASSUME LaunchInv, ChargeKept PROVE LaunchSafe
  <2>1. ASSUME NEW r \in Tokens, process[r] # "none", latest <= leases[r].at + Retention
        PROVE  /\ leases[r].state # "released"
               /\ leases[r].key \in DOMAIN budgets
               /\ Load(budgets[leases[r].key]) >= 1
    <3>1. Unreleased(r)
      BY <1>1, <2>1 DEF LaunchInv, PhaseOK
    <3>2. QED
      BY <1>1, <2>1, <3>1 DEF ChargeKept, Unreleased
  <2>2. CreatedIsCharged
    BY <2>1 DEF CreatedIsCharged
  <2>3. ZeroMeansNone
    BY <1>1 DEF LaunchInv, PhaseOK, ZeroMeansNone
  <2>4. QED
    BY <2>2, <2>3 DEF LaunchSafe
<1>2. QED
  BY <1>1, LaunchInvariant, LaunchesUseTheLedger, ChargeKeptAlways, PTL

(***************************************************************************)
(* A run passes its commit only when every other committed call of its key *)
(* is older than the retention: its reservation is the whole load of the   *)
(* row, so no other lease or use can be in it.                             *)
(***************************************************************************)
THEOREM WorkSpacedAlways == LaunchSpec => WorkSpaced
<1> DEFINE Spaced ==
      \A r, q \in Tokens :
         /\ pc[r] = "commit" /\ pc'[r] = "work"
         /\ q # r /\ leases[q] # None /\ leases[q].state = "committed"
         /\ leases[q].key = leases[r].key
         => latest > leases[q].at + Retention
<1>1. ASSUME LaunchInv, FileInv, [LaunchNext]_launchVars PROVE [Spaced]_launchVars
  <2> SUFFICES ASSUME NEW r \in Tokens, NEW q \in Tokens,
                      pc[r] = "commit", pc'[r] = "work",
                      q # r, leases[q] # None, leases[q].state = "committed",
                      leases[q].key = leases[r].key
               PROVE  latest > leases[q].at + Retention
    OBVIOUS
  <2> DEFINE k == leases[r].key
             b == SettledRow(k)
  <2>1. BudgetInv
    BY <1>1 DEF LaunchInv
  <2>2. Commit(k, r)
    <3>1. pc' # pc
      OBVIOUS
    <3>2. LaunchNext
      BY <1>1, <3>1 DEF launchVars
    <3>3. PICK s \in Tokens : LaunchStep(s) \/ Killed(s) \/ Exits(s)
      BY <3>1, <3>2 DEF LaunchNext
    <3>4. s = r
      BY <1>1, <3>3, RunKeeps DEF StepKeeps, OthersKept
    <3>5. CommitLaunch(r)
      <4>1. ~Killed(r) /\ ~Exits(r)
        BY <1>1, GoTypes DEF Killed, Exits, LaunchInv, Phases
      <4>2. QED
        BY <3>3, <3>4, <4>1
           DEF LaunchStep, ReserveLaunch, ReserveFails, Popen, ReleaseLaunch, Track,
               Work, Cleanup, Emergency
    <3>6. ~Go(r, "emergency")
      BY <1>1, GoTypes DEF LaunchInv, Phases
    <3>7. QED
      BY <3>5, <3>6 DEF CommitLaunch
  <2>3. Settleable(k) /\ r \in DOMAIN b.pending
    BY <2>2 DEF Commit, IsPending
  <2>4. b \in BudgetRecords /\ RowSound(b)
    BY <1>1, <2>1, <2>3, SettledSound
  <2>5. b.used = 0 /\ DOMAIN b.pending = {r}
    <3> HIDE DEF b
    <3>1. QED
      BY <2>1, <2>3, <2>4, WithoutSound
  <2>6. ASSUME Recent(q) PROVE FALSE
    <3>1. q \in DOMAIN b.pending \/ b.used >= 1
      BY <2>1, <2>3, <2>6, SettledCharge
    <3>2. QED
      BY <2>5, <3>1
  <2>7. latest \in Times /\ leases[q].at \in Times
    BY <2>1 DEF BudgetInv, LedgerTypeOK, LeaseRecords
  <2>8. QED
    BY <2>6, <2>7, LimitAssumption DEF Recent, Unreleased, Times
<1>2. LaunchSpec => []FileInv
  BY LaunchesUseTheLedger, FileInvariant, PTL
<1>3. QED
  BY <1>1, <1>2, LaunchInvariant, PTL DEF LaunchSpec, WorkSpaced
=============================================================================
