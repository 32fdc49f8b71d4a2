----------------------- MODULE RuntimeSupervisorProofs -----------------------
(***************************************************************************)
(* Proofs about the runtime lease store, for any set of lease ids and      *)
(* endpoints, any limit, with and without faults: StoreInv is the          *)
(* inductive invariant. Then about the supervised sessions over it, for    *)
(* any set of commands and any number of polls: SupInv is the inductive    *)
(* invariant.                                                              *)
(***************************************************************************)
EXTENDS RuntimeSupervisor, FiniteSetTheorems, TLAPS

\* A lease id has a row exactly when it names an endpoint.
RowHasEndpoint == \A l \in Leases : (lease[l] = "absent") = (endpoint[l] = None)

\* The rows that count against the limit.
Live(states) == {l \in Leases : states[l] \notin {"absent", "unknown_blocking"}}

StoreInv ==
    /\ StoreTypeOK
    /\ RowHasEndpoint
    /\ EndpointExclusive
    /\ IsFiniteSet(Live(lease))
    /\ Cardinality(Live(lease)) <= MaxActiveLeases

-----------------------------------------------------------------------------
\* What a scan for abandoned owners can do to a row.
LEMMA MarkedRow ==
    ASSUME StoreTypeOK, NEW p
    PROVE  /\ Marked(p) \in [Leases -> ActiveStates \cup {"absent"}]
           /\ \A l \in Leases :
                /\ Marked(p)[l] \in {lease[l], "unknown_blocking"}
                /\ (Marked(p)[l] = "absent") = (lease[l] = "absent")
           /\ Live(Marked(p)) \subseteq Live(lease)
<1> DEFINE s == Marked(p)
<1>1. \A l \in Leases : s[l] = lease[l] \/ (s[l] = "unknown_blocking" /\ lease[l] # "absent")
  BY DEF Marked, Probed, Rows
<1>2. \A l \in Leases : s[l] \in ActiveStates \cup {"absent"}
  BY <1>1 DEF StoreTypeOK, ActiveStates
<1>3. s \in [Leases -> ActiveStates \cup {"absent"}]
  BY <1>2 DEF Marked
<1> HIDE DEF s
<1>4. Live(s) \subseteq Live(lease)
  BY <1>1 DEF Live
<1>5. QED
  BY <1>1, <1>3, <1>4 DEF s

\* A set of live rows that shrinks keeps the limit.
LEMMA FewerLive ==
    ASSUME StoreInv, NEW S, S \subseteq Live(lease)
    PROVE  IsFiniteSet(S) /\ Cardinality(S) <= MaxActiveLeases
<1>1. IsFiniteSet(S) /\ Cardinality(S) <= Cardinality(Live(lease))
  BY FS_Subset DEF StoreInv
<1>2. Cardinality(S) \in Nat /\ Cardinality(Live(lease)) \in Nat
  BY <1>1, FS_CardinalityType DEF StoreInv
<1>3. QED
  BY <1>1, <1>2, LimitAssumption DEF StoreInv

\* Rows that keep or lose their endpoint stay exclusive.
LEMMA KeepsRows ==
    ASSUME StoreInv, StoreTypeOK', RowHasEndpoint',
           \A l \in Leases : lease'[l] # "absent" => /\ lease[l] # "absent"
                                                     /\ endpoint'[l] = endpoint[l],
           Live(lease') \subseteq Live(lease)
    PROVE  StoreInv'
<1>1. EndpointExclusive'
  BY DEF EndpointExclusive, Rows, StoreInv
<1>2. IsFiniteSet(Live(lease')) /\ Cardinality(Live(lease')) <= MaxActiveLeases
  BY FewerLive
<1>3. QED
  BY <1>1, <1>2 DEF StoreInv

\* acquire preserves the invariant, granted or not, interrupted or not.
LEMMA AcquirePreserves ==
    ASSUME StoreInv, NEW l \in Leases, NEW e \in Endpoints, NEW p,
           CommitAcquire(l, e, Marked(p)),
           handle' \in [Leases -> {"none", "live", "released"}]
    PROVE  StoreInv'
<1> DEFINE s == Marked(p)
<1>1. /\ s \in [Leases -> ActiveStates \cup {"absent"}]
      /\ \A k \in Leases : /\ s[k] \in {lease[k], "unknown_blocking"}
                           /\ (s[k] = "absent") = (lease[k] = "absent")
      /\ Live(s) \subseteq Live(lease)
  BY MarkedRow DEF StoreInv
<1>2. /\ lease \in [Leases -> ActiveStates \cup {"absent"}]
      /\ endpoint \in [Leases -> Endpoints \cup {None}]
      /\ \A k \in Leases : (lease[k] = "absent") = (endpoint[k] = None)
  BY DEF StoreInv, StoreTypeOK, RowHasEndpoint
<1>3. /\ lease[l] = "absent"
      /\ lease' = [s EXCEPT ![l] = IF Granted(e, s) THEN "prepared" ELSE @]
      /\ endpoint' = [endpoint EXCEPT ![l] = IF Granted(e, s) THEN e ELSE @]
  BY DEF CommitAcquire, FreshLease
<1> HIDE DEF s
<1>4. CASE ~Granted(e, s)
  <2>1. lease' = s /\ endpoint' = endpoint
    BY <1>1, <1>2, <1>3, <1>4
  <2>2. StoreTypeOK' /\ RowHasEndpoint'
    BY <2>1, <1>1, <1>2 DEF StoreTypeOK, RowHasEndpoint
  <2>3. QED
    BY <2>1, <2>2, <1>1, KeepsRows
<1>5. CASE Granted(e, s)
  <2>1. /\ lease' = [s EXCEPT ![l] = "prepared"]
        /\ endpoint' = [endpoint EXCEPT ![l] = e]
    BY <1>3, <1>5
  <2>2. StoreTypeOK' /\ RowHasEndpoint'
    BY <2>1, <1>1, <1>2, EndpointAssumption DEF StoreTypeOK, RowHasEndpoint, ActiveStates
  <2>3. \A k \in Leases : s[k] # "absent" => endpoint[k] # e
    BY <1>5 DEF Granted, EndpointTaken
  <2>4. EndpointExclusive'
    BY <2>1, <2>3, <1>1, <1>2 DEF EndpointExclusive, Rows, StoreInv
  <2>5. Live(lease') = Live(s) \cup {l} /\ l \notin Live(s)
    BY <2>1, <1>1, <1>3 DEF Live
  <2>6. IsFiniteSet(Live(s)) /\ Cardinality(Live(s)) \in Nat
    BY <1>1, FewerLive, FS_CardinalityType
  <2>7. IsFiniteSet(Live(lease')) /\ Cardinality(Live(lease')) = Cardinality(Live(s)) + 1
    BY <2>5, <2>6, FS_AddElement
  <2>8. ~(Cardinality(Live(s)) >= MaxActiveLeases)
    BY <1>5 DEF Granted, LimitReached, Live
  <2>9. Cardinality(Live(lease')) <= MaxActiveLeases
    BY <2>6, <2>7, <2>8, LimitAssumption
  <2>10. QED
    BY <2>2, <2>4, <2>7, <2>9 DEF StoreInv
<1>6. QED
  BY <1>4, <1>5

\* transition moves one row along the table or deletes it.
LEMMA TransitionRow ==
    ASSUME StoreInv, NEW l \in Leases, NEW to \in ActiveStates \cup {"stopped"},
           Transition(l, to)
    PROVE  /\ lease[l] # "absent"
           /\ StoreTypeOK' /\ RowHasEndpoint'
           /\ \A k \in Leases : k # l => lease'[k] = lease[k] /\ endpoint'[k] = endpoint[k]
           /\ \/ /\ lease'[l] = "absent" /\ endpoint'[l] = None
                 /\ lease[l] \in {"prepared", "stopping"} /\ handle[l] = "live"
              \/ /\ lease'[l] = to /\ to # "absent" /\ endpoint'[l] = endpoint[l]
                 /\ lease[l] = "unknown_blocking" => to = "unknown_blocking"
<1>1. /\ lease \in [Leases -> ActiveStates \cup {"absent"}]
      /\ endpoint \in [Leases -> Endpoints \cup {None}]
      /\ handle \in [Leases -> {"none", "live", "released"}]
      /\ \A k \in Leases : (lease[k] = "absent") = (endpoint[k] = None)
  BY DEF StoreInv, StoreTypeOK, RowHasEndpoint
<1>2. /\ handle[l] = "live" /\ to \in Allowed(lease[l])
      /\ lease' = [lease EXCEPT ![l] = IF to = "stopped" THEN "absent" ELSE to]
      /\ endpoint' = [endpoint EXCEPT ![l] = IF to = "stopped" THEN None ELSE @]
      /\ handle' = [handle EXCEPT ![l] = IF to \in {"stopped", "unknown_blocking"}
                                         THEN "released" ELSE @]
  BY DEF Transition, CanTransition
<1>3. /\ lease[l] # "absent"
      /\ to = "stopped" => lease[l] \in {"prepared", "stopping"}
      /\ lease[l] = "unknown_blocking" => to = "unknown_blocking"
  BY <1>1, <1>2 DEF Allowed, ActiveStates
<1>4. handle' \in [Leases -> {"none", "live", "released"}]
  BY <1>1, <1>2
<1>5. lease' \in [Leases -> ActiveStates \cup {"absent"}]
  BY <1>1, <1>2 DEF ActiveStates
<1>6. endpoint' \in [Leases -> Endpoints \cup {None}]
  BY <1>1, <1>2
<1>7. to # "absent"
  BY DEF ActiveStates
<1>8. RowHasEndpoint'
  BY <1>1, <1>2, <1>3, <1>7 DEF RowHasEndpoint
<1>9. QED
  BY <1>1, <1>2, <1>3, <1>4, <1>5, <1>6, <1>7, <1>8 DEF StoreTypeOK

LEMMA StoreInvInit == StoreInit => StoreInv
<1> SUFFICES ASSUME StoreInit PROVE StoreInv
  OBVIOUS
<1>1. StoreTypeOK /\ RowHasEndpoint /\ EndpointExclusive
  BY DEF StoreInit, StoreTypeOK, RowHasEndpoint, EndpointExclusive, Rows
<1>2. Live(lease) = {}
  BY DEF StoreInit, Live
<1>3. QED
  BY <1>1, <1>2, FS_EmptySet, LimitAssumption DEF StoreInv

LEMMA StoreInvStep == StoreInv /\ [StoreNext]_storeVars => StoreInv'
<1> SUFFICES ASSUME StoreInv, [StoreNext]_storeVars PROVE StoreInv'
  OBVIOUS
<1>1. ASSUME NEW p \in Probes, MarkAbandoned(p) PROVE StoreInv'
  <2>1. lease' = Marked(p) /\ endpoint' = endpoint /\ handle' = handle
    BY <1>1 DEF MarkAbandoned
  <2>2. StoreTypeOK' /\ RowHasEndpoint'
    BY <2>1, MarkedRow DEF StoreInv, StoreTypeOK, RowHasEndpoint
  <2>3. QED
    BY <2>1, <2>2, MarkedRow, KeepsRows DEF StoreInv
<1>2. ASSUME NEW l \in Leases, NEW e \in Endpoints, NEW p \in Probes,
             Acquire(l, e, p) \/ AcquireInterrupted(l, e, p)
      PROVE  StoreInv'
  <2>1. CommitAcquire(l, e, Marked(p))
    BY <1>2 DEF Acquire, AcquireInterrupted
  <2>2. handle' \in [Leases -> {"none", "live", "released"}]
    BY <1>2 DEF Acquire, AcquireInterrupted, StoreInv, StoreTypeOK
  <2>3. QED
    BY <2>1, <2>2, AcquirePreserves
<1>3. ASSUME NEW l \in Leases, NEW to \in ActiveStates \cup {"stopped"}, Transition(l, to)
      PROVE  StoreInv'
  <2>1. /\ lease[l] # "absent"
        /\ StoreTypeOK' /\ RowHasEndpoint'
        /\ \A k \in Leases : k # l => lease'[k] = lease[k] /\ endpoint'[k] = endpoint[k]
        /\ \/ lease'[l] = "absent"
           \/ endpoint'[l] = endpoint[l]
        /\ lease[l] = "unknown_blocking" => lease'[l] \in {"absent", "unknown_blocking"}
    BY <1>3, TransitionRow
  <2>2. Live(lease') \subseteq Live(lease)
    BY <2>1 DEF Live
  <2>3. QED
    BY <2>1, <2>2, KeepsRows
<1>4. ASSUME NEW l \in Leases, ReleaseOwner(l) \/ OwnerExit(l)
      PROVE  StoreInv'
  <2>1. lease' = lease /\ endpoint' = endpoint
    BY <1>4 DEF ReleaseOwner, OwnerExit
  <2>2. StoreTypeOK'
    BY <1>4 DEF ReleaseOwner, OwnerExit, StoreInv, StoreTypeOK
  <2>3. QED
    BY <2>1, <2>2, KeepsRows DEF StoreInv, RowHasEndpoint
<1>5. CASE UNCHANGED storeVars
  BY <1>5 DEF storeVars, StoreInv, StoreTypeOK, RowHasEndpoint, EndpointExclusive, Rows
<1>6. QED
  BY <1>1, <1>2, <1>3, <1>4, <1>5 DEF StoreNext

\* The inductive invariant holds in every reachable state of the store.
THEOREM StoreInvariant == StoreSpec => []StoreInv
  BY StoreInvInit, StoreInvStep, PTL DEF StoreSpec

\* Type correctness of the runtime lease store.
THEOREM StoreTypeCorrect == StoreSpec => []StoreTypeOK
<1>1. StoreInv => StoreTypeOK
  BY DEF StoreInv
<1>2. QED
  BY <1>1, StoreInvariant, PTL

\* No endpoint is ever named by two rows (acquire's check under BEGIN IMMEDIATE).
THEOREM EndpointExclusiveAlways == StoreSpec => []EndpointExclusive
<1>1. StoreInv => EndpointExclusive
  BY DEF StoreInv
<1>2. QED
  BY <1>1, StoreInvariant, PTL

\* The policy's limit on live leases is never exceeded.
THEOREM LiveLeaseLimitAlways == StoreSpec => []LiveLeaseLimit
<1>1. StoreInv => LiveLeaseLimit
  <2>1. Live(lease) = {l \in Rows : lease[l] # "unknown_blocking"}
    BY DEF Live, Rows
  <2>2. QED
    BY <2>1 DEF StoreInv, LiveLeaseLimit
<1>2. QED
  BY <1>1, StoreInvariant, PTL

-----------------------------------------------------------------------------
\* A row leaves the table only through its living owner, from prepared or stopping:
\* of all the operations only transition deletes a row.
THEOREM RowsLeaveStoppedAlways == StoreSpec => RowsLeaveStopped
<1> DEFINE Leaves ==
      \A l \in Leases :
          lease[l] # "absent" /\ lease'[l] = "absent"
            => lease[l] \in {"prepared", "stopping"} /\ handle[l] = "live"
<1>1. StoreInv /\ [StoreNext]_storeVars => [Leaves]_storeVars
  <2> SUFFICES ASSUME StoreInv, StoreNext PROVE Leaves
    OBVIOUS
  <2>1. ASSUME NEW p \in Probes, MarkAbandoned(p) PROVE Leaves
    BY <2>1, MarkedRow DEF MarkAbandoned, StoreInv
  <2>2. ASSUME NEW l \in Leases, NEW e \in Endpoints, NEW p \in Probes,
               Acquire(l, e, p) \/ AcquireInterrupted(l, e, p)
        PROVE  Leaves
    <3>1. /\ lease[l] = "absent"
          /\ \A k \in Leases : k # l => lease'[k] = Marked(p)[k]
      BY <2>2, MarkedRow DEF Acquire, AcquireInterrupted, CommitAcquire, FreshLease, StoreInv
    <3>2. QED
      BY <3>1, MarkedRow DEF StoreInv
  <2>3. ASSUME NEW l \in Leases, NEW to \in ActiveStates \cup {"stopped"}, Transition(l, to)
        PROVE  Leaves
    BY <2>3, TransitionRow
  <2>4. ASSUME NEW l \in Leases, ReleaseOwner(l) \/ OwnerExit(l)
        PROVE  Leaves
    BY <2>4 DEF ReleaseOwner, OwnerExit
  <2>5. QED
    BY <2>1, <2>2, <2>3, <2>4 DEF StoreNext
<1>2. QED
  BY <1>1, StoreInvariant, PTL DEF StoreSpec, RowsLeaveStopped

-----------------------------------------------------------------------------
\* The registry's state as the refinement mapping reads it off the rows.
Holders == [e \in Endpoints |-> {l \in Rows : endpoint[l] = e}]
Unknown == {e \in Endpoints :
                \E l \in Rows : endpoint[l] = e /\ lease[l] = "unknown_blocking"}

\* A step that keeps every row and its endpoint, and every unknown row unknown, blocks
\* endpoints and does nothing else.
LEMMA KeptRowsBlock ==
    ASSUME \A l \in Leases : /\ (lease'[l] = "absent") = (lease[l] = "absent")
                             /\ endpoint'[l] = endpoint[l]
                             /\ lease[l] = "unknown_blocking"
                                  => lease'[l] = "unknown_blocking"
    PROVE  Registry!Next
<1>1. Holders' = Holders
  BY DEF Holders, Rows
<1>2. Unknown' \subseteq {e \in Endpoints : Holders[e] # {}}
  BY DEF Unknown, Holders, Rows
<1>3. Unknown' = Unknown \cup Unknown' /\ Unknown' \in SUBSET Endpoints
  BY DEF Unknown, Rows
<1>4. \E lost \in SUBSET Endpoints :
          /\ lost \subseteq {e \in Endpoints : Holders[e] # {}}
          /\ Unknown' = Unknown \cup lost
          /\ Holders' = Holders
  BY <1>1, <1>2, <1>3
<1>5. QED
  BY <1>4, Zenon DEF Registry!Next, Registry!Block, Registry!Held, Holders, Unknown

\* A granted acquisition takes an endpoint no row names, in the step that marks others.
LEMMA GrantTakes ==
    ASSUME StoreInv, NEW l \in Leases, NEW e \in Endpoints, NEW p,
           CommitAcquire(l, e, Marked(p)), Granted(e, Marked(p))
    PROVE  Registry!Next
<1> DEFINE s == Marked(p)
<1>1. /\ s \in [Leases -> ActiveStates \cup {"absent"}]
      /\ \A k \in Leases : /\ s[k] \in {lease[k], "unknown_blocking"}
                           /\ (s[k] = "absent") = (lease[k] = "absent")
  BY MarkedRow DEF StoreInv
<1>2. endpoint \in [Leases -> Endpoints \cup {None}]
  BY DEF StoreInv, StoreTypeOK
<1>3. /\ lease[l] = "absent"
      /\ lease' = [s EXCEPT ![l] = "prepared"]
      /\ endpoint' = [endpoint EXCEPT ![l] = e]
  BY DEF CommitAcquire, FreshLease
<1>4. \A k \in Leases : s[k] # "absent" => endpoint[k] # e
  BY DEF Granted, EndpointTaken
<1> HIDE DEF s
<1>5. /\ lease'[l] = "prepared" /\ endpoint'[l] = e
      /\ \A k \in Leases : k # l => lease'[k] = s[k] /\ endpoint'[k] = endpoint[k]
  BY <1>1, <1>2, <1>3
<1>6. Holders[e] = {}
  BY <1>1, <1>4 DEF Holders, Rows
<1>7. Holders' = [Holders EXCEPT ![e] = {l}]
  <2>1. \A f \in Endpoints \ {e} : Holders'[f] = Holders[f]
    BY <1>1, <1>3, <1>5 DEF Holders, Rows
  <2>2. Holders'[e] = {l}
    BY <1>1, <1>4, <1>5 DEF Holders, Rows
  <2>3. QED
    BY <2>1, <2>2 DEF Holders
<1>8. Unknown' \subseteq {f \in Endpoints : Holders[f] # {}}
  BY <1>1, <1>3, <1>5 DEF Unknown, Holders, Rows
<1>9. Unknown' = Unknown \cup Unknown' /\ Unknown' \in SUBSET Endpoints
  BY <1>1, <1>3, <1>5 DEF Unknown, Rows
<1>10. \E k \in Leases, f \in Endpoints, lost \in SUBSET Endpoints :
          /\ Holders[f] = {}
          /\ lost \subseteq {d \in Endpoints : Holders[d] # {}}
          /\ Holders' = [Holders EXCEPT ![f] = {k}]
          /\ Unknown' = Unknown \cup lost
  BY <1>6, <1>7, <1>8, <1>9
<1>11. QED
  BY <1>10, Zenon DEF Registry!Next, Registry!Take, Registry!Held, Holders, Unknown

\* Deleting the row of a lease that is not unknown drops its endpoint.
LEMMA StoppedDrops ==
    ASSUME StoreInv, NEW l \in Leases,
           lease[l] \notin {"absent", "unknown_blocking"},
           lease'[l] = "absent",
           \A k \in Leases : k # l => lease'[k] = lease[k] /\ endpoint'[k] = endpoint[k]
    PROVE  Registry!Next
<1>1. endpoint[l] \in Endpoints
  BY DEF StoreInv, StoreTypeOK, RowHasEndpoint
<1> DEFINE e == endpoint[l]
<1>2. \A k \in Leases : k # l /\ lease[k] # "absent" => endpoint[k] # e
  BY DEF StoreInv, EndpointExclusive, Rows
<1>3. e \in {f \in Endpoints : Holders[f] # {}} \ Unknown
  BY <1>1, <1>2 DEF Holders, Unknown, Rows
<1>4. Holders' = [Holders EXCEPT ![e] = {}]
  <2>1. \A f \in Endpoints \ {e} : Holders'[f] = Holders[f]
    BY DEF Holders, Rows
  <2>2. Holders'[e] = {}
    BY <1>1, <1>2 DEF Holders, Rows
  <2>3. QED
    BY <1>1, <2>1, <2>2 DEF Holders
<1>5. Unknown' = Unknown
  BY DEF Unknown, Rows
<1>6. \E f \in Endpoints :
          /\ f \in {d \in Endpoints : Holders[d] # {}} \ Unknown
          /\ Holders' = [Holders EXCEPT ![f] = {}]
          /\ Unknown' = Unknown
  BY <1>1, <1>3, <1>4, <1>5
<1>7. QED
  BY <1>6, Zenon DEF Registry!Next, Registry!Drop, Registry!Held, Holders, Unknown

LEMMA RegistryStep ==
    StoreInv /\ [StoreNext]_storeVars => [Registry!Next]_(Registry!registryVars)
<1> SUFFICES ASSUME StoreInv, StoreNext PROVE Registry!Next
  BY DEF storeVars, Registry!registryVars, Rows
<1>1. ASSUME NEW p \in Probes, MarkAbandoned(p) PROVE Registry!Next
  BY <1>1, MarkedRow, KeptRowsBlock DEF MarkAbandoned, StoreInv
<1>2. ASSUME NEW l \in Leases, NEW e \in Endpoints, NEW p \in Probes,
             Acquire(l, e, p) \/ AcquireInterrupted(l, e, p)
      PROVE  Registry!Next
  <2>1. CommitAcquire(l, e, Marked(p))
    BY <1>2 DEF Acquire, AcquireInterrupted
  <2>2. CASE Granted(e, Marked(p))
    BY <2>1, <2>2, GrantTakes
  <2>3. CASE ~Granted(e, Marked(p))
    <3>1. lease' = Marked(p) /\ endpoint' = endpoint
      BY <2>1, <2>3, MarkedRow DEF CommitAcquire, StoreInv, StoreTypeOK
    <3>2. QED
      BY <3>1, MarkedRow, KeptRowsBlock DEF StoreInv
  <2>4. QED
    BY <2>2, <2>3
<1>3. ASSUME NEW l \in Leases, NEW to \in ActiveStates \cup {"stopped"}, Transition(l, to)
      PROVE  Registry!Next
  <2>1. /\ lease[l] # "absent"
        /\ \A k \in Leases : k # l => lease'[k] = lease[k] /\ endpoint'[k] = endpoint[k]
        /\ \/ lease'[l] = "absent" /\ lease[l] \in {"prepared", "stopping"}
           \/ /\ lease'[l] = to /\ to # "absent" /\ endpoint'[l] = endpoint[l]
              /\ lease[l] = "unknown_blocking" => to = "unknown_blocking"
    BY <1>3, TransitionRow
  <2>2. CASE lease'[l] = "absent"
    BY <2>1, <2>2, StoppedDrops
  <2>3. CASE lease'[l] # "absent"
    BY <2>1, <2>3, KeptRowsBlock
  <2>4. QED
    BY <2>2, <2>3
<1>4. ASSUME NEW l \in Leases, ReleaseOwner(l) \/ OwnerExit(l)
      PROVE  Registry!Next
  BY <1>4, KeptRowsBlock DEF ReleaseOwner, OwnerExit
<1>5. QED
  BY <1>1, <1>2, <1>3, <1>4 DEF StoreNext

\* What the rows keep in every state: endpoints are exclusive, live rows within the limit.
THEOREM RowsSafeAlways == StoreSpec => []RowsSafe
<1>1. EndpointExclusive /\ LiveLeaseLimit => RowsSafe
  BY DEF RowsSafe
<1>2. QED
  BY <1>1, EndpointExclusiveAlways, LiveLeaseLimitAlways, PTL

\* What the rows keep, and that they leave only through their owner and stopped.
THEOREM RowStepsAlways == StoreSpec => RowSteps
  BY RowsSafeAlways, RowsLeaveStoppedAlways, PTL DEF RowSteps

\* The store implements the registry: whatever clients, scans and exits do, an endpoint
\* is taken only while no row names it and a blocked one is never freed.
THEOREM StoreImplementsRegistry == StoreSpec => ImplementsRegistry
<1>1. StoreInit => Registry!Init
  BY DEF StoreInit, Registry!Init, Rows
<1>2. QED
  BY <1>1, StoreInvariant, RegistryStep, PTL DEF StoreSpec, ImplementsRegistry, Registry!Spec

-----------------------------------------------------------------------------
\* The phases in which a session has a lease row that it has not given back.
HeldPhases == BuildPhases \cup StartPhases \cup StopPhases \cup {"ready"}

Alive(sv) == sv \in {"launched", "listening"}

(***************************************************************************)
(* What the locals r of a session in phase ph, its row (state st, endpoint *)
(* en), its target tg and its server sv have to do with each other.        *)
(***************************************************************************)
Sound(ph, r, st, en, tg, sv) ==
    /\ ph # "idle" => r \in SessionRecords
    /\ ph \in HeldPhases => st # "absent" /\ en = tg /\ r.final = None
    /\ ph \in BuildPhases \cup {"start", "vacancy", "launch"} => sv = "none" /\ st # "ready"
    /\ ph \in {"resample", "restatic", "reinspect", "mark"} => sv \in {"listening", "gone"}
    /\ ph \in {"undo", "undone", "failing"} => r.pending \in Reasons
    /\ st = "ready" => sv \in {"listening", "gone"}
    /\ ph \in {"report", "done"} => /\ r.final = "stopped" => st = "absent"
                                    /\ r.final = "unknown_blocking" => st # "absent"

(***************************************************************************)
(* A server that may be running has a row, and the adapter of a living     *)
(* session knows of it or of its failure to stop it.  This is what an      *)
(* interrupt between the fork and the assignment breaks.                   *)
(***************************************************************************)
Attended(ph, r, st, en, tg, sv) ==
    /\ Alive(sv) => st # "absent" /\ en = tg
    /\ ph \in {"undone", "vacate", "settle"} => ~Alive(sv)
    /\ ph \in {"observe", "sample", "resample", "undo", "undone", "restatic", "reinspect",
               "mark", "ready"} => r.owned = TRUE
    /\ ph \in {"failing", "stop", "teardown"} /\ Alive(sv) => r.owned = TRUE
    /\ ph \in {"unverified", "report"} /\ Alive(sv) => r.unknown = TRUE
    /\ ph = "done" /\ r.report \in {"ok", "failed", "interrupted"} => st = "absent" /\ ~Alive(sv)

SessionOK(l) == Sound(pc[l], sess[l], lease[l], endpoint[l], target[l], server[l])

AttendedOK(l) == Attended(pc[l], sess[l], lease[l], endpoint[l], target[l], server[l])

\* Only a server that opened its listener is seen at an endpoint.
ListenerInv ==
    \A e \in Endpoints, l \in Leases : listener[e] = l => server[l] = "listening"

SupInv ==
    /\ StoreInv /\ SessionTypeOK /\ ListenerInv
    /\ \A l \in Leases : SessionOK(l)

AttendedInv == \A l \in Leases : AttendedOK(l)

\* A step of session l leaves it in a phase that the invariants allow.
Landed(l) ==
    /\ \E ph \in Phases, r \in SessionRecords \cup {None} : GoTo(l, ph, r)
    /\ SessionOK(l)'
    /\ LaunchInterrupts = FALSE /\ AttendedOK(l) => AttendedOK(l)'

-----------------------------------------------------------------------------
LEMMA GoToExact ==
    ASSUME SessionTypeOK, NEW l \in Leases, NEW ph, NEW r, GoTo(l, ph, r)
    PROVE  /\ pc'[l] = ph /\ sess'[l] = r
           /\ \A k \in Leases : k # l => pc'[k] = pc[k] /\ sess'[k] = sess[k]
BY DEF GoTo, SessionTypeOK

\* What is known of a session from the invariant, without quantifiers.
LEMMA SessionFacts ==
    ASSUME SupInv, NEW l \in Leases
    PROVE  /\ SessionTypeOK /\ StoreInv /\ SessionOK(l)
           /\ pc[l] \in Phases
           /\ pc[l] # "idle" => sess[l] \in SessionRecords
           /\ pc[l] \in HeldPhases =>
                /\ lease[l] # "absent" /\ endpoint[l] = target[l] /\ sess[l].final = None
                /\ target[l] \in Endpoints
<1>1. SessionTypeOK /\ StoreInv /\ SessionOK(l) /\ pc[l] \in Phases
  BY DEF SupInv, SessionTypeOK
<1>2. lease[l] # "absent" => endpoint[l] \in Endpoints
  BY <1>1 DEF StoreInv, StoreTypeOK, RowHasEndpoint
<1>3. QED
  BY <1>1, <1>2 DEF SessionOK, Sound

\* A session arrives in a phase with locals, row and server that fit it.
LEMMA Lands ==
    ASSUME SupInv, NEW l \in Leases, NEW ph \in Phases, NEW r \in SessionRecords,
           GoTo(l, ph, r),
           Sound(ph, r, lease'[l], endpoint'[l], target'[l], server'[l]),
           LaunchInterrupts = FALSE /\ AttendedOK(l) =>
             Attended(ph, r, lease'[l], endpoint'[l], target'[l], server'[l])
    PROVE  Landed(l)
<1>1. pc'[l] = ph /\ sess'[l] = r
  BY GoToExact DEF SupInv
<1>2. SessionOK(l)'
  BY <1>1 DEF SessionOK
<1>3. LaunchInterrupts = FALSE /\ AttendedOK(l) => AttendedOK(l)'
  BY <1>1 DEF AttendedOK
<1>4. QED
  BY <1>2, <1>3 DEF Landed

\* The same when row, target and server stay.
LEMMA Stays ==
    ASSUME SupInv, NEW l \in Leases, NEW ph \in Phases, NEW r \in SessionRecords,
           GoTo(l, ph, r),
           lease' = lease, endpoint' = endpoint, target' = target, server' = server,
           Sound(ph, r, lease[l], endpoint[l], target[l], server[l]),
           LaunchInterrupts = FALSE /\ AttendedOK(l) =>
             Attended(ph, r, lease[l], endpoint[l], target[l], server[l])
    PROVE  Landed(l)
BY Lands

\* What others do to the store leaves a session sound: its row stays or becomes unknown.
LEMMA Undisturbed ==
    ASSUME NEW k \in Leases, SessionOK(k),
           pc'[k] = pc[k], sess'[k] = sess[k], target'[k] = target[k],
           server'[k] = server[k], endpoint'[k] = endpoint[k],
           lease'[k] \in {lease[k], "unknown_blocking"},
           (lease'[k] = "absent") = (lease[k] = "absent")
    PROVE  SessionOK(k)' /\ (AttendedOK(k) => AttendedOK(k)')
BY DEF SessionOK, Sound, AttendedOK, Attended

\* A committed transition of the session's own row.
LEMMA Moved ==
    ASSUME StoreInv, NEW l \in Leases, NEW to \in ActiveStates \cup {"stopped"},
           Transition(l, to)
    PROVE  /\ lease'[l] = IF to = "stopped" THEN "absent" ELSE to
           /\ to # "stopped" => endpoint'[l] = endpoint[l] /\ lease'[l] # "absent"
           /\ \A k \in Leases : k # l => lease'[k] = lease[k] /\ endpoint'[k] = endpoint[k]
BY DEF Transition, StoreInv, StoreTypeOK, ActiveStates

-----------------------------------------------------------------------------
\* An error inside start or inspect.
LEMMA RaiseLands ==
    ASSUME SupInv, NEW l \in Leases, NEW r \in SessionRecords, NEW reason \in Reasons,
           Raise(l, r, reason), pc[l] \in HeldPhases, r.final = None,
           lease' = lease, endpoint' = endpoint, target' = target, server' = server,
           LaunchInterrupts = FALSE /\ AttendedOK(l) /\ Alive(server[l]) => r.owned = TRUE
    PROVE  Landed(l)
<1> DEFINE q == [r EXCEPT !.pending = reason]
<1>1. q \in SessionRecords /\ q.pending = reason /\ q.final = r.final /\ q.owned = r.owned
  BY DEF SessionRecords
<1>2. GoTo(l, "failing", q)
  BY DEF Raise
<1> HIDE DEF q
<1>3. /\ lease[l] # "absent" /\ endpoint[l] = target[l]
      /\ lease[l] = "ready" => server[l] \in {"listening", "gone"}
  BY SessionFacts DEF SessionOK, Sound
<1>4. Sound("failing", q, lease[l], endpoint[l], target[l], server[l])
  BY <1>1, <1>3 DEF Sound, BuildPhases
<1>5. LaunchInterrupts = FALSE /\ AttendedOK(l) =>
        Attended("failing", q, lease[l], endpoint[l], target[l], server[l])
  BY <1>1, <1>3 DEF Attended
<1>6. "failing" \in Phases
  BY DEF Phases, StartPhases
<1>7. QED
  BY <1>1, <1>2, <1>4, <1>5, <1>6, Stays

\* A failed transition or observation inside the start loop.
LEMMA LoopFailsLands ==
    ASSUME SupInv, NEW l \in Leases, LoopFails(l), pc[l] \in {"observe", "sample", "resample"},
           lease' = lease, endpoint' = endpoint, target' = target, server' = server
    PROVE  Landed(l)
<1>1. sess[l] \in SessionRecords /\ pc[l] \in HeldPhases
  BY SessionFacts DEF HeldPhases, StartPhases
<1> DEFINE q == [sess[l] EXCEPT !.pending = "other"]
<1>2. /\ q \in SessionRecords /\ q.pending \in Reasons /\ q.final = sess[l].final
      /\ q.owned = sess[l].owned
  BY <1>1 DEF SessionRecords, Reasons
<1>3. GoTo(l, "undo", q)
  BY DEF LoopFails
<1> HIDE DEF q
<1>4. Sound("undo", q, lease[l], endpoint[l], target[l], server[l])
  BY <1>1, <1>2, SessionFacts DEF SessionOK, Sound, BuildPhases
<1>5. LaunchInterrupts = FALSE /\ AttendedOK(l) =>
        Attended("undo", q, lease[l], endpoint[l], target[l], server[l])
  BY <1>2 DEF AttendedOK, Attended
<1>6. "undo" \in Phases
  BY DEF Phases, StartPhases
<1>7. QED
  BY <1>2, <1>3, <1>4, <1>5, <1>6, Stays

\* The command ends with a report and keeps its receipt.
LEMMA ReportLands ==
    ASSUME SupInv, NEW l \in Leases, NEW r \in SessionRecords, NEW w \in Reports,
           Reported(l, r, w), target' = target, server' = server,
           r.final = "stopped" => lease'[l] = "absent",
           r.final = "unknown_blocking" => lease'[l] # "absent",
           lease'[l] = "ready" => server[l] \in {"listening", "gone"},
           LaunchInterrupts = FALSE /\ AttendedOK(l) =>
             /\ Alive(server[l]) => lease'[l] # "absent" /\ endpoint'[l] = target[l]
             /\ w \in {"ok", "failed", "interrupted"} =>
                  lease'[l] = "absent" /\ ~Alive(server[l])
    PROVE  Landed(l)
<1> DEFINE q == [r EXCEPT !.report = w]
<1>1. q \in SessionRecords /\ q.final = r.final /\ q.report = w
  BY DEF SessionRecords
<1>2. GoTo(l, "done", q)
  BY DEF Reported
<1> HIDE DEF q
<1>3. Sound("done", q, lease'[l], endpoint'[l], target'[l], server'[l])
  BY <1>1 DEF Sound, HeldPhases, BuildPhases, StartPhases, StopPhases
<1>4. LaunchInterrupts = FALSE /\ AttendedOK(l) =>
        Attended("done", q, lease'[l], endpoint'[l], target'[l], server'[l])
  BY <1>1 DEF Attended
<1>5. "done" \in Phases
  BY DEF Phases
<1>6. QED
  BY <1>1, <1>2, <1>3, <1>4, <1>5, Lands

-----------------------------------------------------------------------------
\* build_runtime_supervisor: a row and no server, or no session at all.
LEMMA BuildLands ==
    ASSUME SupInv, NEW l \in Leases, Build(l)
    PROVE  Landed(l)
<1>1. SessionTypeOK /\ StoreInv /\ lease[l] = "absent" /\ ~Alive(server[l])
  BY SessionFacts DEF Build, FreshLease, Running, Alive
<1>2. PICK command \in Commands, e \in Endpoints :
        \/ \E p \in Probes :
             /\ Acquire(l, e, p)
             /\ target' = [target EXCEPT ![l] = e]
             /\ server' = [server EXCEPT ![l] = "none"]
             /\ IF Granted(e, Marked(p)) THEN GoTo(l, "construct", FreshSession(command))
                ELSE Reported(l, FreshSession(command), "failed")
        \/ \E p \in Probes :
             /\ AcquireInterrupted(l, e, p)
             /\ Reported(l, FreshSession(command), "interrupted_early")
             /\ UNCHANGED <<target, server>>
        \/ /\ Reported(l, FreshSession(command), "failed")
           /\ UNCHANGED <<storeVars, target, server>>
  BY Zenon DEF Build
<1> DEFINE r == FreshSession(command)
<1>3. r \in SessionRecords /\ r.final = None
  BY PollAssumption DEF FreshSession, SessionRecords, ActiveStates
<1> HIDE DEF r
<1>4. ASSUME NEW p \in Probes, CommitAcquire(l, e, Marked(p))
      PROVE  /\ ~Granted(e, Marked(p)) => lease'[l] = "absent"
             /\ Granted(e, Marked(p)) => lease'[l] = "prepared" /\ endpoint'[l] = e
             /\ lease'[l] \in {"absent", "prepared"}
  <2>1. /\ Marked(p) \in [Leases -> ActiveStates \cup {"absent"}]
        /\ Marked(p)[l] = "absent" /\ endpoint \in [Leases -> Endpoints \cup {None}]
    BY <1>1, MarkedRow DEF StoreInv, StoreTypeOK
  <2>2. QED
    BY <1>4, <2>1 DEF CommitAcquire
<1>5. ASSUME NEW q \in SessionRecords, q.final = None, NEW w \in Reports, Reported(l, q, w),
             target'[l] = target[l] \/ lease'[l] = "absent",
             server'[l] \in {server[l], "none"}, lease'[l] \in {"absent", "prepared"},
             w \in {"ok", "failed", "interrupted"} => lease'[l] = "absent"
      PROVE  Landed(l)
  <2> DEFINE d == [q EXCEPT !.report = w]
  <2>1. d \in SessionRecords /\ d.final = None /\ d.report = w
    BY <1>5 DEF SessionRecords
  <2>2. GoTo(l, "done", d) /\ "done" \in Phases
    BY <1>5 DEF Reported, Phases
  <2> HIDE DEF d
  <2>3. ~Alive(server'[l])
    BY <1>1, <1>5 DEF Alive
  <2>4. Sound("done", d, lease'[l], endpoint'[l], target'[l], server'[l])
    BY <1>5, <2>1, NoneAssumption
       DEF Sound, HeldPhases, BuildPhases, StartPhases, StopPhases, ActiveStates
  <2>5. Attended("done", d, lease'[l], endpoint'[l], target'[l], server'[l])
    BY <1>5, <2>1, <2>3 DEF Attended
  <2>6. QED
    BY <2>1, <2>2, <2>4, <2>5, Lands
<1>6. ASSUME NEW p \in Probes, Acquire(l, e, p),
             target' = [target EXCEPT ![l] = e], server' = [server EXCEPT ![l] = "none"],
             IF Granted(e, Marked(p)) THEN GoTo(l, "construct", r)
             ELSE Reported(l, r, "failed")
      PROVE  Landed(l)
  <2>1. CommitAcquire(l, e, Marked(p))
    BY <1>6 DEF Acquire
  <2>2. target'[l] = e /\ server'[l] = "none"
    BY <1>1, <1>6 DEF SessionTypeOK
  <2>3. CASE Granted(e, Marked(p))
    <3>1. lease'[l] = "prepared" /\ endpoint'[l] = e
      BY <1>4, <2>1, <2>3
    <3>2. Sound("construct", r, lease'[l], endpoint'[l], target'[l], server'[l])
      BY <1>3, <2>2, <3>1 DEF Sound
    <3>3. Attended("construct", r, lease'[l], endpoint'[l], target'[l], server'[l])
      BY <2>2, <3>1 DEF Attended, Alive
    <3>4. GoTo(l, "construct", r) /\ "construct" \in Phases
      BY <1>6, <2>3 DEF Phases, BuildPhases
    <3>5. QED
      BY <1>3, <3>2, <3>3, <3>4, Lands
  <2>4. CASE ~Granted(e, Marked(p))
    <3>1. lease'[l] = "absent" /\ Reported(l, r, "failed")
      BY <1>4, <1>6, <2>1, <2>4
    <3>2. QED
      BY <1>3, <1>5, <2>2, <3>1 DEF Reports
  <2>5. QED
    BY <2>3, <2>4
<1>7. ASSUME NEW p \in Probes, AcquireInterrupted(l, e, p),
             Reported(l, r, "interrupted_early"), UNCHANGED <<target, server>>
      PROVE  Landed(l)
  <2>1. lease'[l] \in {"absent", "prepared"}
    BY <1>4, <1>7 DEF AcquireInterrupted
  <2>2. QED
    BY <1>3, <1>5, <1>7, <2>1 DEF Reports
<1>8. ASSUME Reported(l, r, "failed"), UNCHANGED <<storeVars, target, server>>
      PROVE  Landed(l)
  <2>1. lease'[l] = "absent"
    BY <1>1, <1>8 DEF storeVars
  <2>2. QED
    BY <1>3, <1>5, <1>8, <2>1 DEF Reports
<1>9. QED
  BY <1>2, <1>6, <1>7, <1>8 DEF r

\* The lease is given back when the session cannot be constructed.
LEMMA UnbuildLands ==
    ASSUME SupInv, NEW l \in Leases, Construct(l) \/ Unbuild(l) \/ Unbuilt(l)
    PROVE  Landed(l)
<1>1. /\ StoreInv /\ sess[l] \in SessionRecords /\ sess[l].final = None
      /\ pc[l] \in BuildPhases /\ server[l] = "none"
      /\ lease[l] # "absent" /\ endpoint[l] = target[l] /\ lease[l] # "ready"
      /\ target' = target /\ server' = server
  BY SessionFacts DEF Construct, Unbuild, Unbuilt, SessionOK, Sound, HeldPhases, BuildPhases,
     worldVars
<1>2. ~Alive(server[l])
  BY <1>1 DEF Alive
<1>3. CASE Construct(l)
  <2>1. PICK ph \in {"start", "unbuild"} : GoTo(l, ph, sess[l])
    BY <1>3, Zenon DEF Construct
  <2>2. lease' = lease /\ endpoint' = endpoint
    BY <1>3 DEF Construct, storeVars
  <2>3. ph \in Phases
    BY DEF Phases, StartPhases, BuildPhases
  <2>4. Sound(ph, sess[l], lease[l], endpoint[l], target[l], server[l])
    BY <1>1 DEF Sound
  <2>5. Attended(ph, sess[l], lease[l], endpoint[l], target[l], server[l])
    BY <1>2 DEF Attended
  <2>6. QED
    BY <1>1, <2>1, <2>2, <2>3, <2>4, <2>5, Stays
<1>4. ASSUME NEW w \in Reports, Reported(l, sess[l], w), lease'[l] # "ready",
             w = "failed" => lease'[l] = "absent", w \in {"failed", "cleanup_unverified"}
      PROVE  Landed(l)
  BY <1>1, <1>2, <1>4, ReportLands, NoneAssumption DEF ActiveStates
<1>5. CASE Unbuild(l)
  <2>1. CASE Committed(l, "stopping", "unbuilt", sess[l])
    <3> DEFINE q == [sess[l] EXCEPT !.state = "stopping"]
    <3>1. q \in SessionRecords /\ q.final = None
      BY <1>1 DEF SessionRecords, ActiveStates
    <3>2. GoTo(l, "unbuilt", q) /\ "unbuilt" \in Phases
      BY <2>1 DEF Committed, Phases, BuildPhases
    <3>3. lease'[l] = "stopping" /\ endpoint'[l] = endpoint[l]
      BY <1>1, <2>1, Moved DEF Committed, ActiveStates
    <3> HIDE DEF q
    <3>4. Sound("unbuilt", q, lease'[l], endpoint'[l], target'[l], server'[l])
      BY <1>1, <3>1, <3>3 DEF Sound
    <3>5. Attended("unbuilt", q, lease'[l], endpoint'[l], target'[l], server'[l])
      BY <1>1, <1>2 DEF Attended
    <3>6. QED
      BY <3>1, <3>2, <3>4, <3>5, Lands
  <2>2. CASE TransitionFails(l, "stopping") /\ Reported(l, sess[l], "cleanup_unverified")
    BY <1>1, <1>4, <2>2 DEF TransitionFails, storeVars, Reports
  <2>3. QED
    BY <1>5, <2>1, <2>2 DEF Unbuild
<1>6. CASE Unbuilt(l)
  <2>1. CASE Transition(l, "stopped") /\ Reported(l, sess[l], "failed")
    <3>1. lease'[l] = "absent"
      BY <1>1, <2>1, Moved
    <3>2. QED
      BY <1>4, <2>1, <3>1 DEF Reports
  <2>2. CASE TransitionFails(l, "stopped") /\ Reported(l, sess[l], "cleanup_unverified")
    BY <1>1, <1>4, <2>2 DEF TransitionFails, storeVars, Reports
  <2>3. QED
    BY <1>6, <2>1, <2>2 DEF Unbuilt
<1>7. QED
  BY <1>3, <1>5, <1>6

-----------------------------------------------------------------------------
\* start, up to the fork: nothing runs yet.
LEMMA LaunchLands ==
    ASSUME SupInv, NEW l \in Leases, StaticCheck(l) \/ CheckVacancy(l) \/ Launch(l)
    PROVE  Landed(l)
<1>1. /\ SessionTypeOK /\ sess[l] \in SessionRecords /\ sess[l].final = None
      /\ pc[l] \in HeldPhases /\ server[l] = "none" /\ lease[l] # "ready"
      /\ lease[l] # "absent" /\ endpoint[l] = target[l]
      /\ lease' = lease /\ endpoint' = endpoint /\ target' = target
  BY SessionFacts DEF StaticCheck, CheckVacancy, Launch, SessionOK, Sound, HeldPhases,
     StartPhases, storeVars
<1>2. ~Alive(server[l])
  BY <1>1 DEF Alive
<1>3. ASSUME NEW reason \in Reasons, Raise(l, sess[l], reason), server' = server
      PROVE  Landed(l)
  BY <1>1, <1>2, <1>3, RaiseLands
<1>4. ASSUME NEW ph \in {"vacancy", "launch"}, GoTo(l, ph, sess[l]), server' = server
      PROVE  Landed(l)
  <2>1. ph \in Phases
    BY DEF Phases, StartPhases
  <2>2. Sound(ph, sess[l], lease[l], endpoint[l], target[l], server[l])
    BY <1>1 DEF Sound
  <2>3. Attended(ph, sess[l], lease[l], endpoint[l], target[l], server[l])
    BY <1>2 DEF Attended
  <2>4. QED
    BY <1>1, <1>4, <2>1, <2>2, <2>3, Stays
<1>5. CASE StaticCheck(l) \/ CheckVacancy(l)
  BY <1>3, <1>4, <1>5 DEF StaticCheck, CheckVacancy, Reasons, worldVars
<1>6. CASE GoTo(l, "forked", sess[l]) /\ server' = [server EXCEPT ![l] = "launched"]
  <2>1. server'[l] = "launched" /\ "forked" \in Phases
    BY <1>1, <1>6 DEF SessionTypeOK, Phases, StartPhases
  <2>2. Sound("forked", sess[l], lease'[l], endpoint'[l], target'[l], server'[l])
    BY <1>1, <2>1 DEF Sound, BuildPhases
  <2>3. Attended("forked", sess[l], lease'[l], endpoint'[l], target'[l], server'[l])
    BY <1>1 DEF Attended
  <2>4. QED
    BY <1>1, <1>6, <2>1, <2>2, <2>3, Lands
<1>7. CASE Launch(l)
  BY <1>3, <1>6, <1>7 DEF Launch, Reasons
<1>8. QED
  BY <1>5, <1>7

\* A listener observed as the session's own belongs to a server that has bound its port.
LEMMA ObservedOwn ==
    ASSUME SupInv, NEW l \in Leases, pc[l] \in HeldPhases, Observed(l) = l
    PROVE  server[l] = "listening"
BY SessionFacts DEF SupInv, ListenerInv, Observed

\* The start loop: the process is kept, observed and sampled.
LEMMA LoopLands ==
    ASSUME SupInv, NEW l \in Leases,
           KeepProcess(l) \/ ObserveProcess(l) \/ SampleEndpoint(l) \/ Resample(l)
    PROVE  Landed(l)
<1>1. /\ StoreInv /\ sess[l] \in SessionRecords /\ sess[l].final = None
      /\ pc[l] \in {"forked", "observe", "sample", "resample"} /\ pc[l] \in HeldPhases
      /\ lease[l] # "absent" /\ endpoint[l] = target[l]
      /\ lease[l] = "ready" => server[l] \in {"listening", "gone"}
      /\ target' = target /\ server' = server
  BY SessionFacts DEF KeepProcess, ObserveProcess, SampleEndpoint, Resample, SessionOK, Sound,
     HeldPhases, StartPhases, worldVars
<1>2. LaunchInterrupts = FALSE /\ AttendedOK(l) =>
        /\ pc[l] # "forked" => sess[l].owned = TRUE
        /\ Alive(server[l]) => lease[l] # "absent" /\ endpoint[l] = target[l]
  BY <1>1 DEF AttendedOK, Attended
\* Where a step of the loop may lead.
<1>3. ASSUME NEW ph \in {"observe", "sample", "resample", "restatic"},
             NEW q \in SessionRecords, GoTo(l, ph, q), q.final = None,
             q.owned = TRUE \/ (pc[l] # "forked" /\ q.owned = sess[l].owned),
             lease'[l] # "absent", endpoint'[l] = endpoint[l],
             lease'[l] = "ready" => lease[l] = "ready",
             ph \in {"resample", "restatic"} => Observed(l) = l
      PROVE  Landed(l)
  <2>1. ph \in Phases
    BY DEF Phases, StartPhases
  <2>2. ph \in {"resample", "restatic"} => server[l] = "listening"
    BY <1>1, <1>3, ObservedOwn
  <2>3. Sound(ph, q, lease'[l], endpoint'[l], target'[l], server'[l])
    BY <1>1, <1>3, <2>2 DEF Sound, BuildPhases
  <2>4. LaunchInterrupts = FALSE /\ AttendedOK(l) =>
          Attended(ph, q, lease'[l], endpoint'[l], target'[l], server'[l])
    BY <1>1, <1>2, <1>3 DEF Attended
  <2>5. QED
    BY <1>3, <2>1, <2>3, <2>4, Lands
<1>4. CASE KeepProcess(l)
  <2> DEFINE q == [sess[l] EXCEPT !.owned = TRUE]
  <2>1. q \in SessionRecords /\ q.final = None /\ q.owned = TRUE
    BY <1>1 DEF SessionRecords
  <2>2. GoTo(l, "observe", q) /\ lease' = lease /\ endpoint' = endpoint
    BY <1>4 DEF KeepProcess, storeVars
  <2> HIDE DEF q
  <2>3. QED
    BY <1>1, <1>3, <2>1, <2>2
<1>5. CASE ObserveProcess(l)
  <2>1. CASE Committed(l, "starting", "sample", sess[l])
    <3> DEFINE q == [sess[l] EXCEPT !.state = "starting"]
    <3>1. q \in SessionRecords /\ q.final = None /\ q.owned = sess[l].owned
      BY <1>1 DEF SessionRecords, ActiveStates
    <3>2. GoTo(l, "sample", q)
      BY <2>1 DEF Committed
    <3>3. lease'[l] = "starting" /\ endpoint'[l] = endpoint[l]
      BY <1>1, <2>1, Moved DEF Committed, ActiveStates
    <3> HIDE DEF q
    <3>4. QED
      BY <1>3, <1>5, <3>1, <3>2, <3>3 DEF ObserveProcess
  <2>2. CASE GoTo(l, "sample", sess[l]) /\ UNCHANGED storeVars
    BY <1>1, <1>3, <1>5, <2>2 DEF ObserveProcess, storeVars
  <2>3. CASE LoopFails(l) /\ UNCHANGED storeVars
    BY <1>1, <1>5, <2>3, LoopFailsLands DEF ObserveProcess, storeVars
  <2>4. QED
    BY <1>5, <2>1, <2>2, <2>3 DEF ObserveProcess, TransitionFails
<1>6. CASE SampleEndpoint(l)
  <2>1. lease' = lease /\ endpoint' = endpoint /\ pc[l] = "sample"
    BY <1>6 DEF SampleEndpoint, storeVars
  <2>2. CASE /\ sess[l].polls < MaxPolls
             /\ GoTo(l, "observe", [sess[l] EXCEPT !.polls = @ + 1])
    <3> DEFINE q == [sess[l] EXCEPT !.polls = @ + 1]
    <3>1. q \in SessionRecords /\ q.final = None /\ q.owned = sess[l].owned
      BY <1>1, <2>2, PollAssumption DEF SessionRecords
    <3>2. GoTo(l, "observe", q)
      BY <2>2
    <3> HIDE DEF q
    <3>3. QED
      BY <1>1, <1>3, <2>1, <3>1, <3>2
  <2>3. CASE Observed(l) = l /\ GoTo(l, "resample", sess[l])
    BY <1>1, <1>3, <2>1, <2>3
  <2>4. CASE LoopFails(l)
    BY <1>1, <2>1, <2>4, LoopFailsLands
  <2>5. QED
    BY <1>6, <2>2, <2>3, <2>4 DEF SampleEndpoint
<1>7. CASE Resample(l)
  <2>1. lease' = lease /\ endpoint' = endpoint /\ pc[l] = "resample"
    BY <1>7 DEF Resample, storeVars
  <2>2. CASE Observed(l) = l /\ GoTo(l, "restatic", sess[l])
    BY <1>1, <1>3, <2>1, <2>2
  <2>3. CASE LoopFails(l)
    BY <1>1, <2>1, <2>3, LoopFailsLands
  <2>4. QED
    BY <1>7, <2>2, <2>3 DEF Resample
<1>8. QED
  BY <1>4, <1>5, <1>6, <1>7

\* The adapter's cleanup of a failed start.
LEMMA UndoLands ==
    ASSUME SupInv, NEW l \in Leases, UndoLaunch(l) \/ UndoObserved(l)
    PROVE  Landed(l)
<1>1. /\ SessionTypeOK /\ sess[l] \in SessionRecords /\ sess[l].final = None
      /\ pc[l] \in {"undo", "undone"} /\ pc[l] \in HeldPhases
      /\ lease[l] # "absent" /\ endpoint[l] = target[l] /\ sess[l].pending \in Reasons
      /\ lease' = lease /\ endpoint' = endpoint /\ target' = target
  BY SessionFacts DEF UndoLaunch, UndoObserved, SessionOK, Sound, HeldPhases, StartPhases,
     storeVars
<1>2. LaunchInterrupts = FALSE /\ AttendedOK(l) =>
        sess[l].owned = TRUE /\ (pc[l] = "undone" => ~Alive(server[l]))
  BY <1>1 DEF AttendedOK, Attended
<1> DEFINE u == [sess[l] EXCEPT !.unknown = TRUE]
           f == [sess[l] EXCEPT !.owned = FALSE]
<1>3. /\ u \in SessionRecords /\ u.final = None /\ u.owned = sess[l].owned
      /\ f \in SessionRecords /\ f.final = None
  BY <1>1 DEF SessionRecords
<1>4. ASSUME Raise(l, u, "cleanup_unverified"), server' = server
      PROVE  Landed(l)
  <2> HIDE DEF u
  <2>1. QED
    BY <1>1, <1>2, <1>3, <1>4, RaiseLands DEF Reasons
<1>5. CASE UndoLaunch(l)
  <2>1. CASE Terminated(l) /\ GoTo(l, "undone", sess[l])
    <3>1. server'[l] = "gone" /\ "undone" \in Phases
      BY <1>1, <2>1 DEF Terminated, SessionTypeOK, Phases, StartPhases
    <3>2. Sound("undone", sess[l], lease'[l], endpoint'[l], target'[l], server'[l])
      BY <1>1, <3>1 DEF Sound, BuildPhases
    <3>3. LaunchInterrupts = FALSE /\ AttendedOK(l) =>
            Attended("undone", sess[l], lease'[l], endpoint'[l], target'[l], server'[l])
      BY <1>2, <3>1 DEF Attended, Alive
    <3>4. QED
      BY <1>1, <2>1, <3>1, <3>2, <3>3, Lands
  <2>2. QED
    BY <1>4, <1>5, <2>1 DEF UndoLaunch, worldVars
<1>6. CASE UndoObserved(l)
  <2>1. CASE Raise(l, f, sess[l].pending)
    <3> HIDE DEF f
    <3>1. pc[l] = "undone" /\ server' = server
      BY <1>6 DEF UndoObserved, worldVars
    <3>2. QED
      BY <1>1, <1>2, <1>3, <2>1, <3>1, RaiseLands
  <2>2. QED
    BY <1>4, <1>6, <2>1 DEF UndoObserved, worldVars
<1>7. QED
  BY <1>5, <1>6

\* From the re-hash after readiness to the ready row, and the ready session.
LEMMA ReadyLands ==
    ASSUME SupInv, NEW l \in Leases,
           StaticRecheck(l) \/ Reinspect(l) \/ MarkReady(l) \/ Inspect(l) \/ StopRequested(l)
    PROVE  Landed(l)
<1>1. /\ StoreInv /\ sess[l] \in SessionRecords /\ sess[l].final = None
      /\ pc[l] \in {"restatic", "reinspect", "mark", "ready"} /\ pc[l] \in HeldPhases
      /\ lease[l] # "absent" /\ endpoint[l] = target[l]
      /\ lease[l] = "ready" => server[l] \in {"listening", "gone"}
      /\ pc[l] # "ready" => server[l] \in {"listening", "gone"}
      /\ target' = target /\ server' = server
  BY SessionFacts DEF StaticRecheck, Reinspect, MarkReady, Inspect, StopRequested, SessionOK,
     Sound, HeldPhases, StartPhases, worldVars
<1>2. LaunchInterrupts = FALSE /\ AttendedOK(l) => sess[l].owned = TRUE
  BY <1>1 DEF AttendedOK, Attended
<1>3. ASSUME NEW reason \in Reasons, Raise(l, sess[l], reason), UNCHANGED storeVars
      PROVE  Landed(l)
  BY <1>1, <1>2, <1>3, RaiseLands DEF storeVars
<1>4. ASSUME NEW ph \in {"reinspect", "mark", "ready", "stop"}, NEW q \in SessionRecords,
             GoTo(l, ph, q), q.final = None, q.owned = sess[l].owned,
             ph \in {"reinspect", "mark"} => pc[l] # "ready",
             lease'[l] # "absent", endpoint'[l] = endpoint[l],
             lease'[l] = "ready" => server[l] \in {"listening", "gone"}
      PROVE  Landed(l)
  <2>1. ph \in Phases
    BY DEF Phases, StartPhases, StopPhases
  <2>2. Sound(ph, q, lease'[l], endpoint'[l], target'[l], server'[l])
    BY <1>1, <1>4 DEF Sound, BuildPhases
  <2>3. LaunchInterrupts = FALSE /\ AttendedOK(l) =>
          Attended(ph, q, lease'[l], endpoint'[l], target'[l], server'[l])
    BY <1>1, <1>2, <1>4 DEF Attended
  <2>4. QED
    BY <1>4, <2>1, <2>2, <2>3, Lands
<1>5. CASE StaticRecheck(l)
  BY <1>1, <1>3, <1>4, <1>5 DEF StaticRecheck, Reasons, storeVars
<1>6. CASE Reinspect(l)
  BY <1>1, <1>3, <1>4, <1>6 DEF Reinspect, Reasons, storeVars
<1>7. CASE MarkReady(l)
  <2>1. CASE Committed(l, "ready", "ready", sess[l])
    <3> DEFINE q == [sess[l] EXCEPT !.state = "ready"]
    <3>1. q \in SessionRecords /\ q.final = None /\ q.owned = sess[l].owned
      BY <1>1 DEF SessionRecords, ActiveStates
    <3>2. GoTo(l, "ready", q) /\ pc[l] = "mark"
      BY <1>7, <2>1 DEF Committed, MarkReady
    <3>3. lease'[l] = "ready" /\ endpoint'[l] = endpoint[l]
      BY <1>1, <2>1, Moved DEF Committed, ActiveStates
    <3> HIDE DEF q
    <3>4. QED
      BY <1>1, <1>4, <3>1, <3>2, <3>3
  <2>2. CASE TransitionFails(l, "ready") /\ Raise(l, sess[l], "other")
    BY <1>3, <2>2 DEF TransitionFails, Reasons
  <2>3. QED
    BY <1>7, <2>1, <2>2 DEF MarkReady
<1>8. CASE Inspect(l)
  <2>1. CASE GoTo(l, "stop", sess[l])
    BY <1>1, <1>4, <1>8, <2>1 DEF Inspect, storeVars
  <2>2. CASE \E reason \in {"binding_changed", "other"} : Raise(l, sess[l], reason)
    BY <1>3, <1>8, <2>2 DEF Inspect, Reasons
  <2>3. QED
    BY <1>8, <2>1, <2>2 DEF Inspect
<1>9. CASE StopRequested(l)
  BY <1>1, <1>4, <1>9 DEF StopRequested, storeVars
<1>10. QED
  BY <1>5, <1>6, <1>7, <1>8, <1>9

-----------------------------------------------------------------------------
\* _ensure_unknown keeps the row, whatever the store does, and what the adapter knows.
LEMMA EnsureUnknownExact ==
    ASSUME SupInv, NEW l \in Leases, NEW ph, NEW r0 \in SessionRecords, NEW when,
           EnsureUnknown(l, ph, r0, when), r0.final = None,
           lease[l] # "absent"
    PROVE  /\ \E q \in SessionRecords :
                /\ GoTo(l, ph, q)
                /\ q.owned = r0.owned /\ q.unknown = r0.unknown
                /\ q.final \in {None, "unknown_blocking"}
                /\ when = "never" => q.final = None
           /\ lease'[l] \in {lease[l], "unknown_blocking"} /\ lease'[l] # "absent"
           /\ endpoint'[l] = endpoint[l]
<1> DEFINE r == [r0 EXCEPT !.reasons = @ \cup {"cleanup_unverified"}]
           kept == UnknownReceipt(r, when)
           lost == UnknownReceipt([r EXCEPT !.ledgerFailed = TRUE], when)
           moved == [kept EXCEPT !.state = "unknown_blocking"]
           Same(q) == /\ q \in SessionRecords
                      /\ q.owned = r0.owned /\ q.unknown = r0.unknown
                      /\ q.final \in {None, "unknown_blocking"}
                      /\ when = "never" => q.final = None
<1>1. r \in SessionRecords /\ Same(r)
  BY DEF SessionRecords, Reasons
<1>2. ASSUME NEW x, Same(x) PROVE Same(UnknownReceipt(x, when))
  BY <1>2 DEF UnknownReceipt, SessionRecords
<1>3. Same([r EXCEPT !.ledgerFailed = TRUE])
  BY <1>1 DEF SessionRecords
<1> HIDE DEF r, Same
<1>4. Same(kept) /\ Same(lost)
  BY <1>1, <1>2, <1>3
<1> HIDE DEF kept, lost
<1>5. Same(moved)
  BY <1>4 DEF Same, SessionRecords, ActiveStates
<1>6. \/ GoTo(l, ph, kept) /\ UNCHANGED storeVars
      \/ GoTo(l, ph, lost) /\ UNCHANGED storeVars
      \/ GoTo(l, ph, moved) /\ Transition(l, "unknown_blocking")
  <2>1. CASE r.state = "unknown_blocking"
    BY <2>1, Zenon DEF EnsureUnknown, r, kept
  <2>2. CASE r.state = "stopped"
    BY <2>2, Zenon DEF EnsureUnknown, r, lost
  <2>3. CASE r.state # "unknown_blocking" /\ r.state # "stopped"
    <3>1. \/ Committed(l, "unknown_blocking", ph, kept)
          \/ TransitionFails(l, "unknown_blocking") /\ GoTo(l, ph, lost)
      BY <2>3, Zenon DEF EnsureUnknown, r, kept, lost
    <3>2. QED
      BY <3>1 DEF Committed, TransitionFails
  <2>4. QED
    BY <2>1, <2>2, <2>3
<1>7. \E q \in SessionRecords :
        /\ GoTo(l, ph, q)
        /\ q.owned = r0.owned /\ q.unknown = r0.unknown
        /\ q.final \in {None, "unknown_blocking"}
        /\ when = "never" => q.final = None
  <2> HIDE DEF moved
  <2>1. QED
    BY <1>4, <1>5, <1>6 DEF Same
<1>8. CASE UNCHANGED storeVars
  BY <1>7, <1>8 DEF storeVars
<1>9. CASE Transition(l, "unknown_blocking")
  <2>1. lease'[l] = "unknown_blocking" /\ endpoint'[l] = endpoint[l]
    BY <1>9, Moved DEF SupInv, ActiveStates
  <2>2. QED
    BY <1>7, <2>1
<1>10. QED
  BY <1>6, <1>8, <1>9

\* _record_failure: the row is revoked or unknown, and the session goes on to its stop.
LEMMA FailureLands ==
    ASSUME SupInv, NEW l \in Leases, RecordFailure(l)
    PROVE  Landed(l)
<1>1. /\ StoreInv /\ sess[l] \in SessionRecords /\ sess[l].final = None
      /\ pc[l] = "failing" /\ lease[l] # "absent" /\ endpoint[l] = target[l]
      /\ lease[l] = "ready" => server[l] \in {"listening", "gone"}
      /\ sess[l].pending \in Reasons
      /\ target' = target /\ server' = server
  BY SessionFacts DEF RecordFailure, SessionOK, Sound, HeldPhases, StartPhases, worldVars
<1>2. LaunchInterrupts = FALSE /\ AttendedOK(l) /\ Alive(server[l]) => sess[l].owned = TRUE
  BY <1>1 DEF AttendedOK, Attended
<1> DEFINE r == [sess[l] EXCEPT !.reasons = @ \cup {sess[l].pending}, !.pending = None,
                                !.primary = "failed"]
<1>3. r \in SessionRecords /\ r.final = None /\ r.owned = sess[l].owned
  BY <1>1 DEF SessionRecords
<1>4. ASSUME NEW q \in SessionRecords, GoTo(l, "stop", q), q.final = None,
             q.owned = sess[l].owned, lease'[l] # "absent", endpoint'[l] = endpoint[l],
             lease'[l] = "ready" => lease[l] = "ready"
      PROVE  Landed(l)
  <2>1. "stop" \in Phases
    BY DEF Phases, StopPhases
  <2>2. Sound("stop", q, lease'[l], endpoint'[l], target'[l], server'[l])
    BY <1>1, <1>4 DEF Sound, BuildPhases
  <2>3. LaunchInterrupts = FALSE /\ AttendedOK(l) =>
          Attended("stop", q, lease'[l], endpoint'[l], target'[l], server'[l])
    BY <1>1, <1>2, <1>4 DEF Attended
  <2>4. QED
    BY <1>4, <2>1, <2>2, <2>3, Lands
<1>5. \/ EnsureUnknown(l, "stop", r, "never")
      \/ Committed(l, "revoked", "stop", r)
      \/ TransitionFails(l, "revoked") /\ GoTo(l, "stop", [r EXCEPT !.ledgerFailed = TRUE])
  BY DEF RecordFailure
<1> HIDE DEF r
<1>6. CASE EnsureUnknown(l, "stop", r, "never")
  <2>1. /\ \E q \in SessionRecords :
             GoTo(l, "stop", q) /\ q.owned = r.owned /\ q.final = None
        /\ lease'[l] \in {lease[l], "unknown_blocking"} /\ lease'[l] # "absent"
        /\ endpoint'[l] = endpoint[l]
    BY <1>1, <1>3, <1>6, EnsureUnknownExact
  <2>2. QED
    BY <1>3, <1>4, <2>1
<1>7. CASE Committed(l, "revoked", "stop", r)
  <2> DEFINE q == [r EXCEPT !.state = "revoked"]
  <2>1. q \in SessionRecords /\ q.final = None /\ q.owned = sess[l].owned
    BY <1>3 DEF SessionRecords, ActiveStates
  <2>2. GoTo(l, "stop", q)
    BY <1>7 DEF Committed
  <2>3. lease'[l] = "revoked" /\ endpoint'[l] = endpoint[l]
    BY <1>1, <1>7, Moved DEF Committed, ActiveStates
  <2> HIDE DEF q
  <2>4. QED
    BY <1>4, <2>1, <2>2, <2>3
<1>8. CASE /\ TransitionFails(l, "revoked")
           /\ GoTo(l, "stop", [r EXCEPT !.ledgerFailed = TRUE])
  <2> DEFINE q == [r EXCEPT !.ledgerFailed = TRUE]
  <2>1. q \in SessionRecords /\ q.final = None /\ q.owned = sess[l].owned
    BY <1>3 DEF SessionRecords
  <2>2. GoTo(l, "stop", q) /\ lease' = lease /\ endpoint' = endpoint
    BY <1>8 DEF TransitionFails, storeVars
  <2> HIDE DEF q
  <2>3. QED
    BY <1>1, <1>4, <2>1, <2>2
<1>9. QED
  BY <1>5, <1>6, <1>7, <1>8

\* The steps of stop: what each phase of it has established of the server.
LEMMA StopLands ==
    ASSUME SupInv, NEW l \in Leases,
           BeginStop(l) \/ StopAdapter(l) \/ ObserveVacancy(l) \/ Settle(l) \/ StopUnverified(l)
    PROVE  Landed(l)
<1>1. /\ SessionTypeOK /\ StoreInv /\ sess[l] \in SessionRecords /\ sess[l].final = None
      /\ pc[l] \in StopPhases /\ lease[l] # "absent" /\ endpoint[l] = target[l]
      /\ lease[l] = "ready" => server[l] \in {"listening", "gone"}
      /\ sess[l].owned \in BOOLEAN /\ sess[l].unknown \in BOOLEAN
      /\ target' = target
  <2>1. pc[l] \in StopPhases /\ target' = target
    BY DEF BeginStop, StopAdapter, ObserveVacancy, Settle, StopUnverified, StopPhases
  <2>2. QED
    BY <2>1, SessionFacts DEF SessionOK, Sound, HeldPhases, StopPhases, SessionRecords
<1>2. LaunchInterrupts = FALSE /\ AttendedOK(l) =>
        /\ pc[l] \in {"vacate", "settle"} => ~Alive(server[l])
        /\ pc[l] \in {"stop", "teardown"} /\ Alive(server[l]) => sess[l].owned = TRUE
        /\ pc[l] = "unverified" /\ Alive(server[l]) => sess[l].unknown = TRUE
  BY DEF AttendedOK, Attended
\* The next phase of the stop.
<1>3. ASSUME NEW ph \in {"teardown", "vacate", "settle", "unverified"},
             NEW q \in SessionRecords, GoTo(l, ph, q), q.final = None,
             lease'[l] # "absent", endpoint'[l] = endpoint[l],
             lease'[l] = "ready" => server'[l] \in {"listening", "gone"},
             server'[l] \in {server[l], "gone"},
             LaunchInterrupts = FALSE /\ AttendedOK(l) =>
               /\ ph \in {"vacate", "settle"} => ~Alive(server'[l])
               /\ ph = "teardown" /\ Alive(server'[l]) => q.owned = TRUE
               /\ ph = "unverified" /\ Alive(server'[l]) => q.unknown = TRUE
      PROVE  Landed(l)
  <2>1. ph \in Phases
    BY DEF Phases, StopPhases
  <2>2. Sound(ph, q, lease'[l], endpoint'[l], target'[l], server'[l])
    BY <1>1, <1>3 DEF Sound, BuildPhases
  <2>3. LaunchInterrupts = FALSE /\ AttendedOK(l) =>
          Attended(ph, q, lease'[l], endpoint'[l], target'[l], server'[l])
    BY <1>1, <1>3 DEF Attended
  <2>4. QED
    BY <1>3, <2>1, <2>2, <2>3, Lands
\* The end of the stop, with a receipt or without one.
<1>4. ASSUME NEW q \in SessionRecords, GoTo(l, "report", q), server' = server,
             q.final = "stopped" => lease'[l] = "absent",
             q.final = "unknown_blocking" => lease'[l] # "absent",
             lease'[l] = "ready" => lease[l] = "ready",
             LaunchInterrupts = FALSE /\ AttendedOK(l) /\ Alive(server[l]) =>
               lease'[l] # "absent" /\ endpoint'[l] = endpoint[l] /\ q.unknown = TRUE
      PROVE  Landed(l)
  <2>1. "report" \in Phases
    BY DEF Phases
  <2>2. Sound("report", q, lease'[l], endpoint'[l], target'[l], server'[l])
    BY <1>1, <1>4 DEF Sound, HeldPhases, BuildPhases, StartPhases, StopPhases
  <2>3. LaunchInterrupts = FALSE /\ AttendedOK(l) =>
          Attended("report", q, lease'[l], endpoint'[l], target'[l], server'[l])
    BY <1>1, <1>4 DEF Attended
  <2>4. QED
    BY <1>4, <2>1, <2>2, <2>3, Lands
\* _ensure_unknown at the end of the stop.
<1>5. ASSUME NEW r0 \in SessionRecords, r0.final = None, r0.unknown = sess[l].unknown,
             NEW when, EnsureUnknown(l, "report", r0, when), server' = server,
             LaunchInterrupts = FALSE /\ AttendedOK(l) /\ Alive(server[l]) =>
               sess[l].unknown = TRUE
      PROVE  Landed(l)
  <2>1. /\ \E q \in SessionRecords :
             /\ GoTo(l, "report", q)
             /\ q.unknown = r0.unknown /\ q.final \in {None, "unknown_blocking"}
        /\ lease'[l] \in {lease[l], "unknown_blocking"} /\ lease'[l] # "absent"
        /\ endpoint'[l] = endpoint[l]
    BY <1>1, <1>5, EnsureUnknownExact
  <2>2. PICK q \in SessionRecords :
          /\ GoTo(l, "report", q)
          /\ q.unknown = r0.unknown /\ q.final \in {None, "unknown_blocking"}
    BY <2>1
  <2>3. q.final # "stopped"
    BY <2>2, NoneAssumption
  <2>4. QED
    BY <1>4, <1>5, <2>1, <2>2, <2>3
<1>6. CASE BeginStop(l)
  <2>1. server' = server /\ pc[l] = "stop"
    BY <1>6 DEF BeginStop, worldVars
  <2>2. CASE sess[l].unknown = TRUE
    <3>1. EnsureUnknown(l, "report", sess[l], "always")
      BY <1>6, <2>2 DEF BeginStop
    <3>2. QED
      BY <1>1, <1>5, <2>1, <2>2, <3>1
  <2>3. CASE sess[l].unknown = FALSE
    <3>1. \/ Committed(l, "stopping", "teardown", sess[l])
          \/ /\ TransitionFails(l, "stopping")
             /\ GoTo(l, "teardown", [sess[l] EXCEPT !.ledgerFailed = TRUE,
                                                    !.ledgerError = TRUE])
      BY <1>6, <2>3 DEF BeginStop
    <3> DEFINE c == [sess[l] EXCEPT !.state = "stopping"]
               f == [sess[l] EXCEPT !.ledgerFailed = TRUE, !.ledgerError = TRUE]
    <3>2. /\ c \in SessionRecords /\ c.final = None /\ c.owned = sess[l].owned
          /\ f \in SessionRecords /\ f.final = None /\ f.owned = sess[l].owned
      BY <1>1 DEF SessionRecords, ActiveStates
    <3>3. \/ GoTo(l, "teardown", c) /\ Transition(l, "stopping")
          \/ GoTo(l, "teardown", f) /\ lease' = lease /\ endpoint' = endpoint
      BY <3>1 DEF Committed, TransitionFails, storeVars
    <3> HIDE DEF c, f
    <3>4. CASE GoTo(l, "teardown", c) /\ Transition(l, "stopping")
      <4>1. lease'[l] = "stopping" /\ endpoint'[l] = endpoint[l]
        BY <1>1, <3>4, Moved DEF ActiveStates
      <4>2. QED
        BY <1>2, <1>3, <2>1, <3>2, <3>4, <4>1
    <3>5. CASE GoTo(l, "teardown", f) /\ lease' = lease /\ endpoint' = endpoint
      BY <1>1, <1>2, <1>3, <2>1, <3>2, <3>5
    <3>6. QED
      BY <3>3, <3>4, <3>5
  <2>4. QED
    BY <1>1, <2>2, <2>3
<1>7. CASE StopAdapter(l)
  <2>1. lease' = lease /\ endpoint' = endpoint /\ pc[l] = "teardown"
    BY <1>7 DEF StopAdapter, storeVars
  <2>2. CASE ~sess[l].owned /\ GoTo(l, "settle", sess[l]) /\ server' = server
    <3>1. sess[l].owned # TRUE
      BY <1>1, <2>2
    <3>2. QED
      BY <1>1, <1>2, <1>3, <2>1, <2>2, <3>1
  <2>3. CASE Terminated(l) /\ GoTo(l, "vacate", sess[l])
    <3>1. server'[l] = "gone"
      BY <1>1, <2>3 DEF Terminated, SessionTypeOK
    <3>2. QED
      BY <1>1, <1>3, <2>1, <2>3, <3>1 DEF Alive
  <2>4. CASE GoTo(l, "unverified", [sess[l] EXCEPT !.unknown = TRUE]) /\ server' = server
    <3> DEFINE q == [sess[l] EXCEPT !.unknown = TRUE]
    <3>1. q \in SessionRecords /\ q.final = None /\ q.unknown = TRUE
      BY <1>1 DEF SessionRecords
    <3>2. GoTo(l, "unverified", q)
      BY <2>4
    <3> HIDE DEF q
    <3>3. QED
      BY <1>1, <1>3, <2>1, <2>4, <3>1, <3>2
  <2>5. QED
    BY <1>7, <2>2, <2>3, <2>4 DEF StopAdapter, worldVars
<1>8. CASE ObserveVacancy(l)
  <2>1. lease' = lease /\ endpoint' = endpoint /\ pc[l] = "vacate" /\ server' = server
    BY <1>8 DEF ObserveVacancy, storeVars, worldVars
  <2> DEFINE v == [sess[l] EXCEPT !.owned = FALSE]
             q == [sess[l] EXCEPT !.unknown = TRUE]
  <2>2. /\ v \in SessionRecords /\ v.final = None
        /\ q \in SessionRecords /\ q.final = None /\ q.unknown = TRUE
    BY <1>1 DEF SessionRecords
  <2>3. GoTo(l, "settle", v) \/ GoTo(l, "unverified", q)
    BY <1>8 DEF ObserveVacancy
  <2> HIDE DEF v, q
  <2>4. QED
    BY <1>1, <1>2, <1>3, <2>1, <2>2, <2>3
<1>9. CASE Settle(l)
  <2>1. PICK drift \in SUBSET {"binding_changed"} :
          LET r == [sess[l] EXCEPT !.reasons = @ \cup drift] IN
          IF r.ledgerError THEN EnsureUnknown(l, "report", r, "always")
          ELSE \/ Committed(l, "stopped", "report", [r EXCEPT !.final = "stopped"])
               \/ TransitionFails(l, "stopped") /\ GoTo(l, "unverified", r)
    BY <1>9, Zenon DEF Settle
  <2> DEFINE r == [sess[l] EXCEPT !.reasons = @ \cup drift]
             c == [[r EXCEPT !.final = "stopped"] EXCEPT !.state = "stopped"]
  <2>2. /\ r \in SessionRecords /\ r.final = None /\ r.unknown = sess[l].unknown
        /\ server' = server /\ pc[l] = "settle"
    BY <1>1, <1>9 DEF Settle, SessionRecords, Reasons, worldVars
  <2>3. c \in SessionRecords /\ c.final = "stopped"
    BY <2>2 DEF SessionRecords, ActiveStates
  <2>4. \/ EnsureUnknown(l, "report", r, "always")
        \/ Transition(l, "stopped") /\ GoTo(l, "report", c)
        \/ lease' = lease /\ endpoint' = endpoint /\ GoTo(l, "unverified", r)
    BY <2>1 DEF Committed, TransitionFails, storeVars
  <2> HIDE DEF r, c
  <2>5. CASE EnsureUnknown(l, "report", r, "always")
    BY <1>2, <1>5, <2>2, <2>5
  <2>6. CASE Transition(l, "stopped") /\ GoTo(l, "report", c)
    <3>1. lease'[l] = "absent"
      BY <1>1, <2>6, Moved
    <3>2. QED
      BY <1>2, <1>4, <2>2, <2>3, <2>6, <3>1
  <2>7. CASE lease' = lease /\ endpoint' = endpoint /\ GoTo(l, "unverified", r)
    BY <1>1, <1>2, <1>3, <2>2, <2>7
  <2>8. QED
    BY <2>4, <2>5, <2>6, <2>7
<1>10. CASE StopUnverified(l)
  <2>1. EnsureUnknown(l, "report", sess[l], "ledger_ok") /\ server' = server /\ pc[l] = "unverified"
    BY <1>10 DEF StopUnverified, worldVars
  <2>2. QED
    BY <1>1, <1>2, <1>5, <2>1
<1>11. QED
  BY <1>6, <1>7, <1>8, <1>9, <1>10

-----------------------------------------------------------------------------
\* The command's report: only a verified cleanup leads to ok, failed or interrupted.
LEMMA CommandLands ==
    ASSUME SupInv, NEW l \in Leases, Report(l)
    PROVE  Landed(l)
<1>1. /\ sess[l] \in SessionRecords /\ pc[l] = "report"
      /\ sess[l].unknown \in BOOLEAN
      /\ sess[l].final = "stopped" => lease[l] = "absent"
      /\ sess[l].final = "unknown_blocking" => lease[l] # "absent"
      /\ lease[l] = "ready" => server[l] \in {"listening", "gone"}
      /\ lease' = lease /\ endpoint' = endpoint /\ target' = target /\ server' = server
  BY SessionFacts DEF Report, SessionOK, Sound, SessionRecords, storeVars, worldVars
<1>2. LaunchInterrupts = FALSE /\ AttendedOK(l) =>
        /\ Alive(server[l]) => lease[l] # "absent" /\ endpoint[l] = target[l]
        /\ Alive(server[l]) => sess[l].unknown = TRUE
  BY <1>1 DEF AttendedOK, Attended
<1> DEFINE w == IF ~CleanupVerified(sess[l]) THEN "cleanup_unverified"
                ELSE IF sess[l].primary # None THEN sess[l].primary
                ELSE IF "binding_changed" \in sess[l].reasons THEN "failed" ELSE "ok"
<1>3. w \in Reports /\ Reported(l, sess[l], w)
  BY <1>1 DEF Report, Reports, SessionRecords
<1>4. w \in {"ok", "failed", "interrupted"} =>
        sess[l].final = "stopped" /\ sess[l].unknown # TRUE
  BY <1>1 DEF CleanupVerified
<1> HIDE DEF w
<1>5. QED
  BY <1>1, <1>2, <1>3, <1>4, ReportLands

-----------------------------------------------------------------------------
\* The transition that an interrupt may follow, by phase.
LEMMA NextTransitionIs ==
    ASSUME NEW l \in Leases
    PROVE  /\ NextTransition(l) \in ActiveStates \cup {"stopped", None}
           /\ NextTransition(l) = "stopped" => pc[l] \in {"unbuilt", "settle"}
           /\ NextTransition(l) = "ready" => pc[l] = "mark"
           /\ pc[l] = "report" => NextTransition(l) = None
<1> DEFINE u == \/ pc[l] = "unverified"
                \/ pc[l] \in {"failing", "stop"} /\ sess[l].unknown
                \/ pc[l] = "settle" /\ sess[l].ledgerError
<1>1. CASE u
  <2>1. NextTransition(l) = IF sess[l].state = "unknown_blocking" THEN None
                            ELSE "unknown_blocking"
    BY <1>1, Zenon DEF NextTransition
  <2>2. NextTransition(l) \in {None, "unknown_blocking"}
    BY <2>1
  <2>3. pc[l] # "report"
    BY <1>1
  <2>4. QED
    BY <2>2, <2>3, NoneAssumption DEF ActiveStates
<1>2. CASE ~u
  <2>1. NextTransition(l) =
          CASE pc[l] \in {"unbuild", "stop"} -> "stopping"
            [] pc[l] \in {"unbuilt", "settle"} -> "stopped"
            [] pc[l] = "failing" -> "revoked"
            [] pc[l] = "mark" -> "ready"
            [] pc[l] = "observe" /\ Running(l) /\ sess[l].state = "prepared" -> "starting"
            [] OTHER -> None
    BY <1>2 DEF NextTransition
  <2> HIDE DEF u
  <2>2. QED
    BY <2>1, NoneAssumption DEF ActiveStates
<1>3. QED
  BY <1>1, <1>2

\* KeyboardInterrupt, before or after a commit: the session stops, or the command ends
\* without claiming a verified cleanup.
LEMMA InterruptLands ==
    ASSUME SupInv, NEW l \in Leases, Interrupt(l) \/ InterruptAfterCommit(l)
    PROVE  Landed(l)
<1>1. /\ StoreInv /\ Interruptible(l) /\ AfterInterrupt(l)
      /\ target' = target /\ server' = server
      /\ pc[l] \in HeldPhases \cup {"report"}
      /\ sess[l] \in SessionRecords
  <2>1. pc[l] \in HeldPhases \cup {"report"} /\ "idle" \notin HeldPhases \cup {"report"}
    BY DEF Interrupt, InterruptAfterCommit, Interruptible, HeldPhases, BuildPhases,
       StartPhases, StopPhases
  <2>2. Interruptible(l) /\ AfterInterrupt(l) /\ target' = target /\ server' = server
    BY DEF Interrupt, InterruptAfterCommit, worldVars
  <2>3. QED
    BY <2>1, <2>2, SessionFacts
\* What the interrupt does to the row.
<1>2. /\ \/ lease'[l] = lease[l] /\ endpoint'[l] = endpoint[l]
         \/ /\ lease'[l] # "absent" /\ endpoint'[l] = endpoint[l]
            /\ lease'[l] = "ready" => pc[l] = "mark"
            /\ pc[l] # "report"
         \/ lease'[l] = "absent" /\ pc[l] \in {"unbuilt", "settle"}
  <2>1. CASE Interrupt(l)
    BY <2>1 DEF Interrupt, storeVars
  <2>2. CASE InterruptAfterCommit(l)
    <3> DEFINE to == NextTransition(l)
    <3>1. Transition(l, to)
      BY <2>2 DEF InterruptAfterCommit
    <3>2. /\ to \in ActiveStates \cup {"stopped", None}
          /\ to = "stopped" => pc[l] \in {"unbuilt", "settle"}
          /\ to = "ready" => pc[l] = "mark"
          /\ pc[l] = "report" => to = None
      BY NextTransitionIs
    <3> HIDE DEF to
    <3>3. to # None
      <4>1. lease[l] \in ActiveStates \cup {"absent"} /\ to \in Allowed(lease[l])
        BY <1>1, <3>1 DEF Transition, CanTransition, StoreInv, StoreTypeOK
      <4>2. Allowed(lease[l]) \subseteq ActiveStates \cup {"stopped"}
        BY <4>1 DEF Allowed, ActiveStates
      <4>3. QED
        BY <4>1, <4>2, NoneAssumption
    <3>4. /\ lease'[l] = IF to = "stopped" THEN "absent" ELSE to
          /\ to # "stopped" => endpoint'[l] = endpoint[l] /\ lease'[l] # "absent"
      BY <1>1, <3>1, <3>2, <3>3, Moved
    <3>5. QED
      BY <3>2, <3>3, <3>4
  <2>3. QED
    BY <2>1, <2>2
<1>3. /\ pc[l] \in HeldPhases => lease[l] # "absent" /\ sess[l].final = None
                                 /\ endpoint[l] = target[l]
      /\ lease[l] = "ready" \/ pc[l] = "mark" => server[l] \in {"listening", "gone"}
      /\ pc[l] \in BuildPhases => server[l] = "none"
      /\ pc[l] = "report" => /\ sess[l].final = "stopped" => lease[l] = "absent"
                             /\ sess[l].final = "unknown_blocking" => lease[l] # "absent"
  BY SessionFacts DEF SessionOK, Sound
<1>4. lease'[l] = "ready" => server[l] \in {"listening", "gone"}
  BY <1>2, <1>3
<1>5. LaunchInterrupts = FALSE /\ AttendedOK(l) =>
        /\ Alive(server[l]) => lease'[l] # "absent" /\ endpoint'[l] = target[l]
  BY <1>2, <1>3 DEF AttendedOK, Attended, BuildPhases, Alive
<1>6. CASE pc[l] \in BuildPhases \cup StopPhases \cup {"report"}
  <2>1. PICK w \in {"interrupted_early", "cleanup_unverified"} : Reported(l, sess[l], w)
    BY <1>1, <1>6 DEF AfterInterrupt
  <2>2. /\ sess[l].final = "stopped" => lease'[l] = "absent"
        /\ sess[l].final = "unknown_blocking" => lease'[l] # "absent"
    <3>1. CASE pc[l] = "report"
      BY <1>2, <1>3, <3>1
    <3>2. CASE pc[l] # "report"
      BY <1>1, <1>3, <3>2, NoneAssumption DEF ActiveStates
    <3>3. QED
      BY <3>1, <3>2
  <2>3. QED
    BY <1>1, <1>4, <1>5, <2>1, <2>2, ReportLands DEF Reports
<1>7. CASE pc[l] \notin BuildPhases \cup StopPhases \cup {"report"}
  <2> DEFINE q == [sess[l] EXCEPT !.primary = "interrupted", !.pending = None]
  <2>1. q \in SessionRecords /\ q.final = sess[l].final /\ q.owned = sess[l].owned
    BY <1>1 DEF SessionRecords
  <2>2. GoTo(l, "stop", q) /\ "stop" \in Phases
    BY <1>1, <1>7 DEF AfterInterrupt, Phases, StopPhases
  <2> HIDE DEF q
  <2>3. pc[l] \in StartPhases \cup {"ready"} /\ pc[l] \in HeldPhases
    BY <1>1, <1>7 DEF HeldPhases
  <2>4. lease'[l] # "absent" /\ endpoint'[l] = target[l] /\ q.final = None
    BY <1>2, <1>3, <1>7, <2>1, <2>3 DEF BuildPhases, StopPhases
  <2>5. Sound("stop", q, lease'[l], endpoint'[l], target'[l], server'[l])
    BY <1>1, <1>4, <2>1, <2>4 DEF Sound, BuildPhases
  <2>6. LaunchInterrupts = FALSE => pc[l] # "forked"
    BY <1>1, <2>3 DEF Interruptible, StartPhases, BuildPhases, StopPhases
  <2>7. LaunchInterrupts = FALSE /\ AttendedOK(l) /\ Alive(server[l]) => q.owned = TRUE
    <3>1. pc[l] \in {"start", "vacancy", "launch"} => server[l] = "none"
      BY SessionFacts DEF SessionOK, Sound
    <3>2. QED
      BY <2>1, <2>3, <2>6, <3>1 DEF AttendedOK, Attended, StartPhases, Alive
  <2>8. LaunchInterrupts = FALSE /\ AttendedOK(l) =>
          Attended("stop", q, lease'[l], endpoint'[l], target'[l], server'[l])
    BY <1>1, <2>4, <2>7 DEF Attended
  <2>9. QED
    BY <2>1, <2>2, <2>5, <2>8, Lands
<1>8. QED
  BY <1>6, <1>7

\* The process ends: the row stays, and so does a server.
LEMMA EndLands ==
    ASSUME SupInv, NEW l \in Leases, Exit(l) \/ Crash(l)
    PROVE  Landed(l)
<1>1. /\ SessionTypeOK /\ GoTo(l, "idle", None)
      /\ lease' = lease /\ endpoint' = endpoint /\ target' = target /\ server' = server
  BY DEF Exit, Crash, ProcessEnds, OwnerExit, SupInv, GoTo, storeVars, worldVars
<1>2. pc'[l] = "idle" /\ sess'[l] = None /\ "idle" \in Phases
  BY <1>1, GoToExact DEF Phases
<1>3. SessionOK(l)'
  BY <1>1, <1>2, SessionFacts
     DEF SessionOK, Sound, HeldPhases, BuildPhases, StartPhases, StopPhases
<1>4. LaunchInterrupts = FALSE /\ AttendedOK(l) => AttendedOK(l)'
  BY <1>1, <1>2 DEF AttendedOK, Attended
<1>5. QED
  BY <1>1, <1>2, <1>3, <1>4 DEF Landed

LEMMA SessionLands ==
    ASSUME SupInv, NEW l \in Leases,
           \/ Build(l) \/ SessionStep(l) \/ StopRequested(l)
           \/ Interrupt(l) \/ InterruptAfterCommit(l) \/ Crash(l)
    PROVE  Landed(l)
BY BuildLands, UnbuildLands, LaunchLands, LoopLands, UndoLands, ReadyLands, FailureLands,
   StopLands, CommandLands, InterruptLands, EndLands DEF SessionStep

-----------------------------------------------------------------------------
\* What a session does to the store: one of the store's own operations on its own row.
LEMMA SessionUsesStore ==
    ASSUME SupInv, NEW l \in Leases,
           \/ Build(l) \/ SessionStep(l) \/ StopRequested(l)
           \/ Interrupt(l) \/ InterruptAfterCommit(l) \/ Crash(l)
    PROVE  \/ UNCHANGED storeVars
           \/ \E e \in Endpoints, p \in Probes : Acquire(l, e, p) \/ AcquireInterrupted(l, e, p)
           \/ \E to \in ActiveStates \cup {"stopped"} : Transition(l, to)
           \/ OwnerExit(l)
<1>1. CASE Build(l)
  BY <1>1, Zenon DEF Build
<1>2. ASSUME NEW ph, NEW r, NEW when, EnsureUnknown(l, ph, r, when)
      PROVE  UNCHANGED storeVars \/ Transition(l, "unknown_blocking")
  <2> DEFINE x == [r EXCEPT !.reasons = @ \cup {"cleanup_unverified"}]
             kept == UnknownReceipt(x, when)
             lost == UnknownReceipt([x EXCEPT !.ledgerFailed = TRUE], when)
  <2>1. CASE x.state = "unknown_blocking"
    BY <1>2, <2>1, Zenon DEF EnsureUnknown
  <2>2. CASE x.state = "stopped"
    BY <1>2, <2>2, Zenon DEF EnsureUnknown
  <2>3. CASE x.state # "unknown_blocking" /\ x.state # "stopped"
    <3>1. \/ Committed(l, "unknown_blocking", ph, kept)
          \/ TransitionFails(l, "unknown_blocking") /\ GoTo(l, ph, lost)
      BY <1>2, <2>3, Zenon DEF EnsureUnknown
    <3>2. QED
      BY <3>1, Zenon DEF Committed, TransitionFails
  <2>4. QED
    BY <2>1, <2>2, <2>3, Zenon
<1>3. ASSUME SessionStep(l)
      PROVE  \/ UNCHANGED storeVars
             \/ \E to \in {"starting", "ready", "stopping", "revoked", "stopped",
                           "unknown_blocking"} : Transition(l, to)
             \/ OwnerExit(l)
  <2>1. CASE \/ Construct(l) \/ StaticCheck(l) \/ CheckVacancy(l) \/ Launch(l) \/ KeepProcess(l)
             \/ SampleEndpoint(l) \/ Resample(l) \/ UndoLaunch(l) \/ UndoObserved(l)
             \/ StaticRecheck(l) \/ Reinspect(l) \/ Inspect(l)
             \/ StopAdapter(l) \/ ObserveVacancy(l) \/ Report(l)
    BY <2>1 DEF Construct, StaticCheck, CheckVacancy, Launch, KeepProcess, SampleEndpoint,
       Resample, UndoLaunch, UndoObserved, StaticRecheck, Reinspect, Inspect, StopAdapter,
       ObserveVacancy, Report
  <2>2. CASE Unbuild(l) \/ Unbuilt(l) \/ ObserveProcess(l) \/ MarkReady(l)
    BY <2>2 DEF Unbuild, Unbuilt, ObserveProcess, MarkReady, Committed, TransitionFails
  <2>3. CASE RecordFailure(l)
    <3> DEFINE r == [sess[l] EXCEPT !.reasons = @ \cup {sess[l].pending}, !.pending = None,
                                    !.primary = "failed"]
    <3>1. \/ EnsureUnknown(l, "stop", r, "never")
          \/ Transition(l, "revoked")
          \/ UNCHANGED storeVars
      BY <2>3 DEF RecordFailure, Committed, TransitionFails
    <3> HIDE DEF r
    <3>2. QED
      BY <1>2, <3>1
  <2>4. CASE BeginStop(l)
    <3>1. \/ EnsureUnknown(l, "report", sess[l], "always")
          \/ Transition(l, "stopping")
          \/ UNCHANGED storeVars
      BY <2>4 DEF BeginStop, Committed, TransitionFails
    <3>2. QED
      BY <1>2, <3>1
  <2>5. CASE Settle(l)
    <3>1. PICK drift \in SUBSET {"binding_changed"} :
            LET r == [sess[l] EXCEPT !.reasons = @ \cup drift] IN
            IF r.ledgerError THEN EnsureUnknown(l, "report", r, "always")
            ELSE \/ Committed(l, "stopped", "report", [r EXCEPT !.final = "stopped"])
                 \/ TransitionFails(l, "stopped") /\ GoTo(l, "unverified", r)
      BY <2>5, Zenon DEF Settle
    <3> DEFINE r == [sess[l] EXCEPT !.reasons = @ \cup drift]
    <3>2. \/ EnsureUnknown(l, "report", r, "always")
          \/ Transition(l, "stopped")
          \/ UNCHANGED storeVars
      BY <3>1 DEF Committed, TransitionFails
    <3> HIDE DEF r
    <3>3. QED
      BY <1>2, <3>2
  <2>6. CASE StopUnverified(l)
    <3>1. EnsureUnknown(l, "report", sess[l], "ledger_ok")
      BY <2>6 DEF StopUnverified
    <3>2. QED
      BY <1>2, <3>1
  <2>7. CASE Exit(l)
    BY <2>7 DEF Exit, ProcessEnds
  <2>8. QED
    BY <1>3, <2>1, <2>2, <2>3, <2>4, <2>5, <2>6, <2>7 DEF SessionStep
<1>4. CASE InterruptAfterCommit(l)
  <2> DEFINE to == NextTransition(l)
  <2>1. Transition(l, to)
    BY <1>4 DEF InterruptAfterCommit
  <2> HIDE DEF to
  <2>2. lease[l] \in ActiveStates \cup {"absent"} /\ to \in Allowed(lease[l])
    BY <2>1 DEF Transition, CanTransition, SupInv, StoreInv, StoreTypeOK
  <2>3. to \in ActiveStates \cup {"stopped"}
    BY <2>2 DEF Allowed, ActiveStates
  <2>4. QED
    BY <2>1, <2>3
<1>5. CASE StopRequested(l) \/ Interrupt(l) \/ Crash(l)
  BY <1>5 DEF StopRequested, Interrupt, Crash, ProcessEnds
<1>6. QED
  BY <1>1, <1>3, <1>4, <1>5 DEF ActiveStates

\* A step of the system is a step of the store's arbitrary clients.
LEMMA SupStepIsStoreStep == SupInv /\ [SupNext]_supVars => [StoreNext]_storeVars
<1> SUFFICES ASSUME SupInv, SupNext PROVE [StoreNext]_storeVars
  BY DEF supVars
<1>1. ASSUME NEW l \in Leases,
             \/ Build(l) \/ SessionStep(l) \/ StopRequested(l)
             \/ Interrupt(l) \/ InterruptAfterCommit(l) \/ Crash(l)
      PROVE  [StoreNext]_storeVars
  BY <1>1, SessionUsesStore DEF StoreNext
<1>2. ASSUME NEW l \in Leases, ServerListens(l) \/ ServerExits(l)
      PROVE  [StoreNext]_storeVars
  BY <1>2 DEF ServerListens, ServerExits
<1>3. ASSUME NEW e \in Endpoints, ForeignListener(e) PROVE [StoreNext]_storeVars
  BY <1>3 DEF ForeignListener
<1>4. ASSUME NEW p \in Probes, StoreRead(p) PROVE [StoreNext]_storeVars
  BY <1>4 DEF StoreRead, StoreNext
<1>5. QED
  BY <1>1, <1>2, <1>3, <1>4 DEF SupNext

\* The rows of the others stay, or turn unknown in an acquisition's scan.
LEMMA OtherRows ==
    ASSUME SupInv, NEW l \in Leases,
           \/ Build(l) \/ SessionStep(l) \/ StopRequested(l)
           \/ Interrupt(l) \/ InterruptAfterCommit(l) \/ Crash(l),
           NEW k \in Leases, k # l
    PROVE  /\ lease'[k] \in {lease[k], "unknown_blocking"}
           /\ (lease'[k] = "absent") = (lease[k] = "absent")
           /\ endpoint'[k] = endpoint[k]
<1>1. StoreInv
  BY DEF SupInv
<1>2. CASE UNCHANGED storeVars \/ OwnerExit(l)
  BY <1>2 DEF storeVars, OwnerExit
<1>3. ASSUME NEW e \in Endpoints, NEW p \in Probes,
             Acquire(l, e, p) \/ AcquireInterrupted(l, e, p)
      PROVE  /\ lease'[k] \in {lease[k], "unknown_blocking"}
             /\ (lease'[k] = "absent") = (lease[k] = "absent")
             /\ endpoint'[k] = endpoint[k]
  <2>1. CommitAcquire(l, e, Marked(p))
    BY <1>3 DEF Acquire, AcquireInterrupted
  <2>2. /\ Marked(p)[k] \in {lease[k], "unknown_blocking"}
        /\ (Marked(p)[k] = "absent") = (lease[k] = "absent")
        /\ Marked(p) \in [Leases -> ActiveStates \cup {"absent"}]
        /\ endpoint \in [Leases -> Endpoints \cup {None}]
    BY <1>1, MarkedRow DEF StoreInv, StoreTypeOK
  <2>3. lease'[k] = Marked(p)[k] /\ endpoint'[k] = endpoint[k]
    BY <2>1, <2>2 DEF CommitAcquire
  <2>4. QED
    BY <2>2, <2>3
<1>4. ASSUME NEW to \in ActiveStates \cup {"stopped"}, Transition(l, to)
      PROVE  lease'[k] = lease[k] /\ endpoint'[k] = endpoint[k]
  BY <1>1, <1>4, Moved
<1>5. QED
  BY <1>2, <1>3, <1>4, SessionUsesStore

-----------------------------------------------------------------------------
\* What a session's step does to targets, servers and listeners.
LEMMA SessionWorld ==
    ASSUME SupInv, NEW l \in Leases,
           \/ Build(l) \/ SessionStep(l) \/ StopRequested(l)
           \/ Interrupt(l) \/ InterruptAfterCommit(l) \/ Crash(l)
    PROVE  /\ target' \in [Leases -> Endpoints \cup {None}]
           /\ server' \in [Leases -> {"none", "launched", "listening", "gone"}]
           /\ listener' \in [Endpoints -> Leases \cup {"foreign", None}]
           /\ ListenerInv'
           /\ \A k \in Leases : k # l => target'[k] = target[k] /\ server'[k] = server[k]
<1>1. /\ target \in [Leases -> Endpoints \cup {None}]
      /\ server \in [Leases -> {"none", "launched", "listening", "gone"}]
      /\ listener \in [Endpoints -> Leases \cup {"foreign", None}]
      /\ \A e \in Endpoints, k \in Leases : listener[e] = k => server[k] = "listening"
  BY DEF SupInv, SessionTypeOK, ListenerInv
<1>2. CASE Build(l)
  <2>1. server[l] # "listening" /\ listener' = listener
    BY <1>2 DEF Build, Running
  <2>2. \/ \E e \in Endpoints : /\ target' = [target EXCEPT ![l] = e]
                                /\ server' = [server EXCEPT ![l] = "none"]
        \/ target' = target /\ server' = server
    BY <1>2 DEF Build
  <2>3. QED
    BY <1>1, <2>1, <2>2 DEF ListenerInv
<1>3. CASE Launch(l)
  <2>1. server[l] = "none" /\ listener' = listener /\ target' = target
    BY <1>3, SessionFacts DEF Launch, SessionOK, Sound
  <2>2. server' = server \/ server' = [server EXCEPT ![l] = "launched"]
    BY <1>3 DEF Launch
  <2>3. QED
    BY <1>1, <2>1, <2>2 DEF ListenerInv
<1>4. CASE Terminated(l) /\ target' = target
  BY <1>1, <1>4, ListenerAssumption DEF Terminated, ListenerInv
<1>5. CASE target' = target /\ server' = server /\ listener' = listener
  BY <1>1, <1>5 DEF ListenerInv
<1>6. CASE SessionStep(l) /\ ~Launch(l)
  <2>1. CASE \/ Construct(l) \/ Unbuild(l) \/ Unbuilt(l) \/ StaticCheck(l) \/ CheckVacancy(l)
             \/ KeepProcess(l) \/ ObserveProcess(l) \/ SampleEndpoint(l) \/ Resample(l)
             \/ UndoObserved(l) \/ StaticRecheck(l) \/ Reinspect(l) \/ MarkReady(l) \/ Inspect(l)
    BY <1>5, <2>1 DEF Construct, Unbuild, Unbuilt, StaticCheck, CheckVacancy, KeepProcess,
       ObserveProcess, SampleEndpoint, Resample, UndoObserved, StaticRecheck, Reinspect,
       MarkReady, Inspect, worldVars
  <2>2. CASE \/ RecordFailure(l) \/ BeginStop(l) \/ ObserveVacancy(l) \/ Settle(l)
             \/ StopUnverified(l) \/ Report(l) \/ Exit(l)
    BY <1>5, <2>2 DEF RecordFailure, BeginStop, ObserveVacancy, Settle, StopUnverified, Report,
       Exit, ProcessEnds, worldVars
  <2>3. CASE UndoLaunch(l) \/ StopAdapter(l)
    BY <1>4, <1>5, <2>3 DEF UndoLaunch, StopAdapter, worldVars
  <2>4. QED
    BY <1>6, <2>1, <2>2, <2>3 DEF SessionStep
<1>7. CASE StopRequested(l) \/ Interrupt(l) \/ InterruptAfterCommit(l) \/ Crash(l)
  BY <1>5, <1>7 DEF StopRequested, Interrupt, InterruptAfterCommit, Crash, ProcessEnds, worldVars
<1>8. QED
  BY <1>2, <1>3, <1>6, <1>7

\* The server's own steps.
LEMMA ServerLands ==
    ASSUME SupInv, NEW l \in Leases, ServerListens(l) \/ ServerExits(l)
    PROVE  /\ server' \in [Leases -> {"none", "launched", "listening", "gone"}]
           /\ listener' \in [Endpoints -> Leases \cup {"foreign", None}]
           /\ ListenerInv'
           /\ \A k \in Leases : k # l => server'[k] = server[k]
           /\ SessionOK(l)' /\ (AttendedOK(l) => AttendedOK(l)')
<1>1. /\ server \in [Leases -> {"none", "launched", "listening", "gone"}]
      /\ listener \in [Endpoints -> Leases \cup {"foreign", None}]
      /\ \A e \in Endpoints, k \in Leases : listener[e] = k => server[k] = "listening"
      /\ SessionOK(l)
  BY DEF SupInv, SessionTypeOK, ListenerInv
<1>2. /\ lease' = lease /\ endpoint' = endpoint
      /\ pc' = pc /\ sess' = sess /\ target' = target
  BY DEF ServerListens, ServerExits, storeVars
<1>3. CASE ServerListens(l)
  <2>1. /\ server[l] = "launched" /\ server' = [server EXCEPT ![l] = "listening"]
        /\ listener' = [listener EXCEPT ![target[l]] = l]
    BY <1>3 DEF ServerListens
  <2>2. /\ server' \in [Leases -> {"none", "launched", "listening", "gone"}]
        /\ listener' \in [Endpoints -> Leases \cup {"foreign", None}]
        /\ ListenerInv' /\ server'[l] = "listening"
        /\ \A k \in Leases : k # l => server'[k] = server[k]
    BY <1>1, <2>1 DEF ListenerInv
  <2>3. SessionOK(l)' /\ (AttendedOK(l) => AttendedOK(l)')
    BY <1>1, <1>2, <2>1, <2>2 DEF SessionOK, Sound, AttendedOK, Attended, Alive
  <2>4. QED
    BY <2>2, <2>3
<1>4. CASE ServerExits(l)
  <2>1. /\ server[l] \in {"launched", "listening"} /\ server' = [server EXCEPT ![l] = "gone"]
        /\ listener' = [e \in Endpoints |-> IF listener[e] = l THEN None ELSE listener[e]]
    BY <1>4 DEF ServerExits, Terminated, Running
  <2>2. /\ server' \in [Leases -> {"none", "launched", "listening", "gone"}]
        /\ listener' \in [Endpoints -> Leases \cup {"foreign", None}]
        /\ ListenerInv' /\ server'[l] = "gone"
        /\ \A k \in Leases : k # l => server'[k] = server[k]
    BY <1>1, <2>1, ListenerAssumption DEF ListenerInv
  <2>3. SessionOK(l)' /\ (AttendedOK(l) => AttendedOK(l)')
    BY <1>1, <1>2, <2>1, <2>2 DEF SessionOK, Sound, AttendedOK, Attended, Alive
  <2>4. QED
    BY <2>2, <2>3
<1>5. QED
  BY <1>3, <1>4

-----------------------------------------------------------------------------
LEMMA SupInvInit == SupInit => SupInv /\ AttendedInv
<1> SUFFICES ASSUME SupInit PROVE SupInv /\ AttendedInv
  OBVIOUS
<1>1. StoreInv /\ StoreTypeOK
  BY StoreInvInit DEF SupInit, StoreInv
<1>2. SessionTypeOK
  BY <1>1 DEF SupInit, SessionTypeOK, Phases
<1>3. ListenerInv
  BY ListenerAssumption DEF SupInit, ListenerInv
<1>4. \A l \in Leases : pc[l] = "idle" /\ lease[l] = "absent" /\ server[l] = "none"
  BY DEF SupInit, StoreInit
<1>5. \A l \in Leases : SessionOK(l) /\ AttendedOK(l)
  BY <1>4 DEF SessionOK, Sound, AttendedOK, Attended, Alive, HeldPhases, BuildPhases,
     StartPhases, StopPhases
<1>6. QED
  BY <1>1, <1>2, <1>3, <1>5 DEF SupInv, AttendedInv

LEMMA SupInvStep ==
    ASSUME SupInv, [SupNext]_supVars
    PROVE  /\ SupInv'
           /\ LaunchInterrupts = FALSE /\ AttendedInv => AttendedInv'
<1>1. StoreInv'
  BY SupStepIsStoreStep, StoreInvStep DEF SupInv
<1>2. StoreTypeOK' /\ \A k \in Leases : SessionOK(k)
  BY <1>1 DEF StoreInv, SupInv
<1>3. ASSUME NEW l \in Leases,
             \/ Build(l) \/ SessionStep(l) \/ StopRequested(l)
             \/ Interrupt(l) \/ InterruptAfterCommit(l) \/ Crash(l)
      PROVE  /\ SupInv'
             /\ LaunchInterrupts = FALSE /\ AttendedInv => AttendedInv'
  <2>1. Landed(l)
    BY <1>3, SessionLands
  <2>2. PICK ph \in Phases, r \in SessionRecords \cup {None} : GoTo(l, ph, r)
    BY <2>1 DEF Landed
  <2>3. /\ pc' \in [Leases -> Phases] /\ sess' \in [Leases -> SessionRecords \cup {None}]
        /\ \A k \in Leases : k # l => pc'[k] = pc[k] /\ sess'[k] = sess[k]
    BY <2>2 DEF GoTo, SupInv, SessionTypeOK
  <2>4. /\ target' \in [Leases -> Endpoints \cup {None}]
        /\ server' \in [Leases -> {"none", "launched", "listening", "gone"}]
        /\ listener' \in [Endpoints -> Leases \cup {"foreign", None}]
        /\ ListenerInv'
        /\ \A k \in Leases : k # l => target'[k] = target[k] /\ server'[k] = server[k]
    BY <1>3, SessionWorld
  <2>5. SessionTypeOK'
    BY <1>2, <2>3, <2>4 DEF SessionTypeOK
  <2>6. ASSUME NEW k \in Leases, k # l
        PROVE  SessionOK(k)' /\ (AttendedOK(k) => AttendedOK(k)')
    BY <1>2, <1>3, <2>3, <2>4, <2>6, OtherRows, Undisturbed
  <2>7. SessionOK(l)' /\ (LaunchInterrupts = FALSE /\ AttendedOK(l) => AttendedOK(l)')
    BY <2>1 DEF Landed
  <2>8. QED
    BY <1>1, <2>4, <2>5, <2>6, <2>7 DEF SupInv, AttendedInv
<1>4. ASSUME NEW l \in Leases, ServerListens(l) \/ ServerExits(l)
      PROVE  SupInv' /\ (AttendedInv => AttendedInv')
  <2>1. /\ lease' = lease /\ endpoint' = endpoint
        /\ pc' = pc /\ sess' = sess /\ target' = target
    BY <1>4 DEF ServerListens, ServerExits, storeVars
  <2>2. /\ server' \in [Leases -> {"none", "launched", "listening", "gone"}]
        /\ listener' \in [Endpoints -> Leases \cup {"foreign", None}]
        /\ ListenerInv'
        /\ \A k \in Leases : k # l => server'[k] = server[k]
        /\ SessionOK(l)' /\ (AttendedOK(l) => AttendedOK(l)')
    BY <1>4, ServerLands
  <2>3. SessionTypeOK'
    BY <1>2, <2>1, <2>2 DEF SessionTypeOK, SupInv
  <2>4. \A k \in Leases : k # l => SessionOK(k)' /\ (AttendedOK(k) => AttendedOK(k)')
    BY <1>2, <2>1, <2>2, Undisturbed
  <2>5. QED
    BY <1>1, <2>2, <2>3, <2>4 DEF SupInv, AttendedInv
\* Nobody's session, target or server changes.
<1>5. ASSUME pc' = pc, sess' = sess, target' = target, server' = server, endpoint' = endpoint,
             \A k \in Leases : /\ lease'[k] \in {lease[k], "unknown_blocking"}
                               /\ (lease'[k] = "absent") = (lease[k] = "absent"),
             listener' \in [Endpoints -> Leases \cup {"foreign", None}],
             \A e \in Endpoints : listener'[e] \in Leases => listener'[e] = listener[e]
      PROVE  SupInv' /\ (AttendedInv => AttendedInv')
  <2>1. SessionTypeOK' /\ ListenerInv'
    BY <1>2, <1>5 DEF SessionTypeOK, ListenerInv, SupInv
  <2>2. \A k \in Leases : SessionOK(k)' /\ (AttendedOK(k) => AttendedOK(k)')
    BY <1>2, <1>5, Undisturbed
  <2>3. QED
    BY <1>1, <2>1, <2>2 DEF SupInv, AttendedInv
<1>6. ASSUME NEW e \in Endpoints, ForeignListener(e)
      PROVE  SupInv' /\ (AttendedInv => AttendedInv')
  <2>1. /\ pc' = pc /\ sess' = sess /\ target' = target /\ server' = server
        /\ endpoint' = endpoint /\ lease' = lease
        /\ listener' = [listener EXCEPT ![e] = IF @ = None THEN "foreign" ELSE None]
        /\ listener \in [Endpoints -> Leases \cup {"foreign", None}]
    BY <1>6 DEF ForeignListener, storeVars, SupInv, SessionTypeOK
  <2>2. /\ listener' \in [Endpoints -> Leases \cup {"foreign", None}]
        /\ \A f \in Endpoints : listener'[f] \in Leases => listener'[f] = listener[f]
    BY <2>1, ListenerAssumption
  <2>3. QED
    BY <1>5, <2>1, <2>2
<1>7. ASSUME NEW p \in Probes, StoreRead(p)
      PROVE  SupInv' /\ (AttendedInv => AttendedInv')
  <2>1. /\ pc' = pc /\ sess' = sess /\ target' = target /\ server' = server
        /\ endpoint' = endpoint /\ lease' = Marked(p) /\ listener' = listener
        /\ listener \in [Endpoints -> Leases \cup {"foreign", None}]
    BY <1>7 DEF StoreRead, MarkAbandoned, worldVars, SupInv, SessionTypeOK
  <2>2. \A k \in Leases : /\ lease'[k] \in {lease[k], "unknown_blocking"}
                          /\ (lease'[k] = "absent") = (lease[k] = "absent")
    BY <2>1, MarkedRow DEF SupInv, SessionTypeOK
  <2>3. QED
    BY <1>5, <2>1, <2>2
<1>8. CASE UNCHANGED supVars
  <2>1. /\ pc' = pc /\ sess' = sess /\ target' = target /\ server' = server
        /\ endpoint' = endpoint /\ lease' = lease /\ listener' = listener
        /\ listener \in [Endpoints -> Leases \cup {"foreign", None}]
    BY <1>8 DEF supVars, storeVars, worldVars, SupInv, SessionTypeOK
  <2>2. QED
    BY <1>5, <2>1
<1>9. QED
  BY <1>3, <1>4, <1>6, <1>7, <1>8 DEF SupNext

-----------------------------------------------------------------------------
\* What holds of every session in every reachable state, interrupted wherever it may be.
THEOREM SessionInvariant == SupSpec => []SupInv
<1>1. SupInit => SupInv
  BY SupInvInit
<1>2. SupInv /\ [SupNext]_supVars => SupInv'
  BY SupInvStep
<1>3. QED
  BY <1>1, <1>2, PTL DEF SupSpec

(***************************************************************************)
(* Sessions use the store only through its operations: what is proved of   *)
(* the store's rows (one endpoint per row, the limit, how rows leave) and  *)
(* the registry it implements hold of supervised sessions.                 *)
(***************************************************************************)
THEOREM SessionsUseTheStore == SupSpec => StoreSpec
<1>1. SupInit => StoreInit
  BY DEF SupInit
<1>2. SupInv /\ [SupNext]_supVars => [StoreNext]_storeVars
  BY SupStepIsStoreStep
<1>3. QED
  BY <1>1, <1>2, SessionInvariant, PTL DEF SupSpec, StoreSpec

(***************************************************************************)
(* A row says ready only of a server that has bound its port, and a final  *)
(* receipt says stopped or unknown_blocking as the row does, even when an  *)
(* interrupt hits between the fork and the assignment of the process.      *)
(***************************************************************************)
THEOREM RowsAndReceiptsAlways == SupSpec => [](ReadyServerListened /\ ReceiptMatchesRow)
<1>1. SupInv => ReadyServerListened /\ ReceiptMatchesRow
  BY DEF SupInv, SessionOK, Sound, ReadyServerListened, ReceiptMatchesRow
<1>2. QED
  BY <1>1, SessionInvariant, PTL

(***************************************************************************)
(* Unless KeyboardInterrupt hits between Popen's fork and the assignment   *)
(* of the process (the run runtime_interrupted shows what happens then):   *)
(* a server that may be running has its row, a command that reports a      *)
(* verified cleanup left neither, a failing store never skips the          *)
(* teardown, and rows and receipts tell the truth.                         *)
(***************************************************************************)
THEOREM SupervisorSafeAlways == LaunchInterrupts = FALSE => (SupSpec => []SupervisorSafe)
<1> SUFFICES ASSUME LaunchInterrupts = FALSE PROVE SupSpec => []SupervisorSafe
  OBVIOUS
<1>1. SupInit => AttendedInv
  BY SupInvInit
<1>2. SupInv /\ AttendedInv /\ [SupNext]_supVars => AttendedInv'
  BY SupInvStep
<1>3. SupInv /\ AttendedInv => SupervisorSafe
  <2> SUFFICES ASSUME SupInv, AttendedInv PROVE SupervisorSafe
    OBVIOUS
  <2>1. SessionTypeOK
    BY DEF SupInv
  <2>2. ServerCovered
    BY DEF AttendedInv, AttendedOK, Attended, Alive, Running, ServerCovered
  <2>3. VerifiedMeansClean
    BY DEF AttendedInv, AttendedOK, Attended, Alive, Running, VerifiedMeansClean
  <2>4. TeardownNotSkipped
    BY DEF AttendedInv, AttendedOK, Attended, Alive, Running, TeardownNotSkipped
  <2>5. ReadyServerListened /\ ReceiptMatchesRow
    BY DEF SupInv, SessionOK, Sound, ReadyServerListened, ReceiptMatchesRow
  <2>6. QED
    BY <2>1, <2>2, <2>3, <2>4, <2>5 DEF SupervisorSafe
<1>4. QED
  BY <1>1, <1>2, <1>3, SessionInvariant, PTL DEF SupSpec
=============================================================================
