----------------------------- MODULE MCRuntime -----------------------------
(***************************************************************************)
(* TLC instance of the two levels at which model servers are leased:       *)
(* sessions that supervise a server at one endpoint; and their lease store *)
(* under arbitrary clients, with more processes than live leases; and of   *)
(* the routing that chooses among models.                                  *)
(* Every behaviour of this run is one of a single part, which it picks     *)
(* first; the parts share nothing.  Verified routing is two parts: the     *)
(* gate over two runs of the held-out case, up to its manifest, and the    *)
(* activations of what one run has shown.                                  *)
(***************************************************************************)
EXTENDS RuntimeSupervisor, VerifiedRouting, TLC

CONSTANTS
    StoreLeases, StoreEndpoints  \* of RuntimeLeaseStore

VARIABLES
    part,  \* the part of the system that this behaviour is about
    rLease, rEndpoint, rHandle  \* of the store

Store == INSTANCE RuntimeLeaseStore WITH
    Leases <- StoreLeases, Endpoints <- StoreEndpoints, lease <- rLease, endpoint <- rEndpoint,
    handle <- rHandle

MCGate == [scorecardTtl |-> 5, manifestTtl |-> 3, maxAge |-> 4, maxSkew |-> 2,
           minPairs |-> 1, z2 |-> 384, improvement |-> 10]

RouteProfile == [offline |-> FALSE, minRate |-> 20, minSamples |-> 1,
              wQuality |-> 2, wCost |-> 1, wPremium |-> 1]

MCCase == [task |-> "h", baseline |-> "premium", candidate |-> "local"]

Record(task, run, q, prev, out, cost, prem) ==
    [kind |-> "training", task |-> task, run |-> run, route |-> q, time |-> 0, prev |-> prev,
     strong |-> TRUE, attested |-> TRUE, outcome |-> out, cost |-> cost, prem |-> prem]

Trained == { Record("a", 11, "premium", FALSE, "passed", 2, 1), Record("a", 11, "local", TRUE, "passed", 0, 0),
          Record("b", 12, "premium", FALSE, "passed", 2, 1),
          Record("b", 12, "local_then_verify", TRUE, "passed", 1, 1) }

\* A full history, one with unsigned rows, and a store with nothing in it.
MCHistories ==
    { Trained, {},
      {[r EXCEPT !.attested = (r.task = "a")] : r \in Trained} }

MCArms ==
    [ local   |-> {[outcome |-> "passed", strong |-> TRUE, cost |-> 0, prem |-> 0],
                   [outcome |-> "failed", strong |-> TRUE, cost |-> 0, prem |-> 0]},
      premium |-> {[outcome |-> "passed", strong |-> TRUE, cost |-> 2, prem |-> 1]},
      local_then_verify |-> {} ]

mcVars == <<part, supVars, rLease, rEndpoint, rHandle, vars>>

\* A part with variables of its own rests in an initial state unless it is chosen.
SessionRests == SupInit /\ listener = [e \in Endpoints |-> None]
StoreRests == Store!StoreInit
RoutingRests == Init /\ records = {}

MCInit ==
    \/ part = "session" /\ SupInit /\ StoreRests /\ RoutingRests
    \/ part = "rows" /\ Store!StoreInit /\ SessionRests /\ RoutingRests
    \/ part \in {"gate", "activation"} /\ Init /\ SessionRests /\ StoreRests

\* What bounds the two parts of verified routing.
NothingSigned == signed' = {}
OneRun == \A r \in records' : r.kind = "holdout" => r.run = 1

\* Every part may rightly come to rest.
MCNext ==
    \/ part = "session" /\ SupNext /\ UNCHANGED <<part, rLease, rEndpoint, rHandle, vars>>
    \/ part = "rows" /\ Store!StoreNext /\ UNCHANGED <<part, supVars, vars>>
    \/ /\ part = "gate" /\ Next /\ NothingSigned
       /\ UNCHANGED <<part, supVars, rLease, rEndpoint, rHandle>>
    \/ /\ part = "activation" /\ Next /\ OneRun
       /\ UNCHANGED <<part, supVars, rLease, rEndpoint, rHandle>>
    \/ UNCHANGED mcVars

MCSpec == MCInit /\ [][MCNext]_mcVars

\* Planners are named like leases.
MCSymmetry == Permutations(Leases)

-----------------------------------------------------------------------------
(***************************************************************************)
(* The lease store of the runtime supervisor with three leases and three   *)
(* endpoints, of which two may be live: what its rows keep, how they       *)
(* leave, and that every step is one of the registry it implements         *)
(* (acquire, transition, mark_abandoned).                                  *)
(***************************************************************************)
RegistrySteps == Store!RowSteps /\ [][part = "rows" => Store!StepOfRegistry]_mcVars
=============================================================================
