-------------------------- MODULE EndpointRegistry --------------------------
(***************************************************************************)
(* What the runtime lease store promises: an endpoint has at most one      *)
(* holder, a holder is taken in only while the endpoint has none, and an   *)
(* endpoint whose holder was lost is blocked for ever, with its holder.    *)
(***************************************************************************)
CONSTANTS Leases, Endpoints

VARIABLES
    holders,  \* the leases that hold each endpoint
    blocked   \* endpoints whose ownership is unknown

registryVars == <<holders, blocked>>

Init ==
    /\ holders = [e \in Endpoints |-> {}]
    /\ blocked = {}

Held == {e \in Endpoints : holders[e] # {}}

\* A free endpoint is taken, possibly in the step in which others are lost.
Take(l, e, lost) ==
    /\ holders[e] = {}
    /\ lost \subseteq Held
    /\ holders' = [holders EXCEPT ![e] = {l}]
    /\ blocked' = blocked \cup lost

Drop(e) ==
    /\ e \in Held \ blocked
    /\ holders' = [holders EXCEPT ![e] = {}]
    /\ UNCHANGED blocked

Block(lost) ==
    /\ lost \subseteq Held
    /\ blocked' = blocked \cup lost
    /\ UNCHANGED holders

Next ==
    \/ \E l \in Leases, e \in Endpoints, lost \in SUBSET Endpoints : Take(l, e, lost)
    \/ \E e \in Endpoints : Drop(e)
    \/ \E lost \in SUBSET Endpoints : Block(lost)

Spec == Init /\ [][Next]_registryVars
=============================================================================
