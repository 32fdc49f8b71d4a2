----------------------------- MODULE LocalServing -----------------------------
(* One generation request through the local serving path: the execution scope  *)
(* guard (execution_scope.py), the router (router.py), the orchestrator's      *)
(* best-first, streaming and parallel modes (orchestrator.py), the provider's  *)
(* HTTP call (providers.py), chat compaction (compaction.py) and the           *)
(* OpenAI-compatible gateway (openai_gateway.py and its handler in web.py).    *)
(*                                                                             *)
(* The guard asks for evidence anew at every check, so an expert eligible when *)
(* the route was chosen may be blocked, or attested with another scope, when   *)
(* it is called.  Requests share no state: one request is the whole story.     *)
EXTENDS Integers, Sequences, SequencesExt, FiniteSets

CONSTANTS
    Declared,      \* by expert: configured scope, transport, endpoint, protocol
    MaxScope,      \* policy: the widest scope
    AllowedScopes, \* policy: the scopes allowed
    Widening,      \* policy: a fallback may be wider than the route
    Fallbacks,     \* configured fallback order
    TopK,          \* experts selected by a route
    External       \* whether an attestor for other transports is installed

VARIABLES req, elig, par, prompts

servingVars == <<req, elig, par, prompts>>

Experts == DOMAIN Declared
Rank == [device_only |-> 0, private_mesh |-> 1, paid_remote |-> 2]
Scopes == DOMAIN Rank
Modes == {"best", "compare", "compact", "gateway"}

-----------------------------------------------------------------------------
(* The scope guard *)

\* What the configuration claims, with its defaults for local experts.
Transport(e) ==
    IF Declared[e].transport # "unset" THEN Declared[e].transport
    ELSE IF Declared[e].loopback THEN "direct_local" ELSE "gateway"
Scope(e) ==
    IF Declared[e].scope = "unset" /\ Transport(e) = "direct_local" /\ Declared[e].loopback
    THEN "device_only" ELSE Declared[e].scope

\* Evidence an attestor may give: the built-in one only for direct local
\* experts, another anything at all.  (External where it is another.)
Attestations(e) ==
    IF Transport(e) = "direct_local"
    THEN {[expert |-> e, scope |-> "device_only", transport |-> "direct_local"] :
             x \in {y \in {e} : Declared[y].loopback /\ Scope(y) \in {"unset", "device_only"}}}
    ELSE [expert : Experts, scope : Scopes, transport : {"mesh_llm", "gateway"}]

\* Mutant of ValidateAttestation: the declared scope is not compared.
ValidateIdentityOnly(e, a) ==
    a.expert = e /\ a.transport = Transport(e) /\ Scope(e) # "unset"

\* Evidence must be of this expert, its transport and its declared scope.
ValidateAttestation(e, a) ==
    a.expert = e /\ a.transport = Transport(e) /\ Scope(e) # "unset" /\ a.scope = Scope(e)

PolicyAllows(s) == s \in AllowedScopes /\ Rank[s] <= Rank[MaxScope]

\* The outcomes of one check: a scope, or "blocked".  Only the built-in
\* attestor is sure to answer.
Evaluations(e) ==
    LET granted == {a.scope : a \in {x \in Attestations(e) :
                                        ValidateAttestation(e, x) /\ PolicyAllows(x.scope)}}
    IN  IF Transport(e) = "direct_local"
        THEN IF granted = {} THEN {"blocked"} ELSE granted
        ELSE {"blocked"} \cup (IF External THEN granted ELSE {})

-----------------------------------------------------------------------------
(* Routing *)

\* A fallback stays within the widest scope selected, unless the policy
\* says otherwise.
PermitsFallback(chosen, e) ==
    elig'[e] # "blocked"
    /\ (Widening \/ \E c \in Range(chosen) : Rank[elig'[e]] <= Rank[elig'[c]])

\* Expert e comes before f in the configured order.
Before(e, f) ==
    \E i \in DOMAIN Fallbacks : Fallbacks[i] = e /\ \A j \in 1..i : Fallbacks[j] # f

\* The fallbacks left to a choice, each once, in the configured order.
FallbackOrders(chosen) ==
    {fb \in SetToSeqs({e \in Range(Fallbacks) : PermitsFallback(chosen, e) /\ e \notin Range(chosen)}) :
        \A i, j \in DOMAIN fb : i < j => Before(fb[i], fb[j])}

Finish(outcome) == req' = [req EXCEPT !.pc = "done", !.outcome = outcome]

\* Every expert is checked; the best TopK by score (any order, here) are
\* selected, and the fallbacks filtered.
Route ==
    /\ req.pc = "route"
    /\ elig' \in {f \in [Experts -> Scopes \cup {"blocked"}] : \A e \in Experts : f[e] \in Evaluations(e)}
    /\ LET eligible == {e \in Experts : elig'[e] # "blocked"} IN
       IF eligible = {} THEN Finish("scope_blocked")
       ELSE \E chosen \in SetToAllKPermutations(eligible) :
              /\ Len(chosen) = IF TopK < Cardinality(eligible) THEN TopK ELSE Cardinality(eligible)
              /\ \E fallbacks \in FallbackOrders(chosen) :
                    req' = [req EXCEPT !.pc = IF req.mode = "compare" THEN "many"
                                              ELSE IF req.mode = "gateway" THEN "pick" ELSE "try",
                                       !.sel = chosen, !.fb = fallbacks]
    /\ UNCHANGED <<par, prompts>>

\* Selected experts first, then the fallbacks; after a parallel round only the
\* fallbacks.
Order == IF req.mode = "compare" THEN req.fb ELSE req.sel \o req.fb

-----------------------------------------------------------------------------
(* Calls *)

\* The guard is asked once more just before the call.
Invoke(e, next) ==
    \E s \in Evaluations(e) :
       IF s = "blocked" THEN Finish("scope_blocked") /\ UNCHANGED <<elig, par, prompts>>
       ELSE /\ req' = [req EXCEPT !.pc = next]
            /\ prompts' = prompts \cup {[expert |-> e, scope |-> s]}
            /\ UNCHANGED <<elig, par>>

\* One expert after the other until one answers; a request out of experts fails.
TryNext ==
    /\ req.pc = "try"
    /\ IF req.at > Len(Order) THEN Finish(IF req.got > 0 THEN "ok" ELSE "provider_error") /\ UNCHANGED <<elig, par, prompts>>
       ELSE Invoke(Order[req.at], "wait")

\* An answer ends a best-first request; a parallel one once nothing is missing.
ExpertAnswers ==
    /\ req.pc = "wait"
    /\ IF req.got + 1 >= req.need THEN Finish("ok")
       ELSE req' = [req EXCEPT !.got = @ + 1, !.at = @ + 1, !.pc = "try"]
    /\ UNCHANGED <<elig, par, prompts>>

\* A refused connection, an HTTP error, invalid or oversized output: the next
\* expert is tried.
ExpertFails ==
    /\ req.pc = "wait"
    /\ req' = [req EXCEPT !.at = @ + 1, !.pc = "try"]
    /\ UNCHANGED <<elig, par, prompts>>

\* The endpoint accepts and then says nothing: the read times out with an error
\* that is no URLError, is not turned into a provider error, and ends the request.
ExpertStalls ==
    /\ req.pc = "wait"
    /\ Finish("crashed")
    /\ UNCHANGED <<elig, par, prompts>>

\* Parallel mode: a thread per selected expert.
StartMany ==
    /\ req.pc = "many"
    /\ par' = [e \in Range(req.sel) |-> "todo"]
    /\ req' = [req EXCEPT !.pc = "join"]
    /\ UNCHANGED <<elig, prompts>>

WorkerCalls(e) ==
    /\ req.pc = "join" /\ e \in DOMAIN par /\ par[e] = "todo"
    /\ \E s \in Evaluations(e) :
          /\ par' = [par EXCEPT ![e] = IF s = "blocked" THEN "blocked" ELSE "called"]
          /\ prompts' = IF s = "blocked" THEN prompts ELSE prompts \cup {[expert |-> e, scope |-> s]}
    /\ UNCHANGED <<req, elig>>

WorkerEnds(e) ==
    /\ req.pc = "join" /\ e \in DOMAIN par /\ par[e] = "called"
    /\ \E r \in {"ok", "failed", "stalled"} : par' = [par EXCEPT ![e] = r]
    /\ UNCHANGED <<req, elig, prompts>>

\* All threads are waited for.  A blocked or stalled one fails the request;
\* failed ones are made up for by fallbacks.
JoinMany ==
    /\ req.pc = "join" /\ \A e \in DOMAIN par : par[e] \notin {"todo", "called"}
    /\ LET failed == {e \in DOMAIN par : par[e] = "failed"}
           raised == {par[e] : e \in DOMAIN par} \cap {"blocked", "stalled"}
       IN  IF raised # {} THEN \E r \in raised : Finish(IF r = "blocked" THEN "scope_blocked" ELSE "crashed")
           ELSE IF failed = {} THEN Finish("ok")
           ELSE req' = [req EXCEPT !.pc = "try", !.at = 1, !.got = Cardinality(DOMAIN par \ failed),
                                   !.need = Cardinality(DOMAIN par)]
    /\ UNCHANGED <<elig, par, prompts>>

\* Compaction calls one configured expert, without a route.
Compact ==
    /\ req.pc = "compact"
    /\ \E e \in Experts :
          Invoke(e, "upstream")

-----------------------------------------------------------------------------
(* The gateway *)

\* Disabled, foreign clients, hosts or origins, or a wrong key.
GatewayRefuses ==
    /\ req.pc = "authorize"
    /\ Finish("refused")
    /\ UNCHANGED <<elig, par, prompts>>

GatewayAuthorizes ==
    /\ req.pc = "authorize"
    /\ req' = [req EXCEPT !.pc = "body"]
    /\ UNCHANGED <<elig, par, prompts>>

\* A body that is torn, too large or too deep, no list of messages, or names an
\* unknown model.
GatewayBadRequest ==
    /\ req.pc = "body"
    /\ Finish("bad_request")
    /\ UNCHANGED <<elig, par, prompts>>

\* The caller asks for the alias, which is routed, or pins an expert.
GatewayAccepts ==
    /\ req.pc = "body"
    /\ \/ req' = [req EXCEPT !.pc = "route"]
       \/ \E e \in {x \in Experts : Declared[x].openai} :
             req' = [req EXCEPT !.pc = "pick", !.sel = <<e>>]
    /\ UNCHANGED <<elig, par, prompts>>

\* The first selected expert that speaks the protocol, checked when the request
\* is prepared.
PrepareChatCompletion ==
    /\ req.pc = "pick"
    /\ LET able == {i \in DOMAIN req.sel : Declared[req.sel[i]].openai} IN
       IF able = {} THEN Finish("model_unavailable")
       ELSE \E i \in {k \in able : \A j \in able : k <= j} : \E s \in Evaluations(req.sel[i]) :
              IF s = "blocked" THEN Finish("scope_blocked")
              ELSE req' = [req EXCEPT !.pc = "open", !.sel = <<req.sel[i]>>]
    /\ UNCHANGED <<elig, par, prompts>>

\* ... and again when it is sent.
OpenChatCompletion == req.pc = "open" /\ Invoke(Head(req.sel), "upstream")

\* A complete answer within the limit; or an HTTP error, an oversized, torn or
\* late answer, a client that went away: never another expert.
Proxied ==
    /\ req.pc = "upstream"
    /\ \E r \in {"ok", "provider_error"} : Finish(r)
    /\ UNCHANGED <<elig, par, prompts>>

-----------------------------------------------------------------------------
ServingInit ==
    /\ req \in {[pc |-> CASE m = "gateway" -> "authorize" [] m = "compact" -> "compact" [] OTHER -> "route",
                 mode |-> m, sel |-> <<>>, fb |-> <<>>, at |-> 1, got |-> 0, need |-> 1,
                 outcome |-> "none"] : m \in Modes}
    /\ elig = [e \in Experts |-> "blocked"]
    /\ par = <<>> /\ prompts = {}

ServingNext ==
    \/ Route \/ TryNext \/ ExpertAnswers \/ ExpertFails \/ ExpertStalls
    \/ StartMany \/ (\E e \in Experts : WorkerCalls(e) \/ WorkerEnds(e)) \/ JoinMany
    \/ Compact \/ GatewayRefuses \/ GatewayAuthorizes \/ GatewayBadRequest \/ GatewayAccepts \/ PrepareChatCompletion
    \/ OpenChatCompletion \/ Proxied

ServingSpec == ServingInit /\ [][ServingNext]_servingVars

-----------------------------------------------------------------------------
(* Properties *)

\* Whatever evidence changes between the route and the calls, every expert that
\* is sent the prompt has an allowed scope, and none is wider than the widest
\* scope the route selected unless the policy permits widening
\* (execution-scopes.md, "Enforcement Lifecycle", steps 4 and 5).
ScopeCeiling ==
    \A c \in prompts :
       /\ PolicyAllows(c.scope)
       /\ (~Widening /\ req.mode \in {"best", "compare"}) =>
             \E e \in Range(req.sel) : Rank[c.scope] <= Rank[elig[e]]
=============================================================================
