----------------------------- MODULE BrowserCell -----------------------------
(* The browser capability cell (src/local_moe/browser_capability.py): one     *)
(* provider drives an upstream browser through an MCP session, behind a proxy *)
(* that forwards to one exact origin only.  Calls are serialised by the       *)
(* provider's lock but take several upstream requests; between them the page  *)
(* changes by itself, the session or the proxy's thread dies, and the proxy's *)
(* handler threads work through the requests of the pages.                    *)
(*                                                                            *)
(* A page is its origin and a version; its snapshot hash, its targets and     *)
(* their labels are functions of the page.  A launch numbers its session, its *)
(* proxy and its random session identity.                                     *)
EXTENDS Integers, FiniteSets

CONSTANTS
    Origins,      \* loopback origins the configuration admits
    Outside,      \* an origin it does not admit
    Versions,     \* what a page may look like
    MaxLaunches,  \* bound on launches
    MaxRevision,  \* bound on observations of one session
    MaxRequests   \* bound on requests a page makes through the proxies

VARIABLES
    browser,    \* the provider's fields
    guards,     \* the proxies started, by launch
    page,       \* what the upstream browser shows
    active,     \* the call that holds the lock
    observations, \* observations handed to the agent
    acts,       \* interactions sent upstream (history)
    requests    \* requests in the proxies' handler threads

browserVars == <<browser, guards, page, active, observations, acts, requests>>

NoOrigin == "none"
Closed == [launch |-> 0, alive |-> FALSE, id |-> 0, origin |-> NoOrigin, rev |-> 0, shown |-> <<NoOrigin, 0>>]
NoCall == [pc |-> "free", to |-> NoOrigin, bind |-> [id |-> 0, rev |-> 0, shown |-> <<NoOrigin, 0>>]]

Launches == DOMAIN guards

\* Mutant of CloseAll: the proxy is forgotten, not closed.
CloseButProxy == browser' = Closed /\ UNCHANGED guards

\* close(): every field is cleared before the session, the proxy and the
\* directory are closed, whatever those closings raise.
CloseAll ==
    /\ browser' = Closed
    /\ guards' = [n \in Launches |-> [guards[n] EXCEPT !.serving = FALSE]]

Fail == CloseAll /\ active' = NoCall /\ UNCHANGED <<page, observations, acts, requests>>

-----------------------------------------------------------------------------
(* Launching *)

Healthy ==
    browser.launch # 0 /\ browser.alive /\ guards[browser.launch].serving /\ browser.id # 0

\* start() for an approved origin: a healthy launch of it is kept.  What is
\* left of an unhealthy one, or of another origin, is closed first; then come
\* the attestation, the proxy, the upstream process, and its tool schemas.
StartFor(o) ==
    LET n == Cardinality(Launches) + 1
    IN  IF Healthy /\ browser.origin = o
        THEN UNCHANGED <<browser, guards>>
        ELSE /\ n <= MaxLaunches
             /\ browser' = [Closed EXCEPT !.launch = n, !.alive = TRUE, !.id = n, !.origin = o]
             /\ guards' = [k \in Launches \cup {n} |->
                   IF k = n THEN [origin |-> o, serving |-> TRUE, blocked |-> 0, reported |-> 0]
                            ELSE [guards[k] EXCEPT !.serving = FALSE]]

\* The attestation, the launch or a tool schema is refused: all is closed.
LaunchFails ==
    /\ active.pc = "launch"
    /\ Fail

Navigate(o) ==
    /\ active.pc = "free"
    /\ active' = [NoCall EXCEPT !.pc = "launch", !.to = o]
    /\ UNCHANGED <<browser, guards, page, observations, acts, requests>>

\* Only a local origin the configuration lists is parsed at all.
Launch ==
    /\ active.pc = "launch" /\ active.to \in Origins
    /\ StartFor(active.to)
    /\ active' = [active EXCEPT !.pc = "navigate"]
    /\ UNCHANGED <<page, observations, acts, requests>>

-----------------------------------------------------------------------------
(* Observations *)

\* blocked_since_last_receipt: under the proxy's counter lock.
ReportBlocked(n) == [guards EXCEPT ![n].reported = guards[n].blocked]

\* The page has to be of the session's exact origin; then it is the new state,
\* under the next revision, and goes to the agent with the blocked attempts
\* not reported before.
CommitObservation(seen) ==
    LET n == browser.launch  next == browser.rev + 1
    IN  /\ seen[1] = browser.origin /\ browser.alive /\ guards[n].serving
        /\ next <= MaxRevision
        /\ browser' = [browser EXCEPT !.rev = next, !.shown = seen]
        /\ observations' = observations \cup {[id |-> browser.id, rev |-> next, shown |-> seen]}
        /\ guards' = ReportBlocked(n)
        /\ active' = NoCall

\* The session answers with the page it has navigated to, which may have sent
\* the browser elsewhere.
NavigateUpstream ==
    /\ active.pc = "navigate"
    /\ \E v \in Versions, o \in Origins \cup {Outside} :
          /\ page' = <<o, v>>
          /\ \/ o = active.to /\ CommitObservation(<<o, v>>) /\ UNCHANGED <<acts, requests>>
             \/ o # active.to /\ CloseAll /\ active' = NoCall /\ UNCHANGED <<observations, acts, requests>>

\* The last step of every other action.
ObserveCurrent ==
    /\ active.pc = "observe"
    /\ CommitObservation(page)
    /\ UNCHANGED <<page, acts, requests>>

\* An upstream call fails, times out or answers something that is refused: the
\* whole cell is closed.
CallFails ==
    /\ active.pc \in {"navigate", "preflight", "act", "observe"}
    /\ Fail

-----------------------------------------------------------------------------
(* Interactions *)

\* Mutant of ValidateStateBinding: the session identity is not compared.
BindingWithoutSession(b) == b.rev = browser.rev /\ b.rev >= 1 /\ b.shown = browser.shown

\* The approved call names the revision, session, origin and snapshot that are
\* current.
ValidateStateBinding(b) ==
    /\ b.rev = browser.rev /\ b.rev >= 1
    /\ b.id = browser.id
    /\ b.shown = browser.shown

RequireHealthyState ==
    /\ browser.launch # 0 /\ browser.alive /\ guards[browser.launch].serving
    /\ browser.id # 0 /\ browser.rev >= 1

\* An approved call, a click or text among the interactions, bound to any
\* observation ever delivered.
Execute(action, b) ==
    /\ active.pc = "free"
    /\ IF RequireHealthyState /\ ValidateStateBinding(b)
       THEN /\ active' = [NoCall EXCEPT !.pc = IF action = "observe" THEN "observe" ELSE "preflight",
                                      !.bind = b]
            /\ UNCHANGED <<browser, guards, page, observations, acts, requests>>
       ELSE Fail

\* A fresh snapshot has to show the page that was approved.
PreflightInteraction ==
    /\ active.pc = "preflight" /\ browser.alive /\ guards[browser.launch].serving
    /\ page = browser.shown
    /\ active' = [active EXCEPT !.pc = "act"]
    /\ UNCHANGED <<browser, guards, page, observations, acts, requests>>

\* The click or the text goes upstream, and moves the page on or not.
Act ==
    /\ active.pc = "act" /\ browser.alive
    /\ acts' = acts \cup {[bind |-> active.bind, id |-> browser.id, no |-> Cardinality(acts)]}
    /\ active' = [active EXCEPT !.pc = "observe"]
    /\ \E v \in Versions : page' = <<page[1], v>>
    /\ UNCHANGED <<browser, guards, observations, requests>>

\* The runner, or the end of the canary, closes the cell.
Close ==
    /\ active.pc = "free" /\ browser # Closed
    /\ CloseAll
    /\ UNCHANGED <<page, active, observations, acts, requests>>

-----------------------------------------------------------------------------
(* The exact-origin proxy *)

\* A page asks proxy n for something at origin o.
PageRequest(n, o) ==
    /\ Cardinality(requests) < MaxRequests /\ guards[n].serving /\ browser.launch = n
    /\ requests' = requests \cup {[no |-> Cardinality(requests), via |-> n, to |-> o, pc |-> "read"]}
    /\ UNCHANGED <<browser, guards, page, active, observations, acts>>

\* A request passes for the proxy's own scheme, host and port.
RequestAllowed(r) == r.to = guards[r.via].origin

\* The handler threads are daemons: closing the proxy does not end them.
Forward(r) ==
    /\ r.pc = "read"
    /\ IF RequestAllowed(r)
       THEN /\ requests' = (requests \ {r}) \cup {[r EXCEPT !.pc = "forwarded"]}
            /\ UNCHANGED guards
       ELSE /\ requests' = (requests \ {r}) \cup {[r EXCEPT !.pc = "denied"]}
            /\ guards' = [guards EXCEPT ![r.via].blocked = @ + 1]
    /\ UNCHANGED <<browser, page, active, observations, acts>>

-----------------------------------------------------------------------------
(* The surroundings *)

PageChanges ==
    /\ browser.alive
    /\ \E v \in Versions, o \in {page[1], Outside} : page' = <<o, v>>
    /\ UNCHANGED <<browser, guards, active, observations, acts, requests>>

SessionDies ==
    /\ browser.alive
    /\ browser' = [browser EXCEPT !.alive = FALSE]
    /\ UNCHANGED <<guards, page, active, observations, acts, requests>>

ProxyDies ==
    /\ browser.launch # 0 /\ guards[browser.launch].serving
    /\ guards' = [guards EXCEPT ![browser.launch].serving = FALSE]
    /\ UNCHANGED <<browser, page, active, observations, acts, requests>>

BrowserInit ==
    /\ browser = Closed /\ guards = <<>> /\ page = <<NoOrigin, 0>> /\ active = NoCall
    /\ observations = {} /\ acts = {} /\ requests = {}

BrowserNext ==
    \/ \E o \in Origins \cup {Outside} : Navigate(o)
    \/ Launch \/ LaunchFails \/ NavigateUpstream \/ ObserveCurrent \/ CallFails
    \/ \E a \in {"observe", "interact"}, b \in observations : Execute(a, b)
    \/ PreflightInteraction \/ Act \/ Close
    \/ \E n \in Launches, o \in Origins : PageRequest(n, o)
    \/ \E r \in requests : Forward(r)
    \/ PageChanges \/ SessionDies \/ ProxyDies

BrowserSpec == BrowserInit /\ [][BrowserNext]_browserVars

-----------------------------------------------------------------------------
(* Properties *)

\* An approval is good for one interaction in the session it was given for
\* (execute, _validate_state_binding, close): every interaction is followed by
\* a new revision or the end of the session, and a revision number that comes
\* up again belongs to another session.
ApprovalUsedOnce ==
    \A x, y \in acts :
        /\ x.bind.id = x.id
        /\ (x.bind.id = y.bind.id /\ x.bind.rev = y.bind.rev) => x = y

\* What passes a proxy goes to the one origin its launch was approved for, and
\* a launch that was left behind admits no new request: only the current
\* proxy serves.
OneOriginPerLaunch ==
    /\ \A r \in requests : r.pc = "forwarded" => r.to = guards[r.via].origin
    /\ \A n \in Launches : guards[n].serving => n = browser.launch /\ guards[n].origin = browser.origin
    /\ \A n \in Launches : guards[n].reported <= guards[n].blocked

\* What the approvals of the browser cell and its loopback proxies guarantee together.
BrowserSafe == ApprovalUsedOnce /\ OneOriginPerLaunch
=============================================================================
