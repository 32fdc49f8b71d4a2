---------------------------- MODULE LocalProofs ----------------------------
(***************************************************************************)
(* Proofs about what runs beside the bridge on the user's machine: the     *)
(* browser cell (BrowserInv), the desktop cell (DesktopInv), the experts   *)
(* of the web process (ServingInv), the local cascade (CascadeInv) and the *)
(* chats on disk (StoreInv).  Each part stands alone: its inductive        *)
(* invariant, one lemma for each group of its steps, and its theorem.      *)
(***************************************************************************)
EXTENDS BrowserCell, DesktopCell, LocalStores, LocalCascade, LocalServing,
        FiniteSetTheorems, SequenceTheorems, TLAPS

-----------------------------------------------------------------------------
(* The browser cell *)

Places == Origins \cup {Outside, NoOrigin}
Pages == Places \X (Versions \cup {0})
BindingSet == [id : Nat, rev : Nat, shown : Pages]
Guards == [origin : Places, serving : BOOLEAN, blocked : Nat, reported : Nat]
ActSet == [bind : BindingSet, id : Nat, no : Nat]
RequestSet == [no : Nat, via : Nat, to : Places, pc : {"read", "forwarded", "denied"}]

BrowserTypeOK ==
    /\ browser \in [launch : Nat, alive : BOOLEAN, id : Nat, origin : Places, rev : Nat, shown : Pages]
    /\ \E n \in Nat : guards \in [1..n -> Guards]
    /\ page \in Pages
    /\ active \in [pc : {"free", "launch", "navigate", "preflight", "act", "observe"},
                   to : Places, bind : BindingSet]
    /\ observations \subseteq BindingSet
    /\ acts \subseteq ActSet /\ IsFiniteSet(acts)
    /\ requests \subseteq RequestSet /\ IsFiniteSet(requests)

\* The provider's fields are those of its latest launch, or of none.
LaunchSound ==
    /\ browser.launch \in Launches \cup {0}
    /\ browser.id = browser.launch
    /\ browser.alive => browser.launch # 0

\* What a binding approved is of its session, and was current when it was acted upon: until
\* the observation that ends the call, the session stands at the revision of its last act.
ActsSound ==
    \A x \in acts :
       /\ x.bind.id = x.id /\ x.id \in Launches
       /\ x.id = browser.id =>
             /\ x.bind.rev <= browser.rev
             /\ x.bind.rev = browser.rev => active.pc = "observe"

ActiveSound ==
    active.pc \in {"preflight", "act"} =>
       /\ browser.launch # 0
       /\ active.bind.id = browser.id /\ active.bind.rev = browser.rev

RequestsSound == \A r \in requests : r.via \in Launches

BrowserInv ==
    BrowserTypeOK /\ LaunchSound /\ ActsSound /\ ActiveSound /\ RequestsSound /\ BrowserSafe

LEMMA PlainFacts ==
    /\ <<NoOrigin, 0>> \in Pages
    /\ Closed \in [launch : Nat, alive : BOOLEAN, id : Nat, origin : Places, rev : Nat, shown : Pages]
    /\ NoCall \in [pc : {"free", "launch", "navigate", "preflight", "act", "observe"},
                   to : Places, bind : BindingSet]
    /\ Closed.launch = 0 /\ Closed.id = 0 /\ ~Closed.alive /\ NoCall.pc = "free"
<1>1. <<NoOrigin, 0>> \in Pages
  BY DEF Pages, Places
<1> QED BY <1>1 DEF Closed, NoCall, BindingSet, Places

\* The launches are numbered without a gap.
LEMMA LaunchesCounted ==
    ASSUME BrowserTypeOK
    PROVE  /\ Cardinality(Launches) \in Nat /\ Launches = 1..Cardinality(Launches)
           /\ guards \in [Launches -> Guards]
           /\ \A n \in Launches : n \in Nat \ {0}
<1>1. PICK n \in Nat : guards \in [1..n -> Guards]
  BY DEF BrowserTypeOK
<1>2. Launches = 1..n
  BY <1>1 DEF Launches
<1>3. Cardinality(1..n) = n
  BY FS_Interval
<1> QED BY <1>1, <1>2, <1>3

LEMMA CloseKeeps ==
    ASSUME BrowserInv, CloseAll, active' = NoCall, page' \in Pages,
           UNCHANGED <<observations, acts, requests>>
    PROVE  BrowserInv'
<1>1. /\ Launches = 1..Cardinality(Launches) /\ Cardinality(Launches) \in Nat
      /\ guards \in [Launches -> Guards] /\ \A n \in Launches : n \in Nat \ {0}
  BY LaunchesCounted DEF BrowserInv
<1>2. /\ Launches' = Launches /\ guards' \in [Launches -> Guards]
      /\ \A n \in Launches : guards'[n].origin = guards[n].origin /\ ~guards'[n].serving
                             /\ guards'[n].blocked = guards[n].blocked
                             /\ guards'[n].reported = guards[n].reported
  BY <1>1 DEF CloseAll, Launches, Guards
<1>3. browser' = Closed
  BY DEF CloseAll
<1>4. BrowserTypeOK'
  BY <1>1, <1>2, <1>3, PlainFacts DEF BrowserInv, BrowserTypeOK
<1>5. LaunchSound' /\ ActiveSound'
  BY <1>3, PlainFacts DEF LaunchSound, ActiveSound
<1>6. ActsSound' /\ RequestsSound'
  BY <1>1, <1>2, <1>3, PlainFacts DEF BrowserInv, ActsSound, RequestsSound
<1>7. BrowserSafe'
  BY <1>1, <1>2, <1>3 DEF BrowserInv, RequestsSound, BrowserSafe, ApprovalUsedOnce, OneOriginPerLaunch
<1> QED BY <1>4, <1>5, <1>6, <1>7 DEF BrowserInv

\* Steps that leave the session, its proxies and the interactions alone.
LEMMA QuietKeeps ==
    ASSUME BrowserInv, UNCHANGED <<browser, guards, observations, acts, requests>>, page' \in Pages,
           active' \in [pc : {"free", "launch", "navigate", "preflight", "act", "observe"},
                        to : Places, bind : BindingSet],
           ActiveSound', active.pc = "observe" => active'.pc = "observe"
    PROVE  BrowserInv'
<1>1. BrowserTypeOK'
  BY DEF BrowserInv, BrowserTypeOK
<1>2. LaunchSound' /\ RequestsSound' /\ BrowserSafe'
  BY DEF BrowserInv, LaunchSound, RequestsSound, BrowserSafe, ApprovalUsedOnce, OneOriginPerLaunch,
         Launches
<1>3. ActsSound'
  BY DEF BrowserInv, ActsSound, Launches
<1> QED BY <1>1, <1>2, <1>3 DEF BrowserInv

LEMMA LaunchKeeps ==
    ASSUME BrowserInv, Launch
    PROVE  BrowserInv'
<1> USE DEF BrowserInv
<1>1. /\ Launches = 1..Cardinality(Launches) /\ Cardinality(Launches) \in Nat
      /\ guards \in [Launches -> Guards] /\ \A n \in Launches : n \in Nat \ {0}
  BY LaunchesCounted
<1>2. /\ active.pc = "launch" /\ active.to \in Origins /\ StartFor(active.to)
      /\ UNCHANGED <<page, observations, acts, requests>>
      /\ active' = [active EXCEPT !.pc = "navigate"]
  BY DEF Launch
<1>3. /\ active' \in [pc : {"free", "launch", "navigate", "preflight", "act", "observe"},
                      to : Places, bind : BindingSet]
      /\ active'.pc = "navigate"
  BY <1>2 DEF BrowserTypeOK
<1>4. CASE UNCHANGED <<browser, guards>>
  BY <1>2, <1>3, <1>4, QuietKeeps DEF ActiveSound, BrowserTypeOK
<1>5. CASE ~UNCHANGED <<browser, guards>>
  <2> DEFINE n == Cardinality(Launches) + 1
  <2>1. /\ browser' = [Closed EXCEPT !.launch = n, !.alive = TRUE, !.id = n, !.origin = active.to]
        /\ guards' = [k \in Launches \cup {n} |->
             IF k = n THEN [origin |-> active.to, serving |-> TRUE, blocked |-> 0, reported |-> 0]
             ELSE [guards[k] EXCEPT !.serving = FALSE]]
    BY <1>2, <1>5 DEF StartFor
  <2>2. n \in Nat \ {0} /\ n \notin Launches /\ Launches \cup {n} = 1..n /\ active.to \in Places
    BY <1>1, <1>2 DEF Places
  <2>3. /\ browser' \in [launch : Nat, alive : BOOLEAN, id : Nat, origin : Places, rev : Nat, shown : Pages]
        /\ browser'.launch = n /\ browser'.id = n /\ browser'.alive /\ browser'.origin = active.to
    BY <2>1, <2>2, PlainFacts DEF Closed
  <2> HIDE DEF n
  <2>4. /\ Launches' = Launches \cup {n} /\ guards' \in [Launches \cup {n} -> Guards]
        /\ \A k \in Launches : guards'[k].origin = guards[k].origin /\ ~guards'[k].serving
                               /\ guards'[k].blocked = guards[k].blocked
                               /\ guards'[k].reported = guards[k].reported
        /\ guards'[n].origin = active.to /\ guards'[n].blocked = 0 /\ guards'[n].reported = 0
    BY <1>1, <2>1, <2>2 DEF Launches, Guards
  <2>5. BrowserTypeOK'
    BY <1>2, <1>3, <2>2, <2>3, <2>4 DEF BrowserTypeOK
  <2>6. LaunchSound' /\ ActiveSound' /\ RequestsSound'
    BY <1>2, <1>3, <2>2, <2>3, <2>4 DEF LaunchSound, ActiveSound, RequestsSound
  <2>7. ActsSound'
    BY <1>2, <2>2, <2>3, <2>4 DEF ActsSound
  <2>8. BrowserSafe'
    <3>1. ApprovalUsedOnce'
      BY <1>2 DEF BrowserSafe, ApprovalUsedOnce
    <3>2. \A r \in requests' : r.pc = "forwarded" => r.to = guards'[r.via].origin
      BY <1>2, <2>4 DEF RequestsSound, BrowserSafe, OneOriginPerLaunch
    <3>3. \A k \in Launches' : guards'[k].serving => k = browser'.launch /\ guards'[k].origin = browser'.origin
      BY <2>3, <2>4
    <3>4. \A k \in Launches' : guards'[k].reported <= guards'[k].blocked
      BY <2>4 DEF BrowserSafe, OneOriginPerLaunch
    <3> QED BY <3>1, <3>2, <3>3, <3>4 DEF BrowserSafe, OneOriginPerLaunch
  <2> QED BY <2>5, <2>6, <2>7, <2>8
<1> QED BY <1>4, <1>5

LEMMA ObservationKeeps ==
    ASSUME BrowserInv, NEW seen \in Pages, CommitObservation(seen), page' \in Pages,
           UNCHANGED <<acts, requests>>
    PROVE  BrowserInv'
<1> USE DEF BrowserInv
<1>1. /\ Launches = 1..Cardinality(Launches) /\ Cardinality(Launches) \in Nat
      /\ guards \in [Launches -> Guards] /\ \A n \in Launches : n \in Nat \ {0}
  BY LaunchesCounted
<1> DEFINE n == browser.launch
<1>2. /\ browser' = [browser EXCEPT !.rev = browser.rev + 1, !.shown = seen]
      /\ observations' = observations \cup {[id |-> browser.id, rev |-> browser.rev + 1, shown |-> seen]}
      /\ guards' = [guards EXCEPT ![n].reported = guards[n].blocked]
      /\ active' = NoCall /\ browser.alive
  BY DEF CommitObservation, ReportBlocked
<1>3. n \in Launches /\ guards[n] \in Guards
  BY <1>1, <1>2 DEF LaunchSound
<1>4. /\ browser' \in [launch : Nat, alive : BOOLEAN, id : Nat, origin : Places, rev : Nat, shown : Pages]
      /\ browser'.launch = browser.launch /\ browser'.id = browser.id
      /\ browser'.alive = browser.alive /\ browser'.origin = browser.origin
      /\ browser'.rev = browser.rev + 1 /\ browser.rev \in Nat
  <2>1. /\ browser \in [launch : Nat, alive : BOOLEAN, id : Nat, origin : Places, rev : Nat, shown : Pages]
        /\ browser.rev \in Nat
    BY DEF BrowserTypeOK
  <2>2. PICK next : next = browser.rev + 1
    OBVIOUS
  <2>3. next \in Nat /\ browser' = [browser EXCEPT !.rev = next, !.shown = seen]
    BY <1>2, <2>1, <2>2
  <2> QED BY <2>1, <2>2, <2>3
<1> HIDE DEF n
<1>5. /\ Launches' = Launches /\ guards' \in [Launches -> Guards]
      /\ \A k \in Launches : guards'[k].origin = guards[k].origin
                             /\ guards'[k].serving = guards[k].serving
                             /\ guards'[k].blocked = guards[k].blocked
                             /\ (guards'[k].reported = guards[k].reported
                                 \/ guards'[k].reported = guards'[k].blocked)
                             /\ guards'[k].blocked \in Nat
  <2>1. Launches' = Launches
    BY <1>2 DEF Launches
  <2>2. \A k \in Launches : guards[k] \in Guards /\ (k # n => guards'[k] = guards[k])
    BY <1>1, <1>2
  <2>3. guards'[n] = [guards[n] EXCEPT !.reported = guards[n].blocked]
    BY <1>1, <1>2, <1>3
  <2>4. guards'[n] \in Guards /\ guards'[n].origin = guards[n].origin
        /\ guards'[n].serving = guards[n].serving /\ guards'[n].blocked = guards[n].blocked
        /\ guards'[n].reported = guards[n].blocked
    BY <1>3, <2>3 DEF Guards
  <2>5. guards' \in [Launches -> Guards]
    BY <1>1, <1>2, <2>3, <2>4
  <2>6. \A k \in Launches : guards'[k].blocked \in Nat
    BY <2>5 DEF Guards
  <2> QED BY <2>1, <2>2, <2>4, <2>5, <2>6
<1>6. BrowserTypeOK'
  <2>1. [id |-> browser.id, rev |-> browser.rev + 1, shown |-> seen] \in BindingSet
    BY DEF BrowserTypeOK, BindingSet
  <2>2. \E m \in Nat : guards' \in [1..m -> Guards]
    BY <1>1, <1>5
  <2> QED BY <1>2, <1>4, <2>1, <2>2, PlainFacts DEF BrowserTypeOK
<1>7. LaunchSound' /\ ActiveSound' /\ RequestsSound'
  BY <1>2, <1>4, <1>5, PlainFacts DEF LaunchSound, ActiveSound, RequestsSound
<1>8. ActsSound'
  <2> SUFFICES ASSUME NEW x \in acts
               PROVE  /\ x.bind.id = x.id /\ x.id \in Launches
                      /\ x.id = browser.id => x.bind.rev < browser.rev + 1
    <3>1. \A x \in acts : x.bind.rev \in Nat
      BY DEF BrowserTypeOK, ActSet, BindingSet
    <3> QED BY <1>4, <1>5, <3>1 DEF ActsSound
  <2>1. x.bind.rev \in Nat
    BY DEF BrowserTypeOK, ActSet, BindingSet
  <2> QED BY <1>4, <2>1 DEF ActsSound
<1>9. BrowserSafe'
  <2>1. ApprovalUsedOnce'
    BY DEF BrowserSafe, ApprovalUsedOnce
  <2>2. \A k \in Launches' : guards'[k].reported <= guards'[k].blocked
    BY <1>5 DEF BrowserSafe, OneOriginPerLaunch
  <2>3. OneOriginPerLaunch'
    BY <1>4, <1>5, <2>2 DEF RequestsSound, BrowserSafe, OneOriginPerLaunch
  <2> QED BY <2>1, <2>3 DEF BrowserSafe
<1> QED BY <1>6, <1>7, <1>8, <1>9

LEMMA ActKeeps ==
    ASSUME BrowserInv, Act
    PROVE  BrowserInv'
<1> USE DEF BrowserInv
<1> DEFINE new == [bind |-> active.bind, id |-> browser.id, no |-> Cardinality(acts)]
<1>1. /\ active.pc = "act" /\ acts' = acts \cup {new} /\ active' = [active EXCEPT !.pc = "observe"]
      /\ UNCHANGED <<browser, guards, observations, requests>>
      /\ \E v \in Versions : page' = <<page[1], v>>
  BY DEF Act
<1>2. /\ browser.launch # 0 /\ browser.launch \in Launches /\ browser.id = browser.launch
      /\ active.bind.id = browser.id /\ active.bind.rev = browser.rev /\ browser.rev \in Nat
  BY <1>1 DEF ActiveSound, LaunchSound, BrowserTypeOK
<1>3. /\ active' \in [pc : {"free", "launch", "navigate", "preflight", "act", "observe"},
                      to : Places, bind : BindingSet]
      /\ active'.pc = "observe"
  BY <1>1 DEF BrowserTypeOK
<1>4. new \in ActSet /\ new.bind = active.bind /\ new.id = browser.id
  BY FS_CardinalityType DEF BrowserTypeOK, ActSet
<1>5. page' \in Pages
  BY <1>1 DEF BrowserTypeOK, Pages
<1> HIDE DEF new
<1>6. BrowserTypeOK'
  BY <1>1, <1>3, <1>4, <1>5, FS_AddElement DEF BrowserTypeOK
<1>7. LaunchSound' /\ ActiveSound' /\ RequestsSound'
  BY <1>1, <1>3 DEF LaunchSound, ActiveSound, RequestsSound, Launches
<1>8. ActsSound'
  <2>1. \A x \in acts' : x.bind.id = x.id /\ x.id \in Launches
    BY <1>1, <1>2, <1>4 DEF ActsSound
  <2>2. \A x \in acts' : x.id = browser.id => x.bind.rev <= browser.rev
    BY <1>1, <1>2, <1>4 DEF ActsSound
  <2> QED BY <1>1, <1>3, <2>1, <2>2 DEF ActsSound, Launches
<1>9. BrowserSafe'
  <2>1. \A x \in acts : ~(x.bind.id = new.bind.id /\ x.bind.rev = new.bind.rev)
    BY <1>1, <1>2, <1>4 DEF ActsSound
  <2>2. ApprovalUsedOnce'
    BY <1>1, <1>2, <1>4, <2>1 DEF BrowserSafe, ApprovalUsedOnce
  <2> QED BY <1>1, <2>2 DEF BrowserSafe, OneOriginPerLaunch, Launches
<1> QED BY <1>6, <1>7, <1>8, <1>9

LEMMA ForwardKeeps ==
    ASSUME BrowserInv, NEW r \in requests, Forward(r)
    PROVE  BrowserInv'
<1> USE DEF BrowserInv
<1>1. /\ Launches = 1..Cardinality(Launches) /\ Cardinality(Launches) \in Nat
      /\ guards \in [Launches -> Guards] /\ \A n \in Launches : n \in Nat \ {0}
  BY LaunchesCounted
<1>2. PICK to \in {"forwarded", "denied"} :
        /\ requests' = (requests \ {r}) \cup {[r EXCEPT !.pc = to]}
        /\ to = "forwarded" => RequestAllowed(r) /\ UNCHANGED guards
        /\ to = "denied" => guards' = [guards EXCEPT ![r.via].blocked = @ + 1]
  BY DEF Forward
<1>3. UNCHANGED <<browser, page, active, observations, acts>>
  BY DEF Forward
<1>4. PICK s : s = [r EXCEPT !.pc = to]
  OBVIOUS
<1>5. s \in RequestSet /\ s.via = r.via /\ s.to = r.to /\ s.pc = to /\ r.via \in Launches
  BY <1>4 DEF BrowserTypeOK, RequestSet, RequestsSound
<1>6. requests' = (requests \ {r}) \cup {s}
  BY <1>2, <1>4
<1>7. /\ Launches' = Launches /\ guards' \in [Launches -> Guards]
      /\ \A k \in Launches : guards'[k].origin = guards[k].origin
                             /\ guards'[k].serving = guards[k].serving
                             /\ guards'[k].reported = guards[k].reported
                             /\ guards'[k].blocked \in {guards[k].blocked, guards[k].blocked + 1}
                             /\ guards[k].blocked \in Nat /\ guards[k].reported \in Nat
  <2>1. \A k \in Launches : guards[k].blocked \in Nat /\ guards[k].reported \in Nat
    BY <1>1 DEF Guards
  <2>2. CASE to = "forwarded"
    BY <1>1, <1>2, <2>1, <2>2 DEF Launches
  <2>3. CASE to = "denied"
    <3> DEFINE v == r.via
    <3>1. guards' = [guards EXCEPT ![v].blocked = guards[v].blocked + 1] /\ v \in Launches
      BY <1>2, <1>5, <2>3
    <3> HIDE DEF v
    <3>2. Launches' = Launches
      BY <3>1 DEF Launches
    <3>3. guards[v] \in Guards /\ \A k \in Launches : k # v => guards'[k] = guards[k]
      BY <1>1, <3>1
    <3>4. guards'[v] = [guards[v] EXCEPT !.blocked = guards[v].blocked + 1]
      BY <1>1, <3>1
    <3>5. guards'[v] \in Guards /\ guards'[v].origin = guards[v].origin
          /\ guards'[v].serving = guards[v].serving /\ guards'[v].reported = guards[v].reported
          /\ guards'[v].blocked = guards[v].blocked + 1
      BY <3>3, <3>4 DEF Guards
    <3>6. guards' \in [Launches -> Guards]
      BY <1>1, <3>1, <3>4, <3>5
    <3> QED BY <2>1, <3>2, <3>3, <3>5, <3>6
  <2> QED BY <2>2, <2>3
<1>8. BrowserTypeOK'
  <2>1. IsFiniteSet(requests')
    BY <1>6, FS_AddElement, FS_RemoveElement DEF BrowserTypeOK
  <2>2. \E m \in Nat : guards' \in [1..m -> Guards]
    BY <1>1, <1>7
  <2> QED BY <1>3, <1>5, <1>6, <2>1, <2>2 DEF BrowserTypeOK
<1>9. LaunchSound' /\ ActiveSound' /\ ActsSound'
  BY <1>3, <1>7 DEF LaunchSound, ActiveSound, ActsSound
<1>10. RequestsSound'
  BY <1>5, <1>6, <1>7 DEF RequestsSound
<1>11. BrowserSafe'
  <2>1. ApprovalUsedOnce'
    BY <1>3 DEF BrowserSafe, ApprovalUsedOnce
  <2>2. \A k \in Launches' : guards'[k].reported <= guards'[k].blocked
    BY <1>7 DEF BrowserSafe, OneOriginPerLaunch
  <2>3. \A q \in requests' : q.pc = "forwarded" => q.to = guards'[q.via].origin
    BY <1>2, <1>5, <1>6, <1>7 DEF RequestAllowed, RequestsSound, BrowserSafe, OneOriginPerLaunch
  <2>4. OneOriginPerLaunch'
    BY <1>3, <1>7, <2>2, <2>3 DEF BrowserSafe, OneOriginPerLaunch
  <2> QED BY <2>1, <2>4 DEF BrowserSafe
<1> QED BY <1>8, <1>9, <1>10, <1>11

LEMMA BrowserMoves ==
    ASSUME BrowserInv, BrowserNext
    PROVE  BrowserInv'
<1> USE DEF BrowserInv
<1>0. /\ Launches = 1..Cardinality(Launches) /\ Cardinality(Launches) \in Nat
      /\ guards \in [Launches -> Guards] /\ \A n \in Launches : n \in Nat \ {0}
  BY LaunchesCounted
<1>1. CASE \E o \in Origins \cup {Outside} : Navigate(o)
  <2>1. /\ active.pc = "free" /\ UNCHANGED <<browser, guards, page, observations, acts, requests>>
        /\ \E o \in Origins \cup {Outside} : active' = [NoCall EXCEPT !.pc = "launch", !.to = o]
    BY <1>1 DEF Navigate
  <2>2. /\ active' \in [pc : {"free", "launch", "navigate", "preflight", "act", "observe"},
                        to : Places, bind : BindingSet]
        /\ active'.pc = "launch"
    BY <2>1, PlainFacts DEF NoCall, Places
  <2> QED BY <2>1, <2>2, QuietKeeps DEF ActiveSound, BrowserTypeOK
<1>2. CASE Launch
  BY <1>2, LaunchKeeps
<1>3. CASE LaunchFails \/ CallFails
  BY <1>3, CloseKeeps DEF LaunchFails, CallFails, Fail, BrowserTypeOK
<1>4. CASE NavigateUpstream
  <2>1. PICK v \in Versions, o \in Origins \cup {Outside} :
          /\ page' = <<o, v>>
          /\ \/ CommitObservation(<<o, v>>) /\ UNCHANGED <<acts, requests>>
             \/ CloseAll /\ active' = NoCall /\ UNCHANGED <<observations, acts, requests>>
    BY <1>4 DEF NavigateUpstream
  <2>2. <<o, v>> \in Pages
    BY DEF Pages, Places
  <2> QED BY <2>1, <2>2, ObservationKeeps, CloseKeeps
<1>5. CASE ObserveCurrent
  BY <1>5, ObservationKeeps DEF ObserveCurrent, BrowserTypeOK
<1>6. CASE \E a \in {"observe", "interact"}, b \in observations : Execute(a, b)
  <2>1. PICK a \in {"observe", "interact"}, b \in observations : Execute(a, b)
    BY <1>6
  <2>2. CASE Fail
    BY <2>2, CloseKeeps DEF Fail, BrowserTypeOK
  <2>3. CASE ~Fail
    <3>1. /\ RequireHealthyState /\ ValidateStateBinding(b) /\ active.pc = "free"
          /\ active' = [NoCall EXCEPT !.pc = IF a = "observe" THEN "observe" ELSE "preflight",
                                      !.bind = b]
          /\ UNCHANGED <<browser, guards, page, observations, acts, requests>>
      BY <2>1, <2>3 DEF Execute
    <3>2. /\ active' \in [pc : {"free", "launch", "navigate", "preflight", "act", "observe"},
                          to : Places, bind : BindingSet]
          /\ active'.bind = b
      BY <3>1, PlainFacts DEF NoCall, Places, BrowserTypeOK
    <3>3. ActiveSound'
      BY <3>1, <3>2 DEF ActiveSound, RequireHealthyState, ValidateStateBinding
    <3> QED BY <3>1, <3>2, <3>3, QuietKeeps DEF BrowserTypeOK
  <2> QED BY <2>2, <2>3
<1>7. CASE PreflightInteraction
  <2>1. /\ active' = [active EXCEPT !.pc = "act"] /\ active.pc = "preflight"
        /\ UNCHANGED <<browser, guards, page, observations, acts, requests>>
    BY <1>7 DEF PreflightInteraction
  <2>2. /\ active' \in [pc : {"free", "launch", "navigate", "preflight", "act", "observe"},
                        to : Places, bind : BindingSet]
        /\ active'.bind = active.bind
    BY <2>1 DEF BrowserTypeOK
  <2>3. ActiveSound'
    BY <2>1, <2>2 DEF ActiveSound
  <2> QED BY <2>1, <2>2, <2>3, QuietKeeps DEF BrowserTypeOK
<1>8. CASE Act
  BY <1>8, ActKeeps
<1>9. CASE Close
  <2>1. active = NoCall \/ active.pc = "free"
    BY <1>9 DEF Close
  <2>2. CloseAll /\ UNCHANGED <<page, active, observations, acts, requests>> /\ active.pc = "free"
    BY <1>9 DEF Close
  <2>3. /\ Launches' = Launches /\ guards' \in [Launches -> Guards] /\ browser' = Closed
        /\ \A n \in Launches : guards'[n].origin = guards[n].origin /\ ~guards'[n].serving
                               /\ guards'[n].blocked = guards[n].blocked
                               /\ guards'[n].reported = guards[n].reported
    BY <1>0, <2>2 DEF CloseAll, Launches, Guards
  <2>4. BrowserTypeOK'
    BY <1>0, <2>2, <2>3, PlainFacts DEF BrowserTypeOK
  <2>5. LaunchSound' /\ ActiveSound' /\ RequestsSound' /\ ActsSound'
    BY <1>0, <2>2, <2>3, PlainFacts DEF LaunchSound, ActiveSound, RequestsSound, ActsSound
  <2>6. BrowserSafe'
    BY <2>2, <2>3 DEF RequestsSound, BrowserSafe, ApprovalUsedOnce, OneOriginPerLaunch
  <2> QED BY <2>4, <2>5, <2>6
<1>10. CASE \E n \in Launches, o \in Origins : PageRequest(n, o)
  <2>1. PICK n \in Launches, o \in Origins : PageRequest(n, o)
    BY <1>10
  <2>2. PICK q : q = [no |-> Cardinality(requests), via |-> n, to |-> o, pc |-> "read"]
    OBVIOUS
  <2>3. requests' = requests \cup {q} /\ UNCHANGED <<browser, guards, page, active, observations, acts>>
    BY <2>1, <2>2 DEF PageRequest
  <2>4. q \in RequestSet /\ q.via = n /\ q.pc = "read"
    BY <1>0, <2>2, FS_CardinalityType DEF BrowserTypeOK, RequestSet, Places
  <2>5. BrowserTypeOK'
    BY <2>3, <2>4, FS_AddElement DEF BrowserTypeOK
  <2>6. LaunchSound' /\ ActiveSound' /\ RequestsSound' /\ ActsSound'
    BY <2>3, <2>4 DEF LaunchSound, ActiveSound, RequestsSound, ActsSound, Launches
  <2>7. BrowserSafe'
    BY <2>3, <2>4 DEF BrowserSafe, ApprovalUsedOnce, OneOriginPerLaunch, Launches
  <2> QED BY <2>5, <2>6, <2>7
<1>11. CASE \E r \in requests : Forward(r)
  BY <1>11, ForwardKeeps
<1>12. CASE PageChanges
  <2>1. page' \in Pages
    BY <1>12 DEF PageChanges, Pages, Places, BrowserTypeOK
  <2> QED BY <1>12, <2>1, QuietKeeps DEF PageChanges, BrowserTypeOK, ActiveSound
<1>13. CASE SessionDies
  <2>1. browser' = [browser EXCEPT !.alive = FALSE]
        /\ UNCHANGED <<guards, page, active, observations, acts, requests>>
    BY <1>13 DEF SessionDies
  <2>2. /\ browser' \in [launch : Nat, alive : BOOLEAN, id : Nat, origin : Places, rev : Nat, shown : Pages]
        /\ browser'.launch = browser.launch /\ browser'.id = browser.id /\ ~browser'.alive
        /\ browser'.origin = browser.origin /\ browser'.rev = browser.rev
    BY <2>1 DEF BrowserTypeOK
  <2>3. BrowserTypeOK'
    BY <2>1, <2>2 DEF BrowserTypeOK
  <2>4. LaunchSound' /\ ActiveSound' /\ RequestsSound' /\ ActsSound'
    BY <2>1, <2>2 DEF LaunchSound, ActiveSound, RequestsSound, ActsSound, Launches
  <2>5. BrowserSafe'
    BY <2>1, <2>2 DEF BrowserSafe, ApprovalUsedOnce, OneOriginPerLaunch, Launches
  <2> QED BY <2>3, <2>4, <2>5
<1>14. CASE ProxyDies
  <2>1. /\ guards' = [guards EXCEPT ![browser.launch].serving = FALSE]
        /\ UNCHANGED <<browser, page, active, observations, acts, requests>>
    BY <1>14 DEF ProxyDies
  <2>2. /\ Launches' = Launches /\ guards' \in [Launches -> Guards]
        /\ \A k \in Launches : guards'[k].origin = guards[k].origin
                               /\ (guards'[k].serving => guards[k].serving)
                               /\ guards'[k].reported = guards[k].reported
                               /\ guards'[k].blocked = guards[k].blocked
    BY <1>0, <2>1 DEF Launches, Guards
  <2>3. BrowserTypeOK'
    BY <1>0, <2>1, <2>2 DEF BrowserTypeOK
  <2>4. LaunchSound' /\ ActiveSound' /\ RequestsSound' /\ ActsSound'
    BY <2>1, <2>2 DEF LaunchSound, ActiveSound, RequestsSound, ActsSound
  <2>5. BrowserSafe'
    BY <2>1, <2>2 DEF RequestsSound, BrowserSafe, ApprovalUsedOnce, OneOriginPerLaunch
  <2> QED BY <2>3, <2>4, <2>5
<1> QED
  BY <1>1, <1>2, <1>3, <1>4, <1>5, <1>6, <1>7, <1>8, <1>9, <1>10, <1>11, <1>12, <1>13,
     <1>14 DEF BrowserNext

(***************************************************************************)
(* Whatever happens to the page, the session and the proxy between two     *)
(* upstream requests, an approval is good for one interaction of its own   *)
(* session, and a proxy forwards to the one origin of its launch           *)
(* (execute, _validate_state_binding, close and the proxy's handlers).     *)
(***************************************************************************)
THEOREM ApprovalsAreUsedOnce == BrowserSpec => []BrowserSafe
<1>1. BrowserInit => BrowserInv
  <2> SUFFICES ASSUME BrowserInit
               PROVE  BrowserInv
    OBVIOUS
  <2>1. browser = Closed /\ guards = <<>> /\ active = NoCall /\ observations = {} /\ acts = {} /\ requests = {}
        /\ page = <<NoOrigin, 0>>
    BY DEF BrowserInit
  <2>2. guards \in [1..0 -> Guards] /\ Launches = {}
    BY <2>1 DEF Launches
  <2>3. BrowserTypeOK
    BY <2>1, <2>2, PlainFacts, FS_EmptySet DEF BrowserTypeOK
  <2>4. LaunchSound /\ ActiveSound /\ RequestsSound /\ ActsSound
    BY <2>1, <2>2, PlainFacts DEF LaunchSound, ActiveSound, RequestsSound, ActsSound
  <2> QED BY <2>1, <2>2, <2>3, <2>4 DEF BrowserInv, BrowserSafe, ApprovalUsedOnce, OneOriginPerLaunch
<1>2. BrowserInv /\ [BrowserNext]_browserVars => BrowserInv'
  <2>1. ASSUME BrowserInv, UNCHANGED browserVars
        PROVE  BrowserInv'
    BY <2>1 DEF browserVars, BrowserInv, BrowserTypeOK, LaunchSound, ActsSound, ActiveSound,
       RequestsSound, BrowserSafe, ApprovalUsedOnce, OneOriginPerLaunch, Launches
  <2> QED BY <2>1, BrowserMoves
<1>3. BrowserInv => BrowserSafe
  BY DEF BrowserInv
<1> QED BY <1>1, <1>2, <1>3, PTL DEF BrowserSpec

-----------------------------------------------------------------------------
(* The desktop cell *)

Desks == [receipt : {"none", "pinned"}, daemon : Nat, sess : Nat, id : Nat, rev : Nat]
Operations ==
    [pc : {"free", "receipt", "identity", "daemon", "session", "identify", "read", "recheck"},
     kind : {"none", "attest", "observe"}, seen : Nat, read : Nat]

DesktopTypeOK ==
    /\ desk \in Desks
    /\ \E n \in Nat : daemons \in [1..n -> BOOLEAN]
    /\ app \in Nat
    /\ op \in Operations

\* What was read was there after the identity had been checked, and before it is again: the
\* incarnations behind the pinned id only grow.
ReadSound ==
    /\ Pinned <= app
    /\ op.pc = "recheck" => Pinned <= op.read /\ op.read <= app

DesktopInv == DesktopTypeOK /\ ReadSound /\ DesktopSafe

\* The daemons are numbered without a gap.
LEMMA DaemonsCounted ==
    ASSUME DesktopTypeOK
    PROVE  /\ Cardinality(Daemons) \in Nat /\ Daemons = 1..Cardinality(Daemons)
           /\ daemons \in [Daemons -> BOOLEAN]
           /\ 0 \notin Daemons
<1>1. PICK n \in Nat : daemons \in [1..n -> BOOLEAN]
  BY DEF DesktopTypeOK
<1>2. Daemons = 1..n
  BY <1>1 DEF Daemons
<1>3. Cardinality(1..n) = n
  BY FS_Interval
<1> QED BY <1>1, <1>2, <1>3

\* Steps that touch no daemon and deliver nothing.
LEMMA DesktopQuietKeeps ==
    ASSUME DesktopInv, UNCHANGED <<daemons, views>>, desk' \in Desks, op' \in Operations,
           desk'.daemon = desk.daemon, app' \in Nat, app <= app',
           op'.pc = "recheck" => Pinned <= op'.read /\ op'.read <= app'
    PROVE  DesktopInv'
<1> USE DEF DesktopInv
<1>1. DesktopTypeOK'
  BY DEF DesktopTypeOK
<1>2. ReadSound'
  BY DEF ReadSound, DesktopTypeOK, Pinned
<1>3. DesktopSafe'
  BY DEF DesktopSafe, ReadsPinnedApp, NoOrphanDaemon, Daemons
<1> QED BY <1>1, <1>2, <1>3

\* The provider forgets its daemon when it has told it to stop.
LEMMA CloseDeskKeeps ==
    ASSUME DesktopInv, CloseDesk, UNCHANGED <<app, views>>, op' \in Operations,
           op'.pc # "recheck"
    PROVE  DesktopInv'
<1> USE DEF DesktopInv
<1>1. /\ Cardinality(Daemons) \in Nat /\ Daemons = 1..Cardinality(Daemons)
      /\ daemons \in [Daemons -> BOOLEAN]
  BY DaemonsCounted
<1>2. desk' = Blank /\ Blank \in Desks
  BY DEF CloseDesk, Blank, Desks
<1>3. Daemons' = Daemons /\ daemons' \in [Daemons -> BOOLEAN] /\ \A n \in Daemons : ~daemons'[n]
  BY <1>1 DEF CloseDesk, Daemons, DesktopSafe, NoOrphanDaemon
<1>4. DesktopTypeOK'
  BY <1>1, <1>2, <1>3 DEF DesktopTypeOK
<1>5. ReadSound'
  BY DEF ReadSound
<1>6. DesktopSafe'
  BY <1>3 DEF DesktopSafe, ReadsPinnedApp, NoOrphanDaemon
<1> QED BY <1>4, <1>5, <1>6

\* A daemon is launched only when the provider has none, so that none runs.
LEMMA DaemonKeeps ==
    ASSUME DesktopInv, NEW runs \in BOOLEAN, desk.daemon = 0,
           daemons' = [k \in Daemons \cup {Cardinality(Daemons) + 1} |->
                          IF k = Cardinality(Daemons) + 1 THEN runs ELSE daemons[k]],
           desk' \in Desks, runs => desk'.daemon = Cardinality(Daemons) + 1,
           UNCHANGED <<app, views>>, op' \in Operations, op'.pc # "recheck"
    PROVE  DesktopInv'
<1> USE DEF DesktopInv
<1>1. /\ Cardinality(Daemons) \in Nat /\ Daemons = 1..Cardinality(Daemons)
      /\ daemons \in [Daemons -> BOOLEAN] /\ 0 \notin Daemons
  BY DaemonsCounted
<1> DEFINE n == Cardinality(Daemons) + 1
<1>2. n \in Nat /\ n \notin Daemons /\ Daemons \cup {n} = 1..n
  BY <1>1
<1> HIDE DEF n
<1>3. daemons' = [k \in Daemons \cup {n} |-> IF k = n THEN runs ELSE daemons[k]]
      /\ (runs => desk'.daemon = n)
  BY DEF n
<1>4. \A k \in Daemons : ~daemons[k]
  BY <1>1 DEF DesktopSafe, NoOrphanDaemon
<1>5. Daemons' = Daemons \cup {n} /\ daemons' \in [1..n -> BOOLEAN]
  BY <1>1, <1>2, <1>3 DEF Daemons
<1>6. DesktopTypeOK'
  BY <1>2, <1>5 DEF DesktopTypeOK
<1>7. ReadSound'
  BY DEF ReadSound
<1>8. DesktopSafe'
  BY <1>2, <1>3, <1>4, <1>5 DEF DesktopSafe, ReadsPinnedApp, NoOrphanDaemon
<1> QED BY <1>6, <1>7, <1>8

LEMMA DesktopMoves ==
    ASSUME DesktopInv, DesktopNext
    PROVE  DesktopInv'
<1> USE DEF DesktopInv
<1>0. /\ desk \in Desks /\ op \in Operations /\ app \in Nat /\ NoOp \in Operations
      /\ NoOp.pc = "free" /\ Blank \in Desks
  BY DEF DesktopTypeOK, NoOp, Operations, Blank, Desks
<1>1. CASE BeginAttest
  <2>1. op' \in Operations /\ op'.pc = "receipt" /\ UNCHANGED <<desk, daemons, app, views>>
    BY <1>0, <1>1 DEF BeginAttest, NoOp, Operations
  <2> QED BY <1>0, <2>1, DesktopQuietKeeps
<1>2. CASE BeginObserve
  <2>1. op' \in Operations /\ op'.pc # "recheck" /\ UNCHANGED <<app, views>>
    BY <1>0, <1>2 DEF BeginObserve, NoOp, Operations
  <2>2. CloseDesk \/ UNCHANGED <<desk, daemons>>
    BY <1>2 DEF BeginObserve
  <2> QED BY <1>0, <2>1, <2>2, CloseDeskKeeps, DesktopQuietKeeps
<1>3. CASE AttestRuntime
  <2>1. /\ op' \in Operations /\ op'.pc = "identity" /\ UNCHANGED <<daemons, app, views>>
        /\ desk' \in Desks /\ desk'.daemon = desk.daemon
    BY <1>0, <1>3 DEF AttestRuntime, Step, Operations, Desks
  <2> QED BY <1>0, <2>1, DesktopQuietKeeps
<1>4. CASE ValidateIdentity
  <2>1. op' \in Operations /\ op'.pc = "daemon" /\ UNCHANGED <<desk, daemons, app, views>>
    BY <1>0, <1>4 DEF ValidateIdentity, Step, Operations
  <2> QED BY <1>0, <2>1, DesktopQuietKeeps
<1>5. CASE DaemonRefused
  <2>1. /\ desk' \in Desks /\ op' = NoOp /\ desk.daemon = 0 /\ UNCHANGED <<app, views>>
        /\ daemons' = [k \in Daemons \cup {Cardinality(Daemons) + 1} |->
                          IF k = Cardinality(Daemons) + 1 THEN FALSE ELSE daemons[k]]
    BY <1>0, <1>5 DEF DaemonRefused
  <2> QED BY <1>0, <2>1, DaemonKeeps
<1>6. CASE EnsureDaemon
  <2>1. op' \in Operations /\ op'.pc # "recheck" /\ UNCHANGED <<app, views>>
    BY <1>0, <1>6 DEF EnsureDaemon, Operations
  <2>2. CASE desk.daemon # 0
    BY <1>0, <1>6, <2>1, <2>2, DesktopQuietKeeps DEF EnsureDaemon
  <2>3. CASE desk.daemon = 0
    <3> DEFINE n == Cardinality(Daemons) + 1
    <3>1. desk' = [desk EXCEPT !.daemon = n]
          /\ daemons' = [k \in Daemons \cup {n} |-> IF k = n THEN TRUE ELSE daemons[k]]
      BY <1>6, <2>3 DEF EnsureDaemon
    <3>2. n \in Nat
      BY DaemonsCounted
    <3>3. desk' \in Desks /\ desk'.daemon = n
      <4> HIDE DEF n
      <4> QED BY <1>0, <3>1, <3>2 DEF Desks
    <3> QED BY <2>1, <2>3, <3>1, <3>3, DaemonKeeps
  <2> QED BY <2>2, <2>3
<1>7. CASE OpenSession
  <2>1. /\ op' \in Operations /\ op'.pc = "identify" /\ UNCHANGED <<daemons, app, views>>
        /\ desk' \in Desks /\ desk'.daemon = desk.daemon
    BY <1>0, <1>7 DEF OpenSession, Step, Operations, Desks
  <2> QED BY <1>0, <2>1, DesktopQuietKeeps
<1>8. CASE IdentifyBefore
  <2>1. op' \in Operations /\ op'.pc = "read" /\ UNCHANGED <<desk, daemons, app, views>>
    BY <1>0, <1>8 DEF IdentifyBefore, Operations
  <2> QED BY <1>0, <2>1, DesktopQuietKeeps
<1>9. CASE ReadWindow
  <2>1. op' \in Operations /\ op'.read = app /\ UNCHANGED <<desk, daemons, app, views>>
    BY <1>0, <1>9 DEF ReadWindow, Operations
  <2> QED BY <1>0, <2>1, DesktopQuietKeeps DEF ReadSound
<1>10. CASE IdentifyAfter
  <2>1. /\ op.pc = "recheck" /\ app = Pinned /\ UNCHANGED <<daemons, app>> /\ op' = NoOp
        /\ views' = views \cup {[id |-> desk.id, rev |-> desk.rev + 1, of |-> op.read]}
    BY <1>10 DEF IdentifyAfter
  <2>2. desk' \in Desks /\ desk'.daemon = desk.daemon
    BY <1>0, <1>10 DEF IdentifyAfter, Desks
  <2>3. op.read \in Nat
    BY <1>0 DEF Operations
  <2>4. op.read = Pinned
    BY <2>1, <2>3 DEF ReadSound, Pinned
  <2>5. DesktopTypeOK' /\ ReadSound'
    BY <1>0, <2>1, <2>2 DEF DesktopTypeOK, ReadSound
  <2>6. DesktopSafe'
    BY <2>1, <2>2, <2>4 DEF DesktopSafe, ReadsPinnedApp, NoOrphanDaemon, Daemons
  <2> QED BY <2>5, <2>6
<1>11. CASE OperationFails
  <2>1. op' = NoOp /\ UNCHANGED <<app, views>> /\ (CloseDesk \/ UNCHANGED <<desk, daemons>>)
    BY <1>11 DEF OperationFails, Raise
  <2> QED BY <1>0, <2>1, CloseDeskKeeps, DesktopQuietKeeps
<1>12. CASE CloseProvider
  BY <1>0, <1>12, CloseDeskKeeps DEF CloseProvider
<1>13. CASE AppRestarts
  <2>1. app' \in Nat /\ app <= app' /\ UNCHANGED <<desk, daemons, op, views>>
    BY <1>0, <1>13 DEF AppRestarts
  <2>2. op.pc = "recheck" => Pinned <= op.read /\ op.read <= app'
    BY <1>0, <2>1 DEF ReadSound, Operations, Pinned
  <2> QED BY <1>0, <2>1, <2>2, DesktopQuietKeeps
<1>14. CASE DriverChanges
  BY <1>0, <1>14, DesktopQuietKeeps DEF DriverChanges, ReadSound
<1>15. CASE DaemonDies
  <2>1. /\ Daemons = 1..Cardinality(Daemons) /\ Cardinality(Daemons) \in Nat
        /\ daemons \in [Daemons -> BOOLEAN]
    BY DaemonsCounted
  <2>2. daemons' = [daemons EXCEPT ![desk.daemon] = FALSE] /\ UNCHANGED <<desk, app, op, views>>
    BY <1>15 DEF DaemonDies
  <2>3. Daemons' = Daemons /\ daemons' \in [Daemons -> BOOLEAN] /\ \A n \in Daemons : daemons'[n] => daemons[n]
    BY <2>1, <2>2 DEF Daemons
  <2>4. DesktopTypeOK' /\ ReadSound'
    BY <2>1, <2>2, <2>3 DEF DesktopTypeOK, ReadSound
  <2>5. DesktopSafe'
    BY <2>2, <2>3 DEF DesktopSafe, ReadsPinnedApp, NoOrphanDaemon
  <2> QED BY <2>4, <2>5
<1> QED
  BY <1>1, <1>2, <1>3, <1>4, <1>5, <1>6, <1>7, <1>8, <1>9, <1>10, <1>11, <1>12, <1>13, <1>14, <1>15
     DEF DesktopNext

(***************************************************************************)
(* However often the application restarts under its process id, what is    *)
(* delivered was read from the pinned incarnation (observe), and every     *)
(* daemon that runs is the one close() will stop (attest, start, close).   *)
(***************************************************************************)
THEOREM PinnedReadsOnly == DesktopSpec => []DesktopSafe
<1>1. DesktopInit => DesktopInv
  <2> SUFFICES ASSUME DesktopInit
               PROVE  DesktopInv
    OBVIOUS
  <2>1. desk = Blank /\ daemons = <<>> /\ app = Pinned /\ op = NoOp /\ views = {}
    BY DEF DesktopInit
  <2>2. daemons \in [1..0 -> BOOLEAN] /\ Daemons = {}
    BY <2>1 DEF Daemons
  <2>3. DesktopTypeOK
    BY <2>1, <2>2 DEF DesktopTypeOK, Blank, Desks, NoOp, Operations, Pinned
  <2>4. ReadSound /\ DesktopSafe
    BY <2>1, <2>2 DEF ReadSound, DesktopSafe, ReadsPinnedApp, NoOrphanDaemon, Pinned, NoOp
  <2> QED BY <2>3, <2>4 DEF DesktopInv
<1>2. DesktopInv /\ [DesktopNext]_desktopVars => DesktopInv'
  <2>1. ASSUME DesktopInv, UNCHANGED desktopVars
        PROVE  DesktopInv'
    BY <2>1 DEF desktopVars, DesktopInv, DesktopTypeOK, ReadSound, DesktopSafe, ReadsPinnedApp,
       NoOrphanDaemon, Daemons
  <2> QED BY <2>1, DesktopMoves
<1>3. DesktopInv => DesktopSafe
  BY DEF DesktopInv
<1> QED BY <1>1, <1>2, <1>3, PTL DEF DesktopSpec

-----------------------------------------------------------------------------
(* The experts of the web process *)

ServingTypeOK ==
    /\ DOMAIN req = {"pc", "mode", "sel", "fb", "at", "got", "need", "outcome"}
    /\ req.mode \in Modes
    /\ req.sel \in Seq(Experts) /\ req.fb \in Seq(Experts)
    /\ req.pc = "open" => req.sel # <<>>
    /\ req.at \in Nat \ {0}
    /\ elig \in [Experts -> Scopes \cup {"blocked"}]

\* An expert no wider than what the route selected.
WithinRoute(e) == \E c \in Range(req.sel) : Rank[Scope(e)] <= Rank[elig[c]]

\* The experts a routed request may come to, before and after its parallel round.
RouteSound ==
    req.mode \in {"best", "compare"} =>
       /\ req.pc \in {"route", "many", "join", "try", "wait", "done"}
       /\ req.pc = "route" => prompts = {} /\ req.sel = <<>> /\ req.fb = <<>>
       /\ ~Widening => \A e \in Range(req.sel) \cup Range(req.fb) : WithinRoute(e)
       /\ req.pc = "join" => DOMAIN par \subseteq Range(req.sel)

ServingInv == ServingTypeOK /\ RouteSound /\ ScopeCeiling

\* A scope is granted only as it was declared, and within the policy.
LEMMA GrantedScope ==
    ASSUME NEW e \in Experts, NEW s \in Evaluations(e), s # "blocked"
    PROVE  s \in Scopes /\ s = Scope(e) /\ PolicyAllows(s)
<1> DEFINE granted == {a.scope : a \in {x \in Attestations(e) :
                          ValidateAttestation(e, x) /\ PolicyAllows(x.scope)}}
<1>1. s \in granted
  BY DEF Evaluations
<1>2. PICK a \in Attestations(e) : s = a.scope /\ ValidateAttestation(e, a) /\ PolicyAllows(a.scope)
  BY <1>1
<1>3. a.scope \in Scopes
  BY <1>2 DEF Attestations, Scopes, Rank
<1> QED BY <1>2, <1>3 DEF ValidateAttestation

LEMMA RanksCompare ==
    /\ "blocked" \notin Scopes
    /\ \A s \in Scopes : Rank[s] \in 0..2
BY DEF Scopes, Rank

LEMMA ArrangementsAreSeqs ==
    ASSUME NEW S, IsFiniteSet(S), NEW s \in SetToSeqs(S)
    PROVE  s \in Seq(S)
<1>1. s \in [1..Cardinality(S) -> S]
  BY DEF SetToSeqs
<1> QED BY <1>1, FS_CardinalityType

LEMMA SeqInRange ==
    ASSUME NEW S, NEW s \in Seq(S)
    PROVE  Range(s) \subseteq S /\ \A i \in 1..Len(s) : s[i] \in Range(s) /\ s[i] \in S
<1>1. DOMAIN s = 1..Len(s) /\ \A i \in 1..Len(s) : s[i] \in S
  BY LenProperties, ElementOfSeq
<1> QED BY <1>1 DEF Range

LEMMA ChainInRange ==
    ASSUME NEW S, NEW a \in Seq(S), NEW b \in Seq(S)
    PROVE  /\ a \o b \in Seq(S)
           /\ \A i \in 1..Len(a \o b) : (a \o b)[i] \in Range(a) \cup Range(b)
<1>1. /\ Len(a) \in Nat /\ Len(b) \in Nat /\ Len(a \o b) = Len(a) + Len(b) /\ a \o b \in Seq(S)
      /\ \A i \in 1..Len(a) + Len(b) : (a \o b)[i] = IF i <= Len(a) THEN a[i] ELSE b[i - Len(a)]
  BY ConcatProperties, LenProperties
<1>2. ASSUME NEW i \in 1..Len(a \o b)
      PROVE  (a \o b)[i] \in Range(a) \cup Range(b)
  <2>1. CASE i <= Len(a)
    BY <1>1, <2>1, SeqInRange
  <2>2. CASE ~(i <= Len(a))
    <3>1. i - Len(a) \in 1..Len(b)
      BY <1>1, <2>2
    <3> QED BY <1>1, <2>2, <3>1, SeqInRange
  <2> QED BY <2>1, <2>2
<1> QED BY <1>1, <1>2

\* A step that chooses no route keeps to the one there is.
LEMMA AfterRoute ==
    ASSUME ServingInv, elig' = elig, ServingTypeOK',
           req'.sel = req.sel, req'.fb = req.fb, req'.mode = req.mode,
           req.mode \in {"best", "compare"} =>
              /\ req'.pc \in {"many", "join", "try", "wait", "done"}
              /\ req'.pc = "join" => DOMAIN par' \subseteq Range(req.sel),
           \A c \in prompts' \ prompts :
              /\ PolicyAllows(c.scope)
              /\ (~Widening /\ req.mode \in {"best", "compare"}) =>
                    \E e \in Range(req.sel) : Rank[c.scope] <= Rank[elig[e]]
    PROVE  ServingInv'
<1>1. RouteSound'
  BY DEF ServingInv, RouteSound, WithinRoute
<1>2. ScopeCeiling'
  BY DEF ServingInv, ScopeCeiling
<1> QED BY <1>1, <1>2 DEF ServingInv

\* What Finish, and the counting of tries, leave of a request.
LEMMA InvokeKeeps ==
    ASSUME ServingInv, NEW e \in Experts, NEW next \in {"wait", "upstream"}, Invoke(e, next),
           req.mode \in {"best", "compare"} =>
              e \in Range(req.sel) \cup Range(req.fb) /\ next = "wait"
    PROVE  ServingInv'
<1> USE DEF ServingInv
<1>1. PICK s \in Evaluations(e) :
        IF s = "blocked" THEN Finish("scope_blocked") /\ UNCHANGED <<elig, par, prompts>>
        ELSE /\ req' = [req EXCEPT !.pc = next]
             /\ prompts' = prompts \cup {[expert |-> e, scope |-> s]}
             /\ UNCHANGED <<elig, par>>
  BY DEF Invoke
<1>2. CASE s = "blocked"
  <2>1. /\ req' = [req EXCEPT !.pc = "done", !.outcome = "scope_blocked"]
        /\ UNCHANGED <<elig, par, prompts>>
    BY <1>1, <1>2 DEF Finish
  <2>2. ServingTypeOK' /\ req'.sel = req.sel /\ req'.fb = req.fb /\ req'.mode = req.mode /\ req'.pc = "done"
    BY <2>1 DEF ServingTypeOK
  <2> QED BY <2>1, <2>2, AfterRoute
<1>3. CASE s # "blocked"
  <2>1. s \in Scopes /\ s = Scope(e) /\ PolicyAllows(s)
    BY <1>3, GrantedScope
  <2>2. /\ req' = [req EXCEPT !.pc = next] /\ UNCHANGED <<elig, par>>
        /\ prompts' = prompts \cup {[expert |-> e, scope |-> s]}
    BY <1>1, <1>3
  <2>3. ServingTypeOK' /\ req'.sel = req.sel /\ req'.fb = req.fb /\ req'.mode = req.mode /\ req'.pc = next
    BY <2>2 DEF ServingTypeOK
  <2>4. (~Widening /\ req.mode \in {"best", "compare"}) =>
           \E c \in Range(req.sel) : Rank[s] <= Rank[elig[c]]
    BY <2>1 DEF RouteSound, WithinRoute
  <2> QED BY <2>1, <2>2, <2>3, <2>4, AfterRoute
<1> QED BY <1>2, <1>3

LEMMA RouteKeeps ==
    ASSUME ServingInv, Route, IsFiniteSet(DOMAIN Declared), Fallbacks \in Seq(DOMAIN Declared)
    PROVE  ServingInv'
<1> USE DEF ServingInv
<1> DEFINE eligible == {e \in Experts : elig'[e] # "blocked"}
<1>1. /\ req.pc = "route" /\ UNCHANGED <<par, prompts>>
      /\ elig' \in [Experts -> Scopes \cup {"blocked"}]
      /\ \A e \in Experts : elig'[e] \in Evaluations(e)
  BY DEF Route
<1>2. \A e \in eligible : elig'[e] \in Scopes /\ elig'[e] = Scope(e)
  BY <1>1, GrantedScope
<1>3. CASE eligible = {}
  <2>1. Finish("scope_blocked")
    BY <1>3 DEF Route
  <2>2. ServingTypeOK' /\ req'.sel = req.sel /\ req'.fb = req.fb /\ req'.mode = req.mode /\ req'.pc = "done"
    BY <1>1, <2>1 DEF ServingTypeOK, Finish
  <2>3. req.mode \in {"best", "compare"} => prompts = {} /\ Range(req.sel) \cup Range(req.fb) = {}
    BY <1>1 DEF RouteSound, Range
  <2>4. ScopeCeiling'
    BY <1>1, <2>2, <2>3 DEF ScopeCeiling
  <2>5. RouteSound'
    BY <1>1, <2>2, <2>3 DEF RouteSound
  <2> QED BY <2>2, <2>4, <2>5
<1>4. CASE eligible # {}
  <2>1. PICK chosen \in SetToAllKPermutations(eligible) :
           \E fallbacks \in FallbackOrders(chosen) :
                req' = [req EXCEPT !.pc = IF req.mode = "compare" THEN "many"
                                          ELSE IF req.mode = "gateway" THEN "pick" ELSE "try",
                                   !.sel = chosen, !.fb = fallbacks]
    BY <1>4 DEF Route
  <2>2. PICK fallbacks \in FallbackOrders(chosen) :
                req' = [req EXCEPT !.pc = IF req.mode = "compare" THEN "many"
                                          ELSE IF req.mode = "gateway" THEN "pick" ELSE "try",
                                   !.sel = chosen, !.fb = fallbacks]
    BY <2>1
  <2>3. PICK S \in SUBSET eligible : chosen \in SetToSeqs(S)
    BY DEF SetToAllKPermutations
  <2>4. chosen \in Seq(S) /\ IsFiniteSet(Experts)
    BY <2>3, FS_Subset, ArrangementsAreSeqs DEF Experts
  <2>5. chosen \in Seq(Experts) /\ Range(chosen) \subseteq eligible
    BY <2>4, SeqInRange
  <2> DEFINE F == {e \in Range(Fallbacks) : PermitsFallback(chosen, e) /\ e \notin Range(chosen)}
  <2>6. F \subseteq Range(Fallbacks) /\ Range(Fallbacks) \subseteq Experts
    BY SeqInRange DEF Experts
  <2>7. \A e \in F : /\ elig'[e] # "blocked"
                     /\ Widening \/ \E c \in Range(chosen) : Rank[elig'[e]] <= Rank[elig'[c]]
    BY DEF PermitsFallback
  <2>8. fallbacks \in SetToSeqs(F)
    BY DEF FallbackOrders
  <2> HIDE DEF F
  <2>9. fallbacks \in Seq(F)
    BY <2>4, <2>6, <2>8, FS_Subset, ArrangementsAreSeqs
  <2>10. fallbacks \in Seq(Experts) /\ Range(fallbacks) \subseteq F
    BY <2>6, <2>9, SeqInRange
  <2>11. /\ ServingTypeOK' /\ req'.sel = chosen /\ req'.fb = fallbacks /\ req'.mode = req.mode
         /\ req'.pc \in {"many", "pick", "try"} /\ (req'.pc = "pick" => req.mode = "gateway")
    BY <1>1, <2>2, <2>5, <2>10 DEF ServingTypeOK
  <2>12. \A e \in Range(chosen) : Rank[Scope(e)] <= Rank[elig'[e]]
    BY <1>2, <2>5, RanksCompare
  <2>13. ~Widening => \A e \in Range(chosen) \cup Range(fallbacks) :
                         \E c \in Range(chosen) : Rank[Scope(e)] <= Rank[elig'[c]]
    BY <1>2, <2>6, <2>7, <2>10, <2>12
  <2>14. RouteSound'
    BY <2>11, <2>13 DEF RouteSound, WithinRoute
  <2>15. ScopeCeiling'
    BY <1>1, <2>11 DEF RouteSound, ScopeCeiling
  <2> QED BY <2>11, <2>14, <2>15
<1> QED BY <1>3, <1>4

LEMMA ServingMoves ==
    ASSUME ServingInv, ServingNext, IsFiniteSet(DOMAIN Declared), Fallbacks \in Seq(DOMAIN Declared)
    PROVE  ServingInv'
<1> USE DEF ServingInv
<1>1. CASE Route
  BY <1>1, RouteKeeps
<1>2. CASE TryNext
  <2>1. CASE req.at > Len(Order)
    <3>1. UNCHANGED <<elig, par, prompts>> /\ \E outcome : req' = [req EXCEPT !.pc = "done", !.outcome = outcome]
      BY <1>2, <2>1 DEF TryNext, Finish
    <3>2. /\ ServingTypeOK' /\ req'.sel = req.sel /\ req'.fb = req.fb /\ req'.mode = req.mode
          /\ req'.pc = "done"
      BY <3>1 DEF ServingTypeOK
    <3> QED BY <3>1, <3>2, AfterRoute
  <2>2. CASE ~(req.at > Len(Order))
    <3>1. /\ Order \in Seq(Experts) /\ Len(Order) \in Nat
          /\ \A i \in 1..Len(Order) : Order[i] \in Range(req.sel) \cup Range(req.fb)
      <4>1. CASE req.mode = "compare"
        BY <4>1, SeqInRange, LenProperties DEF Order, ServingTypeOK
      <4>2. CASE req.mode # "compare"
        <5>1. Order = req.sel \o req.fb /\ req.sel \in Seq(Experts) /\ req.fb \in Seq(Experts)
          BY <4>2 DEF Order, ServingTypeOK
        <5> QED BY <5>1, ChainInRange, LenProperties
      <4> QED BY <4>1, <4>2
    <3>2. req.at \in 1..Len(Order)
      BY <2>2, <3>1 DEF ServingTypeOK
    <3>3. Order[req.at] \in Experts
      BY <3>1, <3>2
    <3> QED BY <1>2, <2>2, <3>1, <3>2, <3>3, InvokeKeeps DEF TryNext
  <2> QED BY <2>1, <2>2
<1>3. CASE ExpertAnswers \/ ExpertFails \/ ExpertStalls
  <2>1. /\ UNCHANGED <<elig, par, prompts>> /\ ServingTypeOK'
        /\ req'.sel = req.sel /\ req'.fb = req.fb /\ req'.mode = req.mode
        /\ req'.pc \in {"try", "done"}
    <3>1. /\ UNCHANGED <<elig, par, prompts>>
          /\ \/ \E outcome : req' = [req EXCEPT !.pc = "done", !.outcome = outcome]
             \/ req' = [req EXCEPT !.got = @ + 1, !.at = @ + 1, !.pc = "try"]
             \/ req' = [req EXCEPT !.at = @ + 1, !.pc = "try"]
      BY <1>3 DEF ExpertAnswers, ExpertFails, ExpertStalls, Finish
    <3>2. PICK n : n = req.at + 1
      OBVIOUS
    <3>3. n \in Nat \ {0}
      BY <3>2 DEF ServingTypeOK
    <3>4. CASE \E outcome : req' = [req EXCEPT !.pc = "done", !.outcome = outcome]
      <4>1. PICK outcome : req' = [req EXCEPT !.pc = "done", !.outcome = outcome]
        BY <3>4
      <4> QED BY <3>1, <4>1 DEF ServingTypeOK
    <3>5. CASE req' = [req EXCEPT !.got = @ + 1, !.at = @ + 1, !.pc = "try"]
      <4>1. req' = [req EXCEPT !.got = req.got + 1, !.at = n, !.pc = "try"]
        BY <3>2, <3>5
      <4> QED BY <3>1, <3>3, <4>1 DEF ServingTypeOK
    <3>6. CASE req' = [req EXCEPT !.at = @ + 1, !.pc = "try"]
      <4>1. req' = [req EXCEPT !.at = n, !.pc = "try"]
        BY <3>2, <3>6
      <4> QED BY <3>1, <3>3, <4>1 DEF ServingTypeOK
    <3> QED BY <3>1, <3>4, <3>5, <3>6
  <2> QED BY <2>1, AfterRoute
<1>4. CASE StartMany
  <2>1. /\ UNCHANGED <<elig, prompts>> /\ ServingTypeOK'
        /\ req'.sel = req.sel /\ req'.fb = req.fb /\ req'.mode = req.mode
        /\ req'.pc = "join" /\ DOMAIN par' = Range(req.sel)
    BY <1>4 DEF StartMany, ServingTypeOK
  <2> QED BY <2>1, AfterRoute
<1>5. CASE \E e \in Experts : WorkerCalls(e)
  <2>1. PICK e \in Experts : WorkerCalls(e)
    BY <1>5
  <2>2. PICK s \in Evaluations(e) :
           /\ par' = [par EXCEPT ![e] = IF s = "blocked" THEN "blocked" ELSE "called"]
           /\ prompts' = IF s = "blocked" THEN prompts ELSE prompts \cup {[expert |-> e, scope |-> s]}
    BY <2>1 DEF WorkerCalls
  <2>3. UNCHANGED <<req, elig>> /\ req.pc = "join" /\ e \in DOMAIN par /\ DOMAIN par' = DOMAIN par
    BY <2>1, <2>2 DEF WorkerCalls
  <2>4. ASSUME s # "blocked"
        PROVE  /\ PolicyAllows(s)
               /\ (~Widening /\ req.mode \in {"best", "compare"}) =>
                     \E c \in Range(req.sel) : Rank[s] <= Rank[elig[c]]
    BY <2>3, <2>4, GrantedScope DEF RouteSound, WithinRoute
  <2>5. ServingTypeOK' /\ (req.mode \in {"best", "compare"} => DOMAIN par' \subseteq Range(req.sel))
    BY <2>3 DEF ServingTypeOK, RouteSound
  <2> QED BY <2>2, <2>3, <2>4, <2>5, AfterRoute
<1>6. CASE \E e \in Experts : WorkerEnds(e)
  <2>1. UNCHANGED <<req, elig, prompts>> /\ DOMAIN par' = DOMAIN par /\ req.pc = "join"
    BY <1>6 DEF WorkerEnds
  <2> QED BY <2>1, AfterRoute DEF ServingTypeOK, RouteSound
<1>7. CASE JoinMany
  <2>1. /\ UNCHANGED <<elig, par, prompts>> /\ ServingTypeOK'
        /\ req'.sel = req.sel /\ req'.fb = req.fb /\ req'.mode = req.mode
        /\ req'.pc \in {"try", "done"}
    <3>1. /\ UNCHANGED <<elig, par, prompts>>
          /\ \/ \E outcome : req' = [req EXCEPT !.pc = "done", !.outcome = outcome]
             \/ \E got, need : req' = [req EXCEPT !.pc = "try", !.at = 1, !.got = got, !.need = need]
      BY <1>7 DEF JoinMany, Finish
    <3>2. CASE \E outcome : req' = [req EXCEPT !.pc = "done", !.outcome = outcome]
      <4>1. PICK outcome : req' = [req EXCEPT !.pc = "done", !.outcome = outcome]
        BY <3>2
      <4> QED BY <3>1, <4>1 DEF ServingTypeOK
    <3>3. CASE \E got, need : req' = [req EXCEPT !.pc = "try", !.at = 1, !.got = got, !.need = need]
      <4>1. PICK got, need : req' = [req EXCEPT !.pc = "try", !.at = 1, !.got = got, !.need = need]
        BY <3>3
      <4>2. 1 \in Nat \ {0}
        OBVIOUS
      <4> QED BY <3>1, <4>1, <4>2 DEF ServingTypeOK
    <3> QED BY <3>1, <3>2, <3>3
  <2> QED BY <2>1, AfterRoute
<1>8. CASE Compact
  <2>1. PICK e \in Experts : Invoke(e, "upstream") /\ req.pc = "compact"
    BY <1>8 DEF Compact
  <2> QED BY <2>1, InvokeKeeps DEF RouteSound
<1>9. CASE GatewayRefuses \/ GatewayAuthorizes \/ GatewayBadRequest \/ Proxied
  <2>1. /\ UNCHANGED <<elig, par, prompts>> /\ ServingTypeOK'
        /\ req'.sel = req.sel /\ req'.fb = req.fb /\ req'.mode = req.mode
        /\ req.pc \in {"authorize", "body", "upstream"}
    BY ZenonT(60), <1>9 DEF GatewayRefuses, GatewayAuthorizes, GatewayBadRequest, Proxied, Finish, ServingTypeOK
  <2> QED BY <2>1, AfterRoute DEF RouteSound
<1>10. CASE GatewayAccepts \/ PrepareChatCompletion
  <2>1. /\ UNCHANGED <<elig, par, prompts>> /\ ServingTypeOK'
        /\ req'.mode = req.mode /\ req.pc \in {"body", "pick"}
    <3>1. /\ UNCHANGED <<elig, par, prompts>> /\ req.pc \in {"body", "pick"}
          /\ \/ \E outcome : req' = [req EXCEPT !.pc = "done", !.outcome = outcome]
             \/ req' = [req EXCEPT !.pc = "route"]
             \/ \E pc \in {"pick", "open"}, e \in Experts : req' = [req EXCEPT !.pc = pc, !.sel = <<e>>]
      <4>1. CASE GatewayAccepts
        BY <4>1 DEF GatewayAccepts
      <4>2. CASE PrepareChatCompletion
        <5>1. \A i \in DOMAIN req.sel : req.sel[i] \in Experts
          BY LenProperties, ElementOfSeq DEF ServingTypeOK
        <5> QED BY <4>2, <5>1 DEF PrepareChatCompletion, Finish
      <4> QED BY <1>10, <4>1, <4>2
    <3>2. CASE \E outcome : req' = [req EXCEPT !.pc = "done", !.outcome = outcome]
      BY <3>1, <3>2 DEF ServingTypeOK
    <3>3. CASE req' = [req EXCEPT !.pc = "route"]
      BY <3>1, <3>3 DEF ServingTypeOK
    <3>4. CASE \E pc \in {"pick", "open"}, e \in Experts : req' = [req EXCEPT !.pc = pc, !.sel = <<e>>]
      <4>1. PICK pc \in {"pick", "open"}, e \in Experts : req' = [req EXCEPT !.pc = pc, !.sel = <<e>>]
        BY <3>4
      <4>2. <<e>> \in Seq(Experts) /\ <<e>> # <<>>
        OBVIOUS
      <4> QED BY <3>1, <4>1, <4>2 DEF ServingTypeOK
    <3> QED BY <3>1, <3>2, <3>3, <3>4
  <2>2. req.mode \notin {"best", "compare"}
    BY <2>1 DEF RouteSound
  <2> QED BY <2>1, <2>2 DEF RouteSound, ScopeCeiling
<1>11. CASE OpenChatCompletion
  <2>1. Invoke(Head(req.sel), "upstream") /\ req.pc = "open"
    BY <1>11 DEF OpenChatCompletion
  <2>2. Head(req.sel) \in Experts
    BY <2>1 DEF ServingTypeOK
  <2> QED BY <2>1, <2>2, InvokeKeeps DEF RouteSound
<1> QED
  BY <1>1, <1>2, <1>3, <1>4, <1>5, <1>6, <1>7, <1>8, <1>9, <1>10, <1>11 DEF ServingNext

(***************************************************************************)
(* Whatever evidence the guard is given between the route and the calls,   *)
(* in parallel rounds and fallbacks too, a prompt goes only where the      *)
(* policy allows and no further than the route's widest scope              *)
(* (ExecutionScopeGuard, RuleRouter.route, LocalMoE).                      *)
(***************************************************************************)
THEOREM PromptsStayInScope ==
    ASSUME IsFiniteSet(DOMAIN Declared), Fallbacks \in Seq(DOMAIN Declared)
    PROVE  ServingSpec => []ScopeCeiling
<1>1. ServingInit => ServingInv
  <2> SUFFICES ASSUME ServingInit
               PROVE  ServingInv
    OBVIOUS
  <2>1. PICK m \in Modes : req =
           [pc |-> CASE m = "gateway" -> "authorize" [] m = "compact" -> "compact" [] OTHER -> "route",
            mode |-> m, sel |-> <<>>, fb |-> <<>>, at |-> 1, got |-> 0, need |-> 1, outcome |-> "none"]
    BY DEF ServingInit
  <2>2. prompts = {} /\ elig = [e \in Experts |-> "blocked"]
    BY DEF ServingInit
  <2>3. ServingTypeOK
    BY <2>1, <2>2 DEF ServingTypeOK
  <2>4. RouteSound
    BY <2>1, <2>2 DEF RouteSound, Modes, Range
  <2> QED BY <2>2, <2>3, <2>4 DEF ServingInv, ScopeCeiling
<1>2. ServingInv /\ [ServingNext]_servingVars => ServingInv'
  <2>1. ASSUME ServingInv, UNCHANGED servingVars
        PROVE  ServingInv'
    BY <2>1 DEF servingVars, ServingInv, ServingTypeOK, RouteSound, WithinRoute, ScopeCeiling
  <2> QED BY <2>1, ServingMoves
<1>3. ServingInv => ScopeCeiling
  BY DEF ServingInv
<1> QED BY <1>1, <1>2, <1>3, PTL DEF ServingSpec

-----------------------------------------------------------------------------
(* The local cascade *)

AllReasons == {"attempt_port_error", "attempt_abstained", "content", "token_limit"}
ReceiptSet ==
    [tier : Range(Tiers), status : {"error", "abstained", "completed"}, passed : BOOLEAN,
     reasons : SUBSET AllReasons, digest : BOOLEAN, tokens : {Nil, "some", "over"}]
PlanSet == [task : Tasks, tiers : Seq(Range(Tiers)), profile : Profiles, steps : Steps]

\* A plan has a run of the configured tiers.
PlanSound(p) ==
    /\ p \in PlanSet /\ p.tiers # <<>>
    /\ \E off \in Nat : \A i \in DOMAIN p.tiers :
          i + off \in DOMAIN Tiers /\ p.tiers[i] = Tiers[i + off]

\* A tier's receipt is what its result makes it, and its own contract accepts it.
TriedSound(tried, p) ==
    /\ tried \in Seq(ReceiptSet) /\ Len(tried) <= Len(p.tiers)
    /\ \A i \in 1..Len(tried) :
          /\ tried[i].tier = p.tiers[i] /\ AttemptValid(tried[i])
          /\ tried[i].passed => tried[i].reasons = {} /\ tried[i].status = "completed"
    /\ \A i \in 1..Len(tried) : tried[i].passed => i = Len(tried)

RunSound(k) ==
    /\ DOMAIN k = {"pc", "run", "task", "plan", "tried"}
    /\ PlanSound(k.plan) /\ k.plan.task = k.task /\ TriedSound(k.tried, k.plan)
    /\ \/ /\ k.pc = "run" /\ Len(k.tried) < Len(k.plan.tiers)
          /\ \A i \in 1..Len(k.tried) : ~k.tried[i].passed
       \/ /\ k.pc = "receipt" /\ Len(k.tried) > 0
          /\ k.tried[Len(k.tried)].passed \/ Len(k.tried) = Len(k.plan.tiers)

CascadeInv ==
    /\ plans \in Seq(PlanSet) /\ \A i \in 1..Len(plans) : PlanSound(plans[i])
    /\ DOMAIN call = Callers /\ \A c \in Callers : call[c] = Idle \/ RunSound(call[c])
    /\ CascadeDelivery

CascadeHypotheses ==
    /\ \E S : Tiers \in Seq(S)
    /\ Tiers # <<>>
    /\ Steps \subseteq Nat /\ MaxPlans \in Nat /\ MaxTokens \in Int

LEMMA TiersInOrder ==
    ASSUME CascadeHypotheses
    PROVE  /\ Tiers \in Seq(Range(Tiers)) /\ Len(Tiers) \in Nat \ {0}
           /\ DOMAIN Tiers = 1..Len(Tiers)
           /\ \A i \in 1..Len(Tiers) : Tiers[i] \in Range(Tiers)
<1>1. PICK S : Tiers \in Seq(S)
  BY DEF CascadeHypotheses
<1>2. Len(Tiers) \in Nat /\ DOMAIN Tiers = 1..Len(Tiers) /\ Tiers \in Seq(Range(Tiers))
  BY <1>1, LenProperties, SeqOfRange
<1>3. Len(Tiers) # 0
  BY <1>1, EmptySeq DEF CascadeHypotheses
<1> QED BY <1>2, <1>3, ElementOfSeq

\* Part of the configured tiers, from one place to another.
LEMMA TierRun ==
    ASSUME CascadeHypotheses, NEW m \in 1..Len(Tiers), NEW n \in 0..Len(Tiers)
    PROVE  LET t == SubSeq(Tiers, m, n)
           IN  /\ t \in Seq(Range(Tiers))
               /\ \E off \in Nat : \A i \in DOMAIN t : i + off \in DOMAIN Tiers /\ t[i] = Tiers[i + off]
<1> DEFINE t == SubSeq(Tiers, m, n)
<1>1. /\ Len(Tiers) \in Nat /\ DOMAIN Tiers = 1..Len(Tiers)
      /\ \A i \in 1..Len(Tiers) : Tiers[i] \in Range(Tiers)
  BY TiersInOrder
<1>2. m \in Int /\ n \in Int /\ \A i \in m..n : Tiers[i] \in Range(Tiers)
  BY <1>1
<1>3. /\ t \in Seq(Range(Tiers)) /\ Len(t) = IF m <= n THEN n - m + 1 ELSE 0
      /\ \A i \in 1..n - m + 1 : t[i] = Tiers[m + i - 1]
  BY <1>2, SubSeqProperties
<1> HIDE DEF t
<1>4. DOMAIN t = 1..Len(t)
  BY <1>3, LenProperties
<1>5. m - 1 \in Nat /\ \A i \in DOMAIN t : i + (m - 1) \in DOMAIN Tiers /\ t[i] = Tiers[i + (m - 1)]
  <2> SUFFICES ASSUME NEW i \in DOMAIN t
               PROVE  i + (m - 1) \in DOMAIN Tiers /\ t[i] = Tiers[i + (m - 1)]
    BY <1>1
  <2>1. i \in 1..n - m + 1
    BY <1>1, <1>3, <1>4
  <2>2. m + i - 1 = i + (m - 1) /\ i + (m - 1) \in 1..Len(Tiers)
    BY <1>1, <2>1
  <2> QED BY <1>1, <1>3, <2>1, <2>2
<1> QED BY <1>3, <1>5 DEF t

LEMMA PlansAreSound ==
    ASSUME CascadeHypotheses, NEW t \in Tasks, NEW profile \in Profiles, NEW steps \in Steps,
           ConfigValid(Selected(profile, steps))
    PROVE  PlanSound(PlanOf(t, profile, steps))
<1> DEFINE s == Selected(profile, steps)
<1>1. Len(Tiers) \in Nat \ {0} /\ steps \in Nat
  BY TiersInOrder DEF CascadeHypotheses
<1>2. \E m \in 1..Len(Tiers), n \in 0..Len(Tiers) : s = SubSeq(Tiers, m, n)
  <2>1. CASE profile = "economy"
    <3>1. s = SubSeq(Tiers, 1, 1) /\ 1 \in 1..Len(Tiers) /\ 1 \in 0..Len(Tiers)
      BY <1>1, <2>1 DEF Selected
    <3> HIDE DEF s
    <3> QED BY <3>1
  <2>2. CASE profile = "balanced"
    <3> DEFINE n == IF steps < Len(Tiers) THEN steps ELSE Len(Tiers)
    <3>1. s = SubSeq(Tiers, 1, n)
      BY <2>2 DEF Selected
    <3>2. n \in 0..Len(Tiers) /\ 1 \in 1..Len(Tiers)
      BY <1>1
    <3> HIDE DEF s, n
    <3> QED BY <3>1, <3>2
  <2>3. CASE profile = "quality"
    <3>1. s = SubSeq(Tiers, Len(Tiers), Len(Tiers)) /\ Len(Tiers) \in 1..Len(Tiers) /\ Len(Tiers) \in 0..Len(Tiers)
      BY <1>1, <2>3 DEF Selected
    <3> HIDE DEF s
    <3> QED BY <3>1
  <2> QED BY <2>1, <2>2, <2>3 DEF Profiles
<1>3. /\ s \in Seq(Range(Tiers))
      /\ \E off \in Nat : \A i \in DOMAIN s : i + off \in DOMAIN Tiers /\ s[i] = Tiers[i + off]
  BY <1>2, TierRun
<1>4. s # <<>>
  BY DEF ConfigValid
<1> HIDE DEF s
<1>5. PlanOf(t, profile, steps) = [task |-> t, tiers |-> s, profile |-> profile, steps |-> steps]
  BY DEF PlanOf, s
<1> QED BY <1>3, <1>4, <1>5 DEF PlanSound, PlanSet

\* Entering a plan, and dropping the oldest, keeps only sound ones.
LEMMA StoredPlans ==
    ASSUME NEW S, NEW s \in Seq(S), NEW x \in S, NEW k \in Nat
    PROVE  Newest(Touched(s, x), k) \in Seq(S)
<1> DEFINE i == CHOOSE j \in DOMAIN s : s[j] = x
           r == IF x \in Range(s) THEN RemoveAt(s, i) ELSE s
           u == Append(r, x)
<1>1. Len(s) \in Nat /\ DOMAIN s = 1..Len(s) /\ \A j \in 1..Len(s) : s[j] \in S
  BY LenProperties, ElementOfSeq
<1>2. r \in Seq(S)
  <2>1. CASE x \in Range(s)
    <3>1. i \in 1..Len(s)
      BY <1>1, <2>1 DEF Range
    <3> HIDE DEF i
    <3>2. /\ i - 1 \in Int /\ i + 1 \in Int
          /\ \A j \in 1..i - 1 : s[j] \in S
          /\ \A j \in i + 1..Len(s) : s[j] \in S
      BY <1>1, <3>1
    <3>3. SubSeq(s, 1, i - 1) \in Seq(S) /\ SubSeq(s, i + 1, Len(s)) \in Seq(S)
      BY <1>1, <3>2, SubSeqProperties
    <3> QED BY <2>1, <3>3, ConcatProperties DEF RemoveAt
  <2> QED BY <2>1
<1> HIDE DEF r
<1>3. u \in Seq(S)
  BY <1>2, AppendProperties
<1> HIDE DEF u
<1>4. Newest(u, k) \in Seq(S)
  <2>1. Len(u) \in Nat /\ \A j \in 1..Len(u) : u[j] \in S
    BY <1>3, LenProperties, ElementOfSeq
  <2>2. CASE Len(u) > k
    <3>1. Len(u) - k + 1 \in Int /\ \A j \in Len(u) - k + 1..Len(u) : u[j] \in S
      BY <2>1, <2>2
    <3> QED BY <2>1, <2>2, <3>1, SubSeqProperties DEF Newest
  <2> QED BY <1>3, <2>2 DEF Newest
<1> QED BY <1>4 DEF Touched, u, r

LEMMA AttemptsAreValid ==
    ASSUME NEW tier \in Range(Tiers), NEW r \in Results
    PROVE  LET a == AttemptReceipt(tier, r)
           IN  /\ a \in ReceiptSet /\ a.tier = tier /\ AttemptValid(a)
               /\ a.passed => a.reasons = {} /\ a.status = "completed"
<1> DEFINE a == AttemptReceipt(tier, r)
           R == Reasons(r)
<1>1. /\ r.status \in {"error", "abstained", "completed"} /\ r.good \in BOOLEAN
      /\ r.tokens \in {Nil, "some", "over"}
      /\ r.status = "error" => r.tokens = Nil
      /\ r.status # "completed" => r.good = FALSE
  BY DEF Results, Errors, Answers, ResultValid
<1>2. /\ R \subseteq AllReasons
      /\ r.status = "error" => R = {"attempt_port_error"}
      /\ r.status = "abstained" => "attempt_abstained" \in R /\ R \subseteq {"attempt_abstained", "token_limit"}
      /\ r.status = "completed" => R \subseteq {"content", "token_limit"}
  BY <1>1 DEF Reasons, AllReasons, Nil
<1> HIDE DEF R
<1>3. a = [tier |-> tier, status |-> r.status, passed |-> R = {}, reasons |-> R,
           digest |-> r.status = "completed", tokens |-> r.tokens]
  BY DEF AttemptReceipt, R
<1> HIDE DEF a
<1>4. /\ a.tier = tier /\ a.status = r.status /\ a.passed = (R = {}) /\ a.reasons = R
      /\ a.digest = (r.status = "completed") /\ a.tokens = r.tokens
  BY <1>3
<1>5. a \in ReceiptSet
  BY <1>1, <1>2, <1>3 DEF ReceiptSet
<1>6. Cardinality({"attempt_port_error"}) = 1
  BY FS_Singleton
<1>7. AttemptValid(a)
  BY <1>1, <1>2, <1>4, <1>6 DEF AttemptValid
<1> QED BY <1>1, <1>2, <1>4, <1>5, <1>7 DEF a

LEMMA TotalIsNatural ==
    ASSUME NEW S, NEW as \in Seq(S)
    PROVE  TokenTotal(as) \in Nat
<1> DEFINE A == {i \in DOMAIN as : as[i].tokens = "some"}
           B == {i \in DOMAIN as : as[i].tokens = "over"}
<1>1. IsFiniteSet(DOMAIN as)
  <2> HIDE DEF A, B
  <2>1. DOMAIN as = 1..Len(as) /\ Len(as) \in Nat
    BY LenProperties
  <2>2. 1 \in Int /\ Len(as) \in Int
    BY <2>1
  <2> QED BY <2>1, <2>2, FS_Interval
<1>2. IsFiniteSet(A) /\ IsFiniteSet(B)
  BY <1>1, FS_Subset
<1>3. Cardinality(A) \in Nat /\ Cardinality(B) \in Nat
  BY <1>2, FS_CardinalityType
<1> HIDE DEF A, B
<1>4. Cardinality(A) + 2 * Cardinality(B) \in Nat
  BY <1>3
<1> QED BY <1>4 DEF TokenTotal, A, B

\* The contract of a receipt refuses a run for its token total only.
LEMMA ContractAccepts ==
    ASSUME CascadeHypotheses, NEW p, PlanSound(p), NEW tried, TriedSound(tried, p), Len(tried) > 0,
           TokenTotal(tried) <= MaxTokens
    PROVE  ReceiptValid(tried, Status(tried))
<1>1. /\ tried \in Seq(ReceiptSet) /\ Len(tried) \in Nat /\ DOMAIN tried = 1..Len(tried)
      /\ Len(tried) <= Len(p.tiers) /\ Len(p.tiers) \in Nat /\ DOMAIN p.tiers = 1..Len(p.tiers)
  BY LenProperties DEF TriedSound, PlanSound, PlanSet
<1>2. tried # <<>> /\ Len(tried) \in DOMAIN tried
  BY <1>1, EmptySeq
<1>3. \A i \in DOMAIN tried : AttemptValid(tried[i]) /\ (tried[i].passed => i = Len(tried))
  BY <1>1 DEF TriedSound
<1>4. \A i, j \in DOMAIN tried : i < j =>
         \E m, n \in DOMAIN Tiers : m < n /\ Tiers[m] = tried[i].tier /\ Tiers[n] = tried[j].tier
  <2>1. PICK off \in Nat : \A i \in DOMAIN p.tiers :
                              i + off \in DOMAIN Tiers /\ p.tiers[i] = Tiers[i + off]
    BY DEF PlanSound
  <2> SUFFICES ASSUME NEW i \in DOMAIN tried, NEW j \in DOMAIN tried, i < j
               PROVE  \E m, n \in DOMAIN Tiers :
                         m < n /\ Tiers[m] = tried[i].tier /\ Tiers[n] = tried[j].tier
    OBVIOUS
  <2>2. /\ i + off \in DOMAIN Tiers /\ Tiers[i + off] = tried[i].tier
        /\ j + off \in DOMAIN Tiers /\ Tiers[j + off] = tried[j].tier
    <3>1. i \in DOMAIN p.tiers /\ j \in DOMAIN p.tiers
      BY <1>1
    <3>2. tried[i].tier = p.tiers[i] /\ tried[j].tier = p.tiers[j]
      BY <1>1 DEF TriedSound
    <3> QED BY <2>1, <3>1, <3>2
  <2>3. i + off < j + off
    BY <1>1
  <2> QED BY <2>2, <2>3
<1>5. Last(tried) = tried[Len(tried)] /\ (Last(tried).passed => Last(tried).status = "completed")
  BY <1>1, <1>2 DEF Last, TriedSound
<1>6. Status(tried) = "passed" <=> Last(tried).passed
  BY DEF Status
<1>7. Status(tried) = "all_abstained" <=> \A i \in DOMAIN tried : tried[i].status = "abstained"
  BY <1>2, <1>5 DEF Status
<1> QED BY <1>2, <1>3, <1>4, <1>6, <1>7 DEF ReceiptValid

LEMMA AttemptKeeps ==
    ASSUME NEW k, RunSound(k), k.pc = "run", NEW a,
           a \in ReceiptSet /\ a.tier = k.plan.tiers[Len(k.tried) + 1] /\ AttemptValid(a),
           a.passed => a.reasons = {} /\ a.status = "completed"
    PROVE  RunSound([k EXCEPT !.tried = Append(@, a),
                       !.pc = IF a.passed \/ Len(k.tried) + 1 = Len(k.plan.tiers) THEN "receipt" ELSE "run"])
<1> DEFINE n == Len(k.tried)
           more == Append(k.tried, a)
           N == Len(k.plan.tiers)
<1>1. /\ k.tried \in Seq(ReceiptSet) /\ n \in Nat /\ N \in Nat /\ n < N
      /\ \A i \in 1..n : ~k.tried[i].passed
  BY LenProperties DEF RunSound, TriedSound, PlanSound, PlanSet
<1>2. /\ more \in Seq(ReceiptSet) /\ Len(more) = n + 1 /\ more[n + 1] = a
      /\ \A i \in 1..n : more[i] = k.tried[i]
  BY <1>1, AppendProperties
<1>3. \A i \in 1..n : /\ k.tried[i].tier = k.plan.tiers[i] /\ AttemptValid(k.tried[i])
  BY DEF RunSound, TriedSound
<1>4. PICK l : l = [k EXCEPT !.tried = more, !.pc = IF a.passed \/ n + 1 = N THEN "receipt" ELSE "run"]
  OBVIOUS
<1> HIDE DEF n, more, N
<1>5. /\ DOMAIN l = DOMAIN k /\ l.tried = more /\ l.plan = k.plan /\ l.task = k.task
      /\ l.pc = IF a.passed \/ n + 1 = N THEN "receipt" ELSE "run"
  BY <1>4 DEF RunSound
<1>6. \A i \in 1..n + 1 : i = n + 1 \/ i \in 1..n
  BY <1>1
<1>7. TriedSound(more, k.plan)
  <2>1. Len(more) <= N
    BY <1>1, <1>2
  <2>2. \A i \in 1..Len(more) :
          /\ more[i].tier = k.plan.tiers[i] /\ AttemptValid(more[i])
          /\ more[i].passed => more[i].reasons = {} /\ more[i].status = "completed"
          /\ more[i].passed => i = Len(more)
    BY <1>1, <1>2, <1>3, <1>6 DEF n
  <2> QED BY <1>2, <2>1, <2>2 DEF TriedSound, N
<1>8. RunSound(l)
  <2>1. CASE a.passed \/ n + 1 = N
    <3>1. l.pc = "receipt" /\ Len(more) > 0 /\ (more[Len(more)].passed \/ Len(more) = N)
      BY <1>1, <1>2, <1>5, <2>1
    <3> QED BY <1>5, <1>7, <3>1 DEF RunSound, N
  <2>2. CASE ~(a.passed \/ n + 1 = N)
    <3>1. l.pc = "run" /\ Len(more) < N /\ \A i \in 1..Len(more) : ~more[i].passed
      BY <1>1, <1>2, <1>5, <1>6, <2>2
    <3> QED BY <1>5, <1>7, <3>1 DEF RunSound, N
  <2> QED BY <2>1, <2>2
<1> QED BY <1>4, <1>8 DEF n, more, N

LEMMA CascadeMoves ==
    ASSUME CascadeInv, CascadeNext, CascadeHypotheses
    PROVE  CascadeInv'
<1> USE DEF CascadeInv
<1>0. \A p \in Range(plans) : PlanSound(p)
  BY LenProperties DEF Range
<1>1. CASE Plan
  <2>1. PICK t \in Tasks, profile \in Profiles, steps \in Steps :
           ConfigValid(Selected(profile, steps)) /\ StorePlan(PlanOf(t, profile, steps))
    BY <1>1 DEF Plan
  <2> DEFINE G == {q \in PlanSet : PlanSound(q)}
  <2>2. PlanOf(t, profile, steps) \in G
    BY <2>1, PlansAreSound DEF PlanSound
  <2>3. plans \in Seq(G)
    <3>1. plans \in [1..Len(plans) -> G] /\ Len(plans) \in Nat
      BY LenProperties, ElementOfSeq
    <3> QED BY <3>1
  <2>4. plans' = Newest(Touched(plans, PlanOf(t, profile, steps)), MaxPlans) /\ UNCHANGED <<call, delivered>>
    BY <1>1, <2>1 DEF StorePlan, Plan
  <2>5. plans' \in Seq(G)
    BY <2>2, <2>3, <2>4, StoredPlans DEF CascadeHypotheses
  <2>6. plans' \in Seq(PlanSet) /\ \A i \in 1..Len(plans') : PlanSound(plans'[i])
    <3>1. \A i \in 1..Len(plans') : plans'[i] \in G
      BY <2>5, ElementOfSeq
    <3>2. plans' \in [1..Len(plans') -> PlanSet] /\ Len(plans') \in Nat
      BY <2>5, LenProperties
    <3> QED BY <3>1, <3>2
  <2> QED BY <2>4, <2>6 DEF CascadeDelivery
<1>2. CASE \E c \in Callers : RunRefused(c)
  BY <1>2 DEF RunRefused, CascadeDelivery
<1>3. CASE \E c \in Callers : RunBegin(c)
  <2>1. PICK c \in Callers : RunBegin(c)
    BY <1>3
  <2>2. PICK p \in Range(plans), t \in Tasks :
          /\ Bound(p, t)
          /\ call' = [call EXCEPT ![c] = [pc |-> "run", run |-> calls + 1, task |-> t, plan |-> p, tried |-> <<>>]]
    BY <2>1 DEF RunBegin
  <2>3. PICK k : k = [pc |-> "run", run |-> calls + 1, task |-> t, plan |-> p, tried |-> <<>>]
    OBVIOUS
  <2>4. RunSound(k)
    <3>1. PlanSound(p) /\ p.task = t
      BY <1>0, <2>2 DEF Bound
    <3>2. Len(p.tiers) \in Nat /\ Len(p.tiers) # 0
      BY <3>1, LenProperties, EmptySeq DEF PlanSound, PlanSet
    <3>3. k.tried \in Seq(ReceiptSet) /\ Len(k.tried) = 0 /\ 1..Len(k.tried) = {}
      BY <2>3, EmptySeq
    <3>4. TriedSound(k.tried, p)
      BY <3>2, <3>3 DEF TriedSound
    <3>5. k.plan = p /\ k.task = t /\ k.pc = "run" /\ DOMAIN k = {"pc", "run", "task", "plan", "tried"}
      BY <2>3
    <3> QED BY <3>1, <3>2, <3>3, <3>4, <3>5 DEF RunSound
  <2>5. DOMAIN call' = Callers /\ call'[c] = k /\ \A d \in Callers : d # c => call'[d] = call[d]
    BY <2>2, <2>3
  <2>6. UNCHANGED <<plans, delivered>>
    BY <2>1 DEF RunBegin
  <2> QED BY <2>4, <2>5, <2>6 DEF CascadeDelivery
<1>4. CASE \E c \in Callers : Attempt(c)
  <2>1. PICK c \in Callers : Attempt(c)
    BY <1>4
  <2> DEFINE k == call[c]
  <2>2. k.pc = "run" /\ UNCHANGED <<plans, delivered>>
    BY <2>1 DEF Attempt
  <2>3. RunSound(k)
    BY <2>2 DEF Idle
  <2>4. PICK r \in Results :
          call' = [call EXCEPT
            ![c].tried = Append(@, AttemptReceipt(k.plan.tiers[Len(k.tried) + 1], r)),
            ![c].pc = IF AttemptReceipt(k.plan.tiers[Len(k.tried) + 1], r).passed
                         \/ Len(k.tried) + 1 = Len(k.plan.tiers) THEN "receipt" ELSE "run"]
    BY <2>1 DEF Attempt
  <2>5. PICK a : a = AttemptReceipt(k.plan.tiers[Len(k.tried) + 1], r)
    OBVIOUS
  <2>6. Len(k.tried) + 1 \in 1..Len(k.plan.tiers) /\ k.plan.tiers \in Seq(Range(Tiers))
    BY <2>2, <2>3, LenProperties DEF RunSound, TriedSound, PlanSound, PlanSet
  <2>7. k.plan.tiers[Len(k.tried) + 1] \in Range(Tiers)
    BY <2>6, ElementOfSeq
  <2>8. /\ a \in ReceiptSet /\ a.tier = k.plan.tiers[Len(k.tried) + 1] /\ AttemptValid(a)
        /\ a.passed => a.reasons = {} /\ a.status = "completed"
    BY <2>5, <2>7, AttemptsAreValid
  <2>9. PICK l : l = [k EXCEPT !.tried = Append(@, a),
                         !.pc = IF a.passed \/ Len(k.tried) + 1 = Len(k.plan.tiers) THEN "receipt" ELSE "run"]
    OBVIOUS
  <2>10. call' = [call EXCEPT ![c].tried = Append(@, a),
            ![c].pc = IF a.passed \/ Len(k.tried) + 1 = Len(k.plan.tiers) THEN "receipt" ELSE "run"]
    BY <2>4, <2>5
  <2>11. RunSound(l)
    <3> HIDE DEF k
    <3> QED BY <2>2, <2>3, <2>8, <2>9, AttemptKeeps
  <2>12. DOMAIN call' = Callers /\ call'[c] = l /\ \A d \in Callers : d # c => call'[d] = call[d]
    BY <2>9, <2>10
  <2> QED BY <2>2, <2>11, <2>12 DEF CascadeDelivery
<1>5. CASE \E c \in Callers : RunEnd(c)
  <2>1. PICK c \in Callers : RunEnd(c)
    BY <1>5
  <2> DEFINE k == call[c]
  <2>2. /\ k.pc = "receipt" /\ call' = [call EXCEPT ![c] = Idle] /\ plans' = plans
        /\ delivered' = {[task |-> k.task, plan |-> k.plan, tried |-> k.tried,
                          ok |-> ReceiptValid(k.tried, Status(k.tried))]}
    BY <2>1 DEF RunEnd
  <2>3. RunSound(k)
    BY <2>2 DEF Idle
  <2> HIDE DEF k
  <2>4. /\ PlanSound(k.plan) /\ k.plan.task = k.task /\ TriedSound(k.tried, k.plan) /\ Len(k.tried) > 0
        /\ k.tried[Len(k.tried)].passed \/ Len(k.tried) = Len(k.plan.tiers)
    BY <2>2, <2>3 DEF RunSound
  <2>5. k.tried \in Seq(ReceiptSet) /\ DOMAIN k.tried = 1..Len(k.tried)
    BY <2>4, LenProperties DEF TriedSound
  <2>6. ReceiptValid(k.tried, Status(k.tried)) \/ TokenTotal(k.tried) > MaxTokens
    BY <2>4, <2>5, ContractAccepts, TotalIsNatural DEF CascadeHypotheses
  <2>7. PICK d : d = [task |-> k.task, plan |-> k.plan, tried |-> k.tried,
                      ok |-> ReceiptValid(k.tried, Status(k.tried))]
    OBVIOUS
  <2>8. /\ d.task = k.task /\ d.plan = k.plan /\ d.tried = k.tried
        /\ d.ok = ReceiptValid(k.tried, Status(k.tried)) /\ delivered' = {d}
    BY <2>2, <2>7
  <2>9. CascadeDelivery'
    <3>1. \A i \in DOMAIN d.tried :
             /\ d.tried[i].tier = d.plan.tiers[i]
             /\ d.tried[i].passed => i = Len(d.tried) /\ d.tried[i].reasons = {}
      BY <2>4, <2>5, <2>8 DEF TriedSound
    <3>2. d.plan.task = d.task /\ (Last(d.tried).passed \/ Len(d.tried) = Len(d.plan.tiers))
      BY <2>4, <2>8 DEF Last
    <3>3. d.ok \/ TokenTotal(d.tried) > MaxTokens
      BY <2>6, <2>8
    <3> QED BY <2>8, <3>1, <3>2, <3>3 DEF CascadeDelivery
  <2>10. DOMAIN call' = Callers /\ \A e \in Callers : call'[e] = Idle \/ call'[e] = call[e]
    BY <2>2
  <2> QED BY <2>2, <2>9, <2>10
<1> QED BY <1>1, <1>2, <1>3, <1>4, <1>5 DEF CascadeNext

(***************************************************************************)
(* However plans are made, replaced and dropped between the confirmation   *)
(* and the run, what a caller gets is for its own plan and task, tried in  *)
(* cost order up to the first tier the verifier accepts, and the receipt   *)
(* of a run is refused for its token total only (LocalCascadeCoreAdapter). *)
(***************************************************************************)
THEOREM DeliveredAsPlanned ==
    ASSUME CascadeHypotheses
    PROVE  CascadeSpec => []CascadeDelivery
<1>1. CascadeInit => CascadeInv
  <2> SUFFICES ASSUME CascadeInit
               PROVE  CascadeInv
    OBVIOUS
  <2>1. plans = <<>> /\ call = [c \in Callers |-> Idle] /\ delivered = {}
    BY DEF CascadeInit
  <2>2. plans \in Seq(PlanSet) /\ 1..Len(plans) = {}
    BY <2>1, EmptySeq
  <2> QED BY <2>1, <2>2 DEF CascadeInv, CascadeDelivery
<1>2. CascadeInv /\ [CascadeNext]_cascadeVars => CascadeInv'
  <2>1. ASSUME CascadeInv, UNCHANGED cascadeVars
        PROVE  CascadeInv'
    BY <2>1 DEF cascadeVars, CascadeInv, CascadeDelivery
  <2> QED BY <2>1, CascadeMoves
<1>3. CascadeInv => CascadeDelivery
  BY DEF CascadeInv
<1> QED BY <1>1, <1>2, <1>3, PTL DEF CascadeSpec

-----------------------------------------------------------------------------
(* Chats on disk *)

ChatOps == {"turn", "compact", "rename", "delete", "import"}
RequestFields == {"op", "pc", "sid", "mode", "store", "new", "mem", "out"}
Unread == {"idle", "generate", "chat"}

\* Exchanges a file of chats holds, and those that may not be lost any more.
Held(f) == UNION {f[s] : s \in DOMAIN f}
Owed == acked \ forfeit

StoreTypeOK ==
    /\ DOMAIN rq = Requests /\ DOMAIN tmp = Files
    /\ \A r \in Requests :
          /\ DOMAIN rq[r] = RequestFields
          /\ rq[r].sid \in {First, r}
          /\ rq[r].pc = "idle" => rq[r].op = "none"
          /\ rq[r].pc \in {"generate", "chat", "chattmp", "chatrename"} => rq[r].op \in ChatOps
          /\ rq[r].pc \in {"memory", "memorytmp", "memoryrename"} => rq[r].op # "turn"

\* The exchange of a turn that has read the chats; before that it is in no file.
Began(x) == x = Old \/ (x \in Requests /\ rq[x].op = "turn" /\ rq[x].pc \notin Unread)

\* A file holds exchanges that began, each in its own session, and no other session
\* than the first and those of such turns.
FileSound(f) ==
    /\ \A s \in DOMAIN f : s = First \/ Began(s)
    /\ \A s \in DOMAIN f : \A x \in f[s] : Began(x) /\ Home(x) = s

\* What a request is about to write keeps what is owed, but for what it means to drop,
\* and brings no deleted session back.
RewriteSound ==
    \A r \in Requests : Rewriting(r) =>
       /\ FileSound(rq[r].new)
       /\ \A x \in Owed : x \in Held(rq[r].new) \/ Drops(r, x)
       /\ rq[r].op = "turn" => r \in Held(rq[r].new)
       /\ rq[r].op = "delete" => First \notin DOMAIN rq[r].new
       /\ First \in removed /\ rq[r].op # "import" => First \notin DOMAIN rq[r].new

\* FILE.tmp is what some request wrote that is yet to rename.
TmpSound ==
    tmp.chat # <<>> => \E w \in Requests : rq[w].pc = "chatrename" /\ tmp.chat = <<rq[w].new>>

StoreInv ==
    /\ StoreTypeOK /\ RewriteSound /\ TmpSound /\ FileSound(chats)
    /\ \A x \in acked : Began(x)
    /\ Owed \subseteq Held(chats)
    /\ First \in removed => First \notin DOMAIN chats

LEMMA HeldMember == \A f, x : x \in Held(f) <=> \E s \in DOMAIN f : x \in f[s]
BY DEF Held

\* A step of one request: what began stays in its session.
LEMMA RequestStep ==
    ASSUME StoreInv, NEW r \in Requests, NEW e, rq' = [rq EXCEPT ![r] = e],
           Began(r) => e.op = "turn" /\ e.sid = rq[r].sid /\ e.pc \notin Unread
    PROVE  /\ rq'[r] = e /\ DOMAIN rq' = Requests
           /\ \A q \in Requests : q # r => rq'[q] = rq[q]
           /\ \A x : Began(x) => Began(x)' /\ Home(x)' = Home(x)
<1>1. rq'[r] = e /\ DOMAIN rq' = Requests /\ \A q \in Requests : q # r => rq'[q] = rq[q]
  BY DEF StoreInv, StoreTypeOK
<1>2. ASSUME NEW x, Began(x)
      PROVE  Began(x)' /\ Home(x)' = Home(x)
  BY <1>1, <1>2 DEF Began, Home
<1> QED BY <1>1, <1>2

\* Steps of a request outside the rewriting of the chats.
LEMMA AsideKeeps ==
    ASSUME StoreInv, NEW r \in Requests, NEW e, rq' = [rq EXCEPT ![r] = e],
           DOMAIN e = RequestFields, e.sid \in {First, r},
           e.pc \notin {"idle", "chattmp", "chatrename"},
           e.pc \in {"generate", "chat"} => e.op \in ChatOps,
           e.pc \in {"memory", "memorytmp", "memoryrename"} => e.op # "turn",
           ~Rewriting(r), ~Began(r),
           tmp'.chat = tmp.chat, DOMAIN tmp' = DOMAIN tmp,
           UNCHANGED <<chats, acked, forfeit, removed>>
    PROVE  StoreInv'
<1> USE DEF StoreInv
<1>1. /\ rq'[r] = e /\ DOMAIN rq' = Requests
      /\ \A q \in Requests : q # r => rq'[q] = rq[q]
      /\ \A x : Began(x) => Began(x)' /\ Home(x)' = Home(x)
  BY RequestStep
<1>2. StoreTypeOK'
  BY <1>1 DEF StoreTypeOK
<1>3. \A q \in Requests : Rewriting(q)' => q # r /\ Rewriting(q)
  BY <1>1 DEF Rewriting
<1>4. Owed' = Owed /\ \A f : Held(f)' = Held(f)
  BY DEF Owed, Held
<1>5. RewriteSound'
  <2> SUFFICES ASSUME NEW q \in Requests, Rewriting(q)'
               PROVE  /\ FileSound(rq[q].new)'
                      /\ \A x \in Owed' : x \in Held(rq'[q].new) \/ Drops(q, x)'
                      /\ rq'[q].op = "turn" => q \in Held(rq'[q].new)
                      /\ rq'[q].op = "delete" => First \notin DOMAIN rq'[q].new
                      /\ First \in removed' /\ rq'[q].op # "import" => First \notin DOMAIN rq'[q].new
    BY DEF RewriteSound, Held, FileSound
  <2>1. rq'[q] = rq[q] /\ Rewriting(q)
    BY <1>1, <1>3
  <2>2. \A x \in Owed : Drops(q, x) => Drops(q, x)'
    BY <1>1, <2>1 DEF Drops, Owed
  <2> QED BY <1>1, <1>4, <2>1, <2>2 DEF RewriteSound, FileSound
<1>6. TmpSound'
  BY <1>1 DEF TmpSound, Rewriting
<1>7. FileSound(chats)'
  BY <1>1 DEF FileSound
<1> QED BY <1>1, <1>2, <1>4, <1>5, <1>6, <1>7 DEF Held

\* What a request makes of the chats it has read, by the operation.
LEMMA RewriteFacts ==
    ASSUME StoreInv, NEW r \in Requests, rq[r].pc = "chat", First \notin Requests, Old \notin Requests,
           ~(rq[r].op # "import" /\ rq[r].sid = First /\ First \notin DOMAIN chats)
    PROVE  /\ \A s \in DOMAIN Rewritten(r) : s = First \/ (s = r /\ rq[r].op = "turn") \/ s \in DOMAIN chats
           /\ \A s \in DOMAIN Rewritten(r) : \A x \in Rewritten(r)[s] :
                 \/ x = r /\ rq[r].op = "turn" /\ rq[r].sid = s
                 \/ s \in DOMAIN chats /\ x \in chats[s]
           /\ \A x \in Held(chats) : x \in Held(Rewritten(r)) \/ Drops(r, x)
           /\ rq[r].op = "turn" => r \in Held(Rewritten(r))
           /\ rq[r].op = "delete" => First \notin DOMAIN Rewritten(r)
           /\ (rq[r].op # "import" /\ First \notin DOMAIN chats) => First \notin DOMAIN Rewritten(r)
<1>1. r \notin DOMAIN chats /\ r # First /\ rq[r].op \in ChatOps /\ rq[r].sid \in {First, r}
  BY DEF StoreInv, StoreTypeOK, FileSound, Began, Unread
<1>0. \A s \in DOMAIN chats : \A x \in chats[s] : Home(x) = s
  BY DEF StoreInv, FileSound
<1>2. CASE rq[r].op = "turn" /\ rq[r].sid = First
  <2>1. Rewritten(r) = [chats EXCEPT ![First] = @ \cup {r}] /\ First \in DOMAIN chats
    BY <1>2 DEF Rewritten, AppendExchange
  <2>2. PICK f : f = Rewritten(r)
    OBVIOUS
  <2>3. /\ DOMAIN f = DOMAIN chats /\ f[First] = chats[First] \cup {r}
        /\ \A s \in DOMAIN chats : s # First => f[s] = chats[s]
    BY <2>1, <2>2
  <2>4. r \in Held(f) /\ \A x \in Held(chats) : x \in Held(f)
    BY <2>1, <2>3, HeldMember
  <2>5. \A s \in DOMAIN f : \A x \in f[s] : (x = r /\ rq[r].sid = s) \/ (s \in DOMAIN chats /\ x \in chats[s])
    BY <1>2, <2>3
  <2> QED BY <1>2, <2>1, <2>2, <2>3, <2>4, <2>5
<1>3. CASE rq[r].op = "turn" /\ rq[r].sid # First
  <2>1. Rewritten(r) = [s \in DOMAIN chats \cup {r} |-> IF s = r THEN {r} ELSE chats[s]]
    BY <1>3 DEF Rewritten, AppendExchange
  <2>2. PICK f : f = Rewritten(r)
    OBVIOUS
  <2>3. /\ DOMAIN f = DOMAIN chats \cup {r} /\ f[r] = {r}
        /\ \A s \in DOMAIN chats : f[s] = chats[s]
    BY <1>1, <2>1, <2>2
  <2>4. r \in Held(f) /\ \A x \in Held(chats) : x \in Held(f)
    BY <2>3, HeldMember
  <2>5. \A s \in DOMAIN f : \A x \in f[s] : (x = r /\ rq[r].sid = s) \/ (s \in DOMAIN chats /\ x \in chats[s])
    BY <1>1, <1>3, <2>3
  <2> QED BY <1>1, <1>3, <2>2, <2>3, <2>4, <2>5
<1>4. CASE rq[r].op \in {"compact", "rename"}
  BY <1>4 DEF Rewritten
<1>5. CASE rq[r].op = "delete"
  <2>1. Rewritten(r) = [s \in DOMAIN chats \ {First} |-> chats[s]]
    BY <1>5 DEF Rewritten
  <2>2. PICK f : f = Rewritten(r)
    OBVIOUS
  <2>3. DOMAIN f = DOMAIN chats \ {First} /\ \A s \in DOMAIN f : f[s] = chats[s]
    BY <2>1, <2>2
  <2>4. \A x \in Held(chats) : x \in Held(f) \/ Drops(r, x)
    BY <1>0, <1>5, <2>3, HeldMember DEF Drops
  <2> QED BY <1>5, <2>2, <2>3, <2>4
<1>6. CASE rq[r].op = "import"
  <2>1. Rewritten(r) = Restored(rq[r].mode)
    BY <1>6 DEF Rewritten
  <2>2. PICK f : f = Restored(rq[r].mode)
    OBVIOUS
  <2>3. CASE rq[r].mode = "replace"
    <3>1. DOMAIN f = {First} /\ f[First] = {}
      BY <2>2, <2>3 DEF Restored, Bundle
    <3>2. \A x : Drops(r, x)
      BY <1>6, <2>3 DEF Drops
    <3> QED BY <1>6, <2>1, <2>2, <3>1, <3>2
  <2>4. CASE rq[r].mode # "replace"
    <3>1. f = [s \in DOMAIN chats \cup DOMAIN Bundle |-> IF s \in DOMAIN Bundle THEN Bundle[s] ELSE chats[s]]
      BY <2>2, <2>4 DEF Restored
    <3>2. DOMAIN Bundle = {First} /\ Bundle[First] = {}
      BY DEF Bundle
    <3>3. /\ DOMAIN f = DOMAIN chats \cup {First} /\ f[First] = {}
          /\ \A s \in DOMAIN chats : s # First => f[s] = chats[s]
      BY <3>1, <3>2
    <3>4. ASSUME NEW x \in Held(chats)
          PROVE  x \in Held(f) \/ Drops(r, x)
      <4>1. PICK s \in DOMAIN chats : x \in chats[s]
        BY HeldMember
      <4>2. CASE s = First
        BY <1>0, <1>6, <4>1, <4>2 DEF Drops
      <4>3. CASE s # First
        BY <3>3, <4>1, <4>3, HeldMember
      <4> QED BY <4>2, <4>3
    <3> QED BY <1>6, <2>1, <2>2, <3>3, <3>4
  <2> QED BY <2>3, <2>4
<1> QED BY <1>1, <1>2, <1>3, <1>4, <1>5, <1>6 DEF ChatOps

LEMMA ReadKeeps ==
    ASSUME StoreInv, NEW r \in Requests, ChatRead(r), First \notin Requests, Old \notin Requests
    PROVE  StoreInv'
<1> USE DEF StoreInv
<1>1. rq[r].pc = "chat" /\ UNCHANGED <<chats, memory, tmp, acked, kept, forfeit, removed>>
  BY DEF ChatRead
<1>2. ~Began(r) /\ ~Rewriting(r)
  BY <1>1 DEF Began, Unread, Rewriting
<1>3. CASE rq[r].op # "import" /\ rq[r].sid = First /\ First \notin DOMAIN chats
  <2>1. PICK e : e = [rq[r] EXCEPT !.pc = "refused"]
    OBVIOUS
  <2>2. rq' = [rq EXCEPT ![r] = e]
    BY <1>3, <2>1 DEF ChatRead, GoOn
  <2>3. DOMAIN e = RequestFields /\ e.sid \in {First, r} /\ e.pc = "refused"
    BY <2>1 DEF StoreTypeOK, RequestFields
  <2> QED BY <1>1, <1>2, <2>2, <2>3, AsideKeeps
<1>4. CASE ~(rq[r].op # "import" /\ rq[r].sid = First /\ First \notin DOMAIN chats)
  <2>1. PICK e : e = [rq[r] EXCEPT !.pc = "chattmp", !.new = Rewritten(r)]
    OBVIOUS
  <2>2. rq' = [rq EXCEPT ![r] = e]
    BY <1>4, <2>1 DEF ChatRead
  <2>3. /\ DOMAIN e = RequestFields /\ e.sid = rq[r].sid /\ e.sid \in {First, r} /\ e.mode = rq[r].mode
        /\ e.pc = "chattmp" /\ e.op = rq[r].op /\ e.new = Rewritten(r) /\ e.op \in ChatOps
    BY <1>1, <2>1 DEF StoreTypeOK, RequestFields
  <2>4. /\ rq'[r] = e /\ DOMAIN rq' = Requests
        /\ \A q \in Requests : q # r => rq'[q] = rq[q]
        /\ \A x : Began(x) => Began(x)' /\ Home(x)' = Home(x)
    BY <1>2, <2>2, RequestStep
  <2>5. /\ \A s \in DOMAIN e.new : s = First \/ (s = r /\ rq[r].op = "turn") \/ s \in DOMAIN chats
        /\ \A s \in DOMAIN e.new : \A x \in e.new[s] :
              \/ x = r /\ rq[r].op = "turn" /\ rq[r].sid = s
              \/ s \in DOMAIN chats /\ x \in chats[s]
        /\ \A x \in Held(chats) : x \in Held(e.new) \/ Drops(r, x)
        /\ rq[r].op = "turn" => r \in Held(e.new)
        /\ rq[r].op = "delete" => First \notin DOMAIN e.new
        /\ (rq[r].op # "import" /\ First \notin DOMAIN chats) => First \notin DOMAIN e.new
    BY <1>1, <1>4, <2>3, RewriteFacts
  <2>6. StoreTypeOK'
    BY <1>1, <2>3, <2>4 DEF StoreTypeOK
  <2>7. Owed' = Owed
    BY <1>1 DEF Owed
  <2>8. rq[r].op = "turn" => Began(r)' /\ Home(r)' = rq[r].sid
    BY <2>3, <2>4 DEF Began, Unread, Home
  <2>9. FileSound(rq[r].new)'
    BY <2>3, <2>4, <2>5, <2>8 DEF FileSound
  <2>10. \A q \in Requests, x \in Owed : Drops(q, x) => Drops(q, x)'
    BY <2>3, <2>4 DEF Drops, Owed
  <2>11. RewriteSound'
    <3> SUFFICES ASSUME NEW q \in Requests, Rewriting(q)'
                 PROVE  /\ FileSound(rq[q].new)'
                        /\ \A x \in Owed' : x \in Held(rq'[q].new) \/ Drops(q, x)'
                        /\ rq'[q].op = "turn" => q \in Held(rq'[q].new)
                        /\ rq'[q].op = "delete" => First \notin DOMAIN rq'[q].new
                        /\ First \in removed' /\ rq'[q].op # "import" => First \notin DOMAIN rq'[q].new
      BY DEF RewriteSound, Held, FileSound
    <3>1. CASE q = r
      BY <1>1, <2>3, <2>4, <2>5, <2>7, <2>9, <2>10, <3>1
    <3>2. CASE q # r
      <4>1. Rewriting(q) /\ rq'[q] = rq[q]
        BY <2>4, <3>2 DEF Rewriting
      <4> QED BY <1>1, <2>4, <2>7, <2>10, <4>1 DEF RewriteSound, FileSound
    <3> QED BY <3>1, <3>2
  <2>12. TmpSound'
    BY <1>1, <2>3, <2>4 DEF TmpSound
  <2>13. FileSound(chats)'
    BY <1>1, <2>4 DEF FileSound
  <2>14. (\A x \in acked : Began(x))' /\ (Owed \subseteq Held(chats))' /\ (First \in removed => First \notin DOMAIN chats)'
    BY <1>1, <2>4, <2>7 DEF Held
  <2> QED BY <2>6, <2>11, <2>12, <2>13, <2>14
<1> QED BY <1>3, <1>4

LEMMA TmpKeeps ==
    ASSUME StoreInv, NEW r \in Requests, ChatTmp(r), Old \notin Requests
    PROVE  StoreInv'
<1> USE DEF StoreInv
<1>1. /\ rq[r].pc = "chattmp" /\ UNCHANGED <<chats, memory, acked, kept, forfeit, removed>>
      /\ tmp' = [tmp EXCEPT !.chat = <<rq[r].new>>]
  BY DEF ChatTmp
<1>2. PICK e : e = [rq[r] EXCEPT !.pc = "chatrename"]
  OBVIOUS
<1>3. rq' = [rq EXCEPT ![r] = e]
  BY <1>2 DEF ChatTmp, GoOn
<1>4. /\ DOMAIN e = RequestFields /\ e.sid = rq[r].sid /\ e.mode = rq[r].mode
      /\ e.pc = "chatrename" /\ e.op = rq[r].op /\ e.op \in ChatOps /\ e.new = rq[r].new
  BY <1>1, <1>2 DEF StoreTypeOK, RequestFields
<1>5. /\ rq'[r] = e /\ DOMAIN rq' = Requests
      /\ \A q \in Requests : q # r => rq'[q] = rq[q]
      /\ \A x : Began(x) => Began(x)' /\ Home(x)' = Home(x)
  <2>1. Began(r) => e.op = "turn" /\ e.sid = rq[r].sid /\ e.pc \notin Unread
    BY <1>4 DEF Began, Unread, StoreTypeOK
  <2> QED BY <1>3, <2>1, RequestStep
<1>6. tmp'.chat = <<rq[r].new>> /\ DOMAIN tmp' = DOMAIN tmp
  BY <1>1 DEF StoreTypeOK, Files
<1>7. StoreTypeOK'
  BY <1>1, <1>4, <1>5, <1>6 DEF StoreTypeOK
<1>8. Owed' = Owed
  BY <1>1 DEF Owed
<1>9. \A q \in Requests : /\ Rewriting(q)' => Rewriting(q)
                          /\ rq'[q].new = rq[q].new /\ rq'[q].op = rq[q].op
                          /\ \A x \in Owed : Drops(q, x) => Drops(q, x)'
  BY <1>1, <1>4, <1>5 DEF Rewriting, Drops, Owed
<1>10. RewriteSound'
  <2> SUFFICES ASSUME NEW q \in Requests, Rewriting(q)'
               PROVE  /\ FileSound(rq[q].new)'
                      /\ \A x \in Owed' : x \in Held(rq'[q].new) \/ Drops(q, x)'
                      /\ rq'[q].op = "turn" => q \in Held(rq'[q].new)
                      /\ rq'[q].op = "delete" => First \notin DOMAIN rq'[q].new
                      /\ First \in removed' /\ rq'[q].op # "import" => First \notin DOMAIN rq'[q].new
    BY DEF RewriteSound, Held, FileSound
  <2> QED BY <1>1, <1>5, <1>8, <1>9 DEF RewriteSound, FileSound
<1>11. TmpSound'
  BY <1>4, <1>5, <1>6 DEF TmpSound
<1>12. FileSound(chats)'
  BY <1>1, <1>5 DEF FileSound
<1>13. (\A x \in acked : Began(x))' /\ (Owed \subseteq Held(chats))' /\ (First \in removed => First \notin DOMAIN chats)'
  BY <1>1, <1>5, <1>8 DEF Held
<1> QED BY <1>7, <1>10, <1>11, <1>12, <1>13

LEMMA RenameKeeps ==
    ASSUME StoreInv, NEW r \in Requests, ChatRename(r), Old \notin Requests
    PROVE  StoreInv'
<1> USE DEF StoreInv
<1>1. rq[r].pc = "chatrename" /\ Rewriting(r) /\ UNCHANGED <<memory, kept>>
  BY DEF ChatRename, Rewriting
<1>2. PICK pc \in {"refused", "memory", "done"} : Left(r, pc) /\ (pc = "memory" => rq[r].op # "turn")
  BY DEF ChatRename
<1>3. PICK e : e = [rq[r] EXCEPT !.pc = pc, !.new = Bundle, !.mem = {}, !.out = {}]
  OBVIOUS
<1>4. rq' = [rq EXCEPT ![r] = e]
  BY <1>2, <1>3 DEF Left
<1>5. /\ DOMAIN e = RequestFields /\ e.sid = rq[r].sid /\ e.mode = rq[r].mode
      /\ e.pc = pc /\ e.op = rq[r].op
  BY <1>3 DEF StoreTypeOK, RequestFields
<1>6. /\ rq'[r] = e /\ DOMAIN rq' = Requests
      /\ \A q \in Requests : q # r => rq'[q] = rq[q]
      /\ \A x : Began(x) => Began(x)' /\ Home(x)' = Home(x)
  <2>1. Began(r) => e.op = "turn" /\ e.sid = rq[r].sid /\ e.pc \notin Unread
    BY <1>2, <1>5 DEF Began, Unread
  <2> QED BY <1>4, <2>1, RequestStep
<1>7. \/ tmp.chat = <<>> /\ UNCHANGED <<chats, tmp, acked, forfeit, removed>>
      \/ /\ tmp.chat # <<>> /\ chats' = tmp.chat[1] /\ tmp' = [tmp EXCEPT !.chat = <<>>]
         /\ acked' = IF rq[r].op = "turn" THEN acked \cup {r} ELSE acked
         /\ forfeit' = forfeit \cup {x \in acked : \E q \in Beside(r) \cup {r} : Drops(q, x)}
                               \cup (IF rq[r].op = "turn" /\ Beside(r) # {} THEN {r} ELSE {})
         /\ removed' = IF rq[r].op = "delete" /\ Beside(r) = {} THEN {First}
                       ELSE IF \E q \in Beside(r) \cup {r} : rq[q].op = "import" THEN {} ELSE removed
  BY DEF ChatRename
<1>8. tmp'.chat = <<>> /\ DOMAIN tmp' = DOMAIN tmp
  BY <1>7 DEF StoreTypeOK, Files
<1>9. StoreTypeOK'
  BY <1>2, <1>5, <1>6, <1>8 DEF StoreTypeOK
<1>10. TmpSound'
  BY <1>8 DEF TmpSound
<1>11. \A q \in Requests : Rewriting(q)' => q \in Beside(r) /\ Rewriting(q) /\ rq'[q] = rq[q]
  BY <1>2, <1>5, <1>6 DEF Rewriting, Beside
<1>12. \A q \in Requests, x \in acked : Drops(q, x) => Drops(q, x)'
  BY <1>5, <1>6 DEF Drops
<1>13. \A x \in acked' : Began(x)'
  <2>1. rq[r].op = "turn" => Began(r)'
    BY <1>2, <1>5, <1>6 DEF Began, Unread
  <2> QED BY <1>6, <1>7, <2>1
<1>14. Beside(r) # {} => Owed' \subseteq Owed
  BY <1>7 DEF Owed
<1>15. Beside(r) # {} /\ First \in removed' => First \in removed
  BY <1>7
<1>16. RewriteSound'
  <2> SUFFICES ASSUME NEW q \in Requests, Rewriting(q)'
               PROVE  /\ FileSound(rq[q].new)'
                      /\ \A x \in Owed' : x \in Held(rq'[q].new) \/ Drops(q, x)'
                      /\ rq'[q].op = "turn" => q \in Held(rq'[q].new)
                      /\ rq'[q].op = "delete" => First \notin DOMAIN rq'[q].new
                      /\ First \in removed' /\ rq'[q].op # "import" => First \notin DOMAIN rq'[q].new
    BY DEF RewriteSound, Held, FileSound
  <2>1. Beside(r) # {} /\ Rewriting(q) /\ rq'[q] = rq[q]
    BY <1>11
  <2>2. \A x \in Owed' : x \in Owed /\ x \in acked
    BY <1>14, <2>1 DEF Owed
  <2> QED BY <1>6, <1>12, <1>15, <2>1, <2>2 DEF RewriteSound, FileSound
<1>17. CASE tmp.chat = <<>> /\ UNCHANGED <<chats, tmp, acked, forfeit, removed>>
  <2>1. FileSound(chats)' /\ (Owed \subseteq Held(chats))' /\ (First \in removed => First \notin DOMAIN chats)'
    BY <1>6, <1>17 DEF FileSound, Owed, Held
  <2> QED BY <1>9, <1>10, <1>13, <1>16, <2>1
<1>18. CASE tmp.chat # <<>> /\ chats' = tmp.chat[1]
  <2>1. PICK w \in Requests : rq[w].pc = "chatrename" /\ tmp.chat = <<rq[w].new>>
    BY <1>18 DEF TmpSound
  <2>2. chats' = rq[w].new /\ Rewriting(w) /\ w \in Beside(r) \cup {r} /\ (Beside(r) = {} => w = r)
    BY <1>18, <2>1 DEF Rewriting, Beside
  <2>3. FileSound(rq[w].new)
    BY <2>2 DEF RewriteSound
  <2>4. FileSound(chats)'
    BY <1>6, <2>2, <2>3 DEF FileSound
  <2>5. ASSUME NEW x \in Owed'
        PROVE  x \in Held(chats')
    <3>1. CASE x \in Owed
      <4>1. ~Drops(w, x)
        BY <1>7, <1>18, <2>2, <2>5, <3>1 DEF Owed
      <4> QED BY <2>2, <3>1, <4>1 DEF RewriteSound
    <3>2. CASE x \notin Owed
      <4>1. rq[r].op = "turn" /\ x = r /\ Beside(r) = {}
        BY <1>7, <1>18, <2>5, <3>2 DEF Owed
      <4> QED BY <2>2, <4>1 DEF RewriteSound
    <3> QED BY <3>1, <3>2
  <2>6. First \in removed' => First \notin DOMAIN chats'
    <3>1. CASE rq[r].op = "delete" /\ Beside(r) = {}
      BY <2>2, <3>1 DEF RewriteSound
    <3>2. CASE ~(rq[r].op = "delete" /\ Beside(r) = {})
      <4>1. First \in removed' => First \in removed /\ rq[w].op # "import"
        BY <1>7, <1>18, <2>2, <3>2
      <4> QED BY <2>2, <4>1 DEF RewriteSound
    <3> QED BY <3>1, <3>2
  <2> QED BY <1>9, <1>10, <1>13, <1>16, <2>4, <2>5, <2>6 DEF Held
<1> QED BY <1>7, <1>17, <1>18

\* Steps before and after the rewriting of the chats, and those of the memory store.
LEMMA StoreMoves ==
    ASSUME StoreInv, NEW r \in Requests,
           \/ BeginTurn(r) \/ BeginCompact(r) \/ Generate(r) \/ BeginRename(r) \/ BeginDelete(r)
           \/ BeginImport(r) \/ BeginToolImport(r) \/ MemoryAdd(r) \/ MemoryPrune(r)
           \/ MemoryForget(r) \/ MemoryRestore(r) \/ MemoryTmp(r) \/ MemoryRename(r),
           Old \notin Requests
    PROVE  StoreInv'
<1> DEFINE Aside(e) == /\ rq' = [rq EXCEPT ![r] = e]
                       /\ DOMAIN e = RequestFields /\ e.sid \in {First, r}
                       /\ e.pc \notin {"idle", "chattmp", "chatrename"}
                       /\ e.pc \in {"generate", "chat"} => e.op \in ChatOps
                       /\ e.pc \in {"memory", "memorytmp", "memoryrename"} => e.op # "turn"
                       /\ ~Rewriting(r) /\ ~Began(r)
<1>0. /\ DOMAIN rq[r] = RequestFields /\ rq[r].sid \in {First, r}
      /\ rq[r].pc = "idle" => rq[r].op = "none"
      /\ rq[r].pc = "generate" => rq[r].op \in ChatOps
      /\ rq[r].pc \in {"memory", "memorytmp", "memoryrename"} => rq[r].op # "turn"
      /\ DOMAIN tmp = Files
  BY DEF StoreInv, StoreTypeOK
<1>1. CASE BeginTurn(r)
  <2>1. PICK s \in {First, r}, i \in Instances, pc \in {"refused", "generate"} :
            rq' = [rq EXCEPT ![r] = [@ EXCEPT !.op = "turn", !.sid = s, !.store = i, !.pc = pc]]
    BY <1>1 DEF BeginTurn
  <2>2. PICK e : e = [rq[r] EXCEPT !.op = "turn", !.sid = s, !.store = i, !.pc = pc]
    OBVIOUS
  <2>3. rq[r].pc = "idle" /\ rq' = [rq EXCEPT ![r] = e]
    BY <1>1, <2>1, <2>2 DEF BeginTurn
  <2>4. Aside(e)
    BY <1>0, <2>2, <2>3 DEF Began, Unread, Rewriting, RequestFields, ChatOps
  <2> QED BY <1>1, <2>4, AsideKeeps DEF BeginTurn
<1>2. CASE BeginCompact(r)
  <2>1. PICK i \in Instances, pc \in {"refused", "generate"} :
            rq' = [rq EXCEPT ![r] = [@ EXCEPT !.op = "compact", !.sid = First, !.store = i, !.pc = pc]]
    BY <1>2 DEF BeginCompact
  <2>2. PICK e : e = [rq[r] EXCEPT !.op = "compact", !.sid = First, !.store = i, !.pc = pc]
    OBVIOUS
  <2>3. rq[r].pc = "idle" /\ rq' = [rq EXCEPT ![r] = e]
    BY <1>2, <2>1, <2>2 DEF BeginCompact
  <2>4. Aside(e)
    BY <1>0, <2>2, <2>3 DEF Began, Unread, Rewriting, RequestFields, ChatOps
  <2> QED BY <1>2, <2>4, AsideKeeps DEF BeginCompact
<1>3. CASE Generate(r)
  <2>1. PICK pc \in {"chat", "refused"} : GoOn(r, pc)
    BY <1>3 DEF Generate
  <2>2. PICK e : e = [rq[r] EXCEPT !.pc = pc]
    OBVIOUS
  <2>3. rq[r].pc = "generate" /\ rq' = [rq EXCEPT ![r] = e]
    BY <1>3, <2>1, <2>2 DEF Generate, GoOn
  <2>4. Aside(e)
    BY <1>0, <2>2, <2>3 DEF Began, Unread, Rewriting, RequestFields
  <2> QED BY <1>3, <2>4, AsideKeeps DEF Generate
<1>4. CASE BeginRename(r) \/ BeginDelete(r) \/ BeginImport(r) \/ BeginToolImport(r)
  <2>1. PICK what \in {"rename", "delete", "import"}, m \in {"none", "merge", "replace"},
            i \in Instances : Begin(r, what, m, i)
    BY <1>4 DEF BeginRename, BeginDelete, BeginImport, BeginToolImport, Instances
  <2>2. PICK e : e = [rq[r] EXCEPT !.op = what, !.mode = m, !.store = i, !.pc = "chat"]
    OBVIOUS
  <2>3. rq[r].pc = "idle" /\ rq' = [rq EXCEPT ![r] = e]
    BY <2>1, <2>2 DEF Begin
  <2>4. Aside(e)
    BY <1>0, <2>2, <2>3 DEF Began, Unread, Rewriting, RequestFields, ChatOps
  <2> QED BY <2>1, <2>4, AsideKeeps DEF Begin
<1>5. CASE MemoryAdd(r)
  <2>1. PICK e : e = [rq[r] EXCEPT !.op = "add", !.pc = "done"]
    OBVIOUS
  <2>2. rq[r].pc = "idle" /\ rq' = [rq EXCEPT ![r] = e]
    BY <1>5, <2>1 DEF MemoryAdd
  <2>3. Aside(e)
    BY <1>0, <2>1, <2>2 DEF Began, Unread, Rewriting, RequestFields
  <2> QED BY <1>5, <2>3, AsideKeeps DEF MemoryAdd
<1>6. CASE MemoryPrune(r) \/ MemoryForget(r) \/ MemoryRestore(r)
  <2>1. ASSUME NEW what, NEW out, NEW next, next \in {"memorytmp", "done"}, MemoryRead(r, what, out, next),
               what # "turn",
               rq[r].pc = "idle" \/ (rq[r].pc = "memory" /\ what = rq[r].op)
        PROVE  StoreInv'
    <3>1. PICK e : e = [rq[r] EXCEPT !.op = what, !.out = out, !.mem = memory \ out, !.pc = next]
      OBVIOUS
    <3>2. rq' = [rq EXCEPT ![r] = e]
      BY <2>1, <3>1 DEF MemoryRead
    <3>3. Aside(e)
      BY <1>0, <2>1, <3>1, <3>2 DEF Began, Unread, Rewriting, RequestFields
    <3> QED BY <2>1, <3>3, AsideKeeps DEF MemoryRead
  <2>2. CASE MemoryPrune(r)
    <3>1. PICK next \in {"memorytmp", "done"} : MemoryRead(r, "prune", memory \cap {Old}, next)
      BY <2>2 DEF MemoryPrune
    <3> QED BY <2>1, <2>2, <3>1 DEF MemoryPrune
  <2>3. CASE MemoryForget(r)
    <3>1. PICK x \in kept \cup {Old}, next \in {"memorytmp", "done"} :
             MemoryRead(r, "forget", memory \cap {x}, next)
      BY <2>3 DEF MemoryForget
    <3> QED BY <2>1, <2>3, <3>1 DEF MemoryForget
  <2>4. CASE MemoryRestore(r)
    BY <1>0, <2>1, <2>4 DEF MemoryRestore
  <2> QED BY <1>6, <2>2, <2>3, <2>4
<1>7. CASE MemoryTmp(r) \/ MemoryRename(r)
  <2>1. PICK e : /\ rq' = [rq EXCEPT ![r] = e]
                 /\ \/ e = [rq[r] EXCEPT !.pc = "memoryrename"]
                    \/ \E pc \in {"refused", "done"} :
                          e = [rq[r] EXCEPT !.pc = pc, !.new = Bundle, !.mem = {}, !.out = {}]
    BY <1>7 DEF MemoryTmp, MemoryRename, GoOn, Left
  <2>2. e.pc \in {"memoryrename", "refused", "done"} /\ e.op = rq[r].op /\ e.sid = rq[r].sid
        /\ DOMAIN e = RequestFields
    BY <1>0, <2>1 DEF RequestFields
  <2>3. rq[r].pc \in {"memorytmp", "memoryrename"}
    BY <1>7 DEF MemoryTmp, MemoryRename
  <2>4. Aside(e)
    BY <1>0, <2>1, <2>2, <2>3 DEF Began, Unread, Rewriting, RequestFields
  <2>5. tmp'.chat = tmp.chat /\ DOMAIN tmp' = DOMAIN tmp
    BY <1>0, <1>7 DEF MemoryTmp, MemoryRename, Files
  <2> QED BY <1>7, <2>4, <2>5, AsideKeeps DEF MemoryTmp, MemoryRename
<1> QED BY <1>1, <1>2, <1>3, <1>4, <1>5, <1>6, <1>7

(***************************************************************************)
(* An exchange whose turn was told it is saved is in the file unless its   *)
(* session was deleted or replaced by an import, or another instance of    *)
(* the store had read the file before and rewrote it afterwards, however   *)
(* the requests of the server, the tools and the command line meet at      *)
(* FILE.tmp; and a session deleted with nobody beside comes back only with *)
(* an import (FileChatStore, data_bundle).                                 *)
(***************************************************************************)
THEOREM ExchangesAreKept ==
    ASSUME First \notin Requests, Old \notin Requests
    PROVE  StoreSpec => []ChatsKept
<1>1. StoreInit => StoreInv
  <2> SUFFICES ASSUME StoreInit
               PROVE  StoreInv
    OBVIOUS
  <2> USE DEF StoreInit
  <2>1. StoreTypeOK
    BY DEF StoreTypeOK, Files, ChatOps, RequestFields
  <2>2. tmp.chat = <<>> /\ \A r \in Requests : rq[r].pc = "idle"
    BY DEF Files
  <2>3. DOMAIN chats = {First} /\ chats[First] = {Old}
    OBVIOUS
  <2>4. Owed \subseteq Held(chats)
    BY <2>3, HeldMember DEF Owed
  <2>5. FileSound(chats) /\ \A x \in acked : Began(x)
    BY <2>3 DEF FileSound, Began, Home
  <2> QED BY <2>1, <2>2, <2>3, <2>4, <2>5 DEF StoreInv, RewriteSound, Rewriting, TmpSound
<1>2. StoreInv /\ [StoreNext]_storeVars => StoreInv'
  <2> SUFFICES ASSUME StoreInv, [StoreNext]_storeVars
               PROVE  StoreInv'
    OBVIOUS
  <2>1. CASE UNCHANGED storeVars
    BY <2>1 DEF storeVars, StoreInv, StoreTypeOK, RewriteSound, Rewriting, TmpSound, FileSound, Began,
                Home, Drops, Owed, Held
  <2>2. CASE StoreNext
    <3>1. PICK r \in Requests :
             \/ BeginTurn(r) \/ BeginCompact(r) \/ Generate(r) \/ BeginRename(r) \/ BeginDelete(r)
             \/ BeginImport(r) \/ BeginToolImport(r) \/ MemoryAdd(r) \/ MemoryPrune(r)
             \/ MemoryForget(r) \/ MemoryRestore(r) \/ MemoryTmp(r) \/ MemoryRename(r)
             \/ ChatRead(r) \/ ChatTmp(r) \/ ChatRename(r)
      BY <2>2 DEF StoreNext
    <3> QED BY <3>1, StoreMoves, ReadKeeps, TmpKeeps, RenameKeeps
  <2> QED BY <2>1, <2>2
<1>3. StoreInv => ChatsKept
  BY DEF StoreInv, ChatsKept, Owed, Held
<1> QED BY <1>1, <1>2, <1>3, PTL DEF StoreSpec

=============================================================================
