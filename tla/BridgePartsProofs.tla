------------------------- MODULE BridgePartsProofs -------------------------
(***************************************************************************)
(* Proofs about the parts the bridge relies on: the redaction of a         *)
(* capsule under a scanner with process-wide settings, the probe of a      *)
(* provider whose files and model change while it runs, and the store of   *)
(* candidates with its attestations, shared by processes that may die; and *)
(* about the agent loop, whose server answers as it likes.                 *)
(***************************************************************************)
EXTENDS CapsuleRedaction, ProviderProbe, CandidateVault, AgentRun, FiniteSetTheorems, SequenceTheorems, TLAPS

Kinds == {"pattern", "entropy", "vendor", "labelled"}
Fields == FieldsOf(Payload)
Phases == {"text", "structure", "residual", "sent", "refused"}
Jobs == [phase : Phases, at : {"free", "locked", "scanning"}, todo : Seq(Fields),
         keys : SUBSET Kinds, plugins : {AllPlugins, {"vendor"}}, saved : SUBSET AllPlugins,
         wasQuiet : BOOLEAN]

RedactTypeOK ==
    /\ capsule \in [Threads -> [Fields -> SUBSET Kinds]]
    /\ scan \in [Threads -> Jobs]
    /\ settings \in SUBSET AllPlugins
    /\ quiet \in BOOLEAN
    /\ holder \in Threads \cup {0}

\* What a pass has cleaned so far: a field it has not left to do.
Cleaned(j, c) ==
    /\ c["sha256"] = {}
    /\ j.phase = "text" =>
         /\ j.plugins = AllPlugins
         /\ \A f \in FieldsOf(FreeText) : f \notin FieldsOf(j.todo) => c[f] \subseteq {"labelled"}
    /\ j.phase \in {"structure", "residual", "sent"} =>
         /\ j.plugins = {"vendor"} /\ "pattern" \notin j.keys
         /\ \A f \in FieldsOf(FreeText) : c[f] \subseteq {"labelled"}
    /\ j.phase = "structure" =>
         \A f \in Fields : f \notin FieldsOf(j.todo) => c[f] \subseteq {"entropy", "labelled"}
    /\ j.phase \in {"residual", "sent"} => \A f \in Fields : c[f] \subseteq {"entropy", "labelled"}
    /\ j.at # "free" =>
         /\ j.phase \in {"text", "structure", "residual"} /\ j.todo # <<>>
         /\ "pattern" \notin c[Head(j.todo)]

\* Whoever is at the scanner holds its lock, and finds or has made its settings.
Turn(t) ==
    /\ scan[t].at # "free" <=> holder = t
    /\ scan[t].at = "locked" => settings = {} /\ ~quiet
    /\ scan[t].at = "scanning" =>
         settings = scan[t].plugins /\ scan[t].saved = {} /\ ~scan[t].wasQuiet

RedactInv ==
    /\ RedactTypeOK
    /\ \A t \in Threads : Cleaned(scan[t], capsule[t]) /\ Turn(t)
    /\ holder = 0 => settings = {} /\ ~quiet

LEMMA PayloadFields ==
    /\ Fields = {"objective", "diff", "api_token", "sha256", "bad_sha256"}
    /\ FieldsOf(FreeText) = {"objective", "diff"}
    /\ Payload \in Seq(Fields) /\ FreeText \in Seq(Fields)
<1>1. DOMAIN Payload = 1..5
  BY DEF Payload
<1>2. Fields = {"objective", "diff", "api_token", "sha256", "bad_sha256"}
  BY <1>1 DEF Fields, FieldsOf, Payload
<1>3. DOMAIN FreeText = 1..2
  BY DEF FreeText
<1>4. FieldsOf(FreeText) = {"objective", "diff"}
  BY <1>3 DEF FieldsOf, FreeText
<1>5. Payload \in Seq(Fields)
  BY <1>2 DEF Payload
<1>6. FreeText \in Seq(Fields)
  BY <1>2 DEF FreeText
<1> QED BY <1>2, <1>4, <1>5, <1>6

LEMMA TodoTail ==
    ASSUME NEW todo \in Seq(Fields), todo # <<>>
    PROVE  /\ Head(todo) \in Fields /\ Tail(todo) \in Seq(Fields)
           /\ \A f : f \notin FieldsOf(Tail(todo)) => f = Head(todo) \/ f \notin FieldsOf(todo)
<1>1. Len(todo) \in Nat \ {0} /\ DOMAIN todo = 1..Len(todo)
  BY EmptySeq, LenProperties
<1>2. Head(todo) \in Fields /\ Tail(todo) \in Seq(Fields)
  BY HeadTailProperties
<1>3. ASSUME NEW f, f \in FieldsOf(todo), f # Head(todo)
      PROVE  f \in FieldsOf(Tail(todo))
  <2>1. PICK i \in 1..Len(todo) : f = todo[i]
    BY <1>1, <1>3 DEF FieldsOf
  <2>2. Head(todo) = todo[1]
    OBVIOUS
  <2>3. i - 1 \in 1..Len(todo) - 1
    BY <2>1, <2>2, <1>1, <1>3
  <2>4. Len(Tail(todo)) = Len(todo) - 1 /\ \A k \in 1..Len(Tail(todo)) : Tail(todo)[k] = todo[k + 1]
    BY HeadTailProperties
  <2>5. Tail(todo)[i - 1] = f
    BY <2>1, <2>3, <2>4, <1>1
  <2>6. i - 1 \in DOMAIN Tail(todo)
    BY <2>3, <2>4, <1>2, LenProperties
  <2> QED BY <2>5, <2>6 DEF FieldsOf
<1> QED BY <1>2, <1>3

-----------------------------------------------------------------------------
LEMMA RedactStarts ==
    ASSUME Texts \subseteq SUBSET Kinds, KeyTexts \subseteq SUBSET Kinds, 0 \notin Threads, RedactInit
    PROVE  RedactInv
<1>1. RedactTypeOK
  <2>1. ASSUME NEW t \in Threads PROVE capsule[t] \in [Fields -> SUBSET Kinds]
    BY DEF RedactInit, Fields
  <2>2. capsule \in [Threads -> [Fields -> SUBSET Kinds]]
    BY <2>1 DEF RedactInit
  <2>3. ASSUME NEW keys \in [Threads -> KeyTexts], NEW t \in Threads
        PROVE  [phase |-> "text", at |-> "free", todo |-> FreeText, keys |-> keys[t],
                plugins |-> AllPlugins, saved |-> {}, wasQuiet |-> FALSE] \in Jobs
    <3>1. keys[t] \in SUBSET Kinds /\ {} \in SUBSET AllPlugins
      OBVIOUS
    <3> QED BY <3>1, PayloadFields DEF Jobs, Phases
  <2>4. scan \in [Threads -> Jobs]
    <3>1. PICK keys \in [Threads -> KeyTexts] :
             scan = [t \in Threads |-> [phase |-> "text", at |-> "free", todo |-> FreeText,
                                       keys |-> keys[t], plugins |-> AllPlugins, saved |-> {},
                                       wasQuiet |-> FALSE]]
      BY DEF RedactInit
    <3> QED BY <2>3, <3>1
  <2> QED BY <2>2, <2>4 DEF RedactInit, RedactTypeOK
<1>2. ASSUME NEW t \in Threads PROVE Cleaned(scan[t], capsule[t]) /\ Turn(t)
  <2>0. PICK c \in [Fields -> Texts] : capsule[t] = [c EXCEPT !["sha256"] = {}]
    BY DEF RedactInit, Fields
  <2>3. capsule[t]["sha256"] = {}
    BY <2>0, PayloadFields
  <2>1. /\ scan[t].phase = "text" /\ scan[t].at = "free" /\ scan[t].todo = FreeText
        /\ scan[t].plugins = AllPlugins
    BY DEF RedactInit
  <2>2. holder = 0 /\ holder # t
    BY DEF RedactInit
  <2> QED BY <2>1, <2>2, <2>3 DEF Cleaned, Turn
<1> QED BY <1>1, <1>2 DEF RedactInv, RedactInit

\* A step of one thread that keeps its own part, and leaves alone what another holds.
LEMMA OneMoves ==
    ASSUME RedactInv, 0 \notin Threads, NEW t \in Threads, NEW j \in Jobs,
           NEW c \in [Fields -> SUBSET Kinds],
           scan' = [scan EXCEPT ![t] = j], capsule' = [capsule EXCEPT ![t] = c],
           Cleaned(j, c), settings' \in SUBSET AllPlugins, quiet' \in BOOLEAN,
           holder' \in {0, t} \cup {holder},
           holder \in Threads \ {t} =>
             holder' = holder /\ settings' = settings /\ quiet' = quiet,
           j.at # "free" <=> holder' = t,
           j.at = "locked" => settings' = {} /\ ~quiet',
           j.at = "scanning" => settings' = j.plugins /\ j.saved = {} /\ ~j.wasQuiet,
           holder' = 0 => settings' = {} /\ ~quiet'
    PROVE  RedactInv'
<1>1. RedactTypeOK'
  BY DEF RedactInv, RedactTypeOK
<1>2. ASSUME NEW s \in Threads PROVE Cleaned(scan'[s], capsule'[s]) /\ Turn(s)'
  <2>1. CASE s = t
    <3>1. scan'[s] = j /\ capsule'[s] = c
      BY <2>1 DEF RedactInv, RedactTypeOK
    <3> QED BY <3>1, <2>1 DEF Turn
  <2>2. CASE s # t
    <3>1. scan'[s] = scan[s] /\ capsule'[s] = capsule[s]
      BY <2>2 DEF RedactInv, RedactTypeOK
    <3>2. Cleaned(scan[s], capsule[s]) /\ Turn(s)
      BY DEF RedactInv
    <3>3. holder' = s <=> holder = s
      BY <2>2
    <3>4. holder = s => settings' = settings /\ quiet' = quiet
      BY <2>2
    <3> QED BY <3>1, <3>2, <3>3, <3>4 DEF Turn
  <2> QED BY <2>1, <2>2
<1> QED BY <1>1, <1>2 DEF RedactInv
-----------------------------------------------------------------------------
\* What the thread that moves is, before it moves.
LEMMA OwnPart ==
    ASSUME RedactInv, NEW t \in Threads
    PROVE  /\ scan[t] \in Jobs /\ capsule[t] \in [Fields -> SUBSET Kinds]
           /\ Cleaned(scan[t], capsule[t]) /\ Turn(t)
           /\ holder = 0 => settings = {} /\ ~quiet
           /\ settings \in SUBSET AllPlugins /\ quiet \in BOOLEAN /\ holder \in Threads \cup {0}
           /\ capsule = [capsule EXCEPT ![t] = capsule[t]]
  BY DEF RedactInv, RedactTypeOK

LEMMA PassOverKeeps ==
    ASSUME RedactInv, 0 \notin Threads, NEW t \in Threads, PassOver(t)
    PROVE  RedactInv'
<1> DEFINE f == Field(t)
           j == [scan[t] EXCEPT !.todo = Tail(@)]
           c == IF SensitiveKey(f) THEN [capsule[t] EXCEPT ![f] = {}] ELSE capsule[t]
<1>1. scan[t].at = "free" /\ scan[t].todo # <<>> /\ Skipped(t) /\ scan[t].phase # "text"
  BY PayloadFields DEF PassOver, Unheld, Skipped, SensitiveKey
<1>2. f \in Fields /\ Tail(scan[t].todo) \in Seq(Fields)
      /\ \A g : g \notin FieldsOf(Tail(scan[t].todo)) => g = f \/ g \notin FieldsOf(scan[t].todo)
  BY OwnPart, TodoTail, <1>1 DEF Jobs, Field
<1>3. j \in Jobs /\ j.phase = scan[t].phase /\ j.at = "free" /\ j.todo = Tail(scan[t].todo)
      /\ j.plugins = scan[t].plugins /\ j.keys = scan[t].keys
  BY OwnPart, <1>1, <1>2 DEF Jobs
<1>4. c \in [Fields -> SUBSET Kinds]
      /\ \A g \in Fields : c[g] \subseteq capsule[t][g] /\ (g = f => c[g] = {})
  BY OwnPart, <1>1, <1>2 DEF Skipped, ValidGenerated, SensitiveKey, Cleaned, Field
<1>5. Cleaned(j, c)
  BY OwnPart, <1>1, <1>2, <1>3, <1>4, PayloadFields DEF Cleaned
<1>6. scan' = [scan EXCEPT ![t] = j] /\ capsule' = [capsule EXCEPT ![t] = c]
  BY OwnPart DEF PassOver, MoveScan
<1>7. UNCHANGED <<settings, quiet, holder>>
  BY DEF PassOver
<1> HIDE DEF j, c
<1> QED BY OneMoves, OwnPart, <1>1, <1>3, <1>4, <1>5, <1>6, <1>7 DEF Turn
LEMMA TakeScannerKeeps ==
    ASSUME RedactInv, 0 \notin Threads, NEW t \in Threads, TakeScanner(t)
    PROVE  RedactInv'
<1> DEFINE f == Field(t)
           j == [scan[t] EXCEPT !.at = "locked"]
           c == IF scan[t].phase = "residual" THEN capsule[t]
                ELSE [capsule[t] EXCEPT ![f] = ApplyPatterns(@)]
<1>1. /\ scan[t].phase \in {"text", "structure", "residual"} /\ scan[t].at = "free"
      /\ scan[t].todo # <<>> /\ holder = 0 /\ holder' = t
  BY DEF TakeScanner, Unheld
<1>2. f \in Fields
  BY OwnPart, TodoTail, <1>1 DEF Jobs, Field
<1>3. j \in Jobs /\ j.phase = scan[t].phase /\ j.at = "locked" /\ j.todo = scan[t].todo
      /\ j.plugins = scan[t].plugins /\ j.keys = scan[t].keys
  BY OwnPart DEF Jobs
<1>4. c \in [Fields -> SUBSET Kinds] /\ \A g \in Fields : c[g] \subseteq capsule[t][g]
  BY OwnPart, <1>2 DEF ApplyPatterns
<1>5. "pattern" \notin c[f]
  BY OwnPart, <1>1, <1>2 DEF ApplyPatterns, Cleaned
<1>6. Cleaned(j, c)
  <2>1. c["sha256"] = {}
    BY OwnPart, <1>4, PayloadFields DEF Cleaned
  <2> HIDE DEF j, c
  <2> QED BY OwnPart, <1>1, <1>3, <1>4, <1>5, <2>1, PayloadFields DEF Cleaned, Field
<1>7. scan' = [scan EXCEPT ![t] = j] /\ capsule' = [capsule EXCEPT ![t] = c]
  BY OwnPart DEF TakeScanner, MoveScan
<1>8. UNCHANGED <<settings, quiet>>
  BY DEF TakeScanner
<1> HIDE DEF j, c
<1> QED BY OneMoves, OwnPart, <1>1, <1>3, <1>4, <1>6, <1>7, <1>8

LEMMA EnterSettingsKeeps ==
    ASSUME RedactInv, 0 \notin Threads, NEW t \in Threads, EnterSettings(t)
    PROVE  RedactInv'
<1> DEFINE j == [scan[t] EXCEPT !.saved = settings, !.wasQuiet = quiet, !.at = "scanning"]
<1>1. scan[t].at = "locked" /\ holder = t /\ settings = {} /\ ~quiet
  BY OwnPart DEF EnterSettings, Turn
<1>2. j \in Jobs /\ j.phase = scan[t].phase /\ j.at = "scanning" /\ j.todo = scan[t].todo
      /\ j.plugins = scan[t].plugins /\ j.keys = scan[t].keys /\ j.saved = {} /\ ~j.wasQuiet
  BY OwnPart, <1>1 DEF Jobs
<1>3. settings' = j.plugins /\ settings' \in SUBSET AllPlugins /\ quiet' /\ quiet' \in BOOLEAN
  BY OwnPart, <1>2 DEF EnterSettings, Jobs, AllPlugins
<1>4. scan' = [scan EXCEPT ![t] = j] /\ capsule' = [capsule EXCEPT ![t] = capsule[t]]
      /\ holder' = holder
  BY OwnPart DEF EnterSettings, MoveScan
<1> HIDE DEF j
<1>5. Cleaned(j, capsule[t])
  BY OwnPart, <1>1, <1>2 DEF Cleaned
<1> QED BY OneMoves, OwnPart, <1>1, <1>2, <1>3, <1>4, <1>5

\* The thread that scans gives back what it found.
LEMMA Scanning ==
    ASSUME RedactInv, NEW t \in Threads, scan[t].at = "scanning"
    PROVE  /\ holder = t /\ settings = scan[t].plugins
           /\ scan[t].saved = {} /\ scan[t].wasQuiet = FALSE
           /\ scan[t].phase \in {"text", "structure", "residual"} /\ scan[t].todo # <<>>
  BY OwnPart DEF Turn, Cleaned, Jobs

LEMMA ScanFieldKeeps ==
    ASSUME RedactInv, 0 \notin Threads, NEW t \in Threads, ScanField(t)
    PROVE  RedactInv'
<1> DEFINE f == Field(t)
           j == [scan[t] EXCEPT !.at = "free", !.todo = Tail(@)]
           c == [capsule[t] EXCEPT ![f] = RedactResidual(@)]
<1>1. scan[t].at = "scanning"
  BY DEF ScanField
<1>2. f = Head(scan[t].todo) /\ f \in Fields /\ Tail(scan[t].todo) \in Seq(Fields)
      /\ \A g : g \notin FieldsOf(Tail(scan[t].todo)) => g = f \/ g \notin FieldsOf(scan[t].todo)
  BY OwnPart, TodoTail, Scanning, <1>1 DEF Jobs, Field
<1>3. j \in Jobs /\ j.phase = scan[t].phase /\ j.at = "free" /\ j.todo = Tail(scan[t].todo)
      /\ j.plugins = scan[t].plugins /\ j.keys = scan[t].keys
  BY OwnPart, <1>2 DEF Jobs
<1>0. scan[t].plugins \subseteq AllPlugins /\ "labelled" \notin scan[t].plugins
      /\ settings = scan[t].plugins
  <2>1. scan[t].plugins \in {AllPlugins, {"vendor"}}
    BY OwnPart DEF Jobs
  <2> QED BY Scanning, <1>1, <2>1 DEF AllPlugins
<1>4a. \A text : RedactResidual(text) = text \ scan[t].plugins
  BY <1>0 DEF RedactResidual, Shielded
<1>4b. c[f] = capsule[t][f] \ scan[t].plugins /\ \A g \in Fields : g # f => c[g] = capsule[t][g]
  BY OwnPart, <1>2, <1>4a
<1>4c. c \in [Fields -> SUBSET Kinds]
  BY OwnPart, <1>2, <1>4a
<1>4. /\ c \in [Fields -> SUBSET Kinds] /\ c[f] = capsule[t][f] \ scan[t].plugins
      /\ \A g \in Fields : c[g] \subseteq capsule[t][g]
  BY <1>4b, <1>4c
<1>5. "pattern" \notin capsule[t][f]
  BY OwnPart, <1>1, <1>2 DEF Cleaned
<1>6. /\ scan[t].phase = "text" => c[f] \subseteq {"labelled"}
      /\ scan[t].phase = "structure" => c[f] \subseteq {"entropy", "labelled"}
  BY OwnPart, <1>2, <1>4, <1>5 DEF Cleaned, AllPlugins, Kinds
<1>7. scan' = [scan EXCEPT ![t] = j] /\ capsule' = [capsule EXCEPT ![t] = c]
  BY OwnPart DEF ScanField, MoveScan
<1>8. settings' = {} /\ quiet' = FALSE /\ holder' = 0
  BY Scanning, <1>1 DEF ScanField, LeaveSettings
<1> HIDE DEF j, c
<1>9. Cleaned(j, c)
  BY OwnPart, Scanning, <1>1, <1>2, <1>3, <1>4, <1>6, PayloadFields DEF Cleaned
<1> QED BY OneMoves, OwnPart, Scanning, <1>1, <1>3, <1>4, <1>7, <1>8, <1>9

LEMMA ScannerFailsKeeps ==
    ASSUME RedactInv, 0 \notin Threads, NEW t \in Threads, ScannerFails(t)
    PROVE  RedactInv'
<1> DEFINE j == [scan[t] EXCEPT !.at = "free", !.phase = "refused"]
<1>1. scan[t].at = "scanning" /\ settings' = {} /\ quiet' = FALSE /\ holder' = 0
  BY Scanning DEF ScannerFails, LeaveSettings
<1>2. j \in Jobs /\ j.phase = "refused" /\ j.at = "free"
  BY OwnPart DEF Jobs, Phases
<1>3. scan' = [scan EXCEPT ![t] = j] /\ capsule' = [capsule EXCEPT ![t] = capsule[t]]
  BY OwnPart DEF ScannerFails, MoveScan
<1> HIDE DEF j
<1>4. Cleaned(j, capsule[t])
  BY OwnPart, <1>2 DEF Cleaned
<1> QED BY OneMoves, OwnPart, Scanning, <1>1, <1>2, <1>3, <1>4

\* A thread between two passes does not hold the scanner, and takes a next one.
LEMMA PhaseMoves ==
    ASSUME RedactInv, 0 \notin Threads, NEW t \in Threads, NEW j \in Jobs,
           scan[t].at = "free", j.at = "free", Cleaned(j, capsule[t]),
           scan' = [scan EXCEPT ![t] = j], UNCHANGED <<capsule, settings, quiet, holder>>
    PROVE  RedactInv'
<1>1. holder # t
  BY OwnPart DEF Turn
<1> QED BY OneMoves, OwnPart, <1>1

LEMMA PassEnds ==
    ASSUME RedactInv, 0 \notin Threads, NEW t \in Threads,
           RefuseKeys(t) \/ RedactPublicPayload(t) \/ ScanResidualOutbound(t) \/ Deliver(t)
    PROVE  RedactInv'
<1>1. scan[t].todo = <<>> /\ scan[t].at = "free" /\ FieldsOf(scan[t].todo) = {}
  BY OwnPart DEF RefuseKeys, RedactPublicPayload, ScanResidualOutbound, Deliver, Cleaned, FieldsOf,
                 Jobs
<1>2. CASE RefuseKeys(t)
  <2> DEFINE j == [scan[t] EXCEPT !.phase = "refused"]
  <2>1. j \in Jobs /\ j.phase = "refused" /\ j.at = "free" /\ scan' = [scan EXCEPT ![t] = j]
    BY OwnPart, <1>1, <1>2 DEF RefuseKeys, MoveScan, Jobs, Phases
  <2> HIDE DEF j
  <2>2. Cleaned(j, capsule[t])
    BY OwnPart, <2>1 DEF Cleaned
  <2> QED BY PhaseMoves, <1>1, <1>2, <2>1, <2>2 DEF RefuseKeys
<1>3. CASE RedactPublicPayload(t)
  <2> DEFINE j == [scan[t] EXCEPT !.phase = "structure", !.todo = Payload, !.plugins = {"vendor"}]
  <2>1. j \in Jobs /\ j.phase = "structure" /\ j.at = "free" /\ scan' = [scan EXCEPT ![t] = j]
        /\ j.plugins = {"vendor"} /\ j.keys = scan[t].keys /\ j.todo = Payload
    BY OwnPart, PayloadFields, <1>1, <1>3 DEF RedactPublicPayload, MoveScan, Jobs, Phases
  <2>2. "pattern" \notin scan[t].keys /\ scan[t].phase = "text"
    BY OwnPart, <1>3 DEF RedactPublicPayload, KeysSafe, ApplyPatterns, Jobs
  <2>3. FieldsOf(j.todo) = Fields
    BY <2>1 DEF Fields
  <2> HIDE DEF j
  <2>4. Cleaned(j, capsule[t])
    BY OwnPart, <1>1, <2>1, <2>2, <2>3 DEF Cleaned
  <2> QED BY PhaseMoves, <1>1, <1>3, <2>1, <2>4 DEF RedactPublicPayload
<1>4. CASE ScanResidualOutbound(t)
  <2> DEFINE j == [scan[t] EXCEPT !.phase = "residual", !.todo = Payload]
  <2>1. j \in Jobs /\ j.phase = "residual" /\ j.at = "free" /\ scan' = [scan EXCEPT ![t] = j]
        /\ j.plugins = scan[t].plugins /\ j.keys = scan[t].keys
    BY ZenonT(60), OwnPart, PayloadFields, <1>1, <1>4 DEF ScanResidualOutbound, MoveScan, Jobs, Phases
  <2>2. scan[t].phase = "structure"
    BY <1>4 DEF ScanResidualOutbound
  <2> HIDE DEF j
  <2>3. Cleaned(j, capsule[t])
    BY OwnPart, <1>1, <2>1, <2>2 DEF Cleaned
  <2> QED BY PhaseMoves, <1>1, <1>4, <2>1, <2>3 DEF ScanResidualOutbound
<1>5. CASE Deliver(t)
  <2> DEFINE j == [scan[t] EXCEPT !.phase = "sent"]
  <2>1. j \in Jobs /\ j.phase = "sent" /\ j.at = "free" /\ scan' = [scan EXCEPT ![t] = j]
        /\ j.plugins = scan[t].plugins /\ j.keys = scan[t].keys
    BY OwnPart, <1>1, <1>5 DEF Deliver, MoveScan, Jobs, Phases
  <2>2. scan[t].phase = "residual"
    BY <1>5 DEF Deliver
  <2> HIDE DEF j
  <2>3. Cleaned(j, capsule[t])
    BY OwnPart, <2>1, <2>2 DEF Cleaned
  <2> QED BY PhaseMoves, <1>1, <1>5, <2>1, <2>3 DEF Deliver
<1> QED BY <1>2, <1>3, <1>4, <1>5

(***************************************************************************)
(* RedactInv is kept by any number of threads that redact their capsules   *)
(* with one scanner, whatever their texts hold (redact_capsule).           *)
(***************************************************************************)
THEOREM RedactInvariant ==
    ASSUME Texts \subseteq SUBSET Kinds, KeyTexts \subseteq SUBSET Kinds, 0 \notin Threads
    PROVE  RedactSpec => []RedactInv
<1>1. RedactInit => RedactInv
  BY RedactStarts
<1>2. RedactInv /\ [RedactNext]_redactVars => RedactInv'
  <2> SUFFICES ASSUME RedactInv, [RedactNext]_redactVars PROVE RedactInv'
    OBVIOUS
  <2>1. CASE RedactNext
    <3>1. PICK t \in Threads :
             \/ PassOver(t) \/ TakeScanner(t) \/ EnterSettings(t) \/ ScanField(t) \/ ScannerFails(t)
             \/ RefuseKeys(t) \/ RedactPublicPayload(t) \/ ScanResidualOutbound(t) \/ Deliver(t)
      BY <2>1 DEF RedactNext
    <3> QED BY <3>1, PassOverKeeps, TakeScannerKeeps, EnterSettingsKeeps, ScanFieldKeeps,
               ScannerFailsKeeps, PassEnds
  <2>2. CASE UNCHANGED redactVars
    BY <2>2 DEF redactVars, RedactInv, RedactTypeOK, Turn
  <2> QED BY <2>1, <2>2
<1>3. QED
  BY <1>1, <1>2, PTL DEF RedactSpec

(***************************************************************************)
(* For any number of threads, any texts and any keys, a capsule is sent    *)
(* with nothing a configured detector finds in its free text but what was  *)
(* shielded from it, no pattern in its keys and no vendor's secret         *)
(* anywhere, and the scanner is given back as it was found                 *)
(* (_redact_public_capsule_payload): CapsuleRedaction.NothingLeaks.        *)
(***************************************************************************)
THEOREM CapsulesLeakNothing ==
    ASSUME Texts \subseteq SUBSET Kinds, KeyTexts \subseteq SUBSET Kinds, 0 \notin Threads
    PROVE  RedactSpec => []NothingLeaks
<1>1. RedactInv => NothingLeaks
  BY PayloadFields DEF RedactInv, Cleaned, NothingLeaks, Fields
<1>2. QED
  BY <1>1, RedactInvariant, PTL
-----------------------------------------------------------------------------
(***************************************************************************)
(* The probe of a provider.  A reading that differs from the one before it *)
(* costs a change, and one that agrees again with the first a second.      *)
(***************************************************************************)
Labels == {"read", "load", "reread", "before", "contract", "plan", "execute", "after",
           "operational", "validate", "report", "reported", "ended"}
Probes == [pc : Labels, declared : Nat, effective : Nat, before : Nat, after : Nat,
           command : {"none", "inspected"}, ran : {"none", "inspected", "another"},
           output : {"none", "marker", "other"},
           outcome : {"none", "completed", "timeout", "raised"}]
Reports == [status : {"none", "compatible", "incompatible", "indeterminate"},
            declared : Nat, effective : Nat, identity : Nat]

ProbeTypeOK ==
    /\ file \in Nat /\ probeChanges \in Nat /\ model \in Nat
    /\ probe \in Probes /\ report \in Reports
    /\ truth \in [read : BOOLEAN, model : Nat, fileMoves : Nat, modelMoves : Nat]

\* What the probe knows in each of its phases.
Known(p) ==
    /\ p.pc = "load" /\ p.declared # file => truth.fileMoves >= 1
    /\ p.pc = "reread" /\ p.declared # p.effective =>
         truth.fileMoves >= 1 /\ (file # p.effective => truth.fileMoves >= 2)
    /\ p.pc \in {"before", "plan", "execute", "after", "validate", "report"} =>
         (p.declared # p.effective => truth.fileMoves >= 2)
    /\ p.pc \in {"plan", "execute"} /\ p.before \notin {0, model} => truth.modelMoves >= 1
    /\ p.pc = "after" /\ p.before \notin {0, truth.model} =>
         truth.modelMoves >= 1 /\ (model # truth.model => truth.modelMoves >= 2)
    /\ p.pc \in {"validate", "report"} =>
         (p.before = p.after /\ p.before \notin {0, truth.model} => truth.modelMoves >= 2)
    /\ p.pc \in {"after", "validate", "report"} => (p.output = "marker" => truth.read)
    /\ p.pc \notin {"contract", "operational", "reported", "ended"} => report = NoReport

ProbeInv == ProbeTypeOK /\ Known(probe) /\ ReportIsBound

\* A step of the probe that changes nothing but what it knows.
LEMMA ProbeMoves ==
    ASSUME ProbeInv, NEW p \in Probes, MoveProbe(p), Known(p), UNCHANGED <<truth, report>>
    PROVE  ProbeInv'
  BY DEF ProbeInv, ProbeTypeOK, Known, ReportIsBound, MoveProbe, World

\* The fields of a record of the probe.
LEMMA ProbeFields ==
    ASSUME NEW p \in Probes
    PROVE  /\ p.declared \in Nat /\ p.effective \in Nat /\ p.before \in Nat /\ p.after \in Nat
           /\ \A l \in Labels : [p EXCEPT !.pc = l] \in Probes /\ [p EXCEPT !.pc = l].pc = l
  BY DEF Probes

\* What Ollama answers is a version.
LEMMA IdentityIsNat == ASSUME ProbeInv PROVE \A id \in {model, 0} : id \in Nat
<1>1. model \in Nat
  BY DEF ProbeInv, ProbeTypeOK
<1> QED BY <1>1

LEMMA ReadDeclaredKeeps == ASSUME ProbeInv, ReadDeclared PROVE ProbeInv'
<1>1. PICK p : p = [probe EXCEPT !.pc = "load", !.declared = file]
  OBVIOUS
<1>2. p \in Probes /\ p.pc = "load" /\ p.declared = file
  BY <1>1 DEF ProbeInv, ProbeTypeOK, Probes, Labels
<1>3. Known(p)
  BY <1>2 DEF Known, ProbeInv, ProbeTypeOK, ReadDeclared
<1> QED BY <1>1, <1>2, <1>3, ProbeMoves DEF ReadDeclared

LEMMA LoadConfigKeeps == ASSUME ProbeInv, LoadConfig PROVE ProbeInv'
<1>1. PICK p : p = [probe EXCEPT !.pc = "reread", !.effective = file]
  OBVIOUS
<1>2. p \in Probes /\ p.pc = "reread" /\ p.effective = file /\ p.declared = probe.declared
  BY <1>1 DEF ProbeInv, ProbeTypeOK, Probes, Labels
<1>3. Known(p)
  BY <1>2 DEF Known, ProbeInv, ProbeTypeOK, LoadConfig
<1> QED BY <1>1, <1>2, <1>3, ProbeMoves DEF LoadConfig

LEMMA RereadDeclaredKeeps == ASSUME ProbeInv, RereadDeclared PROVE ProbeInv'
<1>1. PICK p : p = [probe EXCEPT !.pc = IF SameConfig THEN "before" ELSE "contract"]
  OBVIOUS
<1>2. p \in Probes /\ p.pc = (IF SameConfig THEN "before" ELSE "contract")
      /\ p.declared = probe.declared /\ p.effective = probe.effective
      /\ p.declared \in Nat /\ p.effective \in Nat
  BY <1>1 DEF ProbeInv, ProbeTypeOK, Probes, Labels
<1>3. Known(p)
  BY <1>2 DEF Known, ProbeInv, ProbeTypeOK, RereadDeclared, SameConfig
<1> QED BY <1>1, <1>2, <1>3, ProbeMoves DEF RereadDeclared

LEMMA CaptureBeforeKeeps == ASSUME ProbeInv, CaptureBefore PROVE ProbeInv'
<1>1. PICK id \in {model, 0} : MoveProbe([probe EXCEPT !.pc = "plan", !.before = id])
  BY DEF CaptureBefore, CaptureModelIdentity
<1>2. PICK p : p = [probe EXCEPT !.pc = "plan", !.before = id]
  OBVIOUS
<1>3. p \in Probes /\ p.pc = "plan" /\ p.before = id
      /\ p.declared = probe.declared /\ p.effective = probe.effective
  BY <1>2, IdentityIsNat DEF ProbeInv, ProbeTypeOK, Probes, Labels
<1>4. Known(p)
  BY <1>3 DEF Known, ProbeInv, ProbeTypeOK, CaptureBefore
<1> QED BY <1>1, <1>2, <1>3, <1>4, ProbeMoves DEF CaptureBefore

LEMMA PublicPlanKeeps == ASSUME ProbeInv, PublicPlan PROVE ProbeInv'
<1>1. PICK sound \in BOOLEAN :
         MoveProbe(IF sound THEN [probe EXCEPT !.pc = "execute", !.command = "inspected"]
              ELSE [probe EXCEPT !.pc = "contract"])
  BY DEF PublicPlan
<1>2. PICK p : p = IF sound THEN [probe EXCEPT !.pc = "execute", !.command = "inspected"]
                   ELSE [probe EXCEPT !.pc = "contract"]
  OBVIOUS
<1>3. p \in Probes /\ p.pc \in {"execute", "contract"} /\ p.before = probe.before
      /\ p.declared = probe.declared /\ p.effective = probe.effective
  BY <1>2 DEF ProbeInv, ProbeTypeOK, Probes, Labels
<1>4. Known(p)
  BY <1>3 DEF Known, ProbeInv, ProbeTypeOK, PublicPlan
<1> QED BY <1>1, <1>2, <1>3, <1>4, ProbeMoves DEF PublicPlan

\* The model that runs is the one of that moment.
LEMMA ExecuteCommandKeeps == ASSUME ProbeInv, ExecuteCommand PROVE ProbeInv'
<1>1. PICK outcome \in {"completed", "timeout", "raised"}, read \in BOOLEAN,
           ran \in {"inspected", "another"} :
         /\ MoveProbe([probe EXCEPT !.pc = IF outcome = "raised" THEN "operational" ELSE "after",
                    !.outcome = outcome, !.ran = ran,
                    !.output = IF read /\ outcome = "completed" THEN "marker" ELSE "other"])
         /\ truth' = [truth EXCEPT !.read = read /\ outcome = "completed", !.model = model]
  BY DEF ExecuteCommand
<1>0. PICK next \in {"operational", "after"}, output \in {"marker", "other"} :
         /\ next = IF outcome = "raised" THEN "operational" ELSE "after"
         /\ output = IF read /\ outcome = "completed" THEN "marker" ELSE "other"
  OBVIOUS
<1>2. PICK p : p = [probe EXCEPT !.pc = next, !.outcome = outcome, !.ran = ran,
                                 !.output = output]
  OBVIOUS
<1>3a. /\ p \in Probes /\ p.pc = next /\ p.before = probe.before /\ p.output = output
       /\ p.declared = probe.declared /\ p.effective = probe.effective
  BY ZenonT(60), <1>2 DEF ProbeInv, ProbeTypeOK, Probes, Labels
<1>3. /\ p \in Probes /\ p.pc \in {"operational", "after"} /\ p.before = probe.before
      /\ p.declared = probe.declared /\ p.effective = probe.effective
      /\ p.output = "marker" => read /\ outcome = "completed"
  BY <1>0, <1>3a
<1>4. truth'.model = model /\ (read /\ outcome = "completed" => truth'.read)
      /\ truth'.fileMoves = truth.fileMoves /\ truth'.modelMoves = truth.modelMoves
      /\ truth' \in [read : BOOLEAN, model : Nat, fileMoves : Nat, modelMoves : Nat]
  BY <1>1, IdentityIsNat DEF ProbeInv, ProbeTypeOK
<1>5. report = NoReport /\ report' = report /\ probe' = p /\ UNCHANGED <<file, model, probeChanges>>
  BY <1>0, <1>1, <1>2 DEF ProbeInv, Known, ExecuteCommand, MoveProbe, World
<1>6. Known(p)'
  BY <1>3, <1>4, <1>5 DEF Known, ProbeInv, ProbeTypeOK, ExecuteCommand
<1>7. ProbeTypeOK'
  BY <1>3, <1>4, <1>5 DEF ProbeInv, ProbeTypeOK
<1> QED BY <1>5, <1>6, <1>7 DEF ProbeInv, ReportIsBound

LEMMA CaptureAfterKeeps == ASSUME ProbeInv, CaptureAfter PROVE ProbeInv'
<1>1. PICK id \in {model, 0} : MoveProbe([probe EXCEPT !.pc = "validate", !.after = id])
  BY DEF CaptureAfter, CaptureModelIdentity
<1>2. PICK p : p = [probe EXCEPT !.pc = "validate", !.after = id]
  OBVIOUS
<1>3. p \in Probes /\ p.pc = "validate" /\ p.after = id /\ p.before = probe.before
      /\ p.declared = probe.declared /\ p.effective = probe.effective /\ p.output = probe.output
  BY <1>2, IdentityIsNat DEF ProbeInv, ProbeTypeOK, Probes, Labels
<1>4. Known(p)
  BY <1>3 DEF Known, ProbeInv, ProbeTypeOK, CaptureAfter
<1> QED BY <1>1, <1>2, <1>3, <1>4, ProbeMoves DEF CaptureAfter

LEMMA ValidateResultKeeps == ASSUME ProbeInv, ValidateResult PROVE ProbeInv'
<1>1. PICK p : p = [probe EXCEPT !.pc = IF probe.ran = probe.command THEN "report" ELSE "contract"]
  OBVIOUS
<1>2. p \in Probes /\ p.pc \in {"report", "contract"} /\ p.before = probe.before
      /\ p.declared = probe.declared /\ p.effective = probe.effective /\ p.output = probe.output
      /\ p.after = probe.after
  BY <1>1 DEF ProbeInv, ProbeTypeOK, Probes, Labels
<1>3. Known(p)
  BY <1>2 DEF Known, ProbeInv, ProbeTypeOK, ValidateResult
<1> QED BY <1>1, <1>2, <1>3, ProbeMoves DEF ValidateResult

LEMMA WriteReportKeeps == ASSUME ProbeInv, WriteReport PROVE ProbeInv'
<1>1. CASE /\ report' = [status |-> Verdict, declared |-> probe.declared,
                         effective |-> probe.effective, identity |-> ReconcileModelIdentity]
           /\ MoveProbe([probe EXCEPT !.pc = "reported"])
  <2>1. probe' \in Probes /\ probe'.pc = "reported"
    BY <1>1 DEF ProbeInv, ProbeTypeOK, Probes, Labels, MoveProbe
  <2>2. (probe.declared # probe.effective => truth.fileMoves >= 2)
        /\ (probe.output = "marker" => truth.read)
        /\ (probe.before = probe.after /\ probe.before \notin {0, truth.model} => truth.modelMoves >= 2)
    BY DEF ProbeInv, Known, WriteReport
  <2>3. Verdict \in {"compatible", "incompatible", "indeterminate"}
        /\ (Verdict = "compatible" => probe.output = "marker")
    BY DEF Verdict
  <2>4. ReconcileModelIdentity \in Nat
        /\ (ReconcileModelIdentity # 0 => ReconcileModelIdentity = probe.before /\ probe.before = probe.after)
    BY ProbeFields DEF ReconcileModelIdentity, ProbeInv, ProbeTypeOK
  <2>5. report' \in Reports
    BY <1>1, <2>3, <2>4, ProbeFields DEF Reports, ProbeInv, ProbeTypeOK
  <2>6. UNCHANGED <<truth, file, model, probeChanges>>
    BY <1>1 DEF WriteReport, MoveProbe, World
  <2>7. ReportIsBound'
    BY <1>1, <2>2, <2>3, <2>4, <2>6 DEF ReportIsBound
  <2> QED BY <2>1, <2>5, <2>6, <2>7 DEF ProbeInv, ProbeTypeOK, Known
<1>2. CASE UNCHANGED report /\ MoveProbe([probe EXCEPT !.pc = "operational"])
  <2>1. [probe EXCEPT !.pc = "operational"] \in Probes
        /\ [probe EXCEPT !.pc = "operational"].pc = "operational"
    BY ProbeFields DEF ProbeInv, ProbeTypeOK, Labels
  <2>2. Known([probe EXCEPT !.pc = "operational"])
    BY <2>1 DEF Known
  <2> QED BY <1>2, <2>1, <2>2, ProbeMoves DEF WriteReport
<1> QED BY <1>1, <1>2 DEF WriteReport

LEMMA EndProbeKeeps == ASSUME ProbeInv, EndProbe PROVE ProbeInv'
<1>1. PICK p : p = [Ready EXCEPT !.pc = "ended"]
  OBVIOUS
<1>2. p \in Probes /\ p.pc = "ended"
  BY <1>1 DEF Ready, Probes, Labels
<1>3. Known(p)
  BY <1>2 DEF Known
<1> QED BY <1>1, <1>2, <1>3, ProbeMoves DEF EndProbe

LEMMA WorldChangesKeeps == ASSUME ProbeInv, WorldChanges PROVE ProbeInv'
<1>1. file' \in Nat /\ model' \in Nat /\ probeChanges' \in Nat /\ UNCHANGED <<probe, report>>
  BY ContentsAssumption DEF WorldChanges, FileChanges, ModelChanges, ProbeInv, ProbeTypeOK
<1>2. /\ truth' \in [read : BOOLEAN, model : Nat, fileMoves : Nat, modelMoves : Nat]
      /\ truth'.read = truth.read /\ truth'.model = truth.model
      /\ truth'.fileMoves >= truth.fileMoves /\ truth'.modelMoves >= truth.modelMoves
  BY DEF WorldChanges, FileChanges, ModelChanges, ProbeInv, ProbeTypeOK
<1>3. /\ file' # file /\ probe.pc \in {"load", "reread"} => truth'.fileMoves = truth.fileMoves + 1
      /\ model' # model /\ probe.pc \in {"plan", "execute", "after"} =>
           truth'.modelMoves = truth.modelMoves + 1
  BY DEF WorldChanges, FileChanges, ModelChanges, ProbeInv, ProbeTypeOK
<1>4. truth.fileMoves \in Nat /\ truth.modelMoves \in Nat /\ truth'.fileMoves \in Nat
      /\ truth'.modelMoves \in Nat /\ Known(probe) /\ ReportIsBound
  BY <1>2 DEF ProbeInv, ProbeTypeOK
<1>5. Known(probe)'
  BY <1>1, <1>2, <1>3, <1>4 DEF Known
<1>6. ReportIsBound'
  BY <1>1, <1>2, <1>4 DEF ReportIsBound
<1> QED BY <1>1, <1>2, <1>5, <1>6 DEF ProbeInv, ProbeTypeOK

LEMMA ProbeSteps == ASSUME ProbeInv, ProbeNext PROVE ProbeInv'
  BY ReadDeclaredKeeps, LoadConfigKeeps, RereadDeclaredKeeps, CaptureBeforeKeeps, PublicPlanKeeps,
     ExecuteCommandKeeps, CaptureAfterKeeps, ValidateResultKeeps, WriteReportKeeps, EndProbeKeeps,
     WorldChangesKeeps DEF ProbeNext

(***************************************************************************)
(* A published report says "compatible" only of a marker that was read; it *)
(* is about the configuration that was loaded and the model that answered  *)
(* unless the file, or the model, changed and changed back between the two *)
(* readings of it, whatever else is rewritten (run_local_provider_probe):  *)
(* ProviderProbe.ReportIsBound.                                            *)
(***************************************************************************)
THEOREM ReportsAreBound == ProbeSpec => []ReportIsBound
<1>1. ProbeInit => ProbeInv
  BY ContentsAssumption DEF ProbeInit, ProbeInv, ProbeTypeOK, Probes, Labels, Reports, Known, Ready, NoReport,
         ReportIsBound
<1>2. ProbeInv /\ [ProbeNext]_probeVars => ProbeInv'
  <2>1. ProbeInv /\ UNCHANGED probeVars => ProbeInv'
    BY DEF ProbeInv, ProbeTypeOK, Known, ReportIsBound, probeVars
  <2> QED BY <2>1, ProbeSteps
<1>3. ProbeInv => ReportIsBound
  BY DEF ProbeInv
<1>4. QED
  BY <1>1, <1>2, <1>3, PTL DEF ProbeSpec

-----------------------------------------------------------------------------
(***************************************************************************)
(* The store of candidates.                                                *)
(***************************************************************************)
Snaps == [Files -> {0, 1}]
FileObjects(snap) == {FileObject(snap[f]) : f \in Files}
Objects == {FileObject(v) : v \in {0, 1}} \cup {Changeset(snap) : snap \in Snaps}
             \cup {Manifest(snap) : snap \in Snaps}
FlowKeys == {Key[s] : s \in Stagers}
Policies == [VaultVerifiers -> Nat]

Storing == {"put", "written", "linked", "open", "hashing"}
StagerPhases == {"idle", "snapshot", "stored", "create", "refused", "staged", "replayed", "dead"} \cup Storing
Entries == [pc : StagerPhases, snap : Snaps \cup {<<>>}, todo : Seq(Objects), linked : BOOLEAN,
            opened : {0, 1, 2}, disturbed : BOOLEAN]
Bindings == [content : Snaps \cup {<<>>}, policy : Policies \cup {<<>>}]
Envelopes == [verifier : VaultVerifiers, key : Nat, flow : FlowKeys,
              kind : {"verification", "evaluation"}, binding : Bindings, passed : BOOLEAN]
Flows == [made : BOOLEAN, binding : Bindings, atts : SUBSET Envelopes]
Applies == [pc : {"idle", "reverify", "read", "hashing", "refused", "materialized"},
            key : FlowKeys \cup {0}, trusted : SUBSET VaultVerifiers, todo : Seq(Objects),
            opened : {0, 1, 2}]

VaultTypeOK ==
    /\ cand \in [Stagers -> Snaps]
    /\ DOMAIN cas \subseteq Objects /\ \A o \in DOMAIN cas : cas[o] \in {1, 2}
    /\ st \in [Stagers -> Entries]
    /\ flow \in [FlowKeys -> Flows]
    /\ env \subseteq Envelopes
    /\ trust \in Policies
    /\ apply \in Applies

\* The objects of snap in the order they are stored, but for todo, are in the store.
Pending(todo, snap) ==
    /\ snap \in Snaps
    /\ Len(todo) <= Len(StoreOrder(snap))
    /\ \A i \in 1..Len(todo) : todo[i] = StoreOrder(snap)[Len(StoreOrder(snap)) - Len(todo) + i]
    /\ \A i \in 1..(Len(StoreOrder(snap)) - Len(todo)) : Stored(StoreOrder(snap)[i])

\* A read of the object o that began at this link count cannot look disturbed.
ReadSound(o, opened) == Stored(o) /\ opened \in {1, 2} /\ (opened = 1 => cas[o] = 1)

\* The key k is taken by another candidate, or by a policy that is out of date for good.
TakenByOther(k, snap) ==
    /\ flow[k].made
    /\ \/ flow[k].binding.content # snap
       \/ /\ flow[k].binding.policy \in Policies
          /\ \E v \in VaultVerifiers : flow[k].binding.policy[v] < trust[v]

\* What each phase of a stager with entry e and workspace c relies on.
StagerSound(s, e, c) ==
    /\ e.pc \in Storing \cup {"stored", "create"} => Pending(e.todo, e.snap)
    /\ e.pc \in Storing => e.todo # <<>>
    /\ e.pc \in {"stored", "create"} => e.todo = <<>>
    /\ e.pc \in {"linked", "open"} => Stored(Head(e.todo))
    /\ e.pc = "hashing" => ReadSound(Head(e.todo), e.opened)
    /\ e.pc \in Storing \cup {"stored", "create", "refused"} => e.disturbed \/ c = e.snap
    /\ e.pc = "refused" => e.disturbed \/ TakenByOther(Key[s], e.snap)

FlowSound(k) ==
    /\ IsFiniteSet(flow[k].atts)
    /\ flow[k].made =>
         /\ flow[k].binding.content \in Snaps
         /\ flow[k].binding.policy \in Policies
         /\ \A v \in VaultVerifiers : flow[k].binding.policy[v] <= trust[v]
         /\ \A o \in ToSet(StoreOrder(flow[k].binding.content)) : Stored(o)

ApplySound ==
    /\ apply.pc = "reverify" =>
         /\ apply.key \in FlowKeys /\ flow[apply.key].made
         /\ Cardinality({a.verifier : a \in flow[apply.key].atts}) >= VaultQuorum
    /\ apply.pc \in {"read", "hashing"} => \A i \in 1..Len(apply.todo) : Stored(apply.todo[i])
    /\ apply.pc = "hashing" => apply.todo # <<>> /\ ReadSound(Head(apply.todo), apply.opened)
    /\ MaterializedUnderTrust

\* A manifest is in the store only with what it names.
ManifestClosed ==
    \A snap \in Snaps : Stored(Manifest(snap)) => \A o \in ToSet(StoreOrder(snap)) : Stored(o)

VaultInv ==
    /\ VaultTypeOK
    /\ \A s \in Stagers : StagerSound(s, st[s], cand[s])
    /\ \A k \in FlowKeys : FlowSound(k)
    /\ ApplySound
    /\ ManifestClosed

-----------------------------------------------------------------------------
\* A candidate's objects: its files and changeset, and the manifest at the end only.
LEMMA StoreOrderType ==
    ASSUME NEW snap \in Snaps
    PROVE  /\ StoreOrder(snap) \in Seq(Objects)
           /\ Len(StoreOrder(snap)) \in Nat /\ Len(StoreOrder(snap)) >= 2
           /\ \A i \in 1..(Len(StoreOrder(snap)) - 1), x \in Snaps : StoreOrder(snap)[i] # Manifest(x)
           /\ StoreOrder(snap)[Len(StoreOrder(snap))] = Manifest(snap)
<1> DEFINE S == FileObjects(snap)
           q == SetToSeq(S)
           tail == <<Changeset(snap), Manifest(snap)>>
<1>1. S \subseteq {FileObject(0), FileObject(1)}
  BY DEF FileObjects, Snaps
<1>2. IsFiniteSet(S)
  <2>1. IsFiniteSet({FileObject(0)} \cup {FileObject(1)})
    <3>1. IsFiniteSet({} \cup {FileObject(0)})
      BY FS_EmptySet, FS_AddElement
    <3>2. {} \cup {FileObject(0)} = {FileObject(0)}
      OBVIOUS
    <3> QED BY <3>1, <3>2, FS_AddElement
  <2>2. S \in SUBSET ({FileObject(0)} \cup {FileObject(1)})
    BY <1>1
  <2> QED BY <2>1, <2>2, FS_Subset
<1>3. Cardinality(S) \in Nat /\ \E f \in [1..Cardinality(S) -> S] : IsInjective(f)
  BY <1>2, FS_CardinalityType DEF ExistsBijection, Bijection, Injection, IsInjective
<1>4. q \in [1..Cardinality(S) -> S]
  BY <1>3 DEF SetToSeq
<1> HIDE DEF S, q
<1>5. q \in Seq(S) /\ Len(q) = Cardinality(S)
  BY <1>3, <1>4, IsASeq
<1>6. S \subseteq Objects /\ Changeset(snap) \in Objects /\ Manifest(snap) \in Objects
  BY <1>1 DEF Objects, FileObject
<1>7. q \in Seq(Objects) /\ tail \in Seq(Objects) /\ Len(tail) = 2
  BY <1>5, <1>6
<1>8. StoreOrder(snap) = q \o tail
  BY DEF StoreOrder, FileObjects, q, S
<1>9. /\ q \o tail \in Seq(Objects) /\ Len(q \o tail) = Len(q) + 2 /\ Len(q) \in Nat
      /\ \A i \in 1..(Len(q) + 2) : (q \o tail)[i] = IF i <= Len(q) THEN q[i] ELSE tail[i - Len(q)]
  BY <1>7
<1>10. \A i \in 1..Len(q) : q[i] \in S
  BY <1>5
<1>11. \A x \in Snaps : Manifest(x) \notin S /\ Manifest(x) # Changeset(snap)
  BY <1>1 DEF FileObject, Manifest, Changeset
<1>12. tail[1] = Changeset(snap) /\ tail[2] = Manifest(snap)
  OBVIOUS
<1> HIDE DEF tail
<1>13. ASSUME NEW i \in 1..(Len(q) + 1), NEW x \in Snaps PROVE (q \o tail)[i] # Manifest(x)
  BY <1>9, <1>10, <1>11, <1>12
<1>14. (q \o tail)[Len(q) + 2] = Manifest(snap)
  BY <1>9, <1>12
<1> QED BY <1>8, <1>9, <1>13, <1>14

\* What is left once nothing is pending.
LEMMA NothingPending ==
    ASSUME NEW snap, Pending(<<>>, snap)
    PROVE  \A o \in ToSet(StoreOrder(snap)) : Stored(o)
<1>1. Len(StoreOrder(snap)) \in Nat /\ StoreOrder(snap) \in Seq(Objects)
  BY StoreOrderType DEF Pending
<1>2. \A i \in 1..Len(StoreOrder(snap)) : Stored(StoreOrder(snap)[i])
  BY <1>1 DEF Pending
<1> QED BY <1>1, <1>2 DEF ToSet

\* The first pending object: only a manifest that comes last has everything before it stored.
LEMMA PendingHead ==
    ASSUME NEW snap, NEW todo \in Seq(Objects), Pending(todo, snap), todo # <<>>
    PROVE  /\ Head(todo) \in Objects
           /\ \A x \in Snaps : Head(todo) = Manifest(x) =>
                /\ x = snap
                /\ \A o \in ToSet(StoreOrder(snap)) : Stored(o) \/ o = Head(todo)
<1> DEFINE full == StoreOrder(snap)
<1>1. /\ Len(full) \in Nat /\ full \in Seq(Objects) /\ Len(full) >= 2
      /\ \A i \in 1..(Len(full) - 1), x \in Snaps : full[i] # Manifest(x)
      /\ full[Len(full)] = Manifest(snap)
  BY StoreOrderType DEF Pending
<1>2. Len(todo) \in Nat /\ Len(todo) >= 1 /\ Head(todo) = todo[1] /\ Head(todo) \in Objects
  OBVIOUS
<1>3. Len(todo) <= Len(full) /\ todo[1] = full[Len(full) - Len(todo) + 1]
  BY <1>1, <1>2 DEF Pending
<1>4. \A i \in 1..(Len(full) - Len(todo)) : Stored(full[i])
  BY DEF Pending
<1>5. DOMAIN full = 1..Len(full)
  BY <1>1
<1> HIDE DEF full
<1>6. ASSUME NEW x \in Snaps, Head(todo) = Manifest(x)
      PROVE  x = snap /\ \A o \in ToSet(full) : Stored(o) \/ o = Head(todo)
  <2>1. Len(todo) = 1
    <3> SUFFICES ASSUME Len(todo) # 1 PROVE FALSE
      OBVIOUS
    <3>1. Len(full) - Len(todo) + 1 \in 1..(Len(full) - 1)
      <4>1. PICK m \in Nat : m = Len(full)
        BY <1>1
      <4>2. PICK k \in Nat : k = Len(todo)
        BY <1>2
      <4> QED BY <1>2, <1>3, <4>1, <4>2
    <3>2. full[Len(full) - Len(todo) + 1] # Manifest(x)
      BY <1>1, <3>1
    <3> QED BY <1>2, <1>3, <1>6, <3>2
  <2>2. Head(todo) = Manifest(snap)
    BY <1>1, <1>2, <1>3, <2>1
  <2>3. x = snap
    BY <2>2, <1>6 DEF Manifest
  <2> QED BY <1>1, <1>4, <1>5, <2>1, <2>2, <2>3 DEF ToSet
<1> QED BY <1>2, <1>6 DEF full

\* Once the first pending object is stored, the rest is pending.
LEMMA PendingTail ==
    ASSUME NEW snap, NEW todo \in Seq(Objects), Pending(todo, snap), todo # <<>>, Stored(Head(todo))
    PROVE  Tail(todo) \in Seq(Objects) /\ Pending(Tail(todo), snap)
           /\ (Len(todo) = 1 <=> Tail(todo) = <<>>)
<1> DEFINE full == StoreOrder(snap)
<1>1. Len(full) \in Nat /\ snap \in Snaps
  BY StoreOrderType DEF Pending
<1>2. /\ Len(todo) \in Nat /\ Len(todo) >= 1 /\ Head(todo) = todo[1]
      /\ Tail(todo) \in Seq(Objects) /\ Len(Tail(todo)) = Len(todo) - 1
      /\ \A i \in 1..(Len(todo) - 1) : Tail(todo)[i] = todo[i + 1]
  OBVIOUS
<1>3. /\ Len(todo) <= Len(full)
      /\ \A i \in 1..Len(todo) : todo[i] = full[Len(full) - Len(todo) + i]
      /\ \A i \in 1..(Len(full) - Len(todo)) : Stored(full[i])
  BY DEF Pending
<1> HIDE DEF full
<1>4. \A i \in 1..Len(Tail(todo)) : Tail(todo)[i] = full[Len(full) - Len(Tail(todo)) + i]
  BY <1>1, <1>2, <1>3
<1>5. \A i \in 1..(Len(full) - Len(Tail(todo))) : Stored(full[i])
  BY <1>1, <1>2, <1>3
<1>6. Len(todo) = 1 <=> Tail(todo) = <<>>
  <2>1. Tail(todo) = <<>> => Len(todo) = 1
    <3> DEFINE t == Tail(todo)
               n == Len(todo)
    <3>1. n \in Nat /\ Len(t) = n - 1
      BY <1>2
    <3>2. Len(<<>>) = 0
      OBVIOUS
    <3> HIDE DEF t, n
    <3>3. t = <<>> => n = 1
      BY <3>1, <3>2
    <3> QED BY <3>3 DEF t, n
  <2>2. Tail(todo) # <<>> => Len(Tail(todo)) \in Nat \ {0}
    BY <1>2, EmptySeq
  <2>3. Len(todo) = 1 => Len(Tail(todo)) = 0
    BY <1>2
  <2>4. Len(todo) = 1 => Tail(todo) = <<>>
    BY <2>2, <2>3
  <2> QED BY <2>1, <2>4
<1>7. Len(Tail(todo)) <= Len(full)
  BY <1>1, <1>2, <1>3
<1> QED BY <1>1, <1>2, <1>4, <1>5, <1>6, <1>7 DEF Pending, full

\* Nothing is pending of what has not begun.
LEMMA AllPending ==
    ASSUME NEW snap \in Snaps
    PROVE  StoreOrder(snap) # <<>> /\ Pending(StoreOrder(snap), snap)
<1>1. Len(StoreOrder(snap)) \in Nat /\ Len(StoreOrder(snap)) >= 2
  BY StoreOrderType
<1> QED BY <1>1 DEF Pending

-----------------------------------------------------------------------------
\* What no step takes back: objects stay stored and lose their private name only,
\* workflows stay as they were bound, keys only get newer.
Grows ==
    /\ \A o \in DOMAIN cas : o \in DOMAIN cas' /\ (cas[o] = 1 => cas'[o] = 1)
    /\ \A k \in FlowKeys : flow[k].made => flow'[k].made /\ flow'[k].binding = flow[k].binding
    /\ \A v \in VaultVerifiers : trust[v] <= trust'[v]

LEMMA StagerKept ==
    ASSUME VaultTypeOK, VaultTypeOK', Grows, NEW s \in Stagers, NEW e \in Entries, NEW c,
           StagerSound(s, e, c)
    PROVE  StagerSound(s, e, c)'
<1>1. ASSUME Pending(e.todo, e.snap) PROVE Pending(e.todo, e.snap)'
  <2>1. \A i \in 1..(Len(StoreOrder(e.snap)) - Len(e.todo)) :
           StoreOrder(e.snap)[i] \in DOMAIN cas => StoreOrder(e.snap)[i] \in DOMAIN cas'
    BY DEF Grows
  <2> QED BY <1>1, <2>1 DEF Pending, Stored
<1>2. Stored(Head(e.todo)) => Stored(Head(e.todo))'
  BY DEF Grows, Stored
<1>3. ASSUME ReadSound(Head(e.todo), e.opened) PROVE ReadSound(Head(e.todo), e.opened)'
  BY <1>3 DEF ReadSound, Grows, Stored
<1>4. ASSUME TakenByOther(Key[s], e.snap) PROVE TakenByOther(Key[s], e.snap)'
  <2> DEFINE k == Key[s]
  <2>1. k \in FlowKeys
    BY DEF FlowKeys
  <2>2. flow'[k].made /\ flow'[k].binding = flow[k].binding
    BY <1>4, <2>1 DEF Grows, TakenByOther
  <2>3. ASSUME flow[k].binding.policy \in Policies, NEW v \in VaultVerifiers,
               flow[k].binding.policy[v] < trust[v]
        PROVE  flow[k].binding.policy[v] < trust'[v]
    <3>1. flow[k].binding.policy[v] \in Nat /\ trust[v] \in Nat /\ trust'[v] \in Nat
      BY <2>3 DEF VaultTypeOK, Policies
    <3> QED BY <2>3, <3>1 DEF Grows
  <2> QED BY <1>4, <2>2, <2>3 DEF TakenByOther
<1> QED BY <1>1, <1>2, <1>3, <1>4 DEF StagerSound

LEMMA StagerStays ==
    ASSUME VaultTypeOK, VaultTypeOK', Grows, NEW x \in Stagers, StagerSound(x, st[x], cand[x]),
           st'[x] = st[x], cand'[x] = cand[x]
    PROVE  StagerSound(x, st[x], cand[x])'
<1>1. PICK e, c : e = st[x] /\ c = cand[x]
  OBVIOUS
<1>2. e \in Entries
  BY <1>1 DEF VaultTypeOK
<1>3. StagerSound(x, e, c)'
  BY <1>1, <1>2, StagerKept
<1> QED BY <1>1, <1>3

LEMMA FlowKept ==
    ASSUME VaultTypeOK, VaultTypeOK', Grows, NEW k \in FlowKeys, FlowSound(k), flow'[k] = flow[k]
    PROVE  FlowSound(k)'
<1>1. IsFiniteSet(flow'[k].atts)
  BY DEF FlowSound
<1>2. ASSUME flow[k].made
      PROVE  /\ \A v \in VaultVerifiers : flow[k].binding.policy[v] <= trust'[v]
             /\ \A o \in ToSet(StoreOrder(flow[k].binding.content)) : o \in DOMAIN cas'
  <2>1. ASSUME NEW v \in VaultVerifiers PROVE flow[k].binding.policy[v] <= trust'[v]
    <3>1. flow[k].binding.policy[v] \in Nat /\ trust[v] \in Nat /\ trust'[v] \in Nat
      BY <1>2 DEF VaultTypeOK, Policies, FlowSound
    <3>2. flow[k].binding.policy[v] <= trust[v] /\ trust[v] <= trust'[v]
      BY <1>2 DEF FlowSound, Grows
    <3> QED BY <3>1, <3>2
  <2> QED BY <1>2, <2>1 DEF FlowSound, Grows, Stored
<1> QED BY <1>1, <1>2 DEF FlowSound, Stored

LEMMA ApplyKept ==
    ASSUME VaultTypeOK, Grows, ApplySound, UNCHANGED apply,
           apply.pc = "reverify" => flow'[apply.key].atts = flow[apply.key].atts
    PROVE  ApplySound'
<1>1. ASSUME apply.pc = "reverify"
      PROVE  /\ apply.key \in FlowKeys /\ flow'[apply.key].made
             /\ Cardinality({a.verifier : a \in flow'[apply.key].atts}) >= VaultQuorum
  BY <1>1 DEF ApplySound, Grows
<1>2. ASSUME apply.pc \in {"read", "hashing"}
      PROVE  \A i \in 1..Len(apply.todo) : apply.todo[i] \in DOMAIN cas'
  BY <1>2 DEF ApplySound, Grows, Stored
<1>3. ASSUME apply.pc = "hashing"
      PROVE  /\ apply.todo # <<>> /\ Head(apply.todo) \in DOMAIN cas'
             /\ apply.opened \in {1, 2} /\ (apply.opened = 1 => cas'[Head(apply.todo)] = 1)
  BY <1>3 DEF ApplySound, Grows, ReadSound, Stored
<1>4. MaterializedUnderTrust'
  BY DEF ApplySound, MaterializedUnderTrust
<1> QED BY <1>1, <1>2, <1>3, <1>4 DEF ApplySound, ReadSound, Stored

\* A stager moves to the entry e and nothing is stored or recorded.
LEMMA StagerMoves ==
    ASSUME VaultInv, NEW s \in Stagers, NEW e \in Entries, Stage(s, e),
           StagerSound(s, e, cand[s]), UNCHANGED cas, Here
    PROVE  VaultInv'
<1> USE DEF VaultInv
<1>1. UNCHANGED <<cand, cas, flow, env, evals, trust, apply>>
  BY DEF Here
<1>2. st' \in [Stagers -> Entries] /\ st'[s] = e /\ \A x \in Stagers \ {s} : st'[x] = st[x]
  BY DEF Stage, VaultTypeOK
<1>3. VaultTypeOK'
  BY <1>1, <1>2 DEF VaultTypeOK
<1>4. Grows
  <2>1. \A v \in VaultVerifiers : trust[v] <= trust[v]
    BY DEF VaultTypeOK, Policies
  <2> QED BY <1>1, <2>1 DEF Grows
<1>5. ASSUME NEW x \in Stagers PROVE StagerSound(x, st[x], cand[x])'
  <2>1. CASE x = s
    <3>1. StagerSound(s, e, cand[s])'
      BY <1>3, <1>4, <1>1, StagerKept
    <3> QED BY <1>1, <1>2, <2>1, <3>1 DEF VaultTypeOK
  <2>2. CASE x # s
    <3>1. StagerSound(x, st[x], cand[x])
      OBVIOUS
    <3>2. st'[x] = st[x] /\ cand'[x] = cand[x]
      BY <1>1, <1>2, <2>2 DEF VaultTypeOK
    <3> QED BY <1>3, <1>4, <3>1, <3>2, StagerStays
  <2> QED BY <2>1, <2>2
<1>6. ASSUME NEW k \in FlowKeys PROVE FlowSound(k)'
  BY <1>1, <1>3, <1>4, FlowKept
<1>7. ApplySound'
  BY <1>1, <1>4, ApplyKept
<1>8. ManifestClosed'
  BY <1>1 DEF ManifestClosed, Stored
<1> QED BY <1>3, <1>5, <1>6, <1>7, <1>8

\* The entry of a stager, and what it relies on.
LEMMA EntryOf ==
    ASSUME VaultInv, NEW s \in Stagers
    PROVE  /\ st[s] \in Entries /\ StagerSound(s, st[s], cand[s])
           /\ cand[s] \in Snaps /\ Key[s] \in FlowKeys
BY DEF VaultInv, VaultTypeOK, FlowKeys

LEMMA Refused ==
    ASSUME VaultInv, NEW s \in Stagers, Refuse(s),
           st[s].pc \in Storing \cup {"stored", "create"},
           st[s].disturbed \/ TakenByOther(Key[s], st[s].snap)
    PROVE  VaultInv'
<1> DEFINE e == [st[s] EXCEPT !.pc = "refused"]
<1>1. st[s] \in Entries /\ StagerSound(s, st[s], cand[s])
  BY EntryOf
<1>2. e \in Entries /\ e.pc = "refused" /\ e.snap = st[s].snap /\ e.disturbed = st[s].disturbed
  BY <1>1 DEF Entries, StagerPhases
<1>3. Stage(s, e) /\ UNCHANGED cas /\ Here
  BY DEF Refuse, Stage
<1> HIDE DEF e
<1>4. StagerSound(s, e, cand[s])
  BY <1>1, <1>2 DEF StagerSound, Storing
<1> QED BY <1>2, <1>3, <1>4, StagerMoves

LEMMA FindReplayKeeps == ASSUME VaultInv, NEW s \in Stagers, FindReplay(s) PROVE VaultInv'
<1>1. st[s] \in Entries
  BY EntryOf
<1>2. ASSUME NEW p \in {"replayed", "snapshot"}, Stage(s, [st[s] EXCEPT !.pc = p])
      PROVE  VaultInv'
  <2> DEFINE e == [st[s] EXCEPT !.pc = p]
  <2>1. e \in Entries /\ e.pc = p
    BY <1>1 DEF Entries, StagerPhases
  <2>2. UNCHANGED cas /\ Here
    BY DEF FindReplay
  <2>3. Stage(s, e)
    BY <1>2
  <2> HIDE DEF e
  <2>4. StagerSound(s, e, cand[s])
    BY <2>1 DEF StagerSound, Storing
  <2> QED BY <2>1, <2>2, <2>3, <2>4, StagerMoves
<1> QED BY <1>2 DEF FindReplay

LEMMA SnapshotKeeps == ASSUME VaultInv, NEW s \in Stagers, SnapshotCandidate(s) PROVE VaultInv'
<1> DEFINE e == [st[s] EXCEPT !.pc = "put", !.snap = cand[s], !.todo = StoreOrder(cand[s])]
<1>1. st[s] \in Entries /\ cand[s] \in Snaps
  BY EntryOf
<1>2. StoreOrder(cand[s]) \in Seq(Objects) /\ StoreOrder(cand[s]) # <<>>
      /\ Pending(StoreOrder(cand[s]), cand[s])
  BY <1>1, StoreOrderType, AllPending
<1>3. e \in Entries /\ e.pc = "put" /\ e.snap = cand[s] /\ e.todo = StoreOrder(cand[s])
  BY <1>1, <1>2 DEF Entries, StagerPhases, Storing
<1>4. Stage(s, e) /\ UNCHANGED cas /\ Here
  BY DEF SnapshotCandidate
<1> HIDE DEF e
<1>5. StagerSound(s, e, cand[s])
  BY <1>2, <1>3 DEF StagerSound, Storing
<1> QED BY <1>3, <1>4, <1>5, StagerMoves

LEMMA PutBytesKeeps == ASSUME VaultInv, NEW s \in Stagers, PutBytes(s) PROVE VaultInv'
<1>1. st[s] \in Entries /\ StagerSound(s, st[s], cand[s]) /\ st[s].pc = "put"
  BY EntryOf DEF PutBytes
<1>2. CASE ReadCandidateFile(s, Head(st[s].todo))
  <2>1. PICK p : p = IF Stored(Head(st[s].todo)) THEN "open" ELSE "written"
    OBVIOUS
  <2> DEFINE e == [st[s] EXCEPT !.pc = p]
  <2>2. p \in {"open", "written"} /\ (p = "open" => Stored(Head(st[s].todo)))
    BY <2>1
  <2>3. /\ e \in Entries /\ e.pc = p /\ e.snap = st[s].snap /\ e.todo = st[s].todo
        /\ e.disturbed = st[s].disturbed
    BY <1>1, <2>2 DEF Entries, StagerPhases, Storing
  <2>4. Stage(s, e) /\ UNCHANGED cas /\ Here
    BY <1>2, <2>1 DEF PutBytes
  <2> HIDE DEF e
  <2>5. StagerSound(s, e, cand[s])
    BY <1>1, <2>2, <2>3 DEF StagerSound, Storing
  <2> QED BY <2>3, <2>4, <2>5, StagerMoves
<1>3. CASE ~ReadCandidateFile(s, Head(st[s].todo))
  <2>1. cand[s] # st[s].snap
    BY <1>3 DEF ReadCandidateFile
  <2>2. st[s].disturbed
    BY <1>1, <2>1 DEF StagerSound, Storing
  <2> QED BY <1>1, <1>3, <2>2, Refused DEF PutBytes, Storing
<1> QED BY <1>2, <1>3

LEMMA OpenArtifactKeeps == ASSUME VaultInv, NEW s \in Stagers, OpenArtifact(s) PROVE VaultInv'
<1> DEFINE o == Head(st[s].todo)
           e == [st[s] EXCEPT !.pc = "hashing", !.opened = cas[o]]
<1>1. st[s] \in Entries /\ StagerSound(s, st[s], cand[s]) /\ st[s].pc = "open"
  BY EntryOf DEF OpenArtifact
<1>2. Stored(o) /\ cas[o] \in {1, 2}
  BY <1>1 DEF StagerSound, Stored, VaultInv, VaultTypeOK
<1>3. /\ e \in Entries /\ e.pc = "hashing" /\ e.snap = st[s].snap /\ e.todo = st[s].todo
      /\ e.opened = cas[o] /\ e.disturbed = st[s].disturbed
  BY <1>1, <1>2 DEF Entries, StagerPhases, Storing
<1>4. Stage(s, e) /\ UNCHANGED cas /\ Here
  BY DEF OpenArtifact
<1>5. ReadSound(o, cas[o]) /\ o = Head(e.todo)
  BY <1>2, <1>3 DEF ReadSound
<1> HIDE DEF e, o
<1>6. StagerSound(s, e, cand[s])
  BY <1>1, <1>3, <1>5 DEF StagerSound, Storing
<1> QED BY <1>3, <1>4, <1>6, StagerMoves

\* A read that began soundly ends so.
LEMMA ReadStaysWhole ==
    ASSUME VaultTypeOK, NEW o, NEW opened, ReadSound(o, opened)
    PROVE  ~ChangedDuringRead(opened, cas[o])
BY DEF ReadSound, ChangedDuringRead, Stored, VaultTypeOK

LEMMA HashArtifactKeeps == ASSUME VaultInv, NEW s \in Stagers, HashArtifact(s) PROVE VaultInv'
<1>1. st[s] \in Entries /\ StagerSound(s, st[s], cand[s]) /\ st[s].pc = "hashing"
  BY EntryOf DEF HashArtifact
<1>2. ReadSound(Head(st[s].todo), st[s].opened)
  BY <1>1 DEF StagerSound
<1>3. ~ChangedDuringRead(st[s].opened, cas[Head(st[s].todo)])
  BY <1>2, ReadStaysWhole DEF VaultInv
<1>4. PICK p : p = IF Len(st[s].todo) = 1 THEN "stored" ELSE "put"
  OBVIOUS
<1>5. PICK todo : todo = Tail(st[s].todo)
  OBVIOUS
<1>6. todo \in Seq(Objects) /\ Pending(todo, st[s].snap) /\ (Len(st[s].todo) = 1 <=> todo = <<>>)
  <2>1. st[s].todo \in Seq(Objects) /\ st[s].todo # <<>> /\ Pending(st[s].todo, st[s].snap)
    BY <1>1 DEF StagerSound, Storing, Entries
  <2>2. Stored(Head(st[s].todo))
    BY <1>2 DEF ReadSound
  <2> QED BY <1>5, <2>1, <2>2, PendingTail
<1> DEFINE e == [st[s] EXCEPT !.todo = todo, !.pc = p]
<1>7. /\ e \in Entries /\ e.pc = p /\ e.snap = st[s].snap /\ e.todo = todo
      /\ e.disturbed = st[s].disturbed
  BY <1>1, <1>4, <1>6 DEF Entries, StagerPhases, Storing
<1>8. Stage(s, e) /\ UNCHANGED cas /\ Here
  BY <1>3, <1>4, <1>5 DEF HashArtifact
<1> HIDE DEF e
<1>9. StagerSound(s, e, cand[s])
  BY <1>1, <1>4, <1>6, <1>7 DEF StagerSound, Storing
<1> QED BY <1>7, <1>8, <1>9, StagerMoves

LEMMA ResnapshotKeeps == ASSUME VaultInv, NEW s \in Stagers, Resnapshot(s) PROVE VaultInv'
<1>1. st[s] \in Entries /\ StagerSound(s, st[s], cand[s]) /\ st[s].pc = "stored"
  BY EntryOf DEF Resnapshot
<1>2. CASE cand[s] = st[s].snap
  <2> DEFINE e == [st[s] EXCEPT !.pc = "create"]
  <2>1. /\ e \in Entries /\ e.pc = "create" /\ e.snap = st[s].snap /\ e.todo = st[s].todo
        /\ e.disturbed = st[s].disturbed
    BY <1>1 DEF Entries, StagerPhases
  <2>2. Stage(s, e) /\ UNCHANGED cas /\ Here
    BY <1>2 DEF Resnapshot
  <2> HIDE DEF e
  <2>3. StagerSound(s, e, cand[s])
    BY <1>1, <2>1 DEF StagerSound, Storing
  <2> QED BY <2>1, <2>2, <2>3, StagerMoves
<1>3. CASE cand[s] # st[s].snap
  <2>1. st[s].disturbed
    BY <1>1, <1>3 DEF StagerSound
  <2> QED BY <1>1, <1>3, <2>1, Refused DEF Resnapshot
<1> QED BY <1>2, <1>3

LEMMA StagerDiesKeeps == ASSUME VaultInv, NEW s \in Stagers, StagerDies(s) PROVE VaultInv'
<1> DEFINE e == [st[s] EXCEPT !.pc = "dead"]
<1>1. st[s] \in Entries
  BY EntryOf
<1>2. e \in Entries /\ e.pc = "dead"
  BY <1>1 DEF Entries, StagerPhases
<1>3. Stage(s, e) /\ UNCHANGED cas /\ Here
  BY DEF StagerDies, Stage
<1> HIDE DEF e
<1>4. StagerSound(s, e, cand[s])
  BY <1>2 DEF StagerSound, Storing
<1> QED BY <1>2, <1>3, <1>4, StagerMoves

\* A stager moves to the entry e over a change of the store.
LEMMA StagerStores ==
    ASSUME VaultInv, NEW s \in Stagers, NEW e \in Entries, Stage(s, e), Here,
           DOMAIN cas' \subseteq Objects, \A o \in DOMAIN cas' : cas'[o] \in {1, 2},
           \A o \in DOMAIN cas : o \in DOMAIN cas' /\ (cas[o] = 1 => cas'[o] = 1),
           StagerSound(s, e, cand[s])', ManifestClosed'
    PROVE  VaultInv'
<1>1. UNCHANGED <<cand, flow, env, evals, trust, apply>>
  BY DEF Here
<1>2. st' \in [Stagers -> Entries] /\ st'[s] = e /\ \A x \in Stagers \ {s} : st'[x] = st[x]
  BY DEF Stage, VaultTypeOK, VaultInv
<1>3. VaultTypeOK'
  BY <1>1, <1>2 DEF VaultTypeOK, VaultInv
<1>4. Grows
  <2>1. \A v \in VaultVerifiers : trust[v] <= trust[v]
    BY DEF VaultTypeOK, Policies, VaultInv
  <2> QED BY <1>1, <2>1 DEF Grows
<1>5. ASSUME NEW x \in Stagers PROVE StagerSound(x, st[x], cand[x])'
  <2>1. CASE x = s
    BY <1>1, <1>2, <2>1
  <2>2. CASE x # s
    <3>1. st'[x] = st[x] /\ cand'[x] = cand[x]
      BY <1>1, <1>2, <2>2
    <3> QED BY <1>3, <1>4, <3>1, StagerStays DEF VaultInv
  <2> QED BY <2>1, <2>2
<1>6. ASSUME NEW k \in FlowKeys PROVE FlowSound(k)'
  BY <1>1, <1>3, <1>4, FlowKept DEF VaultInv
<1>7. ApplySound'
  BY <1>1, <1>4, ApplyKept DEF VaultInv
<1> QED BY <1>3, <1>5, <1>6, <1>7 DEF VaultInv

LEMMA LinkObjectKeeps == ASSUME VaultInv, NEW s \in Stagers, LinkObject(s) PROVE VaultInv'
<1> DEFINE o == Head(st[s].todo)
<1>1. st[s] \in Entries /\ StagerSound(s, st[s], cand[s]) /\ st[s].pc = "written"
  BY EntryOf DEF LinkObject
<1>2. st[s].todo \in Seq(Objects) /\ Pending(st[s].todo, st[s].snap) /\ st[s].todo # <<>>
  BY <1>1 DEF StagerSound, Storing, Entries
<1>3. CASE Stored(o)
  <2> DEFINE e == [st[s] EXCEPT !.pc = "open"]
  <2>1. /\ e \in Entries /\ e.pc = "open" /\ e.snap = st[s].snap /\ e.todo = st[s].todo
        /\ e.disturbed = st[s].disturbed
    BY <1>1 DEF Entries, StagerPhases, Storing
  <2>2. Stage(s, e) /\ UNCHANGED cas /\ Here
    BY <1>3 DEF LinkObject
  <2> HIDE DEF e
  <2>3. StagerSound(s, e, cand[s])
    BY <1>1, <1>3, <2>1 DEF StagerSound, Storing
  <2> QED BY <2>1, <2>2, <2>3, StagerMoves
<1>4. CASE ~Stored(o)
  <2>0. PICK e : e = [st[s] EXCEPT !.pc = "linked"]
    OBVIOUS
  <2>1. /\ e \in Entries /\ e.pc = "linked" /\ e.snap = st[s].snap /\ e.todo = st[s].todo
        /\ e.disturbed = st[s].disturbed
    BY <1>1, <2>0 DEF Entries, StagerPhases, Storing
  <2>2. /\ cas' = [x \in DOMAIN cas \cup {o} |-> IF x = o THEN 2 ELSE cas[x]]
        /\ Stage(s, e) /\ Here
    BY <1>4, <2>0 DEF LinkObject
  <2>3. /\ o \in Objects
        /\ \A x \in Snaps : o = Manifest(x) =>
             /\ x = st[s].snap
             /\ \A y \in ToSet(StoreOrder(st[s].snap)) : Stored(y) \/ y = o
    BY <1>2, PendingHead
  <2> HIDE DEF o
  <2>4. /\ DOMAIN cas' = DOMAIN cas \cup {o}
        /\ \A x \in DOMAIN cas' : cas'[x] = IF x = o THEN 2 ELSE cas[x]
    BY <2>2
  <2>5. \A x \in DOMAIN cas : x # o
    BY <1>4 DEF Stored
  <2>6. /\ DOMAIN cas' \subseteq Objects /\ \A x \in DOMAIN cas' : cas'[x] \in {1, 2}
        /\ \A x \in DOMAIN cas : x \in DOMAIN cas' /\ (cas[x] = 1 => cas'[x] = 1)
    BY <2>3, <2>4, <2>5 DEF VaultInv, VaultTypeOK
  <2>7. ManifestClosed'
    <3> SUFFICES ASSUME NEW snap \in Snaps, Manifest(snap) \in DOMAIN cas',
                        NEW y \in ToSet(StoreOrder(snap))
                 PROVE  y \in DOMAIN cas'
      BY DEF ManifestClosed, Stored
    <3>1. CASE Manifest(snap) \in DOMAIN cas
      BY <2>4, <3>1 DEF VaultInv, ManifestClosed, Stored
    <3>2. CASE Manifest(snap) = o
      BY <2>3, <2>4, <3>2 DEF Stored
    <3> QED BY <2>4, <3>1, <3>2
  <2>8. StagerSound(s, e, cand[s])'
    <3>1. Pending(e.todo, e.snap)'
      BY <1>2, <2>1, <2>4 DEF Pending, Stored
    <3>2. Head(e.todo) \in DOMAIN cas'
      BY <2>1, <2>4 DEF o
    <3>3. cand'[s] = cand[s]
      BY <2>2 DEF Here
    <3> QED BY <1>1, <2>1, <3>1, <3>2, <3>3 DEF StagerSound, Storing, Stored
  <2> QED BY <2>1, <2>2, <2>6, <2>7, <2>8, StagerStores
<1> QED BY <1>3, <1>4

LEMMA UnlinkKeeps == ASSUME VaultInv, NEW s \in Stagers, UnlinkTemporary(s) PROVE VaultInv'
<1> DEFINE o == Head(st[s].todo)
<1>0. PICK e : e = [st[s] EXCEPT !.pc = "open"]
  OBVIOUS
<1>1. st[s] \in Entries /\ StagerSound(s, st[s], cand[s]) /\ st[s].pc = "linked"
  BY EntryOf DEF UnlinkTemporary
<1>2. /\ e \in Entries /\ e.pc = "open" /\ e.snap = st[s].snap /\ e.todo = st[s].todo
      /\ e.disturbed = st[s].disturbed
  BY <1>0, <1>1 DEF Entries, StagerPhases, Storing
<1>3. cas' = [cas EXCEPT ![o] = 1] /\ Stage(s, e) /\ Here
  BY <1>0 DEF UnlinkTemporary
<1>4. o \in DOMAIN cas /\ o = Head(e.todo)
  BY <1>1, <1>2 DEF StagerSound, Stored
<1> HIDE DEF o
<1>5. DOMAIN cas' = DOMAIN cas /\ \A x \in DOMAIN cas : cas'[x] = IF x = o THEN 1 ELSE cas[x]
  BY <1>3
<1>6. /\ DOMAIN cas' \subseteq Objects /\ \A x \in DOMAIN cas' : cas'[x] \in {1, 2}
      /\ \A x \in DOMAIN cas : x \in DOMAIN cas' /\ (cas[x] = 1 => cas'[x] = 1)
  BY <1>5 DEF VaultInv, VaultTypeOK
<1>7. ManifestClosed'
  BY <1>5 DEF VaultInv, ManifestClosed, Stored
<1>8. StagerSound(s, e, cand[s])'
  <2>1. cand'[s] = cand[s]
    BY <1>3 DEF Here
  <2>2. Pending(e.todo, e.snap)'
    BY <1>1, <1>2, <1>5 DEF StagerSound, Pending, Stored, Storing
  <2> QED BY <1>1, <1>2, <1>4, <1>5, <2>1, <2>2 DEF StagerSound, Storing, Stored
<1> QED BY <1>2, <1>3, <1>6, <1>7, <1>8, StagerStores

\* A binding that differs from the one in hand differs for good: keys only get newer.
LEMMA OtherBinding ==
    ASSUME VaultInv, NEW k \in FlowKeys, NEW snap \in Snaps, flow[k].made,
           flow[k].binding # Binding(snap)
    PROVE  TakenByOther(k, snap)
<1>1. /\ flow[k].binding \in Bindings /\ flow[k].binding.policy \in Policies /\ trust \in Policies
      /\ \A v \in VaultVerifiers : flow[k].binding.policy[v] <= trust[v]
  BY DEF VaultInv, VaultTypeOK, FlowSound, Flows
<1>2. CASE flow[k].binding.content = snap
  <2>1. flow[k].binding.policy # trust
    <3>1. flow[k].binding = [content |-> flow[k].binding.content, policy |-> flow[k].binding.policy]
      BY <1>1 DEF Bindings
    <3> QED BY <1>2, <3>1 DEF Binding, Policy
  <2>2. PICK v \in VaultVerifiers : flow[k].binding.policy[v] # trust[v]
    BY <1>1, <2>1 DEF Policies
  <2>3. flow[k].binding.policy[v] \in Nat /\ trust[v] \in Nat /\ flow[k].binding.policy[v] <= trust[v]
    BY <1>1 DEF Policies
  <2>4. flow[k].binding.policy[v] < trust[v]
    BY <2>2, <2>3
  <2> QED BY <1>1, <2>4 DEF TakenByOther
<1> QED BY <1>2 DEF TakenByOther

LEMMA CreateWorkflowKeeps == ASSUME VaultInv, NEW s \in Stagers, CreateWorkflow(s) PROVE VaultInv'
<1>0. PICK k : k = Key[s]
  OBVIOUS
<1>1. st[s] \in Entries /\ StagerSound(s, st[s], cand[s]) /\ st[s].pc = "create" /\ k \in FlowKeys
  BY <1>0, EntryOf DEF CreateWorkflow
<1>2. st[s].snap \in Snaps /\ \A o \in ToSet(StoreOrder(st[s].snap)) : Stored(o)
  <2>1. Pending(<<>>, st[s].snap)
    BY <1>1 DEF StagerSound
  <2> QED BY <2>1, NothingPending DEF Pending
<1>3. CASE ~flow[k].made
  <2>1. PICK e : e = [st[s] EXCEPT !.pc = "staged"]
    OBVIOUS
  <2>2. PICK w : w = [made |-> TRUE, binding |-> Binding(st[s].snap), atts |-> {}]
    OBVIOUS
  <2>3. e \in Entries /\ e.pc = "staged"
    BY <1>1, <2>1 DEF Entries, StagerPhases
  <2>4. w \in Flows /\ w.binding.content = st[s].snap /\ w.binding.policy = trust /\ w.atts = {}
    BY <1>2, <2>2 DEF Flows, Bindings, Binding, Policy, VaultInv, VaultTypeOK
  <2>5. flow' = [flow EXCEPT ![k] = w] /\ Stage(s, e) /\ UNCHANGED <<cand, cas, env, evals, trust, apply>>
    BY <1>0, <1>3, <2>1, <2>2 DEF CreateWorkflow
  <2>6. st' \in [Stagers -> Entries] /\ st'[s] = e /\ \A x \in Stagers \ {s} : st'[x] = st[x]
    BY <2>3, <2>5 DEF Stage, VaultTypeOK, VaultInv
  <2>7. flow' \in [FlowKeys -> Flows] /\ flow'[k] = w /\ \A x \in FlowKeys \ {k} : flow'[x] = flow[x]
    BY <1>1, <2>4, <2>5 DEF VaultTypeOK, VaultInv
  <2>8. VaultTypeOK'
    BY <2>5, <2>6, <2>7 DEF VaultTypeOK, VaultInv
  <2>9. Grows
    <3>1. \A v \in VaultVerifiers : trust[v] <= trust[v]
      BY DEF VaultTypeOK, Policies, VaultInv
    <3> QED BY <1>3, <2>5, <2>7, <3>1 DEF Grows
  <2>10. ASSUME NEW x \in Stagers PROVE StagerSound(x, st[x], cand[x])'
    <3>1. CASE x = s
      BY <2>3, <2>6, <3>1 DEF StagerSound, Storing
    <3>2. CASE x # s
      BY <2>5, <2>6, <2>8, <2>9, <3>2, StagerStays DEF VaultInv
    <3> QED BY <3>1, <3>2
  <2>11. ASSUME NEW x \in FlowKeys PROVE FlowSound(x)'
    <3>1. CASE x = k
      <4>1. \A v \in VaultVerifiers : trust[v] <= trust[v]
        BY DEF VaultTypeOK, Policies, VaultInv
      <4>2. trust \in Policies
        BY DEF VaultTypeOK, VaultInv
      <4>3. \A o \in ToSet(StoreOrder(w.binding.content)) : o \in DOMAIN cas
        BY <1>2, <2>4 DEF Stored
      <4> QED BY <1>2, <2>4, <2>5, <2>7, <3>1, <4>1, <4>2, <4>3, FS_EmptySet DEF FlowSound, Stored
    <3>2. CASE x # k
      BY <2>7, <2>8, <2>9, <3>2, FlowKept DEF VaultInv
    <3> QED BY <3>1, <3>2
  <2>12. ApplySound'
    <3>1. apply.pc = "reverify" => apply.key \in FlowKeys /\ apply.key # k
      BY <1>3 DEF VaultInv, ApplySound
    <3> QED BY <2>5, <2>7, <2>9, <3>1, ApplyKept DEF VaultInv
  <2>13. ManifestClosed'
    BY <2>5 DEF VaultInv, ManifestClosed, Stored
  <2> QED BY <2>8, <2>10, <2>11, <2>12, <2>13 DEF VaultInv
<1>4. CASE flow[k].made /\ flow[k].binding = Binding(st[s].snap)
  <2> DEFINE e == [st[s] EXCEPT !.pc = "replayed"]
  <2>1. e \in Entries /\ e.pc = "replayed"
    BY <1>1 DEF Entries, StagerPhases
  <2>2. Stage(s, e) /\ UNCHANGED cas /\ Here
    BY <1>0, <1>4 DEF CreateWorkflow
  <2> HIDE DEF e
  <2>3. StagerSound(s, e, cand[s])
    BY <2>1 DEF StagerSound, Storing
  <2> QED BY <2>1, <2>2, <2>3, StagerMoves
<1>5. CASE flow[k].made /\ flow[k].binding # Binding(st[s].snap)
  <2>1. TakenByOther(k, st[s].snap)
    BY <1>1, <1>2, <1>5, OtherBinding
  <2>2. Refuse(s)
    BY <1>0, <1>5 DEF CreateWorkflow
  <2> QED BY <1>0, <1>1, <2>1, <2>2, Refused
<1> QED BY <1>3, <1>4, <1>5

\* A step that leaves the stagers and the store alone.
LEMMA StagersRest ==
    ASSUME VaultInv, VaultTypeOK', Grows, UNCHANGED <<cand, st, cas>>,
           \A k \in FlowKeys : FlowSound(k)', ApplySound'
    PROVE  VaultInv'
<1>1. ASSUME NEW x \in Stagers PROVE StagerSound(x, st[x], cand[x])'
  BY StagerStays DEF VaultInv
<1>2. ManifestClosed'
  BY DEF VaultInv, ManifestClosed, Stored
<1> QED BY <1>1, <1>2 DEF VaultInv

LEMMA UnchangedGrows ==
    ASSUME VaultInv, UNCHANGED <<cas, flow, trust>>
    PROVE  Grows
<1>1. \A v \in VaultVerifiers : trust[v] <= trust[v]
  BY DEF VaultTypeOK, Policies, VaultInv
<1> QED BY <1>1 DEF Grows

LEMMA WriteCandidateKeeps == ASSUME VaultInv, NEW s \in Stagers, WriteCandidate(s) PROVE VaultInv'
<1>1. PICK f \in Files : cand' = [cand EXCEPT ![s][f] = 1 - @]
  BY DEF WriteCandidate
<1>2. PICK e : e = [st[s] EXCEPT !.disturbed = TRUE]
  OBVIOUS
<1>3. st[s] \in Entries /\ StagerSound(s, st[s], cand[s]) /\ cand[s] \in Snaps
  BY EntryOf
<1>4. /\ e \in Entries /\ e.pc = st[s].pc /\ e.snap = st[s].snap /\ e.todo = st[s].todo
      /\ e.opened = st[s].opened /\ e.disturbed
  BY <1>2, <1>3 DEF Entries
<1>5. st' = [st EXCEPT ![s] = e] /\ UNCHANGED <<cas, flow, env, evals, trust, apply>>
  BY <1>2 DEF WriteCandidate
<1>6. st' \in [Stagers -> Entries] /\ st'[s] = e /\ \A x \in Stagers \ {s} : st'[x] = st[x]
  BY <1>4, <1>5 DEF VaultTypeOK, VaultInv
<1>7. cand' \in [Stagers -> Snaps] /\ \A x \in Stagers \ {s} : cand'[x] = cand[x]
  <2>1. cand' = [cand EXCEPT ![s] = [cand[s] EXCEPT ![f] = 1 - cand[s][f]]]
    BY <1>1
  <2>2. [cand[s] EXCEPT ![f] = 1 - cand[s][f]] \in Snaps
    <3>1. 1 - cand[s][f] \in {0, 1}
      BY <1>3 DEF Snaps
    <3> QED BY <1>3, <3>1 DEF Snaps
  <2> QED BY <2>1, <2>2 DEF VaultTypeOK, VaultInv
<1>8. VaultTypeOK'
  BY <1>5, <1>6, <1>7 DEF VaultTypeOK, VaultInv
<1>9. Grows
  BY <1>5, UnchangedGrows
<1>10. ASSUME NEW x \in Stagers PROVE StagerSound(x, st[x], cand[x])'
  <2>1. CASE x = s
    <3>1. PICK c : c = cand'[s]
      OBVIOUS
    <3>2. StagerSound(s, e, c)
      BY <1>3, <1>4 DEF StagerSound
    <3>3. StagerSound(s, e, c)'
      BY <1>4, <1>8, <1>9, <3>2, StagerKept DEF VaultInv
    <3> QED BY <1>6, <2>1, <3>1, <3>3
  <2>2. CASE x # s
    BY <1>6, <1>7, <1>8, <1>9, <2>2, StagerStays DEF VaultInv
  <2> QED BY <2>1, <2>2
<1>11. ASSUME NEW k \in FlowKeys PROVE FlowSound(k)'
  BY <1>5, <1>8, <1>9, FlowKept DEF VaultInv
<1>12. ApplySound'
  BY <1>5, <1>9, ApplyKept DEF VaultInv
<1>13. ManifestClosed'
  BY <1>5 DEF VaultInv, ManifestClosed, Stored
<1> QED BY <1>8, <1>10, <1>11, <1>12, <1>13 DEF VaultInv

LEMMA SignEnvelopeKeeps == ASSUME VaultInv, NEW v \in VaultVerifiers, SignEnvelope(v) PROVE VaultInv'
<1>1. UNCHANGED <<cand, cas, st, flow, evals, trust, apply>>
  BY DEF SignEnvelope
<1>2. VaultTypeOK'
  <2>1. PICK k \in DOMAIN flow, kind \in {"verification", "evaluation"}, passed \in BOOLEAN :
           env' = env \cup {[verifier |-> v, key |-> trust[v], flow |-> k, kind |-> kind,
                             binding |-> flow[k].binding, passed |-> passed]}
    BY DEF SignEnvelope
  <2>2. k \in FlowKeys /\ flow[k].binding \in Bindings /\ trust[v] \in Nat
    BY DEF VaultInv, VaultTypeOK, Policies, Flows
  <2>3. env' \subseteq Envelopes
    BY <2>1, <2>2 DEF Envelopes, VaultInv, VaultTypeOK
  <2> QED BY <1>1, <2>3 DEF VaultInv, VaultTypeOK
<1>3. Grows
  BY <1>1, UnchangedGrows
<1>4. ASSUME NEW k \in FlowKeys PROVE FlowSound(k)'
  BY <1>1, <1>2, <1>3, FlowKept DEF VaultInv
<1>5. ApplySound'
  BY <1>1, <1>3, ApplyKept DEF VaultInv
<1> QED BY <1>1, <1>2, <1>3, <1>4, <1>5, StagersRest

LEMMA RotateKeyKeeps == ASSUME VaultInv, NEW v \in VaultVerifiers, RotateKey(v) PROVE VaultInv'
<1>1. UNCHANGED <<cand, cas, st, flow, env, evals, apply>> /\ trust' = [trust EXCEPT ![v] = trust[v] + 1]
  BY DEF RotateKey
<1>2. trust \in [VaultVerifiers -> Nat]
  BY DEF VaultInv, VaultTypeOK, Policies
<1>3. trust' \in Policies /\ \A x \in VaultVerifiers : trust[x] <= trust'[x]
  BY <1>1, <1>2 DEF Policies
<1>4. VaultTypeOK'
  BY <1>1, <1>3 DEF VaultInv, VaultTypeOK
<1>5. Grows
  BY <1>1, <1>3 DEF Grows
<1>6. ASSUME NEW k \in FlowKeys PROVE FlowSound(k)'
  BY <1>1, <1>4, <1>5, FlowKept DEF VaultInv
<1>7. ApplySound'
  BY <1>1, <1>5, ApplyKept DEF VaultInv
<1> QED BY <1>1, <1>4, <1>5, <1>6, <1>7, StagersRest

LEMMA VerifyEvaluationKeeps ==
    ASSUME VaultInv, NEW k, NEW e, VerifyEvaluation(e, k)
    PROVE  VaultInv'
<1>1. UNCHANGED <<cand, cas, st, flow, env, trust, apply>>
  BY DEF VerifyEvaluation
<1>2. VaultTypeOK'
  BY <1>1 DEF VaultInv, VaultTypeOK
<1>3. Grows
  BY <1>1, UnchangedGrows
<1>4. ASSUME NEW x \in FlowKeys PROVE FlowSound(x)'
  BY <1>1, <1>2, <1>3, FlowKept DEF VaultInv
<1>5. ApplySound'
  BY <1>1, <1>3, ApplyKept DEF VaultInv
<1> QED BY <1>1, <1>2, <1>3, <1>4, <1>5, StagersRest

\* The verifiers of more attestations are no fewer.
LEMMA MoreVerifiers ==
    ASSUME NEW A, NEW e, IsFiniteSet(A), VaultQuorum \in Nat,
           Cardinality({a.verifier : a \in A}) >= VaultQuorum
    PROVE  Cardinality({a.verifier : a \in A \cup {e}}) >= VaultQuorum
<1> DEFINE S == {a.verifier : a \in A}
           T == {a.verifier : a \in A \cup {e}}
<1>1. IsFiniteSet(S)
  <2>1. [a \in A |-> a.verifier] \in Surjection(A, S)
    BY DEF Surjection
  <2> QED BY <2>1, FS_Surjection
<1>2. T = S \cup {e.verifier}
  OBVIOUS
<1> HIDE DEF S, T
<1>3. IsFiniteSet(S \cup {e.verifier}) /\ Cardinality(S) \in Nat
      /\ Cardinality(S \cup {e.verifier}) =
           IF e.verifier \in S THEN Cardinality(S) ELSE Cardinality(S) + 1
  BY <1>1, FS_AddElement, FS_CardinalityType
<1>4. Cardinality(T) >= VaultQuorum
  BY <1>2, <1>3 DEF S
<1> QED BY <1>4 DEF T

LEMMA RecordEnvelopeKeeps ==
    ASSUME VaultInv, VaultQuorum \in Nat, NEW k \in FlowKeys, NEW e \in env, RecordEnvelope(e, k)
    PROVE  VaultInv'
<1>1. PICK w : w = [flow[k] EXCEPT !.atts = flow[k].atts \cup {e}]
  OBVIOUS
<1>2. flow[k] \in Flows /\ e \in Envelopes /\ FlowSound(k)
  BY DEF VaultInv, VaultTypeOK
<1>3. /\ w \in Flows /\ w.made = flow[k].made /\ w.binding = flow[k].binding
      /\ w.atts = flow[k].atts \cup {e}
  BY <1>1, <1>2 DEF Flows
<1>4. flow' = [flow EXCEPT ![k] = w] /\ UNCHANGED <<cand, cas, st, env, evals, trust, apply>>
  BY <1>1 DEF RecordEnvelope
<1>5. flow' \in [FlowKeys -> Flows] /\ flow'[k] = w /\ \A x \in FlowKeys \ {k} : flow'[x] = flow[x]
  BY <1>3, <1>4 DEF VaultInv, VaultTypeOK
<1>6. VaultTypeOK'
  BY <1>4, <1>5 DEF VaultInv, VaultTypeOK
<1>7. Grows
  <2>1. \A v \in VaultVerifiers : trust[v] <= trust[v]
    BY DEF VaultTypeOK, Policies, VaultInv
  <2> QED BY <1>3, <1>4, <1>5, <2>1 DEF Grows
<1>8. ASSUME NEW x \in FlowKeys PROVE FlowSound(x)'
  <2>1. CASE x = k
    <3>1. IsFiniteSet(w.atts)
      BY <1>2, <1>3, FS_AddElement DEF FlowSound
    <3> QED BY <1>2, <1>3, <1>4, <1>5, <2>1, <3>1 DEF FlowSound, Stored
  <2>2. CASE x # k
    BY <1>5, <1>6, <1>7, <2>2, FlowKept DEF VaultInv
  <2> QED BY <2>1, <2>2
<1>9. ApplySound'
  <2>1. CASE apply.pc = "reverify" /\ apply.key = k
    <3>1. Cardinality({a.verifier : a \in flow[k].atts}) >= VaultQuorum
      BY <2>1 DEF VaultInv, ApplySound
    <3>2. Cardinality({a.verifier : a \in flow[k].atts \cup {e}}) >= VaultQuorum
      BY <1>2, <3>1, MoreVerifiers DEF FlowSound
    <3>3. Cardinality({a.verifier : a \in flow'[k].atts}) >= VaultQuorum
      BY <1>3, <1>5, <3>2
    <3> QED BY <1>3, <1>4, <1>5, <2>1, <3>3 DEF VaultInv, ApplySound, MaterializedUnderTrust
  <2>2. CASE ~(apply.pc = "reverify" /\ apply.key = k)
    <3>1. apply.pc = "reverify" => flow'[apply.key].atts = flow[apply.key].atts
      BY <1>5, <2>2 DEF VaultInv, ApplySound
    <3> QED BY <1>4, <1>7, <3>1, ApplyKept DEF VaultInv
  <2> QED BY <2>1, <2>2
<1> QED BY <1>4, <1>6, <1>7, <1>8, <1>9, StagersRest

-----------------------------------------------------------------------------
\* A step of the process that applies, to the record r.
LEMMA ApplyMoves ==
    ASSUME VaultInv, NEW r \in Applies, apply' = r, ApplySound',
           UNCHANGED <<cand, cas, st, flow, env, evals, trust>>
    PROVE  VaultInv'
<1>1. VaultTypeOK'
  BY DEF VaultInv, VaultTypeOK
<1>2. Grows
  BY UnchangedGrows
<1>3. ASSUME NEW x \in FlowKeys PROVE FlowSound(x)'
  BY <1>1, <1>2, FlowKept DEF VaultInv
<1> QED BY <1>1, <1>2, <1>3, StagersRest

LEMMA LoadCandidateKeeps == ASSUME VaultInv, NEW k \in FlowKeys, LoadCandidate(k) PROVE VaultInv'
<1>1. PICK r : r = [apply EXCEPT !.pc = "reverify", !.key = k]
  OBVIOUS
<1>2. r \in Applies /\ r.pc = "reverify" /\ r.key = k
  BY <1>1 DEF VaultInv, VaultTypeOK, Applies
<1>3. apply' = r /\ UNCHANGED <<cand, cas, st, flow, env, evals, trust>>
  BY <1>1 DEF LoadCandidate
<1>4. flow[k].made /\ Cardinality({a.verifier : a \in flow[k].atts}) >= VaultQuorum
  BY DEF LoadCandidate
<1>5. ApplySound'
  BY <1>2, <1>3, <1>4 DEF ApplySound, MaterializedUnderTrust
<1> QED BY <1>2, <1>3, <1>5, ApplyMoves

LEMMA ReverifyKeeps == ASSUME VaultInv, ReverifyAttestations PROVE VaultInv'
<1>1. PICK k : k = apply.key
  OBVIOUS
<1>2. /\ apply.pc = "reverify" /\ apply \in Applies /\ k \in FlowKeys /\ flow[k].made
      /\ flow[k] \in Flows /\ FlowSound(k)
      /\ Cardinality({a.verifier : a \in flow[k].atts}) >= VaultQuorum
  BY <1>1 DEF ReverifyAttestations, VaultInv, VaultTypeOK, ApplySound
<1>3. UNCHANGED <<cand, cas, st, flow, env, evals, trust>>
  BY DEF ReverifyAttestations
<1>4. CASE Reverified(k) = flow[k].atts
  <2>1. PICK q : q = {a.verifier : a \in {b \in flow[k].atts : Verified(b, k)}}
    OBVIOUS
  <2>2. q = {a.verifier : a \in flow[k].atts}
    BY <1>4, <2>1 DEF Reverified
  <2>3. PICK o : o = StoreOrder(flow[k].binding.content)
    OBVIOUS
  <2>4. PICK r : r = [apply EXCEPT !.pc = "read", !.trusted = q, !.todo = o]
    OBVIOUS
  <2>5. apply' = r
    BY <1>1, <1>4, <2>1, <2>3, <2>4 DEF ReverifyAttestations
  <2>6. q \in SUBSET VaultVerifiers
    BY <1>2, <2>2 DEF Flows, Envelopes
  <2>7. o \in Seq(Objects)
    BY <1>2, <2>3, StoreOrderType DEF FlowSound
  <2>8. r \in Applies /\ r.pc = "read" /\ r.trusted = q /\ r.todo = o
    BY <1>2, <2>4, <2>6, <2>7 DEF Applies
  <2>9. \A i \in 1..Len(o) : o[i] \in DOMAIN cas
    BY <1>2, <2>3, <2>7 DEF FlowSound, ToSet, Stored
  <2>10. ApplySound'
    BY <1>2, <1>3, <2>2, <2>5, <2>8, <2>9 DEF ApplySound, MaterializedUnderTrust, Stored
  <2> QED BY <1>3, <2>5, <2>8, <2>10, ApplyMoves
<1>5. CASE Reverified(k) # flow[k].atts
  <2>1. PICK r : r = [apply EXCEPT !.pc = "refused"]
    OBVIOUS
  <2>2. r \in Applies /\ r.pc = "refused" /\ apply' = r
    BY <1>1, <1>2, <1>5, <2>1 DEF ReverifyAttestations, Applies
  <2>3. ApplySound'
    BY <2>2 DEF ApplySound, MaterializedUnderTrust
  <2> QED BY <1>3, <2>2, <2>3, ApplyMoves
<1> QED BY <1>4, <1>5

LEMMA OpenStoredKeeps == ASSUME VaultInv, OpenStored PROVE VaultInv'
<1> DEFINE o == Head(apply.todo)
<1>1. /\ apply.pc = "read" /\ apply \in Applies /\ apply.todo # <<>> /\ ApplySound
      /\ UNCHANGED <<cand, cas, st, flow, env, evals, trust>>
  BY DEF OpenStored, VaultInv, VaultTypeOK
<1>2. Stored(o) /\ cas[o] \in {1, 2}
  <2>1. apply.todo \in Seq(Objects)
    BY <1>1 DEF Applies
  <2>2. Len(apply.todo) \in Nat /\ Len(apply.todo) >= 1 /\ o = apply.todo[1]
    BY <1>1, <2>1
  <2>3. Stored(o)
    BY <1>1, <2>2 DEF ApplySound
  <2> QED BY <2>3 DEF Stored, VaultInv, VaultTypeOK
<1>3. PICK r : r = [apply EXCEPT !.pc = "hashing", !.opened = cas[o]]
  OBVIOUS
<1>4. apply' = r
  BY <1>2, <1>3 DEF OpenStored
<1>5. /\ r \in Applies /\ r.pc = "hashing" /\ r.opened = cas[o] /\ r.todo = apply.todo
      /\ r.trusted = apply.trusted
  BY <1>1, <1>2, <1>3 DEF Applies
<1>6. ApplySound'
  <2>1. \A i \in 1..Len(r.todo) : r.todo[i] \in DOMAIN cas
    BY <1>1, <1>5 DEF ApplySound, Stored
  <2>2. r.todo # <<>> /\ Head(r.todo) \in DOMAIN cas /\ r.opened \in {1, 2} /\ r.opened = cas[Head(r.todo)]
    BY <1>1, <1>2, <1>5 DEF Stored
  <2>3. Cardinality(r.trusted) >= VaultQuorum
    BY <1>1, <1>5 DEF ApplySound, MaterializedUnderTrust
  <2> HIDE DEF o
  <2> QED BY <1>1, <1>4, <1>5, <2>1, <2>2, <2>3
          DEF ApplySound, MaterializedUnderTrust, Stored, ReadSound
<1> QED BY <1>1, <1>4, <1>5, <1>6, ApplyMoves

LEMMA HashStoredKeeps == ASSUME VaultInv, HashStored PROVE VaultInv'
<1>1. /\ apply.pc = "hashing" /\ apply \in Applies /\ ApplySound
      /\ apply.todo # <<>> /\ ReadSound(Head(apply.todo), apply.opened)
      /\ UNCHANGED <<cand, cas, st, flow, env, evals, trust>>
  BY DEF HashStored, VaultInv, VaultTypeOK, ApplySound
<1>2. ~ChangedDuringRead(apply.opened, cas[Head(apply.todo)])
  BY <1>1, ReadStaysWhole DEF VaultInv
<1>3. PICK p : p = IF Len(apply.todo) = 1 THEN "materialized" ELSE "read"
  OBVIOUS
<1>4. PICK todo : todo = Tail(apply.todo)
  OBVIOUS
<1>5. PICK r : r = [apply EXCEPT !.todo = todo, !.pc = p]
  OBVIOUS
<1>6. apply' = r
  BY <1>2, <1>3, <1>4, <1>5 DEF HashStored
<1>7. todo \in Seq(Objects) /\ \A i \in 1..Len(todo) : todo[i] \in DOMAIN cas
  <2>1. apply.todo \in Seq(Objects)
    BY <1>1 DEF Applies
  <2>2. /\ Len(apply.todo) \in Nat /\ todo \in Seq(Objects) /\ Len(todo) = Len(apply.todo) - 1
        /\ \A i \in 1..(Len(apply.todo) - 1) : todo[i] = apply.todo[i + 1]
    BY <1>1, <1>4, <2>1
  <2>3. \A i \in 1..Len(apply.todo) : apply.todo[i] \in DOMAIN cas
    BY <1>1 DEF ApplySound, Stored
  <2> QED BY <2>2, <2>3
<1>8. /\ r \in Applies /\ r.pc = p /\ p \in {"materialized", "read"} /\ r.todo = todo
      /\ r.trusted = apply.trusted
  BY <1>1, <1>3, <1>5, <1>7 DEF Applies
<1>9. ApplySound'
  BY <1>1, <1>6, <1>7, <1>8 DEF ApplySound, MaterializedUnderTrust, Stored
<1> QED BY <1>1, <1>6, <1>8, <1>9, ApplyMoves

-----------------------------------------------------------------------------
LEMMA VaultInitInv == VaultInit => VaultInv
<1> SUFFICES ASSUME VaultInit PROVE VaultInv
  OBVIOUS
<1>1. VaultTypeOK
  BY EmptySeq DEF VaultInit, VaultTypeOK, Unstaged, NoFlow, Snaps, Entries, StagerPhases, Flows, Bindings,
        Policies, Applies, FlowKeys
<1>2. ASSUME NEW s \in Stagers PROVE StagerSound(s, st[s], cand[s])
  BY DEF VaultInit, Unstaged, StagerSound, Storing
<1>3. ASSUME NEW k \in FlowKeys PROVE FlowSound(k)
  BY FS_EmptySet DEF VaultInit, NoFlow, FlowSound, FlowKeys
<1>4. ApplySound
  BY DEF VaultInit, ApplySound, MaterializedUnderTrust
<1>5. ManifestClosed
  BY DEF VaultInit, ManifestClosed, Stored
<1> QED BY <1>1, <1>2, <1>3, <1>4, <1>5 DEF VaultInv

LEMMA VaultNextInv == ASSUME VaultQuorum \in Nat PROVE VaultInv /\ [VaultNext]_vaultVars => VaultInv'
<1> SUFFICES ASSUME VaultInv, [VaultNext]_vaultVars PROVE VaultInv'
  OBVIOUS
<1>1. DOMAIN flow = FlowKeys
  BY DEF VaultInv, VaultTypeOK
<1>2. ASSUME NEW s \in Stagers,
             \/ FindReplay(s) \/ SnapshotCandidate(s) \/ PutBytes(s) \/ LinkObject(s)
             \/ UnlinkTemporary(s) \/ OpenArtifact(s) \/ HashArtifact(s) \/ Resnapshot(s)
             \/ CreateWorkflow(s) \/ WriteCandidate(s) \/ StagerDies(s)
      PROVE  VaultInv'
  BY <1>2, FindReplayKeeps, SnapshotKeeps, PutBytesKeeps, LinkObjectKeeps, UnlinkKeeps,
     OpenArtifactKeeps, HashArtifactKeeps, ResnapshotKeeps, CreateWorkflowKeeps,
     WriteCandidateKeeps, StagerDiesKeeps
<1>3. ASSUME NEW v \in VaultVerifiers, SignEnvelope(v) \/ RotateKey(v) PROVE VaultInv'
  BY <1>3, SignEnvelopeKeeps, RotateKeyKeeps
<1>4. ASSUME NEW k \in FlowKeys, LoadCandidate(k) PROVE VaultInv'
  BY <1>4, LoadCandidateKeeps
<1>5. ASSUME NEW k \in FlowKeys, NEW e \in env, RecordEnvelope(e, k) \/ VerifyEvaluation(e, k)
      PROVE  VaultInv'
  BY <1>5, RecordEnvelopeKeeps, VerifyEvaluationKeeps
<1>6. ASSUME ReverifyAttestations \/ OpenStored \/ HashStored PROVE VaultInv'
  BY <1>6, ReverifyKeeps, OpenStoredKeeps, HashStoredKeeps
<1>7. CASE UNCHANGED vaultVars
  BY ZenonT(60), <1>7 DEF vaultVars, VaultInv, VaultTypeOK, StagerSound, FlowSound, ApplySound, ManifestClosed,
        Pending, ReadSound, TakenByOther, Stored, MaterializedUnderTrust
<1> QED BY <1>1, <1>2, <1>3, <1>4, <1>5, <1>6, <1>7 DEF VaultNext

\* The store is closed and its reads are sound in every state.
LEMMA VaultInvSafe == VaultInv => VaultSafe
<1> SUFFICES ASSUME VaultInv PROVE VaultSafe
  OBVIOUS
<1>1. NoFalseAlarm
  <2>1. ASSUME NEW s \in Stagers, st[s].pc = "refused", ~st[s].disturbed
        PROVE  flow[Key[s]].made /\ flow[Key[s]].binding # Binding(st[s].snap)
    <3>1. TakenByOther(Key[s], st[s].snap) /\ trust \in Policies
      BY <2>1 DEF VaultInv, StagerSound, VaultTypeOK
    <3>2. CASE flow[Key[s]].binding.content # st[s].snap
      BY <3>1, <3>2 DEF TakenByOther, Binding
    <3>3. ASSUME NEW v \in VaultVerifiers, flow[Key[s]].binding.policy \in Policies,
                 flow[Key[s]].binding.policy[v] < trust[v]
          PROVE  flow[Key[s]].binding # Binding(st[s].snap)
      <4>1. flow[Key[s]].binding.policy[v] \in Nat /\ trust[v] \in Nat
        BY <3>1, <3>3 DEF Policies
      <4>2. flow[Key[s]].binding.policy # trust
        BY <3>3, <4>1
      <4> QED BY <4>2 DEF Binding, Policy
    <3> QED BY <3>1, <3>2, <3>3 DEF TakenByOther
  <2>2. apply.pc # "missing"
    BY DEF VaultInv, VaultTypeOK, Applies
  <2> QED BY <2>1, <2>2 DEF NoFalseAlarm
<1>2. ClosedUnderManifest
  <2>1. DOMAIN flow = FlowKeys
    BY DEF VaultInv, VaultTypeOK
  <2> QED BY <2>1 DEF ClosedUnderManifest, VaultInv, ManifestClosed, FlowSound, Snaps
<1>3. MaterializedUnderTrust
  BY DEF VaultInv, ApplySound
<1> QED BY <1>1, <1>2, <1>3 DEF VaultSafe

\* For any stagers, candidates, verifiers and quorum: processes that store the same
\* objects, or die half-way, never make each other's reads look like tampering; what a
\* manifest or a recorded workflow names is in the store (ContentAddressedStore.put_bytes,
\* _read_verified_artifact, store_candidate); and what is materialised has its quorum
\* under the keys trusted when it was resumed (_reverify_attestations).
THEOREM VaultSafeAlways == ASSUME VaultQuorum \in Nat PROVE VaultSpec => []VaultSafe
<1>1. VaultInv /\ [VaultNext]_vaultVars => VaultInv'
  BY VaultNextInv
<1> QED BY <1>1, VaultInitInv, VaultInvSafe, PTL DEF VaultSpec

-----------------------------------------------------------------------------
(***************************************************************************)
(* The agent loop.                                                         *)
(***************************************************************************)
Hows == {"none", "allow", "approved"}
Messages == [id : AskIds \cup {1, 2}, reply : BOOLEAN, ok : BOOLEAN]

\* A turn's calls are at work, and one of them is with the runner.
AtCalls(r) == r.pc \in {"calls", "run", "mcp"}
AtTool(r) == r.pc \in {"run", "mcp"}

AgentTypeOK ==
    /\ DOMAIN run = {"pc", "turn", "used", "at", "ids", "how", "pause", "over", "results", "status"}
    /\ run.pc \in {"turn", "model", "calls", "run", "mcp", "done"}
    /\ run.turn \in 0..MaxTurns /\ run.used \in 0..MaxCalls
    /\ run.at \in Nat /\ run.ids \in Nat /\ run.how \in Hows
    /\ DOMAIN mcp = {"pc", "sent"} /\ mcp.pc \in {"none", "init", "call"} /\ mcp.sent \in Nat
    /\ wire \in Seq(Messages)
    /\ verdict \in [1..(2 * MaxTurns) -> [how : Hows, ok : BOOLEAN]]

\* The ids are handed out in order, at most two per turn.
CallsSound ==
    /\ run.ids <= 2 * run.turn
    /\ run.pc = "model" => run.ids <= 2 * (run.turn - 1)
    /\ AtCalls(run) =>
         /\ calls \in Seq([id : Nat, name : Tools \cup {"unknown"}])
         /\ run.at \in 1..(Len(calls) + 1) /\ Len(calls) <= run.ids
         /\ \A i \in 1..Len(calls) : calls[i].id = run.ids - Len(calls) + i
    /\ AtTool(run) => run.at <= Len(calls)

\* The ids whose call has its result.
Consumed == IF AtCalls(run) THEN run.ids - Len(calls) + run.at - 1 ELSE run.ids

ResultsSound ==
    /\ asked \subseteq Int
    /\ \A r \in run.results :
          /\ r.id \in 1..Consumed /\ r.turn \in 0..run.turn
          /\ run.pc = "model" => r.turn < run.turn
          /\ r.status = "success" => verdict[r.id].ok

\* The ids of the tools that ran, and the calls the budget knows of.
RanIds(v) == {i \in DOMAIN v : v[i].how # "none"}
BudgetSound ==
    /\ Cardinality(RanIds(verdict)) <= run.used
    /\ AtTool(run) => Cardinality(RanIds(verdict) \ {This.id}) <= run.used - 1

\* Only an answer of the tool carries the number of the call.
WireSound ==
    /\ mcp.pc # "none" => run.pc = "mcp"
    /\ mcp.pc = "init" => \A i \in 1..Len(wire) : wire[i].id # 2
    /\ mcp.pc = "call" => \A i \in 1..Len(wire) :
          wire[i].id = 2 => wire[i].reply /\ wire[i].ok = verdict[This.id].ok

AgentInv ==
    AgentTypeOK /\ CallsSound /\ ResultsSound /\ BudgetSound /\ WireSound /\ ErrorNeverGrounds

\* The bounds count, and the server numbers none of its requests like the
\* call of a session.
AgentHypotheses == MaxTurns \in Nat /\ MaxCalls \in Nat /\ 2 \notin AskIds

-----------------------------------------------------------------------------
LEMMA RanIdsFinite ==
    ASSUME AgentHypotheses, NEW v \in [1..(2 * MaxTurns) -> [how : Hows, ok : BOOLEAN]], NEW x
    PROVE  /\ IsFiniteSet(RanIds(v)) /\ IsFiniteSet(RanIds(v) \ {x})
           /\ Cardinality(RanIds(v)) \in Nat /\ Cardinality(RanIds(v) \ {x}) \in Nat
           /\ Cardinality(RanIds(v) \ {x}) <= Cardinality(RanIds(v))
           /\ Cardinality(RanIds(v)) <= Cardinality(RanIds(v) \ {x}) + 1
<1>1. IsFiniteSet(1..(2 * MaxTurns))
  BY FS_Interval DEF AgentHypotheses
<1>2. RanIds(v) \subseteq 1..(2 * MaxTurns)
  BY DEF RanIds
<1>3. IsFiniteSet(RanIds(v))
  BY <1>1, <1>2, FS_Subset
<1>4. /\ IsFiniteSet(RanIds(v) \ {x})
      /\ Cardinality(RanIds(v) \ {x}) = IF x \in RanIds(v) THEN Cardinality(RanIds(v)) - 1
                                        ELSE Cardinality(RanIds(v))
  BY <1>3, FS_RemoveElement
<1>5. Cardinality(RanIds(v)) \in Nat /\ Cardinality(RanIds(v) \ {x}) \in Nat
  BY <1>3, <1>4, FS_CardinalityType
<1> QED BY <1>3, <1>4, <1>5

\* The call in hand comes after the ones that have their results.
LEMMA ThisId ==
    ASSUME AgentHypotheses, AgentTypeOK, CallsSound, AtCalls(run), run.at <= Len(calls)
    PROVE  /\ This.id = run.ids - Len(calls) + run.at
           /\ This.id = Consumed + 1
           /\ This.id \in 1..run.ids
           /\ This.id \in 1..(2 * MaxTurns)
           /\ Len(calls) \in Nat
<1>1. Len(calls) \in Nat /\ run.at \in 1..Len(calls) /\ Len(calls) <= run.ids /\ run.ids \in Nat
  BY DEF AgentTypeOK, CallsSound
<1>2. This.id = run.ids - Len(calls) + run.at
  BY <1>1 DEF CallsSound, This
<1>3. This.id = Consumed + 1 /\ This.id \in 1..run.ids
  BY <1>1, <1>2 DEF Consumed
<1>4. run.ids <= 2 * run.turn /\ run.turn \in 0..MaxTurns /\ MaxTurns \in Nat
  BY DEF CallsSound, AgentTypeOK, AgentHypotheses
<1>5. This.id \in 1..(2 * MaxTurns)
  BY <1>1, <1>3, <1>4
<1> QED BY <1>1, <1>2, <1>3, <1>5

\* The tool of a call has a verdict: no other call's changes.
LEMMA VerdictCounted ==
    ASSUME AgentHypotheses, AgentTypeOK, CallsSound, BudgetSound, AtTool(run), NEW ok \in BOOLEAN,
           verdict' = [verdict EXCEPT ![This.id] = [how |-> run.how, ok |-> ok]]
    PROVE  /\ This.id \in 1..(2 * MaxTurns)
           /\ verdict' \in [1..(2 * MaxTurns) -> [how : Hows, ok : BOOLEAN]]
           /\ verdict'[This.id].ok = ok
           /\ \A i \in 1..(2 * MaxTurns) : i # This.id => verdict'[i] = verdict[i]
           /\ Cardinality(RanIds(verdict')) <= run.used
           /\ Cardinality(RanIds(verdict') \ {This.id}) <= run.used - 1
<1>1. This.id \in 1..(2 * MaxTurns)
  BY ThisId DEF AtTool, AtCalls, CallsSound
<1>2. /\ verdict' \in [1..(2 * MaxTurns) -> [how : Hows, ok : BOOLEAN]]
      /\ verdict'[This.id].ok = ok
      /\ \A i \in 1..(2 * MaxTurns) : i # This.id => verdict'[i] = verdict[i]
  BY <1>1 DEF AgentTypeOK
<1>3. RanIds(verdict') \ {This.id} = RanIds(verdict) \ {This.id}
  BY <1>1, <1>2 DEF RanIds, AgentTypeOK
<1>4. Cardinality(RanIds(verdict') \ {This.id}) <= run.used - 1
  BY <1>3 DEF BudgetSound
<1>5. /\ Cardinality(RanIds(verdict')) <= Cardinality(RanIds(verdict') \ {This.id}) + 1
      /\ Cardinality(RanIds(verdict')) \in Nat
      /\ Cardinality(RanIds(verdict') \ {This.id}) \in Nat
  BY <1>2, RanIdsFinite
<1> QED BY <1>1, <1>2, <1>4, <1>5 DEF AgentTypeOK

\* The loop ends without a call in hand.
LEMMA StopInv ==
    ASSUME AgentHypotheses, AgentInv, ~AtTool(run), NEW s, Stop(s)
    PROVE  AgentInv'
<1>1. mcp.pc = "none"
  BY DEF AgentInv, WireSound, AtTool
<1>2. AgentTypeOK'
  BY DEF AgentInv, AgentTypeOK, Stop
<1>3. ~AtCalls(run') /\ ~AtTool(run') /\ run'.pc = "done" /\ run'.ids = run.ids
      /\ run'.turn = run.turn /\ run'.used = run.used /\ run'.results = run.results
  BY DEF AgentInv, AgentTypeOK, Stop, AtCalls, AtTool
<1>4. CallsSound'
  BY <1>3 DEF AgentInv, AgentTypeOK, CallsSound, AtCalls, AtTool
<1>5. ResultsSound'
  <2>1. Consumed' = run.ids /\ Consumed \in Int /\ Consumed <= run.ids
    BY <1>3 DEF AgentInv, AgentTypeOK, CallsSound, Consumed
  <2>2. verdict' = verdict /\ asked' = asked
    BY DEF Stop
  <2> QED BY <1>3, <2>1, <2>2 DEF AgentInv, AgentTypeOK, ResultsSound
<1>6. BudgetSound' /\ WireSound'
  BY <1>1, <1>3 DEF AgentInv, BudgetSound, WireSound, Stop
<1>7. ErrorNeverGrounds'
  BY <1>3 DEF AgentInv, ErrorNeverGrounds, Stop
<1> QED BY <1>2, <1>4, <1>5, <1>6, <1>7 DEF AgentInv

LEMMA BeginTurnInv ==
    ASSUME AgentHypotheses, AgentInv, BeginTurn
    PROVE  AgentInv'
<1>1. CASE \E s : Stop(s)
  BY <1>1, StopInv DEF BeginTurn, AtTool
<1>2. CASE /\ run' = [run EXCEPT !.pc = "model", !.turn = @ + 1] /\ run.turn < MaxTurns
           /\ asked' = asked \cup PendingSuccess /\ UNCHANGED <<calls, mcp, wire, late, verdict>>
  <2>1. AgentTypeOK'
    BY <1>2 DEF AgentInv, AgentTypeOK, AgentHypotheses
  <2>2. /\ ~AtCalls(run') /\ ~AtTool(run') /\ run'.pc = "model" /\ run'.ids = run.ids
        /\ run'.turn = run.turn + 1 /\ run'.used = run.used /\ run'.results = run.results
        /\ ~AtCalls(run) /\ ~AtTool(run) /\ run.pc = "turn" /\ mcp.pc = "none"
    BY <1>2 DEF AgentInv, AgentTypeOK, BeginTurn, AtCalls, AtTool, WireSound
  <2>3. CallsSound'
    BY <2>2 DEF AgentInv, AgentTypeOK, CallsSound
  <2>4. \A r \in run.results : r.id \in 1..run.ids /\ r.turn \in 0..run.turn
                               /\ (r.status = "success" => verdict[r.id].ok)
    BY <2>2 DEF AgentInv, ResultsSound, Consumed
  <2>5. \A i \in PendingSuccess :
           \E r \in run.results : r.id = i /\ r.status = "success"
    BY DEF PendingSuccess
  <2>6. ResultsSound'
    BY <1>2, <2>2, <2>4, <2>5 DEF AgentInv, AgentTypeOK, ResultsSound, Consumed
  <2>7. BudgetSound' /\ WireSound'
    BY <1>2, <2>2 DEF AgentInv, BudgetSound, WireSound
  <2>8. ErrorNeverGrounds'
    <3> SUFFICES ASSUME NEW i \in asked'
                 PROVE  verdict[i].ok /\ \E r \in run.results : r.id = i /\ r.turn < run.turn + 1
      BY <1>2, <2>2 DEF ErrorNeverGrounds
    <3>1. CASE i \in asked
      BY <3>1, <2>4 DEF AgentInv, ErrorNeverGrounds, AgentTypeOK
    <3>2. CASE i \in PendingSuccess
      BY <3>2, <2>4, <2>5 DEF AgentInv, AgentTypeOK
    <3> QED BY <1>2, <3>1, <3>2
  <2> QED BY <2>1, <2>3, <2>6, <2>7, <2>8 DEF AgentInv
<1> QED BY <1>1, <1>2 DEF BeginTurn, AgentInv, AgentTypeOK, AgentHypotheses

LEMMA ModelCallsInv ==
    ASSUME AgentHypotheses, AgentInv, ModelCalls
    PROVE  AgentInv'
<1>1. /\ ~AtCalls(run) /\ ~AtTool(run) /\ run.pc = "model" /\ mcp.pc = "none"
      /\ run.ids \in Nat /\ run.turn \in 0..MaxTurns /\ run.ids <= 2 * (run.turn - 1)
  BY DEF AgentInv, AgentTypeOK, ModelCalls, AtCalls, AtTool, WireSound, CallsSound
<1>2. PICK n \in 1..2 : \E names \in [1..n -> Tools \cup {"unknown"}] :
         calls' = [i \in 1..n |-> [id |-> run.ids + i, name |-> names[i]]]
  BY DEF ModelCalls
<1>3. PICK names \in [1..n -> Tools \cup {"unknown"}] :
         calls' = [i \in 1..n |-> [id |-> run.ids + i, name |-> names[i]]]
  BY <1>2
<1>4. /\ calls' \in Seq([id : Nat, name : Tools \cup {"unknown"}]) /\ Len(calls') = n
      /\ \A i \in 1..n : calls'[i].id = run.ids + i
  BY <1>1, <1>3
<1>5. run' = [run EXCEPT !.pc = "calls", !.ids = @ + n, !.at = 1]
  BY <1>4 DEF ModelCalls
<1>6. /\ AtCalls(run') /\ ~AtTool(run') /\ run'.pc = "calls" /\ run'.ids = run.ids + n
      /\ run'.at = 1 /\ run'.turn = run.turn /\ run'.used = run.used /\ run'.results = run.results
  BY <1>5 DEF AgentInv, AgentTypeOK, AtCalls, AtTool
<1>7. AgentTypeOK'
  BY <1>1, <1>5 DEF AgentInv, AgentTypeOK, ModelCalls
<1>8. CallsSound'
  BY SMTT(30), <1>1, <1>4, <1>6 DEF CallsSound
<1>9. ResultsSound'
  <2>1. Consumed' = run.ids /\ Consumed = run.ids
    BY <1>1, <1>4, <1>6 DEF Consumed
  <2> QED BY <1>6, <2>1 DEF AgentInv, ResultsSound, ModelCalls
<1>10. BudgetSound' /\ WireSound'
  BY <1>1, <1>6 DEF AgentInv, BudgetSound, WireSound, ModelCalls
<1>11. ErrorNeverGrounds'
  BY <1>6 DEF AgentInv, ErrorNeverGrounds, ModelCalls
<1> QED BY <1>7, <1>8, <1>9, <1>10, <1>11 DEF AgentInv

\* A call gets its result, and the next one is up.
LEMMA ResultInv ==
    ASSUME AgentHypotheses, AgentTypeOK, CallsSound, ResultsSound, ErrorNeverGrounds,
           AtCalls(run), run.at <= Len(calls), NEW status,
           run'.results = run.results \cup {[id |-> This.id, turn |-> run.turn, status |-> status]},
           run'.at = run.at + 1, run'.pc = "calls", run'.ids = run.ids, run'.turn = run.turn,
           UNCHANGED <<calls, asked>>,
           \A i \in 1..(2 * MaxTurns) : i # This.id => verdict'[i] = verdict[i],
           status = "success" => verdict'[This.id].ok
    PROVE  CallsSound' /\ ResultsSound' /\ ErrorNeverGrounds'
<1>1. /\ This.id = Consumed + 1 /\ This.id \in 1..run.ids /\ This.id \in 1..(2 * MaxTurns)
      /\ Len(calls) \in Nat /\ run.at \in 1..Len(calls) /\ run.ids \in Nat /\ run.turn \in Nat
      /\ run.ids <= 2 * run.turn
  BY SMTT(30), ThisId DEF AgentTypeOK, CallsSound
<1>2. CallsSound'
  BY <1>1 DEF CallsSound, AtCalls, AtTool
<1>3. Consumed' = Consumed + 1 /\ Consumed \in Int
  <2>1. AtCalls(run') /\ calls' = calls
    BY DEF AtCalls
  <2>2. Consumed = run.ids - Len(calls) + run.at - 1
    BY DEF Consumed
  <2>3. Consumed' = run.ids - Len(calls) + (run.at + 1) - 1
    BY <2>1 DEF Consumed
  <2> QED BY SMTT(30), <1>1, <2>2, <2>3
<1>4. run.pc # "model"
  BY DEF AtCalls
<1>5. \A r \in run.results : r.id \in 1..Consumed /\ r.id # This.id /\ verdict'[r.id] = verdict[r.id]
  <2> SUFFICES ASSUME NEW r \in run.results
               PROVE  r.id \in 1..Consumed /\ r.id # This.id /\ verdict'[r.id] = verdict[r.id]
    OBVIOUS
  <2>1. r.id \in 1..Consumed
    BY DEF ResultsSound
  <2>2. r.id # This.id /\ r.id \in 1..(2 * MaxTurns)
    BY <1>1, <1>3, <2>1 DEF AgentHypotheses
  <2> QED BY <2>1, <2>2
<1>6. ResultsSound'
  <2> SUFFICES ASSUME NEW r \in run'.results
               PROVE  /\ r.id \in 1..Consumed' /\ r.turn \in 0..run.turn
                      /\ r.status = "success" => verdict'[r.id].ok
    BY DEF ResultsSound
  <2>1. CASE r \in run.results
    BY <2>1, <1>3, <1>5 DEF ResultsSound
  <2>2. CASE r = [id |-> This.id, turn |-> run.turn, status |-> status]
    BY <2>2, <1>1, <1>3
  <2> QED BY <2>1, <2>2
<1>7. ErrorNeverGrounds'
  <2> SUFFICES ASSUME NEW i \in asked
               PROVE  verdict'[i].ok /\ \E r \in run'.results : r.id = i /\ r.turn < run'.turn
    BY DEF ErrorNeverGrounds
  <2>1. PICK r \in run.results : r.id = i /\ r.turn < run.turn
    BY DEF ErrorNeverGrounds
  <2> QED BY <2>1, <1>5 DEF ErrorNeverGrounds
<1> QED BY <1>2, <1>6, <1>7

\* A call that is answered without its tool, or put off.
LEMMA AnsweredInv ==
    ASSUME AgentHypotheses, AgentInv, CallOverBudget \/ CallRejected \/ NotApproved
    PROVE  AgentInv'
<1>1. /\ run.pc = "calls" /\ AtCalls(run) /\ ~AtTool(run) /\ run.at <= Len(calls)
      /\ UNCHANGED <<calls, asked, mcp, wire, late, verdict>> /\ mcp.pc = "none"
  BY DEF CallOverBudget, CallRejected, NotApproved, AtCalls, AtTool, AgentInv, WireSound
<1>2. \E status : \E u \in {0, 1} :
         /\ status # "success"
         /\ run'.results = run.results \cup {[id |-> This.id, turn |-> run.turn, status |-> status]}
         /\ DOMAIN run' = DOMAIN run /\ run'.at = run.at + 1 /\ run'.pc = "calls"
         /\ run'.ids = run.ids /\ run'.turn = run.turn /\ run'.how = run.how
         /\ run'.used = run.used + u /\ run'.used <= MaxCalls
  <2>1. CASE CallOverBudget
    <3>1. run' = [run EXCEPT !.results = @ \cup {[id |-> This.id, turn |-> run.turn, status |-> "stopped"]},
                             !.at = @ + 1, !.over = TRUE]
      BY <2>1 DEF CallOverBudget
    <3>3. /\ run'.results = run.results \cup {[id |-> This.id, turn |-> run.turn, status |-> "stopped"]}
          /\ DOMAIN run' = DOMAIN run /\ run'.at = run.at + 1 /\ run'.pc = "calls"
          /\ run'.ids = run.ids /\ run'.turn = run.turn /\ run'.how = run.how
          /\ run'.used = run.used + 0 /\ run'.used <= MaxCalls
      BY <3>1, <1>1 DEF AgentInv, AgentTypeOK, AgentHypotheses
    <3> QED BY <3>3
  <2>2. CASE CallRejected
    <3>1. PICK s \in {"denied", "error"} : run' = [run EXCEPT !.used = @ + 1, !.at = @ + 1,
                  !.results = @ \cup {[id |-> This.id, turn |-> run.turn, status |-> s]}]
      BY <2>2 DEF CallRejected
    <3>2. run.used < MaxCalls
      BY <2>2 DEF CallRejected
    <3>3. /\ run'.results = run.results \cup {[id |-> This.id, turn |-> run.turn, status |-> s]}
          /\ DOMAIN run' = DOMAIN run /\ run'.at = run.at + 1 /\ run'.pc = "calls"
          /\ run'.ids = run.ids /\ run'.turn = run.turn /\ run'.how = run.how
          /\ run'.used = run.used + 1 /\ run'.used <= MaxCalls
      BY <3>1, <3>2, <1>1 DEF AgentInv, AgentTypeOK, AgentHypotheses
    <3> QED BY <3>3
  <2>3. CASE NotApproved
    <3>1. PICK h \in {"none", "error", "denied"} \cap Handlers :
             run' = [run EXCEPT !.used = @ + 1, !.at = @ + 1, !.pause = @ \/ h # "denied",
                        !.results = @ \cup {[id |-> This.id, turn |-> run.turn, status |-> h]}]
      BY <2>3 DEF NotApproved
    <3>2. run.used < MaxCalls
      BY <2>3 DEF NotApproved
    <3>3. /\ run'.results = run.results \cup {[id |-> This.id, turn |-> run.turn, status |-> h]}
          /\ DOMAIN run' = DOMAIN run /\ run'.at = run.at + 1 /\ run'.pc = "calls"
          /\ run'.ids = run.ids /\ run'.turn = run.turn /\ run'.how = run.how
          /\ run'.used = run.used + 1 /\ run'.used <= MaxCalls
      BY <3>1, <3>2, <1>1 DEF AgentInv, AgentTypeOK, AgentHypotheses
    <3> QED BY <3>3
  <2> QED BY <2>1, <2>2, <2>3
<1>3. PICK status : \E u \in {0, 1} :
         /\ status # "success"
         /\ run'.results = run.results \cup {[id |-> This.id, turn |-> run.turn, status |-> status]}
         /\ DOMAIN run' = DOMAIN run /\ run'.at = run.at + 1 /\ run'.pc = "calls"
         /\ run'.ids = run.ids /\ run'.turn = run.turn /\ run'.how = run.how
         /\ run'.used = run.used + u /\ run'.used <= MaxCalls
  BY <1>2
<1>4. AgentTypeOK'
  BY <1>1, <1>3 DEF AgentInv, AgentTypeOK
<1>5. CallsSound' /\ ResultsSound' /\ ErrorNeverGrounds'
  BY <1>1, <1>3, ResultInv DEF AgentInv
<1>6. BudgetSound'
  <2>1. Cardinality(RanIds(verdict)) \in Nat
    BY RanIdsFinite DEF AgentInv, AgentTypeOK
  <2> QED BY <1>1, <1>3, <2>1 DEF AgentInv, AgentTypeOK, BudgetSound, AtTool
<1>7. WireSound'
  BY <1>1 DEF WireSound
<1> QED BY <1>4, <1>5, <1>6, <1>7 DEF AgentInv

LEMMA AuthorizeInv ==
    ASSUME AgentHypotheses, AgentInv, Authorize
    PROVE  AgentInv'
<1>1. /\ run.pc = "calls" /\ AtCalls(run) /\ ~AtTool(run) /\ run.at <= Len(calls)
      /\ UNCHANGED <<calls, asked, mcp, wire, late, verdict>> /\ mcp.pc = "none"
      /\ run.used < MaxCalls
  BY DEF Authorize, AtCalls, AtTool, AgentInv, WireSound
<1>2. \E how \in {"allow", "approved"} : run' = [run EXCEPT !.used = @ + 1, !.pc = "run", !.how = how]
  BY DEF Authorize
<1>3. /\ AgentTypeOK' /\ run'.pc = "run" /\ AtCalls(run') /\ AtTool(run')
      /\ run'.used = run.used + 1 /\ run'.at = run.at /\ run'.ids = run.ids
      /\ run'.turn = run.turn /\ run'.results = run.results
  BY <1>1, <1>2 DEF AgentInv, AgentTypeOK, AgentHypotheses, Hows, AtCalls, AtTool
<1>4. CallsSound'
  BY <1>1, <1>3 DEF AgentInv, CallsSound
<1>5. ResultsSound' /\ ErrorNeverGrounds'
  BY <1>1, <1>3 DEF AgentInv, ResultsSound, ErrorNeverGrounds, Consumed
<1>6. BudgetSound'
  <2>1. /\ Cardinality(RanIds(verdict)) \in Nat /\ Cardinality(RanIds(verdict) \ {This.id}) \in Nat
        /\ Cardinality(RanIds(verdict) \ {This.id}) <= Cardinality(RanIds(verdict))
    BY RanIdsFinite DEF AgentInv, AgentTypeOK
  <2>2. This' = This
    BY <1>1, <1>3 DEF This
  <2> QED BY <1>1, <1>3, <2>1, <2>2 DEF AgentInv, AgentTypeOK, BudgetSound
<1>7. WireSound'
  BY <1>1 DEF WireSound
<1> QED BY <1>3, <1>4, <1>5, <1>6, <1>7 DEF AgentInv

LEMMA EndTurnInv ==
    ASSUME AgentHypotheses, AgentInv, EndTurn
    PROVE  AgentInv'
<1>1. CASE \E s : Stop(s)
  BY <1>1, StopInv DEF EndTurn, AtTool
<1>2. CASE run' = [run EXCEPT !.pc = "turn"] /\ UNCHANGED <<calls, asked, mcp, wire, late, verdict>>
  <2>1. /\ run.pc = "calls" /\ AtCalls(run) /\ ~AtTool(run) /\ mcp.pc = "none"
        /\ ~AtCalls(run') /\ ~AtTool(run') /\ run'.pc = "turn" /\ run'.ids = run.ids
        /\ run'.turn = run.turn /\ run'.used = run.used /\ run'.results = run.results
    BY <1>2 DEF EndTurn, AtCalls, AtTool, AgentInv, AgentTypeOK, WireSound
  <2>2. AgentTypeOK'
    BY <1>2 DEF AgentInv, AgentTypeOK
  <2>3. CallsSound'
    BY <2>1 DEF AgentInv, CallsSound
  <2>4. Consumed' = run.ids /\ Consumed \in Int /\ Consumed <= run.ids /\ run.ids \in Nat
    BY <2>1 DEF AgentInv, AgentTypeOK, CallsSound, Consumed
  <2>5. ResultsSound' /\ ErrorNeverGrounds'
    BY <1>2, <2>1, <2>4 DEF AgentInv, ResultsSound, ErrorNeverGrounds
  <2>6. BudgetSound' /\ WireSound'
    BY <1>2, <2>1 DEF AgentInv, BudgetSound, WireSound
  <2> QED BY <2>2, <2>3, <2>5, <2>6 DEF AgentInv
<1> QED BY <1>1, <1>2 DEF EndTurn

-----------------------------------------------------------------------------
\* The runner's result of a call, after its verdict.
LEMMA RecordInv ==
    ASSUME AgentHypotheses, AgentTypeOK, CallsSound, ResultsSound, ErrorNeverGrounds,
           AtTool(run), NEW status \in {"success", "error"}, Record(status),
           UNCHANGED <<calls, asked>>, mcp' = NoMcp, wire' \in Seq(Messages),
           verdict' \in [1..(2 * MaxTurns) -> [how : Hows, ok : BOOLEAN]],
           \A i \in 1..(2 * MaxTurns) : i # This.id => verdict'[i] = verdict[i],
           status = "success" => verdict'[This.id].ok,
           Cardinality(RanIds(verdict')) <= run.used
    PROVE  AgentInv'
<1>1. /\ AtCalls(run) /\ run.at <= Len(calls)
      /\ run'.results = run.results \cup {[id |-> This.id, turn |-> run.turn, status |-> status]}
      /\ run'.at = run.at + 1 /\ run'.pc = "calls" /\ run'.ids = run.ids /\ run'.turn = run.turn
      /\ run'.used = run.used /\ run'.how = "none" /\ DOMAIN run' = DOMAIN run
  BY DEF Record, AgentTypeOK, AtCalls, AtTool, CallsSound
<1>2. CallsSound' /\ ResultsSound' /\ ErrorNeverGrounds'
  BY <1>1, ResultInv
<1>3. AgentTypeOK'
  BY <1>1 DEF AgentTypeOK, NoMcp, Hows
<1>4. BudgetSound' /\ WireSound'
  BY <1>1 DEF BudgetSound, WireSound, NoMcp, AtTool
<1> QED BY <1>2, <1>3, <1>4 DEF AgentInv

LEMMA RunLocalInv ==
    ASSUME AgentHypotheses, AgentInv, RunLocal
    PROVE  AgentInv'
<1>1. PICK ok \in BOOLEAN :
         /\ verdict' = [verdict EXCEPT ![This.id] = [how |-> run.how, ok |-> ok]]
         /\ Record(IF ok THEN "success" ELSE "error")
  BY DEF RunLocal
<1>2. AtTool(run) /\ mcp.pc = "none" /\ UNCHANGED <<calls, asked, mcp, wire, late>>
  BY DEF RunLocal, AtTool, AgentInv, WireSound
<1>3. /\ verdict' \in [1..(2 * MaxTurns) -> [how : Hows, ok : BOOLEAN]]
      /\ verdict'[This.id].ok = ok
      /\ \A i \in 1..(2 * MaxTurns) : i # This.id => verdict'[i] = verdict[i]
      /\ Cardinality(RanIds(verdict')) <= run.used
  BY <1>1, <1>2, VerdictCounted DEF AgentInv
<1>4. PICK status : /\ status = "success" => ok
                    /\ Record(status)
  BY <1>1
<1>5. /\ AtCalls(run) /\ run.at <= Len(calls)
      /\ run'.results = run.results \cup {[id |-> This.id, turn |-> run.turn, status |-> status]}
      /\ run'.at = run.at + 1 /\ run'.pc = "calls" /\ run'.ids = run.ids /\ run'.turn = run.turn
      /\ run'.used = run.used /\ run'.how = "none" /\ DOMAIN run' = DOMAIN run
  BY <1>2, <1>4 DEF Record, AgentInv, AgentTypeOK, AtCalls, AtTool, CallsSound
<1>6. CallsSound' /\ ResultsSound' /\ ErrorNeverGrounds'
  BY <1>2, <1>3, <1>4, <1>5, ResultInv DEF AgentInv
<1>7. AgentTypeOK'
  BY <1>2, <1>3, <1>5 DEF AgentInv, AgentTypeOK, Hows
<1>8. BudgetSound' /\ WireSound'
  BY <1>2, <1>3, <1>5 DEF BudgetSound, WireSound, AtTool
<1> QED BY <1>6, <1>7, <1>8 DEF AgentInv

\* A step that leaves the loop's fields and the verdicts alone, apart from the place.
LEMMA OpenSessionInv ==
    ASSUME AgentHypotheses, AgentInv, OpenSession
    PROVE  AgentInv'
<1>1. /\ run.pc = "run" /\ AtTool(run) /\ AtCalls(run) /\ run' = [run EXCEPT !.pc = "mcp"]
      /\ mcp' = [pc |-> "init", sent |-> 0] /\ wire' = <<>>
      /\ UNCHANGED <<calls, asked, late, verdict>>
  BY DEF OpenSession, AtTool, AtCalls
<1>2. /\ AgentTypeOK' /\ run'.pc = "mcp" /\ AtCalls(run') /\ AtTool(run')
      /\ run'.used = run.used /\ run'.at = run.at /\ run'.ids = run.ids
      /\ run'.turn = run.turn /\ run'.results = run.results
  BY <1>1 DEF AgentInv, AgentTypeOK, AtCalls, AtTool
<1>3. CallsSound' /\ ResultsSound' /\ ErrorNeverGrounds'
  BY <1>1, <1>2 DEF AgentInv, CallsSound, ResultsSound, ErrorNeverGrounds, Consumed
<1>4. BudgetSound' /\ WireSound'
  BY <1>1, <1>2 DEF AgentInv, BudgetSound, WireSound, This
<1> QED BY <1>2, <1>3, <1>4 DEF AgentInv

\* The queue of the session grows by a message that is not mistaken.
LEMMA ServerInv ==
    ASSUME AgentHypotheses, AgentInv, ServerReplies \/ ServerRequests
    PROVE  AgentInv'
<1>1. /\ run.pc = "mcp" /\ AtTool(run) /\ mcp.pc \in {"init", "call"}
      /\ mcp' = [mcp EXCEPT !.sent = @ + 1] /\ UNCHANGED <<run, calls, asked, late>>
      /\ mcp'.pc = mcp.pc /\ This' = This
  BY DEF ServerReplies, ServerRequests, AgentInv, AgentTypeOK, WireSound, AtTool, This
<1>2. CASE ServerRequests
  <2>1. PICK id \in AskIds : wire' = Append(wire, [id |-> id, reply |-> FALSE, ok |-> TRUE])
    BY <1>2 DEF ServerRequests
  <2>2. verdict' = verdict
    BY <1>2 DEF ServerRequests
  <2>3. AgentTypeOK'
    BY <1>1, <2>1, <2>2 DEF AgentInv, AgentTypeOK, Messages
  <2>4. CallsSound' /\ ResultsSound' /\ BudgetSound' /\ ErrorNeverGrounds'
    BY <1>1, <2>2 DEF AgentInv, CallsSound, ResultsSound, BudgetSound, ErrorNeverGrounds, Consumed
  <2>5. \A i \in 1..Len(wire') : (i \in 1..Len(wire) /\ wire'[i] = wire[i]) \/ wire'[i].id = id
    BY <2>1 DEF AgentInv, AgentTypeOK
  <2>6. WireSound'
    BY <1>1, <2>2, <2>5 DEF AgentInv, WireSound, AgentHypotheses
  <2> QED BY <2>3, <2>4, <2>6 DEF AgentInv
<1>3. CASE ServerReplies /\ mcp.pc = "init"
  <2>1. PICK ok \in BOOLEAN : wire' = Append(wire, [id |-> 1, reply |-> TRUE, ok |-> ok])
    BY <1>3 DEF ServerReplies, Expected
  <2>2. verdict' = verdict
    BY <1>3 DEF ServerReplies
  <2>3. AgentTypeOK'
    BY <1>1, <2>1, <2>2 DEF AgentInv, AgentTypeOK, Messages
  <2>4. CallsSound' /\ ResultsSound' /\ BudgetSound' /\ ErrorNeverGrounds'
    BY <1>1, <2>2 DEF AgentInv, CallsSound, ResultsSound, BudgetSound, ErrorNeverGrounds, Consumed
  <2>5. \A i \in 1..Len(wire') : (i \in 1..Len(wire) /\ wire'[i] = wire[i]) \/ wire'[i].id = 1
    BY <2>1 DEF AgentInv, AgentTypeOK
  <2>6. WireSound'
    BY <1>1, <1>3, <2>2, <2>5 DEF AgentInv, WireSound
  <2> QED BY <2>3, <2>4, <2>6 DEF AgentInv
<1>4. CASE ServerReplies /\ mcp.pc = "call"
  <2>1. PICK ok \in BOOLEAN :
           /\ wire' = Append(wire, [id |-> 2, reply |-> TRUE, ok |-> ok])
           /\ verdict' = [verdict EXCEPT ![This.id] = [how |-> run.how, ok |-> ok]]
    BY <1>4 DEF ServerReplies, Expected
  <2>2. /\ verdict' \in [1..(2 * MaxTurns) -> [how : Hows, ok : BOOLEAN]]
        /\ verdict'[This.id].ok = ok
        /\ \A i \in 1..(2 * MaxTurns) : i # This.id => verdict'[i] = verdict[i]
        /\ Cardinality(RanIds(verdict')) <= run.used
        /\ Cardinality(RanIds(verdict') \ {This.id}) <= run.used - 1
    BY <1>1, <2>1, VerdictCounted DEF AgentInv
  <2>3. AgentTypeOK'
    BY <1>1, <2>1, <2>2 DEF AgentInv, AgentTypeOK, Messages
  <2>4. CallsSound' /\ BudgetSound'
    BY <1>1, <2>2 DEF AgentInv, CallsSound, BudgetSound
  <2>5. \A r \in run.results : verdict'[r.id] = verdict[r.id]
    <3> SUFFICES ASSUME NEW r \in run.results PROVE verdict'[r.id] = verdict[r.id]
      OBVIOUS
    <3>1. /\ This.id = Consumed + 1 /\ This.id \in 1..(2 * MaxTurns) /\ r.id \in 1..Consumed
      BY <1>1, ThisId DEF AgentInv, AtTool, AtCalls, CallsSound, ResultsSound
    <3>2. r.id # This.id /\ r.id \in 1..(2 * MaxTurns)
      <4>1. Consumed \in Int
        BY <1>1, ThisId DEF AgentInv, AgentTypeOK, AtTool, AtCalls, CallsSound, Consumed
      <4> QED BY <3>1, <4>1 DEF AgentHypotheses
    <3> QED BY <2>2, <3>2
  <2>6. ResultsSound' /\ ErrorNeverGrounds'
    <3>1. Consumed' = Consumed
      BY <1>1 DEF Consumed
    <3>2. ResultsSound'
      BY <1>1, <2>5, <3>1 DEF AgentInv, ResultsSound
    <3>3. ErrorNeverGrounds'
      <4> SUFFICES ASSUME NEW i \in asked
                   PROVE  verdict'[i].ok /\ \E r \in run.results : r.id = i /\ r.turn < run.turn
        BY <1>1 DEF ErrorNeverGrounds
      <4>1. PICK r \in run.results : r.id = i /\ r.turn < run.turn
        BY DEF AgentInv, ErrorNeverGrounds
      <4> QED BY <4>1, <2>5 DEF AgentInv, ErrorNeverGrounds
    <3> QED BY <3>2, <3>3
  <2>7. \A i \in 1..Len(wire) : wire[i].id # 2
    BY <1>4 DEF ServerReplies, Expected, AgentInv, WireSound
  <2>8. \A i \in 1..Len(wire') :
           \/ wire'[i] = wire[i] /\ i \in 1..Len(wire)
           \/ wire'[i] = [id |-> 2, reply |-> TRUE, ok |-> ok]
    BY <2>1 DEF AgentInv, AgentTypeOK
  <2>9. WireSound'
    BY <1>1, <1>4, <2>2, <2>7, <2>8 DEF AgentInv, WireSound
  <2> QED BY <2>3, <2>4, <2>6, <2>9 DEF AgentInv
<1> QED BY <1>1, <1>2, <1>3, <1>4

LEMMA ReadResponseInv ==
    ASSUME AgentHypotheses, AgentInv, ReadResponse
    PROVE  AgentInv'
<1>1. /\ run.pc = "mcp" /\ AtTool(run) /\ mcp.pc \in {"init", "call"} /\ wire # <<>>
      /\ wire' = Tail(wire) /\ UNCHANGED <<calls, asked, late, verdict>>
  BY DEF ReadResponse, AgentInv, AgentTypeOK, WireSound, AtTool
<1>2. /\ wire' \in Seq(Messages) /\ Head(wire) = wire[1] /\ 1 \in 1..Len(wire)
      /\ \A i \in 1..Len(wire') : i + 1 \in 1..Len(wire) /\ wire'[i] = wire[i + 1]
  BY <1>1 DEF AgentInv, AgentTypeOK
<1>3. ASSUME UNCHANGED run, DOMAIN mcp' = DOMAIN mcp, mcp'.sent = mcp.sent,
             \/ mcp'.pc = mcp.pc
             \/ mcp.pc = "init" /\ mcp'.pc = "call"
      PROVE  AgentInv'
  <2>1. AgentTypeOK'
    BY <1>1, <1>2, <1>3 DEF AgentInv, AgentTypeOK
  <2>2. CallsSound' /\ ResultsSound' /\ BudgetSound' /\ ErrorNeverGrounds' /\ This' = This
    BY <1>1, <1>3 DEF AgentInv, CallsSound, ResultsSound, BudgetSound, ErrorNeverGrounds, Consumed, This
  <2>3. WireSound'
    BY <1>1, <1>2, <1>3, <2>2 DEF AgentInv, WireSound
  <2> QED BY <2>1, <2>2, <2>3 DEF AgentInv
<1>4. CASE /\ mcp.pc = "call" /\ Head(wire).id = Expected /\ mcp' = NoMcp
           /\ Record(IF Head(wire).ok THEN "success" ELSE "error")
  <2>1. Head(wire).ok = verdict[This.id].ok
    BY <1>2, <1>4 DEF AgentInv, WireSound, Expected
  <2>2. /\ Cardinality(RanIds(verdict)) <= run.used
        /\ verdict \in [1..(2 * MaxTurns) -> [how : Hows, ok : BOOLEAN]]
    BY DEF AgentInv, AgentTypeOK, BudgetSound
  <2>3. \E status \in {"success", "error"} :
           Record(status) /\ (status = "success" => verdict[This.id].ok)
    BY <1>4, <2>1, <2>2
  <2> QED BY <1>1, <1>2, <1>4, <2>2, <2>3, RecordInv DEF AgentInv
<1>5. \/ UNCHANGED <<run, mcp>>
      \/ mcp.pc = "init" /\ mcp' = [mcp EXCEPT !.pc = "call"] /\ UNCHANGED run
      \/ /\ mcp.pc # "init" /\ Head(wire).id = Expected /\ mcp' = NoMcp
         /\ Record(IF Head(wire).ok THEN "success" ELSE "error")
  BY DEF ReadResponse
<1>6. CASE UNCHANGED <<run, mcp>>
  <2>1. run' = run /\ mcp' = mcp
    BY <1>6
  <2>2. DOMAIN mcp' = DOMAIN mcp /\ mcp'.sent = mcp.sent /\ mcp'.pc = mcp.pc
    BY <2>1
  <2> QED BY <1>3, <2>1, <2>2
<1>7. CASE mcp.pc = "init" /\ mcp' = [mcp EXCEPT !.pc = "call"] /\ UNCHANGED run
  <2>1. /\ run' = run /\ DOMAIN mcp' = DOMAIN mcp /\ mcp'.sent = mcp.sent
        /\ mcp.pc = "init" /\ mcp'.pc = "call"
    BY <1>7 DEF AgentInv, AgentTypeOK
  <2> QED BY <1>3, <2>1
<1>8. CASE /\ mcp.pc # "init" /\ Head(wire).id = Expected /\ mcp' = NoMcp
           /\ Record(IF Head(wire).ok THEN "success" ELSE "error")
  <2>1. mcp.pc = "call"
    BY <1>1, <1>8
  <2> QED BY <1>4, <1>8, <2>1
<1> QED BY <1>5, <1>6, <1>7, <1>8

LEMMA SessionFailsInv ==
    ASSUME AgentHypotheses, AgentInv, SessionFails
    PROVE  AgentInv'
<1>1. /\ AtTool(run) /\ mcp' = NoMcp /\ wire' = <<>> /\ Record("error")
      /\ UNCHANGED <<calls, asked, late, verdict>>
  BY DEF SessionFails, AgentInv, WireSound, AtTool
<1>2. /\ Cardinality(RanIds(verdict)) <= run.used
      /\ verdict \in [1..(2 * MaxTurns) -> [how : Hows, ok : BOOLEAN]]
  BY DEF AgentInv, AgentTypeOK, BudgetSound
<1> QED BY <1>1, <1>2, RecordInv DEF AgentInv

LEMMA AgentRests ==
    ASSUME AgentInv, UNCHANGED <<run, calls, asked, mcp, wire, verdict>>
    PROVE  AgentInv'
BY DEF AgentInv, AgentTypeOK, CallsSound, ResultsSound, BudgetSound, WireSound, ErrorNeverGrounds,
       Consumed, This

LEMMA AgentStarts == ASSUME AgentHypotheses, AgentInit PROVE AgentInv
<1>1. /\ ~AtCalls(run) /\ ~AtTool(run) /\ run.ids = 0 /\ run.turn = 0 /\ run.pc = "turn"
      /\ run.results = {} /\ run.used = 0 /\ mcp.pc = "none" /\ asked = {}
  BY DEF AgentInit, AtCalls, AtTool, NoMcp
<1>2. AgentTypeOK
  BY DEF AgentInit, AgentTypeOK, NoMcp, Hows, AgentHypotheses
<1>3. CallsSound /\ ResultsSound /\ WireSound /\ ErrorNeverGrounds
  BY <1>1 DEF CallsSound, ResultsSound, WireSound, ErrorNeverGrounds
<1>4. RanIds(verdict) = {}
  BY DEF AgentInit, RanIds
<1>5. BudgetSound
  BY <1>1, <1>4, FS_EmptySet DEF BudgetSound
<1> QED BY <1>2, <1>3, <1>5 DEF AgentInv

(***************************************************************************)
(* Whatever the model, the approval handler and the server answer, and     *)
(* whenever the deadline passes: tools run only under the policy and       *)
(* within the budgets, and what grounds the answer is a tool's own success *)
(* that the model has seen (run_agent_loop, _read_response), provided the  *)
(* server numbers no request of its own like the pending call.             *)
(***************************************************************************)
THEOREM ToolsAndGrounding == ASSUME AgentHypotheses PROVE AgentSpec => []AgentSafe
<1>1. AgentInit => AgentInv
  BY AgentStarts
<1>2. AgentInv /\ [AgentNext]_agentVars => AgentInv'
  <2> SUFFICES ASSUME AgentInv, [AgentNext]_agentVars PROVE AgentInv'
    OBVIOUS
  <2>1. CASE BeginTurn
    BY <2>1, BeginTurnInv
  <2>2. CASE ModelFails \/ ModelFinal \/ ModelInvalid
    BY <2>2, StopInv DEF ModelFails, ModelFinal, ModelInvalid, AtTool
  <2>3. CASE ModelCalls
    BY <2>3, ModelCallsInv
  <2>4. CASE CallOverBudget \/ CallRejected \/ NotApproved
    BY <2>4, AnsweredInv
  <2>5. CASE Authorize
    BY <2>5, AuthorizeInv
  <2>6. CASE EndTurn
    BY <2>6, EndTurnInv
  <2>7. CASE RunLocal
    BY <2>7, RunLocalInv
  <2>8. CASE OpenSession
    BY <2>8, OpenSessionInv
  <2>9. CASE ReadResponse
    BY <2>9, ReadResponseInv
  <2>10. CASE SessionFails
    BY <2>10, SessionFailsInv
  <2>11. CASE ServerReplies \/ ServerRequests
    BY <2>11, ServerInv
  <2>12. CASE DeadlinePasses \/ UNCHANGED agentVars
    BY <2>12, AgentRests DEF DeadlinePasses, agentVars
  <2> QED BY <2>1, <2>2, <2>3, <2>4, <2>5, <2>6, <2>7, <2>8, <2>9, <2>10, <2>11, <2>12
          DEF AgentNext, LoopNext
<1>3. AgentInv => AgentSafe
  BY DEF AgentInv, AgentTypeOK, BudgetSound, WireSound, AgentSafe, ToolsUnderPolicy, RanIds, Hows,
         AgentHypotheses
<1> QED BY <1>1, <1>2, <1>3, PTL DEF AgentSpec
=============================================================================
