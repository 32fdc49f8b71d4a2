-------------------------- MODULE CapsuleRedaction --------------------------
(* Redacting what leaves the host: src/local_moe/assistant_bridge_secrets.py  *)
(* and the capsule redaction of assistant_bridge.py.                          *)
(*                                                                            *)
(* A text is the set of secrets it carries, by the kind of detector that      *)
(* finds them: "pattern" (the built-in rules), "entropy" (the scanner's       *)
(* entropy and keyword plug-ins) and "vendor" (its other plug-ins).  A        *)
(* "labelled" value is 32 to 128 hex digits behind a hash or digest label,    *)
(* which is hidden from the scanner whatever it is.  The scanner's settings   *)
(* are global to the process and each scan sets its own and puts the old ones *)
(* back, so threads take turns behind one lock.                               *)
EXTENDS Integers, Sequences, FiniteSets

CONSTANTS
    Threads,    \* threads that build a capsule
    Texts,      \* the texts a field may hold
    KeyTexts    \* what the keys of a capsule may hold together

VARIABLES
    capsule,    \* thread -> the fields of its capsule as they stand
    scan,       \* thread -> what it is doing
    settings,   \* the plug-ins the scanner is set to; {} is its default set-up
    quiet,      \* logging of the scanner is disabled
    holder      \* the thread that holds _DETECT_SECRETS_LOCK; 0 is none

redactVars == <<capsule, scan, settings, quiet, holder>>

AllPlugins == {"entropy", "vendor"}

\* Free text comes first, the rest of the public payload after it: a sensitive
\* key, a generated digest and a field that only looks like one.
FreeText == <<"objective", "diff">>
Payload == <<"objective", "diff", "api_token", "sha256", "bad_sha256">>
FieldsOf(seq) == {seq[i] : i \in DOMAIN seq}

RedactInit ==
    /\ capsule \in [Threads -> {[c EXCEPT !["sha256"] = {}] : c \in [FieldsOf(Payload) -> Texts]}]
    /\ \E keys \in [Threads -> KeyTexts] :
         scan = [t \in Threads |-> [phase |-> "text", at |-> "free", todo |-> FreeText, keys |-> keys[t],
                                   plugins |-> AllPlugins, saved |-> {}, wasQuiet |-> FALSE]]
    /\ settings = {} /\ quiet = FALSE /\ holder = 0

Unheld(t) == scan[t].phase \in {"text", "structure", "residual"} /\ scan[t].at = "free"
Field(t) == Head(scan[t].todo)
MoveScan(t, rec) == scan' = [scan EXCEPT ![t] = rec]

\* _is_valid_generated_field: the exact path, and a value of a digest's form.
ValidGenerated(f) == f = "sha256"

\* _is_sensitive_key
SensitiveKey(f) == f = "api_token"

\* _apply_text_patterns: every built-in rule, in order, replaces what it finds.
ApplyPatterns(text) == text \ {"pattern"}

\* _shield_generated_text_values: labelled values give way to sentinels.
Shielded(text) == text \cap {"labelled"}

\* _redact_residual_lines under the plug-ins the scanner is set to at the time;
\* _restore_generated_text_values puts back what was shielded.
RedactResidual(text) == ((text \ Shielded(text)) \ settings) \cup Shielded(text)

\* _redact_structure passes a generated digest over and replaces a sensitive
\* key's value; the last pass and redact_text know no sensitive keys.
Skipped(t) ==
    \/ scan[t].phase # "text" /\ ValidGenerated(Field(t))
    \/ scan[t].phase = "structure" /\ SensitiveKey(Field(t))

PassOver(t) ==
    /\ Unheld(t) /\ scan[t].todo # <<>> /\ Skipped(t)
    /\ capsule' = IF SensitiveKey(Field(t)) THEN [capsule EXCEPT ![t][Field(t)] = {}] ELSE capsule
    /\ MoveScan(t, [scan[t] EXCEPT !.todo = Tail(@)])
    /\ UNCHANGED <<settings, quiet, holder>>

\* Mutant of TakeScanner: the scanner is used without its lock.
TakeUnlocked(t) ==
    /\ Unheld(t) /\ scan[t].todo # <<>> /\ ~Skipped(t)
    /\ capsule' = IF scan[t].phase = "residual" THEN capsule
                  ELSE [capsule EXCEPT ![t][Field(t)] = ApplyPatterns(@)]
    /\ holder' = t
    /\ MoveScan(t, [scan[t] EXCEPT !.at = "locked"])
    /\ UNCHANGED <<settings, quiet>>

\* A string: patterns first, then the scanner behind its lock; the last pass,
\* _scan_residual_outbound, asks the scanner alone.
TakeScanner(t) ==
    /\ Unheld(t) /\ scan[t].todo # <<>> /\ ~Skipped(t)
    /\ holder = 0 /\ holder' = t
    /\ capsule' = IF scan[t].phase = "residual" THEN capsule
                  ELSE [capsule EXCEPT ![t][Field(t)] = ApplyPatterns(@)]
    /\ MoveScan(t, [scan[t] EXCEPT !.at = "locked"])
    /\ UNCHANGED <<settings, quiet>>

\* transient_settings, and the scanner's logger switched off.
EnterSettings(t) ==
    /\ scan[t].at = "locked"
    /\ settings' = scan[t].plugins /\ quiet' = TRUE
    /\ MoveScan(t, [scan[t] EXCEPT !.saved = settings, !.wasQuiet = quiet, !.at = "scanning"])
    /\ UNCHANGED <<capsule, holder>>

\* The settings, the logger and the lock go back as they were.
LeaveSettings(t) == settings' = scan[t].saved /\ quiet' = scan[t].wasQuiet /\ holder' = 0

\* The lines are scanned and the findings replaced.
ScanField(t) ==
    /\ scan[t].at = "scanning"
    /\ capsule' = [capsule EXCEPT ![t][Field(t)] = RedactResidual(@)]
    /\ LeaveSettings(t)
    /\ MoveScan(t, [scan[t] EXCEPT !.at = "free", !.todo = Tail(@)])

\* The scanner is missing or fails, or a finding cannot be located in its line:
\* no capsule is made.
ScannerFails(t) ==
    /\ scan[t].at = "scanning"
    /\ LeaveSettings(t)
    /\ MoveScan(t, [scan[t] EXCEPT !.at = "free", !.phase = "refused"])
    /\ UNCHANGED capsule

\* _redact_capsule_mapping_keys: a key is never renamed; one that a pattern finds
\* something in refuses the capsule.
KeysSafe(t) == ApplyPatterns(scan[t].keys) = scan[t].keys

RefuseKeys(t) ==
    /\ scan[t].phase = "text" /\ scan[t].todo = <<>> /\ ~KeysSafe(t)
    /\ MoveScan(t, [scan[t] EXCEPT !.phase = "refused"])
    /\ UNCHANGED <<capsule, settings, quiet, holder>>

\* _redact_public_capsule_payload: every string of the payload, without the
\* entropy plug-ins, which digests would trip.
RedactPublicPayload(t) ==
    /\ scan[t].phase = "text" /\ scan[t].todo = <<>> /\ KeysSafe(t)
    /\ MoveScan(t, [scan[t] EXCEPT !.phase = "structure", !.todo = Payload, !.plugins = {"vendor"}])
    /\ UNCHANGED <<capsule, settings, quiet, holder>>

\* _redact_object: the redacted copy is scanned as a whole once more.
ScanResidualOutbound(t) ==
    /\ scan[t].phase = "structure" /\ scan[t].todo = <<>>
    /\ MoveScan(t, [scan[t] EXCEPT !.phase = "residual", !.todo = Payload])
    /\ UNCHANGED <<capsule, settings, quiet, holder>>

\* The capsule is handed on only as a residually assured result.
Deliver(t) ==
    /\ scan[t].phase = "residual" /\ scan[t].todo = <<>>
    /\ MoveScan(t, [scan[t] EXCEPT !.phase = "sent"])
    /\ UNCHANGED <<capsule, settings, quiet, holder>>

RedactNext ==
    \E t \in Threads :
       \/ PassOver(t) \/ TakeScanner(t) \/ EnterSettings(t) \/ ScanField(t) \/ ScannerFails(t)
       \/ RefuseKeys(t) \/ RedactPublicPayload(t) \/ ScanResidualOutbound(t) \/ Deliver(t)

RedactSpec == RedactInit /\ [][RedactNext]_redactVars

-----------------------------------------------------------------------------
(* Properties *)

\* What is sent carries, in the free text, nothing a configured detector finds but
\* the labelled values that were shielded from it; elsewhere entropy findings as well,
\* whose plug-ins digests would trip; and in the keys, which only the built-in rules
\* judge, no pattern.  When no thread scans, the scanner's settings and its logger are
\* as the process had them.
NothingLeaks ==
    /\ \A t \in Threads : scan[t].phase = "sent" =>
         /\ \A f \in FieldsOf(FreeText) : capsule[t][f] \subseteq {"labelled"}
         /\ "pattern" \notin scan[t].keys
         /\ \A f \in FieldsOf(Payload) : capsule[t][f] \subseteq {"entropy", "labelled"}
    /\ holder = 0 => settings = {} /\ ~quiet
=============================================================================
