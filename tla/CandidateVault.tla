--------------------------- MODULE CandidateVault ---------------------------
(* Staging, attesting and materialising a candidate:                          *)
(* src/local_moe/assistant_bridge_cas.py, assistant_bridge_attestation.py and *)
(* the stage and verify halves of assistant_bridge_two_phase.py.              *)
(*                                                                            *)
(* Two processes stage candidates that may share objects.  A staged object is *)
(* written under a private name, linked to its digest, and the private name   *)
(* removed: while another process reads it, its link count falls from 2 to 1. *)
(* The generator may still write the candidate's workspace, a process may die *)
(* at any step, and the trust store may be configured anew between two calls. *)
EXTENDS Integers, Sequences, FiniteSets, Functions, SequencesExt

CONSTANTS
    Stagers,      \* processes that stage
    Key,          \* stager -> the idempotency key it stages under
    Files,        \* paths of a candidate
    VaultVerifiers, \* independent verifiers of the workflow's policy
    VaultQuorum,  \* attestations a candidate needs
    MaxEnvelopes, \* bound on the envelopes that are signed
    VaultMaxChanges \* bound on writes of generators and changes of the trust store

VARIABLES
    cand,      \* stager -> its candidate workspace
    cas,       \* object -> the link count of the inode its digest names
    st,        \* stager -> what it is doing
    flow,      \* key -> the workflow recorded under it
    env,       \* the envelopes that were signed
    evals,     \* envelopes accepted as evaluations, which grant nothing
    trust,     \* verifier -> the key the trust store has for it
    apply,     \* the process that applies a workflow
    changes

vaultVars == <<cand, cas, st, flow, env, evals, trust, apply, changes>>

NoFlow == [made |-> FALSE, binding |-> [content |-> <<>>, policy |-> <<>>], atts |-> {}]
Unstaged == [pc |-> "idle", snap |-> <<>>, todo |-> <<>>, linked |-> FALSE, opened |-> 0,
         disturbed |-> FALSE]

VaultInit ==
    /\ cand \in [Stagers -> [Files -> {0}]]
    /\ cas = <<>>
    /\ st = [s \in Stagers |-> Unstaged]
    /\ flow = [k \in {Key[s] : s \in Stagers} |-> NoFlow]
    /\ env = {}
    /\ evals = {}
    /\ trust = [v \in VaultVerifiers |-> 0]
    /\ apply = [pc |-> "idle", key |-> 0, trusted |-> {}, todo |-> <<>>, opened |-> 0]
    /\ changes = 0

\* A file's object is its content; changeset and manifest name what they bind.
FileObject(v) == <<"file", v>>
Changeset(snap) == <<"changeset", snap>>
Manifest(snap) == <<"manifest", snap>>
Stored(o) == o \in DOMAIN cas

\* VerificationPolicy: the verifiers, each with the key it had when the workflow
\* was staged, and the quorum.
Policy == trust

\* CandidateBinding: what was staged and the policy it is to be judged under.
Binding(snap) == [content |-> snap, policy |-> Policy]

Here == UNCHANGED <<cand, flow, env, evals, trust, apply, changes>>
Stage(s, rec) == st' = [st EXCEPT ![s] = rec]
Refuse(s) == st' = [st EXCEPT ![s].pc = "refused"] /\ UNCHANGED cas /\ Here

-----------------------------------------------------------------------------
(* stage_candidate *)

\* find_stage_replay: a workflow of this key and these inputs is returned as it
\* is, before anything is stored.
FindReplay(s) ==
    /\ st[s].pc = "idle"
    /\ IF flow[Key[s]].made THEN Stage(s, [st[s] EXCEPT !.pc = "replayed"])
       ELSE Stage(s, [st[s] EXCEPT !.pc = "snapshot"])
    /\ UNCHANGED cas /\ Here

\* Mutant of StoreOrder: the manifest is stored with the first objects.
ManifestFirst(snap) ==
    <<Manifest(snap)>> \o SetToSeq({FileObject(snap[f]) : f \in Files}) \o <<Changeset(snap)>>

\* store_candidate: the files first, then the changeset, and the manifest last.
StoreOrder(snap) ==
    SetToSeq({FileObject(snap[f]) : f \in Files}) \o <<Changeset(snap), Manifest(snap)>>

\* The candidate's files are listed with their digests; source and changeset agree.
SnapshotCandidate(s) ==
    /\ st[s].pc = "snapshot"
    /\ Stage(s, [st[s] EXCEPT !.pc = "put", !.snap = cand[s], !.todo = StoreOrder(cand[s])])
    /\ UNCHANGED cas /\ Here

\* _read_candidate_file: the bytes of each file must still have the listed digest.
ReadCandidateFile(s, o) ==
    o[1] = "file" => \A f \in Files : st[s].snap[f] = o[2] => cand[s][f] = o[2]

\* put_bytes: an object that is there is read back; another is written under a
\* private name and fsynced.
PutBytes(s) ==
    /\ st[s].pc = "put" /\ st[s].todo # <<>>
    /\ IF ReadCandidateFile(s, Head(st[s].todo))
         THEN Stage(s, [st[s] EXCEPT !.pc = IF Stored(Head(st[s].todo)) THEN "open" ELSE "written"])
              /\ UNCHANGED cas /\ Here
         ELSE Refuse(s)

\* os.link to the digest's name; another process may have been first.
LinkObject(s) ==
    /\ st[s].pc = "written"
    /\ LET o == Head(st[s].todo) IN
         IF Stored(o)
           THEN cas' = cas /\ Stage(s, [st[s] EXCEPT !.pc = "open"])
           ELSE cas' = [x \in DOMAIN cas \cup {o} |-> IF x = o THEN 2 ELSE cas[x]]
                /\ Stage(s, [st[s] EXCEPT !.pc = "linked"])
    /\ Here

\* The private name is removed and the directory fsynced.
UnlinkTemporary(s) ==
    /\ st[s].pc = "linked"
    /\ cas' = [cas EXCEPT ![Head(st[s].todo)] = 1]
    /\ Stage(s, [st[s] EXCEPT !.pc = "open"])
    /\ Here

\* _read_verified_artifact: the inode is looked at when it is opened ...
OpenArtifact(s) ==
    /\ st[s].pc = "open"
    /\ Stage(s, [st[s] EXCEPT !.pc = "hashing", !.opened = cas[Head(st[s].todo)]])
    /\ UNCHANGED cas /\ Here

\* Mutant of ChangedDuringRead: any difference of the inode's fields counts.
AnyDifference(opened, after) == opened # after

\* ... and after the last byte; the one change allowed is the publisher's unlink.
ChangedDuringRead(opened, after) == opened # after /\ ~(opened = 2 /\ after = 1)

HashArtifact(s) ==
    /\ st[s].pc = "hashing"
    /\ IF ChangedDuringRead(st[s].opened, cas[Head(st[s].todo)]) THEN Refuse(s)
       ELSE /\ Stage(s, [st[s] EXCEPT !.todo = Tail(@),
                           !.pc = IF Len(st[s].todo) = 1 THEN "stored" ELSE "put"])
            /\ UNCHANGED cas /\ Here

\* The workspace is listed again: nothing was written while it was stored.
Resnapshot(s) ==
    /\ st[s].pc = "stored"
    /\ IF cand[s] = st[s].snap
         THEN Stage(s, [st[s] EXCEPT !.pc = "create"]) /\ UNCHANGED cas /\ Here
         ELSE Refuse(s)

\* create_workflow: one workflow per key; the same binding is a replay.
CreateWorkflow(s) ==
    /\ st[s].pc = "create"
    /\ LET w == flow[Key[s]] IN
         IF ~w.made
           THEN /\ flow' = [flow EXCEPT ![Key[s]] = [made |-> TRUE, binding |-> Binding(st[s].snap), atts |-> {}]]
                /\ Stage(s, [st[s] EXCEPT !.pc = "staged"])
                /\ UNCHANGED <<cand, cas, env, evals, trust, apply, changes>>
           ELSE IF w.binding = Binding(st[s].snap)
             THEN Stage(s, [st[s] EXCEPT !.pc = "replayed"]) /\ UNCHANGED cas /\ Here
             ELSE Refuse(s)

-----------------------------------------------------------------------------
(* Attestation *)

\* A verifier signs a statement on the candidate it was shown: a verification,
\* or an evaluation that also carries a failure.
SignEnvelope(v) ==
    /\ Cardinality(env) < MaxEnvelopes
    /\ \E k \in DOMAIN flow : \E kind \in {"verification", "evaluation"}, passed \in BOOLEAN :
         /\ flow[k].made
         /\ env' = env \cup {[verifier |-> v, key |-> trust[v], flow |-> k, kind |-> kind,
                              binding |-> flow[k].binding, passed |-> passed]}
    /\ UNCHANGED <<cand, cas, st, flow, evals, trust, apply, changes>>

\* _peek_signed_verifier_id: only the identity that selects the key.
Peek(e) == e.verifier

\* _decode_envelope: one signature, under the key the verifier has now.
DecodeEnvelope(e) == e.key = trust[Peek(e)]

\* AttestationTrustStore.verify: the verifier is trusted, under the key the
\* workflow's own policy names.
TrustedVerifier(e, k) == Peek(e) \in VaultVerifiers /\ flow[k].binding.policy[Peek(e)] = trust[Peek(e)]

\* _validate_statement: a verification of this workflow and binding that passed.
StatementValid(e, k) ==
    e.kind = "verification" /\ e.flow = k /\ e.binding = flow[k].binding /\ e.passed

\* _validate_evaluation_statement: an evaluation of them, whatever its outcome.
EvaluationValid(e, k) == e.kind = "evaluation" /\ e.flow = k /\ e.binding = flow[k].binding

Verified(e, k) == TrustedVerifier(e, k) /\ DecodeEnvelope(e) /\ StatementValid(e, k)

\* verify_evaluation: authenticated in the same way, and grants no apply.
VerifyEvaluation(e, k) ==
    /\ flow[k].made /\ TrustedVerifier(e, k) /\ DecodeEnvelope(e) /\ EvaluationValid(e, k)
    /\ e \notin evals
    /\ evals' = evals \cup {e}
    /\ UNCHANGED <<cand, cas, st, flow, env, trust, apply, changes>>

\* record_attestation: verified first, then one live attestation per verifier.
RecordEnvelope(e, k) ==
    /\ flow[k].made /\ Verified(e, k)
    /\ \A a \in flow[k].atts : a.verifier # e.verifier
    /\ flow' = [flow EXCEPT ![k].atts = @ \cup {e}]
    /\ UNCHANGED <<cand, cas, st, env, evals, trust, apply, changes>>

-----------------------------------------------------------------------------
(* Resuming *)

\* load_candidate: manifest, changeset and every file are read and hashed.
LoadCandidate(k) ==
    /\ apply.pc = "idle" /\ flow[k].made
    /\ Cardinality({a.verifier : a \in flow[k].atts}) >= VaultQuorum
    /\ apply' = [apply EXCEPT !.pc = "reverify", !.key = k]
    /\ UNCHANGED <<cand, cas, st, flow, env, evals, trust, changes>>

\* Mutant of Reverified: what was verified when it was recorded stays verified.
RecordedOnce(k) == flow[k].atts
\* _reverify_attestations: every recorded envelope is verified again.
Reverified(k) == {a \in flow[k].atts : Verified(a, k)}

ReverifyAttestations ==
    /\ apply.pc = "reverify"
    /\ LET k == apply.key IN
         IF Reverified(k) = flow[k].atts
           THEN apply' = [apply EXCEPT !.pc = "read",
                            !.trusted = {a.verifier : a \in {b \in flow[k].atts : Verified(b, k)}},
                            !.todo = StoreOrder(flow[k].binding.content)]
           ELSE apply' = [apply EXCEPT !.pc = "refused"]
    /\ UNCHANGED <<cand, cas, st, flow, env, evals, trust, changes>>

\* materialize_candidate: each object is opened, hashed and written out.
OpenStored ==
    /\ apply.pc = "read" /\ apply.todo # <<>>
    /\ apply' = IF Stored(Head(apply.todo))
                  THEN [apply EXCEPT !.pc = "hashing", !.opened = cas[Head(apply.todo)]]
                  ELSE [apply EXCEPT !.pc = "missing"]
    /\ UNCHANGED <<cand, cas, st, flow, env, evals, trust, changes>>

HashStored ==
    /\ apply.pc = "hashing"
    /\ apply' = IF ChangedDuringRead(apply.opened, cas[Head(apply.todo)])
                  THEN [apply EXCEPT !.pc = "missing"]
                  ELSE [apply EXCEPT !.todo = Tail(@),
                          !.pc = IF Len(apply.todo) = 1 THEN "materialized" ELSE "read"]
    /\ UNCHANGED <<cand, cas, st, flow, env, evals, trust, changes>>

-----------------------------------------------------------------------------
(* The world *)

\* The generator, or what it left running, writes the candidate's workspace.
WriteCandidate(s) ==
    /\ changes < VaultMaxChanges /\ changes' = changes + 1
    /\ \E f \in Files : cand' = [cand EXCEPT ![s][f] = 1 - @]
    /\ st' = [st EXCEPT ![s].disturbed = TRUE]
    /\ UNCHANGED <<cas, flow, env, evals, trust, apply>>

\* The trust store is configured with another key for a verifier.
RotateKey(v) ==
    /\ changes < VaultMaxChanges /\ changes' = changes + 1
    /\ trust' = [trust EXCEPT ![v] = @ + 1]
    /\ UNCHANGED <<cand, cas, st, flow, env, evals, apply>>

\* A stager dies; what it linked stays, and so does its private name.
StagerDies(s) ==
    /\ st[s].pc \notin {"idle", "refused", "staged", "replayed", "dead"}
    /\ st' = [st EXCEPT ![s].pc = "dead"]
    /\ UNCHANGED cas /\ Here

VaultNext ==
    \/ \E s \in Stagers :
         \/ FindReplay(s) \/ SnapshotCandidate(s) \/ PutBytes(s) \/ LinkObject(s)
         \/ UnlinkTemporary(s) \/ OpenArtifact(s) \/ HashArtifact(s) \/ Resnapshot(s)
         \/ CreateWorkflow(s) \/ WriteCandidate(s) \/ StagerDies(s)
    \/ \E v \in VaultVerifiers : SignEnvelope(v) \/ RotateKey(v)
    \/ \E k \in DOMAIN flow : LoadCandidate(k) \/ \E e \in env : RecordEnvelope(e, k) \/ VerifyEvaluation(e, k)
    \/ ReverifyAttestations \/ OpenStored \/ HashStored

VaultSpec == VaultInit /\ [][VaultNext]_vaultVars

-----------------------------------------------------------------------------
(* Properties *)

\* Staging that meets no write to its candidate is refused only when its key is
\* taken by another candidate or policy: processes that store the same objects, and ones
\* that die half-way, never make each other's reads look like tampering; nor
\* does the process that reads a recorded candidate back.
NoFalseAlarm ==
    /\ \A s \in Stagers : st[s].pc = "refused" =>
         st[s].disturbed \/ (flow[Key[s]].made /\ flow[Key[s]].binding # Binding(st[s].snap))
    /\ apply.pc # "missing"

\* Whatever names a candidate can be followed: when a manifest is in the store,
\* or a workflow is recorded, each object of that candidate is in the store,
\* even if the process that stored it died.
ClosedUnderManifest ==
    \A snap \in [Files -> {0, 1}] :
       Stored(Manifest(snap)) \/ (\E k \in DOMAIN flow : flow[k].made /\ flow[k].binding.content = snap)
         => \A o \in ToSet(StoreOrder(snap)) : Stored(o)

\* What is materialised for an apply has a quorum of verifiers whose statements
\* on exactly this candidate verified under the keys trusted when it was resumed.
MaterializedUnderTrust ==
    apply.pc \in {"read", "hashing", "materialized"} => Cardinality(apply.trusted) >= VaultQuorum

\* What the content-addressed store and the attestations promise of a staged candidate.
VaultSafe == NoFalseAlarm /\ ClosedUnderManifest /\ MaterializedUnderTrust
=============================================================================
