------------------------------ MODULE Staging -------------------------------
(***************************************************************************)
(* What one execution puts together: the prepared change                   *)
(* (repository_process.py), the verifier's input and the judgement of its  *)
(* answer (executor.py), the publication seed (publication_seed.py) and    *)
(* the staged artifact (durable_stage.py).  Digests are injective, so the  *)
(* digest of a record is the record.                                       *)
(***************************************************************************)
EXTENDS Proposal

NoReceipt == [signed |-> FALSE]
NoInput == [files |-> {}]

----------------------------------------------------------------------------
(* The prepared change                                                     *)

Paths(changes) == {x.path : x \in changes}
Sources(files, changes) == {f \in files : f.path \in Paths(changes)}

\* _render_patch and the difflib loop of prepare_change
RenderPatch(files, changes) ==
    {[path |-> x.path, from |-> ContentOf(files, x.path), to |-> x.content] : x \in changes}

\* Every path is a file of the snapshot and none keeps its content.
Applicable(files, changes) ==
    \A x \in changes : \E f \in files : f.path = x.path /\ f.content # x.content

\* PreparedChange: the evidence holds the process, one for each authorization
\* card, and the digests of the files the patch was made from; staged_change is
\* the digest of patch and evidence.
Prepared(card, files, changes) ==
    [card |-> card, contents |-> changes, patch |-> RenderPatch(files, changes),
     sources |-> Sources(files, changes)]

StagedChange(prepared) ==
    [card |-> prepared.card, patch |-> prepared.patch, sources |-> prepared.sources]

\* The files after the changes are written over them.
Rewritten(files, changes) ==
    {[f EXCEPT !.content = IF f.path \in Paths(changes)
                           THEN (CHOOSE x \in changes : x.path = f.path).content
                           ELSE @] : f \in files}

\* ExecutionRequest: what is declared is in the snapshot and safe.
RequestHolds(files) ==
    /\ Declared # {}
    /\ Declared \subseteq {f.path : f \in files} \cap SafePaths

\* _revalidate_remote_snapshot: the claim and its files are built anew.
Revalidated(files) == SnapshotContents(files)

----------------------------------------------------------------------------
(* The verifier's input and its answer                                     *)

\* _build_verifier_input: the snapshot's files are read from disk again.
VerifierInput(prepared, files) ==
    [contents |-> prepared.contents, staged |-> StagedChange(prepared), files |-> files]

\* _read_pinned_snapshot_files: bounded, regular files of the pinned tree only.
SnapshotRead(files) ==
    /\ \A f \in files : f.path \in SafePaths /\ f.content \notin Oversized
    /\ TreeDigest(files) = TreeDigest(Base)

InputHolds(prepared, proposal, files) ==
    /\ prepared.contents = proposal.changes
    /\ Scoped(prepared.contents)
    /\ SnapshotRead(files)

\* A signed answer comes with its request, the enrollment of its key and the
\* decision about its host; a decision may be about another enrollment.
Receipts(input) ==
    [signed : {TRUE}, signature : BOOLEAN, request : {input, NoInput},
     enrollment : {"none", "enrolled"}, decision : {"none", "verified", "of_another"}]

VerifierAnswers(kind, input) ==
    [input : {input, NoInput}, verdict : {"pass", "fail"},
     receipt : IF kind = "signed" THEN Receipts(input) ELSE {NoReceipt}]

\* validate_verifier_result
BoundResult(a, input) == a.input = input

\* The checks of executor.py on a VerifiedVerifierAttestation.
AttestationHolds(r, input) ==
    /\ r.signature
    /\ r.request = input
    /\ r.decision # "of_another"
    /\ r.decision = "verified" => r.enrollment = "enrolled"

HostTrusted(r) == r.decision = "verified"

\* _remote_execution_evidence looks at the attestation of a result once more.
EvidenceHolds(r) == r.signed => r.signature /\ HostTrusted(r)

\* What the executor takes for a verified result.
Accepted(a, input) ==
    /\ BoundResult(a, input)
    /\ a.receipt.signed => AttestationHolds(a.receipt, input) /\ HostTrusted(a.receipt)
    /\ a.verdict = "pass"

----------------------------------------------------------------------------
(* The seed and the artifact                                               *)

\* build_publication_seed, for the claim's files.
SeedHolds(files, prepared, a) ==
    /\ a.receipt.signed => a.receipt.signature /\ HostTrusted(a.receipt)
    /\ a.verdict = "pass"
    /\ TreeDigest(a.input.files) = TreeDigest(files)
    /\ a.input.staged = StagedChange(prepared)
    /\ a.input.contents = prepared.contents

\* PublicationSeed: the fields about the attestation, all or none.
SeedFields(r) == r.signed => r.enrollment = "enrolled" /\ r.decision = "verified"

\* _build_verifier_trust_evidence
TrustEvidence(r) ==
    r.signed => /\ r.decision # "none" => r.enrollment # "none"
                /\ r.decision # "of_another"

\* build_staged_artifact: base_contents come from the claim, not from disk.
BuildStagedArtifact(files, prepared, a) ==
    [staged |-> StagedChange(prepared), base |-> Sources(files, prepared.contents),
     contents |-> prepared.contents, verified |-> a.input, verdict |-> a.verdict,
     receipt |-> a.receipt]

\* validate_verifier_request_binding
RequestBinding(x) ==
    x.receipt.signed =>
        /\ x.receipt.request.contents = x.contents
        /\ x.receipt.request.staged = x.staged
        /\ x.verified = x.receipt.request
        /\ ~CredentialShaped(x.receipt.request.files)

\* _validate_verifier_trust_evidence
PersistedEvidence(x) == RequestBinding(x) /\ TrustEvidence(x.receipt)

\* The records of _validate_canonical_artifact: bindings between the parts.
CanonicalRecords(x) ==
    /\ SeedFields(x.receipt)
    /\ x.verdict = "pass"
    /\ x.verified.staged = x.staged
    /\ x.verified.contents = x.contents
    /\ PersistedEvidence(x)

\* Its contents: the patch is rendered again from the base it stores.
CanonicalContents(x) ==
    /\ Scoped(x.contents)
    /\ Paths(x.base) = Paths(x.contents)
    /\ x.staged.sources = x.base
    /\ x.staged.patch = RenderPatch(x.base, x.contents)
    /\ ~CredentialShaped(x.contents)
    /\ ~CredentialShaped(x.base)

CanonicalArtifact(x) == CanonicalRecords(x) /\ CanonicalContents(x)

\* The row of the stage: staged_change_digest is the primary key.
Row(x) == [key |-> x.staged, artifact |-> x]
=============================================================================
