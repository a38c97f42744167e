---------------------------- MODULE VerifierTrust -----------------------------
(***************************************************************************)
(* The documents of the signed verifier: the public bootstrap of a service *)
(* (serve_ephemeral_signed_verifier_https.py), the enrollment of its key   *)
(* and the decision about its host, each signed by an authority, the       *)
(* request and the container that runs its tests, and the signed answer.   *)
(* A digest of a record is the record; a signature is the key that signed. *)
(***************************************************************************)
EXTENDS Integers, FiniteSets

CONSTANTS
    Instances,        \* service processes; each makes a key and a CA of its own
    Expected,         \* the deployment the operator expects
    Deployments,      \* deployments that records name
    Authority, Rogue, \* keys that sign records; Rogue is in no key set
    EnrollmentLives,  \* lifetimes an authority gives an enrollment,
    DecisionLives,    \* and a decision
    MaxLife, Skew,    \* MAX_ENROLLMENT_WINDOW, MAX_DECISION_WINDOW; MAX_CLOCK_SKEW
    Inputs,           \* verifier inputs
    MaxAge            \* MAX_ATTESTATION_AGE_SECONDS

ASSUME TrustAssumption ==
    /\ Expected \in Deployments
    /\ Authority # Rogue
    /\ EnrollmentLives \cup DecisionLives \subseteq Nat
    /\ {MaxLife, Skew, MaxAge} \subseteq Nat

None == [none |-> TRUE]
Foreign == <<"foreign", 0>>  \* the nonce of somebody else

----------------------------------------------------------------------------
(* Bootstrap                                                               *)

\* A service makes its signing key and a TLS identity with a CA of its own.
Identity(s) == [key |-> s, ca |-> s]

\* _serialize_public_bootstrap: what a service prints before its one request.
Bootstrap(s) == [key |-> Identity(s).key, ca |-> Identity(s).ca, profile |-> Expected.profile]

\* What the SSH session delivers within the deadline: the line, or a damaged one.
BootstrapLines(s) == {Bootstrap(s), [Bootstrap(s) EXCEPT !.profile = "other"]}

\* parse_pinned_public_verifier_bootstrap
BootstrapHolds(b) == b.profile = Expected.profile /\ b.ca = b.key

----------------------------------------------------------------------------
(* Enrollment and decision                                                 *)

\* _validate_fields of both modules: the hosts differ.
FieldsHold(d) == d.worker # d.host

\* _validate_window of both modules
WindowHolds(r, now) ==
    /\ r.expires > now
    /\ r.expires > r.issued
    /\ r.expires - r.issued <= MaxLife
    /\ r.issued <= now + Skew

Windows(lives, now) ==
    {w \in {[issued |-> now, expires |-> now + life] : life \in lives} : WindowHolds(w, now)}

\* prepare_pinned_enrollment_request: signing messages for a captured bootstrap
EnrollmentMessages(b, now) ==
    {[of |-> b.key, deployment |-> d, issued |-> w.issued, expires |-> w.expires] :
        d \in {x \in Deployments : x.profile = b.profile /\ FieldsHold(x)},
        w \in Windows(EnrollmentLives, now)}

\* prepare_request for a host decision: of is the digest of an enrollment.
DecisionMessages(e, now) ==
    {[of |-> e, deployment |-> d, issued |-> w.issued, expires |-> w.expires] :
        d \in {x \in Deployments : FieldsHold(x)},
        w \in Windows(DecisionLives, now)}

\* assemble_signed_verifier_trust_enrollment, assemble_..._host_trust_decision:
\* whoever signed, the record is canonical and its window held when issued.
Assembled(m, signer) ==
    [of |-> m.of, deployment |-> m.deployment, issued |-> m.issued, expires |-> m.expires,
     signer |-> signer]

\* verify_verifier_trust_enrollment
EnrollmentHolds(e, trusted, now) ==
    /\ FieldsHold(e.deployment)
    /\ e.deployment = Expected
    /\ e.signer \in trusted
    /\ WindowHolds(e, now)

\* verify_verifier_host_trust_decision, for an enrollment
DecisionHolds(d, e, trusted, now) ==
    /\ FieldsHold(d.deployment)
    /\ d.of = e
    /\ d.deployment = e.deployment
    /\ d.signer \in trusted
    /\ WindowHolds(d, now)

Current(r, now) == r.issued <= now /\ now < r.expires

----------------------------------------------------------------------------
(* Request                                                                 *)

\* VerifierProfile: one tree, one set of paths to change, and a profile's digest
Profile == [tree |-> "pinned", allowed |-> {"routes"}]

\* VerifierProfile.validate_request
RequestHolds(input) ==
    /\ input.tree = Profile.tree
    /\ input.declared = Profile.allowed
    /\ input.changed = Profile.allowed
    /\ input.replayed

\* How bytes on the wire may deviate from serialize_verifier_request.
Wires == {"canonical", "reordered", "duplicate_key", "unsafe_path", "too_large"}

Invocation(input, nonce) ==
    [input |-> input, wire |-> "canonical", nonce |-> nonce, profile |-> Expected.profile]

\* parse_verifier_request, and that it serializes to the same bytes
ParseRequest(m) == m.wire = "canonical"

\* parse_signed_verifier_invocation and the test of the profile's digest
InvocationHolds(m) == m # None /\ ParseRequest(m) /\ m.profile = Expected.profile

\* SignedVerifierHTTPService.preflight: the status of a request without a body
Preflight == [method |-> 405, path |-> 404, headers |-> 400, media |-> 415, no_length |-> 411,
              zero_length |-> 400, size |-> 413, ok |-> 200]

Post(meta, m) == [meta |-> meta, body |-> m]

\* Requests of other peers: refused by the preflight, unreadable, of another
\* profile, outside the profile, or a good one with a nonce of their own.
Strange(i, p, w) == [Invocation(i, Foreign) EXCEPT !.profile = p, !.wire = w]
StrangeRequests ==
    {Post(x, None) : x \in DOMAIN Preflight}
        \cup {Post("ok", Strange(i, p, w)) :
                  i \in Inputs, p \in {"other", Expected.profile}, w \in Wires}

----------------------------------------------------------------------------
(* Container                                                               *)

\* _run_test_command: the verdict for each way the tests can end
VerdictOf == [launch_failed |-> "blocked", timed_out |-> "blocked", output_limit |-> "blocked",
              workspace_failed |-> "blocked", zero |-> "pass", nonzero |-> "fail"]

Verdicts == {"pass", "fail", "blocked"}

\* _validate_overlay
OverlayHolds(input) == input.declared # {} /\ input.changed = input.declared /\ input.replayed

\* run_verifier_request in the container: the base, the candidate written over
\* it, the tests.
Entrypoint(input, nonce) ==
    {[exit |-> 0, nonce |-> nonce, input |-> input, verdict |-> VerdictOf[end]] :
        end \in IF OverlayHolds(input) THEN DOMAIN VerdictOf ELSE {}}

\* _collect_bounded_output: too late or too much and the child is killed (137); it
\* may refuse (2), or its answer be garbled, of another run or another request.
Strays(input, nonce) ==
    {[exit |-> x, nonce |-> n, input |-> i, verdict |-> v] :
        x \in {0, 2, 137}, n \in {nonce, Foreign}, i \in {None} \cup (Inputs \ {input}),
        v \in {"pass", "fail"}}

ChildOutcomes(input, nonce) == Entrypoint(input, nonce) \cup Strays(input, nonce)

\* classify_verifier_outcome and parse_verifier_response
Classified(o) == o.exit = 0 /\ o.input # None

\* bind_verifier_response and validate_verifier_result
BoundResponse(o, input) == o.input = input

\* DockerContainerVerifier.verify
ResultHolds(o, input, nonce) == Classified(o) /\ o.nonce = nonce /\ BoundResponse(o, input)

----------------------------------------------------------------------------
(* Signed answer                                                           *)

\* build_signed_verifier_response
Envelope(key, m, verdict, issued) ==
    [key |-> key, nonce |-> m.nonce, input |-> m.input, profile |-> m.profile,
     verdict |-> verdict, issued |-> issued]

Timely(env, now) == env.issued <= now + Skew /\ env.issued >= now - MaxAge

\* Mutant: the nonce is not compared.
ResponseHoldsAnyCall(env, input, nonce, key, now) ==
    /\ env.profile = Expected.profile
    /\ env.input = input
    /\ Timely(env, now)
    /\ env.key = key

\* verify_signed_verifier_response
ResponseHolds(env, input, nonce, key, now) ==
    /\ env.nonce = nonce
    /\ env.profile = Expected.profile
    /\ env.input = input
    /\ Timely(env, now)
    /\ env.key = key

\* verify_persisted_signed_verifier_response: the stored result has the nonce in
\* the place of the verifier's name.
PersistedHolds(env, stage, key, now) ==
    /\ env.key = key
    /\ env.profile = Expected.profile
    /\ env.input = stage.input
    /\ <<env.nonce, env.verdict>> = <<stage.nonce, stage.verdict>>
    /\ Timely(env, now)

\* verify_staged_verifier_provenance.  The code compares the deployment with the one
\* of the records themselves, and rebuilds the request if the stage has it; only stages
\* whose answer was accepted come here, for which both have been compared.
ProvenanceHolds(stage, trusted, now) ==
    /\ stage.enrollment # None /\ stage.decision # None
    /\ EnrollmentHolds(stage.enrollment, trusted, now)
    /\ DecisionHolds(stage.decision, stage.enrollment, trusted, now)
    /\ PersistedHolds(stage.envelope, stage, stage.enrollment.of, now)
=============================================================================
