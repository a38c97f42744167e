------------------------------- MODULE Authority -------------------------------
(***************************************************************************)
(* What an approval says and who may act on it: the publication seed and   *)
(* intent of a stage, the unsigned request a person reviews, the signed    *)
(* approval, the trust profile and the enrollment of an approver's key,    *)
(* the policy, the gateway and the credential grant.  The digest of a      *)
(* document is the document; a signature is the key that signed.           *)
(***************************************************************************)
EXTENDS Integers

CONSTANTS
    OriginOf,       \* [Stages -> snapshot origin]
    SourceOf,       \* [Stages -> repository the stage was made from]
    ProvenIn,       \* [Stages -> times at which its verifier provenance holds]
    Targets,        \* pairs of a source and a provider repository
    Heads,          \* pairs of a head and a base branch
    Profiles,       \* trust profiles an operator has
    Enrollments,    \* enrollments that were handed out
    Key,            \* the key of the approver who reviews
    TTL,            \* APPROVAL_REQUEST_TTL_SECONDS
    MaxWindow, Skew \* MAX_ENROLLMENT_WINDOW, MAX_CLOCK_SKEW

ASSUME AuthorityAssumption == TTL \in Nat \ {0} /\ {MaxWindow, Skew} \subseteq Nat

None == [none |-> TRUE]
Actuator == "github-app-actuator"

----------------------------------------------------------------------------
(* Seed and intent                                                         *)

PublicationSeed(s) ==
    [stage |-> s, repository |-> SourceOf[s], source |-> "none", origin |-> OriginOf[s]]

\* bind_publication_seed_to_target
BindHolds(seed, target) == seed.source = "none" /\ seed.repository = target.source
BindSeed(seed, target) == [seed EXCEPT !.repository = target.provider, !.source = target.source]

IdempotencyKey(head, s) == [head |-> head, stage |-> s]

\* derive_publication_intent
Intent(seed, head) ==
    [stage |-> seed.stage, repository |-> seed.repository, source |-> seed.source,
     head |-> head, key |-> IdempotencyKey(head, seed.stage)]

\* _requires_verified_verifier_provenance
RequiresProvenance(seed) == seed.origin \in {"github_rest_api_claim", "github_codeload_archive"}

\* verify_staged_verifier_provenance, at a time and with a pinned key set
ProvenanceHolds(s, keys, t) == keys /\ t \in ProvenIn[s]

\* verifier_trust_intent_binding: what the reviewer and the intent are told
TrustBinding(seed) == IF RequiresProvenance(seed) THEN "revalidated" ELSE "not_recorded"

----------------------------------------------------------------------------
(* Request and approval                                                    *)

\* build_approval_request: its checks, and the document.  Every stage here has passed
\* its tests, and its provenance, if it has one, holds the whole request: the checks of
\* both are left out.
BuildHolds(s, target, keys, t) ==
    /\ BindHolds(PublicationSeed(s), target)
    /\ RequiresProvenance(PublicationSeed(s)) => ProvenanceHolds(s, keys, t)

EngineIntent(s, target, f, expires) ==
    LET seed == BindSeed(PublicationSeed(s), target)
    IN [of |-> Intent(seed, f.head), id |-> f.id, expires |-> expires, trust |-> TrustBinding(seed)]

UnsignedApproval(intent, f, t) ==
    [id |-> f.id, approver |-> f.approver, policy |-> f.policy, repository |-> intent.of.repository,
     stage |-> intent.of.stage, intent |-> intent, at |-> t, expires |-> t + TTL]

BuildRequest(s, target, f, t) ==
    LET intent == EngineIntent(s, target, f, t + TTL)
    IN [intent |-> intent, approval |-> UnsignedApproval(intent, f, t), review |-> s]

\* _rebuild_request, and the comparison with the file: the time of a request is
\* the one it names.
Fields(r) == [head |-> r.intent.of.head, id |-> r.approval.id, approver |-> r.approval.approver,
              policy |-> r.approval.policy]
RebuildHolds(r, s, target, keys) ==
    /\ r.intent.id = r.approval.id /\ r.intent.expires = r.approval.expires
    /\ BuildHolds(s, target, keys, r.approval.at)
    /\ r = BuildRequest(s, target, Fields(r), r.approval.at)

\* _check_expiry of the signer
Unexpired(r, now) == now < r.approval.expires

\* _parse_signed_envelope
EnvelopeHolds(signed, r) == signed.approval = r.approval

----------------------------------------------------------------------------
(* Trust profile, enrollment and policy                                    *)

\* _parse_trust_profile and PolicyConfig
ProfileHolds(p) ==
    /\ p.target.provider \in p.repositories
    /\ Actuator \in p.actuators
    /\ p.approvers # {} /\ p.approvers \subseteq DOMAIN p.keys

\* build_signed_approver_trust_enrollment and _validate_window
WindowHolds(e, now) ==
    /\ e.expires > e.issued /\ e.expires - e.issued <= MaxWindow
    /\ e.issued <= now + Skew /\ now < e.expires

\* verify_approver_trust_enrollment and the comparison with the profile
EnrollmentHolds(e, p, approver, authorities, now) ==
    /\ e.approver = approver /\ e.profile = p.name /\ e.repository = p.target.provider
    /\ e.signer \in authorities
    /\ WindowHolds(e, now)
    /\ approver \in p.approvers /\ p.keys[approver] = e.key

\* validate_approval and check_intent_approved
ApprovalHolds(a, s, intent, policy, now) ==
    /\ a.repository = intent.of.repository /\ a.id = intent.id
    /\ a.stage = s /\ intent.of.stage = s
    /\ a.intent = intent
    /\ a.policy = policy
    /\ a.at <= now /\ now < a.expires /\ a.at < a.expires
    /\ now < intent.expires

\* Mutant: the signature is not verified.
DecideUnsigned(p, request, signed, s, intent, now) ==
    /\ request.repository \in p.repositories /\ request.actuator \in p.actuators
    /\ request.stage = s /\ request.key = intent.of.key
    /\ signed.approval.approver \in p.approvers
    /\ ApprovalHolds(signed.approval, s, intent, p.policy, now)

\* DeterministicPolicy.decide: whether the effect is "allow"
Decide(p, request, signed, s, intent, now) ==
    /\ request.repository \in p.repositories /\ request.actuator \in p.actuators
    /\ request.stage = s /\ request.key = intent.of.key
    /\ signed.approval.approver \in p.approvers
    /\ ApprovalHolds(signed.approval, s, intent, p.policy, now)
    /\ signed.key = p.keys[signed.approval.approver]

\* check_decision_usable: a decision lives for decision_ttl_seconds
DecisionUsable(d, now) == d.allow /\ now < d.expires

----------------------------------------------------------------------------
(* Gateway and grant                                                       *)

ReadOnly == {"repository.read", "workspace.read", "artifact.read", "evidence.read"}

\* classify
Classify(e, available) ==
    LET slow == \/ e.tainted
                \/ e.protocol # "internal"
                \/ e.port \in {"tool", "approval", "credential-operation"}
                \/ e.operation \notin ReadOnly
                \/ e.sensitivity \in {"confidential", "restricted"}
    IN IF ~available THEN [path |-> "degraded", allowed |-> e.operation \in ReadOnly]
       ELSE IF e.tainted /\ e.operation \notin ReadOnly THEN [path |-> "slow", allowed |-> FALSE]
       ELSE [path |-> IF slow THEN "slow" ELSE "fast", allowed |-> TRUE]

\* enforce: an audit event that is not written denies.
Enforce(e, available, audited) ==
    IF audited THEN Classify(e, available) ELSE [path |-> "degraded", allowed |-> FALSE]

Envelope(intent) ==
    [operation |-> "publish_pull_request", port |-> "credential-operation", protocol |-> "internal",
     tainted |-> FALSE, sensitivity |-> "restricted", repository |-> intent.repository,
     stage |-> intent.stage, key |-> intent.key, base |-> intent.head.base]

\* _require_bound_envelope
EnvelopeBound(e, intent) ==
    /\ e.operation = "publish_pull_request"
    /\ <<e.repository, e.stage, e.key, e.base>>
           = <<intent.repository, intent.stage, intent.key, intent.head.base>>

ActuatorRequest(intent) ==
    [repository |-> intent.repository, actuator |-> Actuator, stage |-> intent.stage,
     key |-> intent.key]

Grant(intent, expires) ==
    [actuator |-> Actuator, repository |-> intent.repository, request |-> ActuatorRequest(intent),
     single_use |-> TRUE, expires |-> expires]

\* validate_credential_use_grant
GrantHolds(g, request, now) ==
    /\ g.actuator = request.actuator /\ g.repository = request.repository
    /\ g.request = request
    /\ g.single_use
    /\ now < g.expires
=============================================================================
