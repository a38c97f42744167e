--------------------------- MODULE VerifierExchange ---------------------------
(***************************************************************************)
(* A worker host asks a verifier host whether a candidate passes its       *)
(* tests.  A service starts with a key of its own and answers one request; *)
(* an authority enrolls the key and decides about the host; a client loads *)
(* both records and makes a call under a deadline.  The way between them   *)
(* may lose, delay, repeat and mix up what it carries, other peers may     *)
(* reach the service first, and a name may never resolve.  What a client   *)
(* accepted is staged and checked once more before a publication.          *)
(***************************************************************************)
EXTENDS VerifierTrust

CONSTANTS
    Clients,
    ModeOf,     \* [Clients -> sets of modes]
    Children,   \* the service process of a client with a subprocess transport
    Ahead,      \* [Instances -> Int], how far the clock of its host is ahead
    Callers,    \* how many calls a client makes at most
    MaxTime,
    MaxRecords  \* enrollments, and decisions, signed at most

\* How a client reaches a service, and whether it loads trust records.
Modes == [transport : {"name", "address", "child"}, trust : {"none", "enrolled", "decided"}]

ASSUME ExchangeAssumption ==
    /\ \A c \in Clients : ModeOf[c] \subseteq Modes
    /\ \A c \in Clients : \A m \in ModeOf[c] : (m.transport = "child") = (m.trust = "none")
    /\ Children \in [Clients -> Instances]
    /\ Ahead \in [Instances -> Int]
    /\ {MaxTime, Callers, MaxRecords} \subseteq Nat

VARIABLES
    now,        \* the clock of the worker host
    authorities,\* keys in the pinned authority key set
    service,    \* [Instances -> state of the process]
    captured,   \* bootstraps written to files of the worker host
    enrollments, decisions, \* records the authority handed out
    client,     \* [Clients -> state of the client object and of its call]
    resolver,   \* who holds the only resolver slot
    posted,     \* <<to, request>>: requests on the way
    answers,    \* signed answers on the way
    ran,        \* history: every run of the tests
    accepted,   \* history: attestations verify() returned
    proven      \* the provenance a publication has just verified

vars == <<now, authorities, service, captured, enrollments, decisions, client, resolver,
          posted, answers, ran, accepted, proven>>

----------------------------------------------------------------------------
(* Services                                                                *)

Ready == [pc |-> "ready", body |-> None, issued |-> 0]
Off == [Ready EXCEPT !.pc = "off"]
Gone == [Ready EXCEPT !.pc = "gone"]
ChildServices == {Children[c] : c \in Clients}

\* _write_public_bootstrap: a file that must be new
Written(b) == captured' = captured \cup {b}

\* start_pinned_verifier_session starts serve_ephemeral_signed_verifier_https over
\* SSH: a fresh key, a fresh CA, the bootstrap line, then handle_request once.  A
\* line that does not parse ends the session and with it the service.
StartSession(s) ==
    /\ s \notin ChildServices /\ service[s].pc = "off"
    /\ \E b \in BootstrapLines(s) :
           IF BootstrapHolds(b)
           THEN /\ service' = [service EXCEPT ![s] = Ready]
                /\ Written(b)
           ELSE service' = [service EXCEPT ![s] = Gone] /\ UNCHANGED captured
    /\ UNCHANGED <<now, authorities, enrollments, decisions, client, resolver, posted, answers,
                   ran, accepted, proven>>

\* SignedVerifierHTTPService.handle_request on what arrives: whatever it is, it is
\* the only attempt.
HandleRequest(s, r) ==
    /\ service[s].pc = "ready"
    /\ service' = [service EXCEPT ![s] =
          IF Preflight[r.meta] = 200 /\ InvocationHolds(r.body) /\ RequestHolds(r.body.input)
          THEN [pc |-> "running", body |-> r.body, issued |-> now + Ahead[s]]
          ELSE Gone]
    /\ UNCHANGED <<now, authorities, captured, enrollments, decisions, client, resolver, posted,
                   answers, ran, accepted, proven>>

Receive(s) ==
    \/ \E p \in posted : p[1] = s /\ HandleRequest(s, p[2])
    \/ s \notin ChildServices /\ \E r \in StrangeRequests : HandleRequest(s, r)

\* The container's name and nonce are made for the call.
Inner(s) == <<"container", s>>

\* ClassicStoreBrainboosterVerifier and DockerContainerVerifier: one container
\* with a nonce of its own; the key is resolved last.  Any error is a 500 and the
\* server closes either way.
RunVerifier(s) ==
    /\ service[s].pc = "running"
    /\ LET body == service[s].body
           inner == Inner(s)
       IN \E o \in ChildOutcomes(body.input, inner) :
              /\ ran' = IF o \in Entrypoint(body.input, inner)
                        THEN ran \cup {[by |-> s, input |-> body.input, verdict |-> o.verdict,
                                        nonce |-> body.nonce, at |-> now]}
                        ELSE ran
              /\ answers' = IF ResultHolds(o, body.input, inner)
                            THEN answers \cup {Envelope(s, body, o.verdict, service[s].issued)}
                            ELSE answers
    /\ service' = [service EXCEPT ![s] = Gone]
    /\ UNCHANGED <<now, authorities, captured, enrollments, decisions, client, resolver, posted,
                   accepted, proven>>

\* The process ends: nobody came in time, a peer was refused, the key is missing,
\* the session was stopped.
Leave(s) ==
    /\ service[s].pc \in {"ready", "running"}
    /\ service' = [service EXCEPT ![s] = Gone]
    /\ UNCHANGED <<now, authorities, captured, enrollments, decisions, client, resolver, posted,
                   answers, ran, accepted, proven>>

----------------------------------------------------------------------------
(* Trust                                                                   *)

\* An external signer signs an enrollment message; verify_response checks it.
Enroll ==
    /\ Cardinality(enrollments) < MaxRecords
    /\ \E b \in captured : \E m \in EnrollmentMessages(b, now), k \in {Authority, Rogue} :
           /\ EnrollmentHolds(Assembled(m, k), authorities, now)
           /\ enrollments' = enrollments \cup {Assembled(m, k)}
    /\ UNCHANGED <<now, authorities, service, captured, decisions, client, resolver, posted,
                   answers, ran, accepted, proven>>

Decide ==
    /\ Cardinality(decisions) < MaxRecords
    /\ \E e \in enrollments : \E m \in DecisionMessages(e, now), k \in {Authority, Rogue} :
           /\ EnrollmentHolds(e, authorities, now)
           /\ DecisionHolds(Assembled(m, k), e, authorities, now)
           /\ decisions' = decisions \cup {Assembled(m, k)}
    /\ UNCHANGED <<now, authorities, service, captured, enrollments, client, resolver, posted,
                   answers, ran, accepted, proven>>

\* The operator takes the authority out of the pinned key set.
Revoke ==
    /\ Authority \in authorities
    /\ authorities' = {}
    /\ UNCHANGED <<now, service, captured, enrollments, decisions, client, resolver, posted,
                   answers, ran, accepted, proven>>

----------------------------------------------------------------------------
(* Client                                                                  *)

NewClient(m) ==
    [pc |-> "new", mode |-> m, server |-> None, key |-> None, enrollment |-> None,
     decision |-> None, calls |-> 0, input |-> None, asked |-> 0]

Bound(k) == k.decision # None
HasCurrentTrust(k) == Current(k.enrollment, now) /\ Current(k.decision, now)

\* SignedVerifierClient(...) on a subprocess: the key is given, not enrolled.
LoadChild(c) ==
    /\ client[c].mode.transport = "child"
    /\ client' = [client EXCEPT ![c].pc = "idle", ![c].server = Children[c],
                                ![c].key = Children[c]]

\* from_trust_enrollment and load_pinned_signed_verifier_client; which CA the
\* transport pins is an option of its own.
LoadRecords(c) ==
    /\ client[c].mode.transport # "child"
    /\ \E e \in enrollments, b \in captured :
       \E d \in IF client[c].mode.trust = "decided" THEN decisions ELSE {None} :
           /\ EnrollmentHolds(e, authorities, now)
           /\ d # None => DecisionHolds(d, e, authorities, now) /\ Current(e, now) /\ Current(d, now)
           /\ client' = [client EXCEPT ![c].pc = "idle", ![c].server = b.ca, ![c].key = e.of,
                                       ![c].enrollment = e, ![c].decision = d]

Load(c) ==
    /\ client[c].pc = "new"
    /\ LoadChild(c) \/ LoadRecords(c)
    /\ UNCHANGED <<now, authorities, service, captured, enrollments, decisions, resolver, posted,
                   answers, ran, accepted, proven>>

----------------------------------------------------------------------------
(* A call                                                                  *)

Free == Foreign
Nonce(c) == <<c, client[c].calls>>
InCall(c) == client[c].pc \in {"resolving", "waiting"}
Ended(c) == [client[c] EXCEPT !.pc = "idle", !.input = None, !.asked = 0]

\* The request is on its way, over a connection or to the child's stdin.
Sent(k, nonce) == posted \cup {<<k.server, Post("ok", Invocation(k.input, nonce))>>}

\* SignedVerifierClient.verify up to the transport: the request fits the profile,
\* bound trust is current, the nonce is new.  An HTTPS transport makes one attempt;
\* the CA bundle may have changed since it was pinned; the resolver slot is not
\* waited for.
Call(c) ==
    /\ client[c].pc = "idle" /\ client[c].calls < Callers
    /\ client[c].mode.transport # "child" => client[c].calls = 0
    /\ Bound(client[c]) => HasCurrentTrust(client[c])
    /\ \E input \in {i \in Inputs : RequestHolds(i)} :
           LET k == [client[c] EXCEPT !.calls = @ + 1, !.input = input, !.asked = now]
               nonce == <<c, k.calls>>
           IN \/ /\ k.mode.transport # "name"
                 /\ client' = [client EXCEPT ![c] = [k EXCEPT !.pc = "waiting"]]
                 /\ posted' = Sent(k, nonce)
                 /\ service' = IF k.mode.transport = "child"
                               THEN [service EXCEPT ![k.server] = Ready] ELSE service
                 /\ UNCHANGED resolver
              \/ /\ k.mode.transport = "name" /\ resolver = Free
                 /\ client' = [client EXCEPT ![c] = [k EXCEPT !.pc = "resolving"]]
                 /\ resolver' = nonce
                 /\ UNCHANGED <<service, posted>>
              \/ /\ k.mode.transport # "child"
                 /\ client' = [client EXCEPT ![c] = [k EXCEPT !.pc = "idle", !.input = None, !.asked = 0]]
                 /\ UNCHANGED <<service, resolver, posted>>
    /\ UNCHANGED <<now, authorities, captured, enrollments, decisions, answers, ran, accepted,
                   proven>>

\* The resolver thread: getaddrinfo returns and the slot is given back, also when
\* the call was given up long ago; if it was not, the client connects and posts.
Resolve(c) ==
    /\ resolver[1] = c
    /\ resolver' = Free
    /\ IF client[c].pc = "resolving" /\ Nonce(c) = resolver
       THEN \/ /\ client' = [client EXCEPT ![c].pc = "waiting"]
               /\ posted' = Sent(client[c], Nonce(c))
            \/ /\ client' = [client EXCEPT ![c] = Ended(c)]
               /\ UNCHANGED posted
       ELSE UNCHANGED <<client, posted>>
    /\ UNCHANGED <<now, authorities, service, captured, enrollments, decisions, answers, ran,
                   accepted, proven>>

\* SignedVerifierSubprocessTransport kills the child whose call ends.
Killed(c) ==
    service' = IF client[c].mode.transport = "child"
               THEN [service EXCEPT ![client[c].server] = Gone] ELSE service

\* Mutant: the wait for the resolver has no deadline.
FailUnlessResolving(c) ==
    /\ client[c].pc = "waiting"
    /\ client' = [client EXCEPT ![c] = Ended(c)]
    /\ Killed(c)
    /\ UNCHANGED <<now, authorities, captured, enrollments, decisions, resolver, posted, answers,
                   ran, accepted, proven>>

\* A status other than 200, a body too long, a connection that breaks, the
\* deadline: the call ends and a child is killed.
Fail(c) ==
    /\ InCall(c)
    /\ client' = [client EXCEPT ![c] = Ended(c)]
    /\ Killed(c)
    /\ UNCHANGED <<now, authorities, captured, enrollments, decisions, resolver, posted,
                   answers, ran, accepted, proven>>

Attestation(c, env) ==
    [by |-> c, envelope |-> env, input |-> client[c].input, nonce |-> Nonce(c),
     verdict |-> env.verdict, key |-> client[c].key, asked |-> client[c].asked,
     at |-> now, enrollment |-> client[c].enrollment, decision |-> client[c].decision]

\* Mutant: trust is looked at before the request only.
AcceptTrustOnce(c) ==
    /\ client[c].pc = "waiting"
    /\ \E env \in answers :
           /\ ResponseHolds(env, client[c].input, Nonce(c), client[c].key, now)
           /\ accepted' = accepted \cup {Attestation(c, env)}
    /\ client' = [client EXCEPT ![c] = Ended(c)]
    /\ UNCHANGED <<now, authorities, service, captured, enrollments, decisions, resolver,
                   posted, answers, ran, proven>>

\* verify after the transport: the answer is checked, bound trust is looked at again.
Accept(c) ==
    /\ client[c].pc = "waiting"
    /\ \E env \in answers :
           /\ ResponseHolds(env, client[c].input, Nonce(c), client[c].key, now)
           /\ Bound(client[c]) => HasCurrentTrust(client[c])
           /\ accepted' = accepted \cup {Attestation(c, env)}
    /\ client' = [client EXCEPT ![c] = Ended(c)]
    /\ UNCHANGED <<now, authorities, service, captured, enrollments, decisions, resolver,
                   posted, answers, ran, proven>>

\* verify_staged_verifier_provenance on the stage of an attestation
Reprove ==
    /\ \E a \in accepted :
           /\ ProvenanceHolds(a, authorities, now)
           /\ proven' = [stage |-> a, at |-> now, authorities |-> authorities]
    /\ UNCHANGED <<now, authorities, service, captured, enrollments, decisions, client, resolver,
                   posted, answers, ran, accepted>>

Tick ==
    /\ now < MaxTime
    /\ now' = now + 1
    /\ proven' = None
    /\ UNCHANGED <<authorities, service, captured, enrollments, decisions, client, resolver,
                   posted, answers, ran, accepted>>

Init ==
    /\ now = 0
    /\ authorities = {Authority}
    /\ service = [s \in Instances |-> Off]
    /\ captured = {} /\ enrollments = {} /\ decisions = {}
    /\ client \in [Clients -> UNION {{NewClient(m) : m \in ModeOf[c]} : c \in Clients}]
    /\ \A c \in Clients : client[c].mode \in ModeOf[c]
    /\ resolver = Free
    /\ posted = {} /\ answers = {} /\ ran = {} /\ accepted = {}
    /\ proven = None

Next ==
    \/ \E s \in Instances :
           StartSession(s) \/ Receive(s) \/ RunVerifier(s) \/ Leave(s)
    \/ Enroll \/ Decide \/ Revoke \/ Reprove \/ Tick
    \/ \E c \in Clients : Load(c) \/ Call(c) \/ Resolve(c) \/ Fail(c) \/ Accept(c)

\* Only the client's deadline is fair, not the network, a service or the resolver.
Spec == Init /\ [][Next]_vars /\ \A c \in Clients : WF_vars(Fail(c))

----------------------------------------------------------------------------
(* Properties                                                              *)

\* Whatever was lost, repeated, late or answered to somebody else, an attestation
\* a client returned tells of a run of the tests on the client's own input, made
\* by the process that holds the key the client trusts, with that verdict, after
\* the client asked and not longer ago than an answer may be old.
AcceptedIsGenuine ==
    \A a \in accepted : \E r \in ran :
        /\ r.by = a.key
        /\ <<r.input, r.nonce, r.verdict>> = <<a.input, a.nonce, a.verdict>>
        /\ a.asked <= r.at /\ r.at <= a.at
        /\ a.at - r.at <= MaxAge + Ahead[r.by]

\* An attestation that claims an independent host was asked for and accepted while
\* enrollment and decision held, for one deployment with two hosts; and a publication
\* that proves it again rests on records that are in force for the key set of that
\* moment, and on a run of the tests by the enrolled service, not much older than that.
TrustedIsCurrent ==
    /\ \A a \in accepted : a.decision # None =>
           /\ a.decision.of = a.enrollment
           /\ a.enrollment.of = a.key
           /\ a.enrollment.deployment.worker # a.enrollment.deployment.host
           /\ \A r \in {a.enrollment, a.decision} : r.issued <= a.asked /\ a.at < r.expires
    /\ proven # None =>
           LET a == proven.stage
           IN /\ \A r \in {a.enrollment, a.decision} :
                     r.signer \in proven.authorities /\ proven.at < r.expires
              /\ \E r \in ran :
                     /\ r.by = a.enrollment.of
                     /\ <<r.input, r.verdict>> = <<a.input, a.verdict>>
                     /\ proven.at - r.at <= MaxAge + Ahead[r.by]

\* A call ends, whatever the network, the service and the resolver do.
CallEnds == \A c \in Clients : InCall(c) ~> ~InCall(c)
=============================================================================
