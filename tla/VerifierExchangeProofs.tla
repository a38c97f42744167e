------------------------ MODULE VerifierExchangeProofs ------------------------
(***************************************************************************)
(* What an accepted attestation is worth: for any clients, services, hosts *)
(* with clocks ahead, records and times, and whatever the way between them *)
(* does.                                                                   *)
(***************************************************************************)
EXTENDS VerifierExchange, TLAPS

----------------------------------------------------------------------------
(* The inductive invariant                                                 *)

ClientFields == {"pc", "mode", "server", "key", "enrollment", "decision", "calls", "input", "asked"}
ServiceFields == {"pc", "body", "issued"}

ObjectsOK ==
    /\ now \in Nat
    /\ DOMAIN client = Clients
    /\ \A c \in Clients :
           /\ DOMAIN client[c] = ClientFields
           /\ client[c].calls \in Nat /\ client[c].asked \in Nat /\ client[c].asked <= now
           /\ InCall(c) => client[c].calls > 0
    /\ DOMAIN service = Instances
    /\ \A s \in Instances : DOMAIN service[s] = ServiceFields

\* A nonce that has been used is that of a call that was made.
Told(x) == \A c \in Clients : \A n \in Nat : x = <<c, n>> => n <= client[c].calls

\* What was asked of a service, and how late it dates its answer.
AskedOK ==
    /\ \A p \in posted : Told(p[2].body.nonce)
    /\ \A s \in Instances : service[s].pc = "running" =>
           /\ Told(service[s].body.nonce)
           /\ service[s].issued \in Int /\ service[s].issued <= now + Ahead[s]

\* No run for a call is older than the call.
RanOK ==
    \A r \in ran :
        /\ r.by \in Instances /\ Told(r.nonce)
        /\ r.at \in Nat /\ r.at <= now
        /\ \A c \in Clients : InCall(c) /\ r.nonce = Nonce(c) => client[c].asked <= r.at

\* Every signed answer tells of a run.
AnswersOK ==
    \A env \in answers :
        /\ env.issued \in Int
        /\ \E r \in ran :
               /\ r.by = env.key
               /\ <<r.input, r.nonce, r.verdict>> = <<env.input, env.nonce, env.verdict>>
               /\ env.issued <= r.at + Ahead[r.by]

\* What a client loaded belongs together, and held when its call began.
TrustOK ==
    \A c \in Clients : Bound(client[c]) =>
        /\ client[c].pc # "new"
        /\ client[c].decision.of = client[c].enrollment
        /\ client[c].enrollment.of = client[c].key
        /\ client[c].enrollment.deployment.worker # client[c].enrollment.deployment.host
        /\ InCall(c) => /\ client[c].enrollment.issued <= client[c].asked
                        /\ client[c].decision.issued <= client[c].asked

VInv ==
    /\ ObjectsOK /\ AskedOK /\ RanOK /\ AnswersOK /\ TrustOK
    /\ \A a \in accepted : a.envelope \in answers
    /\ AcceptedIsGenuine /\ TrustedIsCurrent

----------------------------------------------------------------------------
(* The services                                                            *)

\* What is used of a nonce stays used.
LEMMA ToldStays ==
    ASSUME ObjectsOK, ObjectsOK', \A c \in Clients : client[c].calls <= client'[c].calls
    PROVE  \A x : Told(x) => Told(x)'
  BY DEF Told, ObjectsOK

\* A step that leaves clients, runs, answers, attestations and the clock alone.
LEMMA ServiceFrame ==
    ASSUME VInv, UNCHANGED <<now, client, ran, answers, accepted, proven>>
    PROVE  /\ RanOK' /\ AnswersOK' /\ TrustOK' /\ AcceptedIsGenuine' /\ TrustedIsCurrent'
           /\ \A a \in accepted' : a.envelope \in answers'
           /\ \A x : Told(x)' <=> Told(x)
  <1>1. RanOK'
    BY DEF VInv, RanOK, Told, InCall, Nonce
  <1>2. AnswersOK'
    BY DEF VInv, AnswersOK
  <1>3. TrustOK'
    BY DEF VInv, TrustOK, Bound, InCall
  <1>4. AcceptedIsGenuine' /\ TrustedIsCurrent'
    BY DEF VInv, AcceptedIsGenuine, TrustedIsCurrent
  <1>. QED
    BY <1>1, <1>2, <1>3, <1>4 DEF VInv, Told

\* The state of a service that is set to x.
LEMMA OneService ==
    ASSUME VInv, NEW s \in Instances, NEW x,
           service' = [service EXCEPT ![s] = x] \/ service' = service,
           DOMAIN x = ServiceFields,
           x.pc = "running" => /\ Told(x.body.nonce)
                               /\ x.issued \in Int /\ x.issued <= now + Ahead[s],
           UNCHANGED <<now, client, posted, ran, answers, accepted, proven>>
    PROVE  VInv'
  <1>1. service' \in {service, [service EXCEPT ![s] = x]}
    OBVIOUS
  <1>2. DOMAIN service = Instances
    BY DEF VInv, ObjectsOK
  <1>3. \A i \in Instances :
            \/ service'[i] = service[i]
            \/ (i = s /\ service'[i] = x)
    <2>1. \A i \in Instances : [service EXCEPT ![s] = x][i] = IF i = s THEN x ELSE service[i]
      BY <1>2
    <2>. QED
      BY <1>1, <2>1
  <1>4. ObjectsOK'
    <2>1. DOMAIN service' = Instances
      BY <1>1, <1>2
    <2>2. \A i \in Instances : DOMAIN service'[i] = ServiceFields
      BY <1>3 DEF VInv, ObjectsOK
    <2>. QED
      BY <2>1, <2>2 DEF VInv, ObjectsOK, InCall
  <1>5. AskedOK'
    <2>1. \A p \in posted' : Told(p[2].body.nonce)'
      BY ServiceFrame DEF VInv, AskedOK
    <2>2. ASSUME NEW i \in Instances, service'[i].pc = "running"
          PROVE  /\ Told(service[i].body.nonce)'
                 /\ service'[i].issued \in Int /\ service'[i].issued <= now' + Ahead[i]
      <3>1. CASE service'[i] = service[i]
        BY <2>2, <3>1, ServiceFrame DEF VInv, AskedOK
      <3>2. CASE i = s /\ service'[i] = x
        BY <2>2, <3>2, ServiceFrame
      <3>. QED
        BY <1>3, <3>1, <3>2
    <2>. QED
      BY <2>1, <2>2 DEF AskedOK
  <1>. QED
    BY <1>4, <1>5, ServiceFrame DEF VInv

\* A service that is ready or gone has the fields of a service.
LEMMA Restful ==
    /\ DOMAIN Ready = ServiceFields /\ Ready.pc = "ready"
    /\ DOMAIN Gone = ServiceFields /\ Gone.pc = "gone"
    /\ DOMAIN Off = ServiceFields /\ Off.pc = "off"
  BY DEF Ready, Gone, Off, ServiceFields

\* A service starts, takes a request, or ends without an answer.
LEMMA ServiceSteps ==
    ASSUME VInv, NEW s \in Instances, StartSession(s) \/ Receive(s) \/ Leave(s)
    PROVE  VInv'
  <1>1. CASE StartSession(s)
    <2>1. /\ service' \in {[service EXCEPT ![s] = Ready], [service EXCEPT ![s] = Gone]}
          /\ UNCHANGED <<now, client, posted, ran, answers, accepted, proven>>
      BY <1>1 DEF StartSession
    <2>. QED
      BY <2>1, Restful, OneService
  <1>2. CASE Leave(s)
    <2>1. /\ service' = [service EXCEPT ![s] = Gone]
          /\ UNCHANGED <<now, client, posted, ran, answers, accepted, proven>>
      BY <1>2 DEF Leave
    <2>. QED
      BY <2>1, Restful, OneService
  <1>3. ASSUME NEW r, HandleRequest(s, r), InvocationHolds(r.body) => Told(r.body.nonce)
        PROVE  VInv'
    <2>. DEFINE x == [pc |-> "running", body |-> r.body, issued |-> now + Ahead[s]]
    <2>1. /\ \/ service' = [service EXCEPT ![s] = x] /\ InvocationHolds(r.body)
             \/ service' = [service EXCEPT ![s] = Gone]
          /\ UNCHANGED <<now, client, posted, ran, answers, accepted, proven>>
      BY <1>3 DEF HandleRequest
    <2>2. /\ DOMAIN x = ServiceFields /\ x.body = r.body /\ x.issued = now + Ahead[s]
      BY DEF ServiceFields
    <2>3. x.issued \in Int /\ x.issued <= now + Ahead[s]
      BY <2>2, ExchangeAssumption DEF VInv, ObjectsOK
    <2>. HIDE DEF x
    <2>4. CASE service' = [service EXCEPT ![s] = x] /\ InvocationHolds(r.body)
      BY <1>3, <2>1, <2>2, <2>3, <2>4, OneService
    <2>5. CASE service' = [service EXCEPT ![s] = Gone]
      BY <2>1, <2>5, Restful, OneService
    <2>. QED
      BY <2>1, <2>4, <2>5
  <1>4. CASE Receive(s)
    <2>1. ASSUME NEW p \in posted, HandleRequest(s, p[2])
          PROVE  VInv'
      <3>1. Told(p[2].body.nonce)
        BY DEF VInv, AskedOK
      <3>. QED
        BY <1>3, <2>1, <3>1
    <2>2. ASSUME NEW r \in StrangeRequests, HandleRequest(s, r)
          PROVE  VInv'
      <3>1. r.body = None \/ r.body.nonce = Foreign
        <4>1. \A x : Post(x, None).body = None
          BY DEF Post
        <4>2. \A i, p, w : Post("ok", Strange(i, p, w)).body.nonce = Foreign
          BY DEF Post, Strange, Invocation
        <4>3. \/ \E x \in DOMAIN Preflight : r = Post(x, None)
              \/ \E i \in Inputs, p \in {"other", Expected.profile}, w \in Wires :
                    r = Post("ok", Strange(i, p, w))
          BY DEF StrangeRequests
        <4>. QED
          BY <4>1, <4>2, <4>3
      <3>2. Told(Foreign)
        BY DEF Told, Foreign, VInv, ObjectsOK
      <3>3. InvocationHolds(r.body) => Told(r.body.nonce)
        BY <3>1, <3>2 DEF InvocationHolds
      <3>. QED
        BY <1>3, <2>2, <3>3
    <2>. QED
      BY <1>4, <2>1, <2>2 DEF Receive
  <1>. QED
    BY <1>1, <1>2, <1>4

\* What a container may answer and a service signs is what the tests said of the candidate.
LEMMA SignedIsRun ==
    ASSUME NEW input, NEW nonce, NEW o \in ChildOutcomes(input, nonce), ResultHolds(o, input, nonce)
    PROVE  o \in Entrypoint(input, nonce)
  <1>1. ASSUME o \in Strays(input, nonce)
        PROVE  FALSE
    <2>1. o.input \in {None} \cup (Inputs \ {input})
      BY <1>1 DEF Strays
    <2>. QED
      BY <2>1 DEF ResultHolds, Classified, BoundResponse
  <1>. QED
    BY <1>1 DEF ChildOutcomes

\* The tests run and the answer is signed, with the time at which the request was taken.
LEMMA RunStep ==
    ASSUME VInv, NEW s \in Instances, RunVerifier(s)
    PROVE  VInv'
  <1>. DEFINE body == service[s].body
              Run(v) == [by |-> s, input |-> body.input, verdict |-> v, nonce |-> body.nonce,
                         at |-> now]
  <1>1. PICK o \in ChildOutcomes(body.input, Inner(s)) :
            /\ ran' = IF o \in Entrypoint(body.input, Inner(s)) THEN ran \cup {Run(o.verdict)}
                      ELSE ran
            /\ answers' = IF ResultHolds(o, body.input, Inner(s))
                          THEN answers \cup {Envelope(s, body, o.verdict, service[s].issued)}
                          ELSE answers
    BY DEF RunVerifier
  <1>2. /\ service' = [service EXCEPT ![s] = Gone] /\ service[s].pc = "running"
        /\ UNCHANGED <<now, client, posted, accepted, proven>>
    BY DEF RunVerifier
  <1>3. /\ Told(body.nonce) /\ service[s].issued \in Int
        /\ service[s].issued <= now + Ahead[s]
    BY <1>2 DEF VInv, AskedOK
  <1>. DEFINE run == Run(o.verdict)
              env == Envelope(s, body, o.verdict, service[s].issued)
  <1>4. /\ run.by = s /\ run.input = body.input /\ run.verdict = o.verdict
        /\ run.nonce = body.nonce /\ run.at = now
    OBVIOUS
  <1>5. /\ env.key = s /\ env.nonce = body.nonce /\ env.input = body.input
        /\ env.verdict = o.verdict /\ env.issued = service[s].issued
    BY DEF Envelope
  <1>6. /\ ran' = ran \/ ran' = ran \cup {run}
        /\ answers' = answers \/ (answers' = answers \cup {env} /\ run \in ran')
    BY <1>1, SignedIsRun
  <1>. HIDE DEF run, env, Run
  <1>7. \A x : Told(x)' <=> Told(x)
    BY <1>2 DEF Told
  <1>8. ObjectsOK'
    <2>1. DOMAIN service' = Instances /\ \A i \in Instances : DOMAIN service'[i] = ServiceFields
      BY <1>2, Restful DEF VInv, ObjectsOK
    <2>. QED
      BY <1>2, <2>1 DEF VInv, ObjectsOK, InCall
  <1>9. AskedOK'
    <2>1. \A i \in Instances : service'[i].pc = "running" => service'[i] = service[i]
      BY <1>2, Restful DEF VInv, ObjectsOK
    <2>. QED
      BY <1>2, <1>7, <2>1 DEF VInv, AskedOK
  <1>10. RanOK'
    <2>1. ASSUME NEW r \in ran'
          PROVE  /\ r.by \in Instances /\ Told(r.nonce)
                 /\ r.at \in Nat /\ r.at <= now
                 /\ \A c \in Clients : InCall(c) /\ r.nonce = Nonce(c) => client[c].asked <= r.at
      <3>1. CASE r \in ran
        BY <3>1 DEF VInv, RanOK
      <3>2. CASE r = run
        BY <1>3, <1>4, <3>2 DEF VInv, ObjectsOK
      <3>. QED
        BY <1>6, <3>1, <3>2
    <2>. QED
      BY <1>2, <1>7, <2>1 DEF RanOK, InCall, Nonce
  <1>11. AnswersOK'
    <2>. SUFFICES ASSUME NEW e \in answers'
                  PROVE  /\ e.issued \in Int
                         /\ \E r \in ran' :
                                /\ r.by = e.key
                                /\ <<r.input, r.nonce, r.verdict>> = <<e.input, e.nonce, e.verdict>>
                                /\ e.issued <= r.at + Ahead[r.by]
      BY DEF AnswersOK
    <2>1. CASE e \in answers
      BY <1>6, <2>1 DEF VInv, AnswersOK
    <2>2. CASE e = env /\ run \in ran'
      BY <1>3, <1>4, <1>5, <2>2
    <2>. QED
      BY <1>6, <2>1, <2>2
  <1>12. TrustOK'
    BY <1>2 DEF VInv, TrustOK, Bound, InCall
  <1>13. AcceptedIsGenuine' /\ TrustedIsCurrent'
    BY <1>2, <1>6 DEF VInv, AcceptedIsGenuine, TrustedIsCurrent
  <1>14. \A a \in accepted' : a.envelope \in answers'
    BY <1>2, <1>6 DEF VInv
  <1>. QED
    BY <1>2, <1>8, <1>9, <1>10, <1>11, <1>12, <1>13, <1>14 DEF VInv

----------------------------------------------------------------------------
(* The authority, a publication and the clock                              *)

\* Records that are signed, a key set that changes: what was loaded and accepted stays.
LEMMA AuthoritySteps ==
    ASSUME VInv, Enroll \/ Decide \/ Revoke
    PROVE  VInv'
  <1>1. UNCHANGED <<now, service, client, posted, ran, answers, accepted, proven>>
    BY DEF Enroll, Decide, Revoke
  <1>2. ObjectsOK'
    BY <1>1 DEF VInv, ObjectsOK, InCall
  <1>3. AskedOK'
    BY <1>1, ServiceFrame DEF VInv, AskedOK
  <1>. QED
    BY <1>1, <1>2, <1>3, ServiceFrame DEF VInv

\* Proving an attestation again looks at key set, records and answer once more.
LEMMA ReproveStep ==
    ASSUME VInv, Reprove
    PROVE  VInv'
  <1>1. UNCHANGED <<now, service, client, posted, ran, answers, accepted>>
    BY DEF Reprove
  <1>2. PICK a \in accepted :
            /\ ProvenanceHolds(a, authorities, now)
            /\ proven' = [stage |-> a, at |-> now, authorities |-> authorities]
    BY DEF Reprove
  <1>3. ObjectsOK'
    BY <1>1 DEF VInv, ObjectsOK, InCall
  <1>4. AskedOK'
    BY <1>1 DEF VInv, AskedOK, Told
  <1>5. RanOK'
    BY <1>1 DEF VInv, RanOK, Told, InCall, Nonce
  <1>6. AnswersOK' /\ AcceptedIsGenuine'
    BY <1>1 DEF VInv, AnswersOK, AcceptedIsGenuine
  <1>7. TrustOK'
    BY <1>1 DEF VInv, TrustOK, Bound, InCall
  <1>8. TrustedIsCurrent'
    <2>1. proven'.stage = a /\ proven'.at = now /\ proven'.authorities = authorities
      BY <1>2
    <2>2. \A r \in {a.enrollment, a.decision} : r.signer \in authorities /\ now < r.expires
      <3>1. /\ a.enrollment.signer \in authorities /\ a.enrollment.expires > now
            /\ a.decision.signer \in authorities /\ a.decision.expires > now
        BY <1>2 DEF ProvenanceHolds, EnrollmentHolds, DecisionHolds, WindowHolds
      <3>. QED
        BY <3>1
    <2>3. \E r \in ran :
              /\ r.by = a.enrollment.of
              /\ <<r.input, r.verdict>> = <<a.input, a.verdict>>
              /\ now - r.at <= MaxAge + Ahead[r.by]
      <3>. DEFINE env == a.envelope
      <3>1. /\ env.key = a.enrollment.of /\ env.input = a.input /\ env.verdict = a.verdict
            /\ env.issued >= now - MaxAge
        BY <1>2 DEF ProvenanceHolds, PersistedHolds, Timely
      <3>2. env \in answers
        BY DEF VInv
      <3>. HIDE DEF env
      <3>3. env.issued \in Int
        BY <3>2 DEF VInv, AnswersOK
      <3>4. PICK r \in ran :
                /\ r.by = env.key
                /\ <<r.input, r.nonce, r.verdict>> = <<env.input, env.nonce, env.verdict>>
                /\ env.issued <= r.at + Ahead[r.by]
        BY <3>2 DEF VInv, AnswersOK
      <3>5. r.at \in Nat /\ Ahead[r.by] \in Int /\ now \in Nat /\ MaxAge \in Nat
        BY TrustAssumption, ExchangeAssumption DEF VInv, ObjectsOK, RanOK
      <3>6. now - r.at <= MaxAge + Ahead[r.by]
        BY <3>1, <3>3, <3>4, <3>5
      <3>. QED
        BY <3>1, <3>4, <3>6
    <2>. QED
      BY <1>1, <2>1, <2>2, <2>3 DEF VInv, TrustedIsCurrent
  <1>. QED
    BY <1>1, <1>3, <1>4, <1>5, <1>6, <1>7, <1>8 DEF VInv

\* Time passes.
LEMMA TickStep ==
    ASSUME VInv, Tick
    PROVE  VInv'
  <1>1. now' = now + 1 /\ UNCHANGED <<service, client, posted, ran, answers, accepted>>
    BY DEF Tick
  <1>2. proven' = None
    BY DEF Tick
  <1>3. now \in Nat /\ now' \in Nat /\ now <= now'
    BY <1>1 DEF VInv, ObjectsOK
  <1>4. ObjectsOK'
    <2>1. ASSUME NEW c \in Clients
          PROVE  client[c].asked \in Nat /\ client[c].asked <= now'
      BY <1>1, <1>3 DEF VInv, ObjectsOK
    <2>. QED
      BY <1>1, <1>3, <2>1 DEF VInv, ObjectsOK, InCall
  <1>5. \A x : Told(x)' <=> Told(x)
    BY <1>1 DEF Told
  <1>6. AskedOK'
    <2>1. ASSUME NEW s \in Instances, service[s].pc = "running"
          PROVE  service[s].issued \in Int /\ service[s].issued <= now' + Ahead[s]
      <3>1. service[s].issued \in Int /\ service[s].issued <= now + Ahead[s] /\ Ahead[s] \in Int
        BY <2>1, ExchangeAssumption DEF VInv, AskedOK
      <3>. QED
        BY <1>1, <1>3, <3>1
    <2>. QED
      BY <1>1, <1>5, <2>1 DEF VInv, AskedOK
  <1>7. RanOK'
    <2>1. \A r \in ran : r.at \in Nat /\ r.at <= now'
      BY <1>1, <1>3 DEF VInv, RanOK
    <2>. QED
      BY <1>1, <1>5, <2>1 DEF VInv, RanOK, InCall, Nonce
  <1>8. AnswersOK' /\ AcceptedIsGenuine' /\ TrustedIsCurrent'
    BY <1>1, <1>2 DEF VInv, AnswersOK, AcceptedIsGenuine, TrustedIsCurrent
  <1>9. TrustOK'
    BY <1>1 DEF VInv, TrustOK, Bound, InCall
  <1>. QED
    BY <1>1, <1>4, <1>6, <1>7, <1>8, <1>9 DEF VInv

----------------------------------------------------------------------------
(* The clients                                                             *)

\* A client whose state becomes x: it loads records, makes a new call, goes on with one
\* or ends it.
Becomes(c, x) ==
    /\ DOMAIN client' = Clients
    /\ \A b \in Clients : client'[b] = IF b = c THEN x ELSE client[b]
    /\ DOMAIN x = ClientFields /\ x.pc # "new"
    /\ x.calls \in Nat /\ client[c].calls <= x.calls
    /\ x.asked \in Nat /\ x.asked <= now
    /\ x.pc \in {"resolving", "waiting"} =>
           /\ x.calls > 0
           /\ \/ x.calls = client[c].calls + 1
              \/ x.calls = client[c].calls /\ x.asked = client[c].asked /\ InCall(c)
    /\ x.decision # None =>
           /\ x.decision.of = x.enrollment
           /\ x.enrollment.of = x.key
           /\ x.enrollment.deployment.worker # x.enrollment.deployment.host
           /\ x.pc \in {"resolving", "waiting"} =>
                  x.enrollment.issued <= x.asked /\ x.decision.issued <= x.asked

\* The other clients stay what they are, and no run is older than its call.
LEMMA OneClient ==
    ASSUME VInv, NEW c \in Clients, NEW x, Becomes(c, x), now' = now, ran' = ran,
           DOMAIN service' = Instances, \A s \in Instances : DOMAIN service'[s] = ServiceFields
    PROVE  ObjectsOK' /\ RanOK' /\ TrustOK' /\ \A n : Told(n) => Told(n)'
  <1>1. DOMAIN client = Clients
    BY DEF VInv, ObjectsOK
  <1>2. \A b \in Clients : client'[b] = IF b = c THEN x ELSE client[b]
    BY <1>1 DEF Becomes
  <1>3. ObjectsOK'
    <2>1. DOMAIN client' = Clients
      BY <1>1 DEF Becomes
    <2>2. ASSUME NEW b \in Clients
          PROVE  /\ DOMAIN client'[b] = ClientFields
                 /\ client'[b].calls \in Nat /\ client'[b].asked \in Nat /\ client'[b].asked <= now
                 /\ client'[b].pc \in {"resolving", "waiting"} => client'[b].calls > 0
      BY <1>2 DEF VInv, ObjectsOK, Becomes, InCall
    <2>. QED
      BY <2>1, <2>2 DEF VInv, ObjectsOK, InCall
  <1>4. \A b \in Clients : client[b].calls <= client'[b].calls
    BY <1>2 DEF VInv, ObjectsOK, Becomes
  <1>5. \A n : Told(n) => Told(n)'
    BY <1>3, <1>4, ToldStays DEF VInv
  <1>6. RanOK'
    <2>1. ASSUME NEW r \in ran, NEW b \in Clients, InCall(b)', r.nonce = Nonce(b)'
          PROVE  client'[b].asked <= r.at
      <3>1. Told(r.nonce)
        BY DEF VInv, RanOK
      <3>2. r.nonce = <<b, client'[b].calls>> /\ client'[b].calls \in Nat
        BY <1>3, <2>1 DEF Nonce, ObjectsOK
      <3>3. client'[b].calls <= client[b].calls
        BY <3>1, <3>2 DEF Told
      <3>4. CASE b # c
        BY <1>2, <2>1, <3>4 DEF VInv, RanOK, InCall, Nonce
      <3>5. CASE b = c
        <4>1. x.calls <= client[c].calls /\ client[c].calls \in Nat
          BY <1>2, <3>3, <3>5 DEF VInv, ObjectsOK
        <4>2. x.calls = client[c].calls /\ x.asked = client[c].asked /\ InCall(c)
          BY <1>2, <2>1, <3>5, <4>1 DEF Becomes, InCall
        <4>. QED
          BY <1>2, <2>1, <3>5, <4>2 DEF VInv, RanOK, Nonce
      <3>. QED
        BY <3>4, <3>5
    <2>. QED
      BY <1>5, <2>1 DEF VInv, RanOK
  <1>7. TrustOK'
    BY <1>2 DEF VInv, TrustOK, Becomes, Bound, InCall
  <1>. QED
    BY <1>3, <1>5, <1>6, <1>7

\* What a client's step leaves to show: what is posted, and what runs.
LEMMA ClientFrame ==
    ASSUME VInv, NEW c \in Clients, NEW x, Becomes(c, x),
           UNCHANGED <<now, ran, answers, accepted, proven>>,
           \A p \in posted' : p \in posted \/ p[2].body.nonce = <<c, x.calls>>,
           DOMAIN service' = Instances,
           \A s \in Instances : service'[s] \in {service[s], Ready, Gone}
    PROVE  VInv'
  <1>1. \A s \in Instances : DOMAIN service'[s] = ServiceFields
    BY Restful DEF VInv, ObjectsOK
  <1>2. ObjectsOK' /\ RanOK' /\ TrustOK' /\ \A n : Told(n) => Told(n)'
    BY <1>1, OneClient
  <1>3. AskedOK'
    <2>1. ASSUME NEW p \in posted'
          PROVE  Told(p[2].body.nonce)'
      <3>1. CASE p \in posted
        BY <1>2, <3>1 DEF VInv, AskedOK
      <3>2. CASE p[2].body.nonce = <<c, x.calls>>
        <4>1. client'[c].calls = x.calls
          BY DEF Becomes, VInv, ObjectsOK
        <4>2. x.calls \in Nat
          BY DEF Becomes
        <4>. QED
          BY <3>2, <4>1, <4>2 DEF Told
      <3>. QED
        BY <3>1, <3>2
    <2>2. \A s \in Instances : service'[s].pc = "running" => service'[s] = service[s]
      BY Restful
    <2>3. ASSUME NEW s \in Instances, service'[s].pc = "running"
          PROVE  /\ Told(service[s].body.nonce)' /\ service'[s].issued \in Int
                 /\ service'[s].issued <= now' + Ahead[s]
      <3>1. service'[s] = service[s] /\ Told(service[s].body.nonce)
        BY <2>2, <2>3 DEF VInv, AskedOK
      <3>2. Told(service[s].body.nonce)'
        BY <1>2, <3>1
      <3>. QED
        BY <2>3, <3>1, <3>2 DEF VInv, AskedOK
    <2>. QED
      BY <2>1, <2>3 DEF AskedOK
  <1>4. AnswersOK' /\ AcceptedIsGenuine' /\ TrustedIsCurrent'
    BY DEF VInv, AnswersOK, AcceptedIsGenuine, TrustedIsCurrent
  <1>. QED
    BY <1>2, <1>3, <1>4 DEF VInv

\* A client loads its records, which must belong together.
LEMMA LoadStep ==
    ASSUME VInv, NEW c \in Clients, Load(c)
    PROVE  VInv'
  <1>. DEFINE k == client[c]
              x == client'[c]
  <1>1. /\ k.pc = "new" /\ DOMAIN client = Clients /\ DOMAIN k = ClientFields
        /\ k.calls \in Nat /\ k.asked \in Nat /\ k.asked <= now
        /\ UNCHANGED <<now, service, posted, ran, answers, accepted, proven>>
    BY DEF Load, VInv, ObjectsOK
  <1>2. k.decision = None
    BY <1>1 DEF VInv, TrustOK, Bound
  <1>3. ASSUME DOMAIN client' = Clients, \A b \in Clients \ {c} : client'[b] = client[b],
               DOMAIN x = ClientFields, x.pc = "idle", x.calls = k.calls, x.asked = k.asked,
               x.decision # None =>
                   /\ x.decision.of = x.enrollment
                   /\ x.enrollment.of = x.key
                   /\ x.enrollment.deployment.worker # x.enrollment.deployment.host
        PROVE  VInv'
    <2>1. Becomes(c, x)
      BY <1>1, <1>3 DEF Becomes
    <2>2. DOMAIN service' = Instances
      BY <1>1 DEF VInv, ObjectsOK
    <2>. QED
      BY <1>1, <2>1, <2>2, ClientFrame
  <1>4. CASE LoadChild(c)
    <2>1. client' = [client EXCEPT ![c].pc = "idle", ![c].server = Children[c],
                                   ![c].key = Children[c]]
      BY <1>4 DEF LoadChild
    <2>2. DOMAIN client' = Clients /\ \A b \in Clients \ {c} : client'[b] = client[b]
      BY <1>1, <2>1
    <2>3. DOMAIN x = ClientFields /\ x.pc = "idle" /\ x.calls = k.calls /\ x.asked = k.asked
      BY <1>1, <2>1 DEF ClientFields
    <2>4. x.decision = None
      BY <1>1, <1>2, <2>1 DEF ClientFields
    <2>. QED
      BY <1>3, <2>2, <2>3, <2>4
  <1>5. CASE LoadRecords(c)
    <2>1. PICK e \in enrollments, b \in captured,
               d \in IF client[c].mode.trust = "decided" THEN decisions ELSE {None} :
            /\ EnrollmentHolds(e, authorities, now)
            /\ d # None => DecisionHolds(d, e, authorities, now)
            /\ client' = [client EXCEPT ![c].pc = "idle", ![c].server = b.ca, ![c].key = e.of,
                                        ![c].enrollment = e, ![c].decision = d]
      BY <1>5 DEF LoadRecords
    <2>2. DOMAIN client' = Clients /\ \A y \in Clients \ {c} : client'[y] = client[y]
      BY <1>1, <2>1
    <2>3. DOMAIN x = ClientFields /\ x.pc = "idle" /\ x.calls = k.calls /\ x.asked = k.asked
      BY <1>1, <2>1 DEF ClientFields
    <2>4. x.decision = d /\ x.enrollment = e /\ x.key = e.of
      BY <1>1, <2>1 DEF ClientFields
    <2>5. e.deployment.worker # e.deployment.host /\ (d # None => d.of = e)
      BY <2>1 DEF EnrollmentHolds, DecisionHolds, FieldsHold
    <2>. QED
      BY <1>3, <2>2, <2>3, <2>4, <2>5
  <1>. QED
    BY <1>4, <1>5 DEF Load

\* A call begins: its nonce is new, and what it trusts is in force.
LEMMA CallStep ==
    ASSUME VInv, NEW c \in Clients, Call(c)
    PROVE  VInv'
  <1>. DEFINE k(i) == [client[c] EXCEPT !.calls = @ + 1, !.input = i, !.asked = now]
              x == client'[c]
  <1>1. /\ client[c].pc = "idle" /\ DOMAIN client = Clients /\ DOMAIN client[c] = ClientFields
        /\ client[c].calls \in Nat /\ now \in Nat /\ DOMAIN service = Instances
        /\ Bound(client[c]) => HasCurrentTrust(client[c])
        /\ UNCHANGED <<now, ran, answers, accepted, proven>>
    BY DEF Call, VInv, ObjectsOK
  <1>2. PICK i \in Inputs :
            \/ /\ client' = [client EXCEPT ![c] = [k(i) EXCEPT !.pc = "waiting"]]
               /\ posted' = Sent(k(i), <<c, k(i).calls>>)
               /\ \/ service' = [service EXCEPT ![k(i).server] = Ready]
                  \/ service' = service
            \/ /\ client' = [client EXCEPT ![c] = [k(i) EXCEPT !.pc = "resolving"]]
               /\ UNCHANGED <<service, posted>>
            \/ /\ client' = [client EXCEPT ![c] = [k(i) EXCEPT !.pc = "idle", !.input = None,
                                                               !.asked = 0]]
               /\ UNCHANGED <<service, posted>>
    BY DEF Call
  <1>3. /\ DOMAIN k(i) = ClientFields /\ k(i).calls = client[c].calls + 1 /\ k(i).asked = now
        /\ k(i).decision = client[c].decision /\ k(i).enrollment = client[c].enrollment
        /\ k(i).key = client[c].key
    BY <1>1 DEF ClientFields
  <1>. DEFINE kept == /\ DOMAIN x = ClientFields
                      /\ x.calls = client[c].calls + 1
                      /\ x.decision = client[c].decision /\ x.enrollment = client[c].enrollment
                      /\ x.key = client[c].key
  <1>. HIDE DEF k
  <1>4. DOMAIN client' = Clients /\ \A b \in Clients \ {c} : client'[b] = client[b]
    BY <1>1, <1>2
  <1>5. kept
    BY <1>1, <1>2, <1>3 DEF ClientFields
  <1>6. \/ x.pc = "idle" /\ x.asked = 0
        \/ x.pc \in {"waiting", "resolving"} /\ x.asked = now
    BY <1>1, <1>2, <1>3 DEF ClientFields
  <1>. HIDE DEF x
  <1>7. Becomes(c, x)
    <2>1. x.calls \in Nat /\ client[c].calls <= x.calls /\ x.calls > 0
      BY <1>1, <1>5
    <2>2. x.asked \in Nat /\ x.asked <= now
      BY <1>1, <1>6
    <2>3. x.decision # None =>
              /\ x.decision.of = x.enrollment
              /\ x.enrollment.of = x.key
              /\ x.enrollment.deployment.worker # x.enrollment.deployment.host
      BY <1>5 DEF VInv, TrustOK, Bound
    <2>4. x.decision # None /\ x.asked = now =>
              x.enrollment.issued <= x.asked /\ x.decision.issued <= x.asked
      BY <1>1, <1>5 DEF Bound, HasCurrentTrust, Current
    <2>5. x.pc \in {"resolving", "waiting"} => x.asked = now
      BY <1>6
    <2>6. client'[c] = x
      BY DEF x
    <2>. QED
      BY <1>4, <1>5, <1>6, <2>1, <2>2, <2>3, <2>4, <2>5, <2>6 DEF Becomes
  <1>8. \A p \in posted' : p \in posted \/ p[2].body.nonce = <<c, x.calls>>
    <2>1. \A p \in Sent(k(i), <<c, k(i).calls>>) :
              p \in posted \/ p[2].body.nonce = <<c, k(i).calls>>
      BY DEF Sent, Post, Invocation
    <2>. QED
      BY <1>2, <1>3, <1>5, <2>1
  <1>9. DOMAIN service' = Instances /\ \A s \in Instances : service'[s] \in {service[s], Ready, Gone}
    BY <1>1, <1>2
  <1>. QED
    BY <1>1, <1>7, <1>8, <1>9, ClientFrame
\* A call that ends leaves the client what it loaded.
LEMMA EndedBecomes ==
    ASSUME VInv, NEW c \in Clients, client' = [client EXCEPT ![c] = Ended(c)]
    PROVE  Becomes(c, Ended(c))
  <1>. DEFINE k == client[c]
  <1>1. /\ DOMAIN client = Clients /\ DOMAIN k = ClientFields
        /\ k.calls \in Nat /\ now \in Nat
    BY DEF VInv, ObjectsOK
  <1>2. /\ DOMAIN Ended(c) = ClientFields /\ Ended(c).pc = "idle" /\ Ended(c).calls = k.calls
        /\ Ended(c).asked = 0 /\ Ended(c).decision = k.decision
        /\ Ended(c).enrollment = k.enrollment /\ Ended(c).key = k.key
    BY <1>1 DEF Ended, ClientFields
  <1>3. DOMAIN client' = Clients /\ \A b \in Clients : client'[b] = IF b = c THEN Ended(c) ELSE client[b]
    BY <1>1
  <1>4. k.decision # None =>
            /\ k.decision.of = k.enrollment /\ k.enrollment.of = k.key
            /\ k.enrollment.deployment.worker # k.enrollment.deployment.host
    BY DEF VInv, TrustOK, Bound
  <1>. QED
    BY <1>1, <1>2, <1>3, <1>4 DEF Becomes

\* The resolver answers: the call goes on, or ends, or nobody waits any more.
LEMMA ResolveStep ==
    ASSUME VInv, NEW c \in Clients, Resolve(c)
    PROVE  VInv'
  <1>. DEFINE k == client[c]
              x == client'[c]
  <1>1. /\ DOMAIN client = Clients /\ DOMAIN k = ClientFields /\ DOMAIN service = Instances
        /\ k.calls \in Nat /\ k.asked \in Nat /\ k.asked <= now /\ now \in Nat
        /\ UNCHANGED <<now, service, ran, answers, accepted, proven>>
    BY DEF Resolve, VInv, ObjectsOK
  <1>2. CASE UNCHANGED <<client, posted>>
    <2>1. ObjectsOK' /\ AskedOK'
      BY <1>1, <1>2 DEF VInv, ObjectsOK, AskedOK, Told, InCall
    <2>. QED
      BY <1>1, <1>2, <2>1, ServiceFrame DEF VInv
  <1>3. CASE /\ k.pc = "resolving"
             /\ client' = [client EXCEPT ![c].pc = "waiting"]
             /\ posted' = Sent(k, Nonce(c))
    <2>1. DOMAIN client' = Clients /\ \A b \in Clients \ {c} : client'[b] = client[b]
      BY <1>1, <1>3
    <2>2. /\ DOMAIN x = ClientFields /\ x.pc = "waiting" /\ x.calls = k.calls /\ x.asked = k.asked
          /\ x.decision = k.decision /\ x.enrollment = k.enrollment /\ x.key = k.key
      BY <1>1, <1>3 DEF ClientFields
    <2>3. InCall(c) /\ k.calls > 0
      BY <1>3 DEF InCall, VInv, ObjectsOK
    <2>4. Becomes(c, x)
      <3>1. x.decision # None =>
                /\ x.decision.of = x.enrollment
                /\ x.enrollment.of = x.key
                /\ x.enrollment.deployment.worker # x.enrollment.deployment.host
                /\ x.enrollment.issued <= x.asked /\ x.decision.issued <= x.asked
        BY <2>2, <2>3 DEF VInv, TrustOK, Bound
      <3>. QED
        BY <1>1, <2>1, <2>2, <2>3, <3>1 DEF Becomes
    <2>5. \A p \in posted' : p \in posted \/ p[2].body.nonce = <<c, x.calls>>
      BY <1>3, <2>2 DEF Sent, Post, Invocation, Nonce
    <2>. QED
      BY <1>1, <2>4, <2>5, ClientFrame
  <1>4. CASE client' = [client EXCEPT ![c] = Ended(c)] /\ UNCHANGED posted
    BY <1>1, <1>4, EndedBecomes, ClientFrame
  <1>. QED
    BY <1>2, <1>3, <1>4 DEF Resolve

\* The deadline, or an answer that is none: the call ends, and a child with it.
LEMMA FailStep ==
    ASSUME VInv, NEW c \in Clients, Fail(c)
    PROVE  VInv'
  <1>1. /\ client' = [client EXCEPT ![c] = Ended(c)]
        /\ UNCHANGED <<now, posted, ran, answers, accepted, proven>>
        /\ DOMAIN service = Instances
    BY DEF Fail, VInv, ObjectsOK
  <1>2. service' = [service EXCEPT ![client[c].server] = Gone] \/ service' = service
    BY DEF Fail, Killed
  <1>3. DOMAIN service' = Instances /\ \A s \in Instances : service'[s] \in {service[s], Ready, Gone}
    BY <1>1, <1>2
  <1>. QED
    BY <1>1, <1>3, EndedBecomes, ClientFrame

\* An answer is accepted: it is to this call, signed with the key the client trusts, and not
\* older than it may be; bound trust holds now, and held when the client asked.
LEMMA AcceptStep ==
    ASSUME VInv, NEW c \in Clients, Accept(c)
    PROVE  VInv'
  <1>1. /\ client' = [client EXCEPT ![c] = Ended(c)] /\ InCall(c)
        /\ UNCHANGED <<now, service, posted, ran, answers, proven>>
    BY DEF Accept, InCall
  <1>2. PICK env \in answers :
            /\ ResponseHolds(env, client[c].input, Nonce(c), client[c].key, now)
            /\ Bound(client[c]) => HasCurrentTrust(client[c])
            /\ accepted' = accepted \cup {Attestation(c, env)}
    BY DEF Accept
  <1>. DEFINE a == Attestation(c, env)
  <1>3. /\ a.envelope = env /\ a.input = client[c].input /\ a.nonce = Nonce(c)
        /\ a.verdict = env.verdict /\ a.key = client[c].key /\ a.asked = client[c].asked
        /\ a.at = now /\ a.enrollment = client[c].enrollment /\ a.decision = client[c].decision
    BY DEF Attestation
  <1>. HIDE DEF a
  <1>4. accepted' = accepted \cup {a}
    BY <1>2 DEF a
  <1>5. env.issued \in Int
    BY DEF VInv, AnswersOK
  <1>6. /\ DOMAIN service' = Instances
        /\ \A s \in Instances : DOMAIN service'[s] = ServiceFields
    BY <1>1 DEF VInv, ObjectsOK
  <1>7. ObjectsOK' /\ RanOK' /\ TrustOK' /\ \A n : Told(n) => Told(n)'
    BY <1>1, <1>6, EndedBecomes, OneClient
  <1>8. AskedOK'
    BY <1>1, <1>7 DEF VInv, AskedOK
  <1>9. AnswersOK'
    BY <1>1 DEF VInv, AnswersOK
  <1>10. \E r \in ran :
             /\ r.by = a.key
             /\ <<r.input, r.nonce, r.verdict>> = <<a.input, a.nonce, a.verdict>>
             /\ a.asked <= r.at /\ r.at <= a.at
             /\ a.at - r.at <= MaxAge + Ahead[r.by]
    <2>1. PICK r \in ran :
              /\ r.by = env.key
              /\ <<r.input, r.nonce, r.verdict>> = <<env.input, env.nonce, env.verdict>>
              /\ env.issued <= r.at + Ahead[r.by]
      BY DEF VInv, AnswersOK
    <2>2. /\ env.key = client[c].key /\ env.input = client[c].input /\ env.nonce = Nonce(c)
          /\ env.issued >= now - MaxAge
      BY <1>2 DEF ResponseHolds, Timely
    <2>3. /\ r.by \in Instances /\ r.at \in Nat /\ r.at <= now
          /\ client[c].asked <= r.at
      BY <1>1, <2>1, <2>2 DEF VInv, RanOK
    <2>4. now - r.at <= MaxAge + Ahead[r.by]
      <3>1. MaxAge \in Int /\ Ahead[r.by] \in Int /\ now \in Int
        BY <2>3, TrustAssumption, ExchangeAssumption DEF VInv, ObjectsOK
      <3>. QED
        BY <1>5, <2>1, <2>2, <2>3, <3>1
    <2>. QED
      BY <1>3, <2>1, <2>2, <2>3, <2>4
  <1>11. a.decision # None =>
             /\ a.decision.of = a.enrollment
             /\ a.enrollment.of = a.key
             /\ a.enrollment.deployment.worker # a.enrollment.deployment.host
             /\ \A r \in {a.enrollment, a.decision} : r.issued <= a.asked /\ a.at < r.expires
    <2>. SUFFICES ASSUME a.decision # None
                  PROVE  /\ a.decision.of = a.enrollment
                         /\ a.enrollment.of = a.key
                         /\ a.enrollment.deployment.worker # a.enrollment.deployment.host
                         /\ \A r \in {a.enrollment, a.decision} :
                                r.issued <= a.asked /\ a.at < r.expires
      OBVIOUS
    <2>1. Bound(client[c])
      BY <1>3 DEF Bound
    <2>2. now < client[c].enrollment.expires /\ now < client[c].decision.expires
      BY <1>2, <2>1 DEF HasCurrentTrust, Current
    <2>3. /\ client[c].decision.of = client[c].enrollment
          /\ client[c].enrollment.of = client[c].key
          /\ client[c].enrollment.deployment.worker # client[c].enrollment.deployment.host
          /\ client[c].enrollment.issued <= client[c].asked
          /\ client[c].decision.issued <= client[c].asked
      BY <1>1, <2>1 DEF VInv, TrustOK
    <2>. QED
      BY <1>3, <2>2, <2>3
  <1>12. AcceptedIsGenuine'
    BY <1>1, <1>4, <1>10 DEF VInv, AcceptedIsGenuine
  <1>13. TrustedIsCurrent'
    BY <1>1, <1>4, <1>11 DEF VInv, TrustedIsCurrent
  <1>14. \A b \in accepted' : b.envelope \in answers'
    BY <1>1, <1>3, <1>4 DEF VInv
  <1>. QED
    BY <1>7, <1>8, <1>9, <1>12, <1>13, <1>14 DEF VInv

----------------------------------------------------------------------------
(* Theorems                                                                *)

\* Nothing was asked, run or accepted when the first service starts.
LEMMA ExchangeInit == Init => VInv
  <1>. SUFFICES ASSUME Init PROVE VInv
    OBVIOUS
  <1>1. \A c \in Clients : \E m : client[c] = NewClient(m)
    BY DEF Init
  <1>2. ASSUME NEW m
        PROVE  /\ DOMAIN NewClient(m) = ClientFields /\ NewClient(m).pc = "new"
               /\ NewClient(m).calls = 0 /\ NewClient(m).asked = 0 /\ NewClient(m).decision = None
    BY DEF NewClient, ClientFields
  <1>3. \A c \in Clients :
            /\ DOMAIN client[c] = ClientFields /\ client[c].pc = "new"
            /\ client[c].calls = 0 /\ client[c].asked = 0 /\ client[c].decision = None
    BY <1>1, <1>2
  <1>4. DOMAIN service = Instances /\ \A s \in Instances : service[s] = Off
    BY DEF Init
  <1>5. ObjectsOK
    <2>1. now \in Nat /\ DOMAIN client = Clients
      BY DEF Init
    <2>2. now = 0
      BY DEF Init
    <2>. QED
      BY <1>3, <1>4, <2>1, <2>2, Restful DEF ObjectsOK, InCall
  <1>6. AskedOK
    BY <1>4, Restful DEF Init, AskedOK
  <1>7. RanOK /\ AnswersOK
    BY DEF Init, RanOK, AnswersOK
  <1>8. TrustOK
    BY <1>3 DEF TrustOK, Bound
  <1>9. AcceptedIsGenuine /\ TrustedIsCurrent /\ accepted = {}
    BY DEF Init, AcceptedIsGenuine, TrustedIsCurrent
  <1>. QED
    BY <1>5, <1>6, <1>7, <1>8, <1>9 DEF VInv

\* Every step of a service, the authority, a client or the clock keeps the invariant.
LEMMA ExchangeStep == VInv /\ [Next]_vars => VInv'
  <1>. SUFFICES ASSUME VInv, [Next]_vars PROVE VInv'
    OBVIOUS
  <1>1. ASSUME UNCHANGED vars PROVE VInv'
    <2>1. /\ UNCHANGED <<now, client, ran, answers, accepted, proven>>
          /\ UNCHANGED <<service, posted>>
      BY <1>1 DEF vars
    <2>2. ObjectsOK' /\ AskedOK'
      BY <2>1 DEF VInv, ObjectsOK, AskedOK, Told, InCall
    <2>. QED
      BY <2>1, <2>2, ServiceFrame DEF VInv
  <1>2. ASSUME NEW s \in Instances,
               StartSession(s) \/ Receive(s) \/ RunVerifier(s) \/ Leave(s)
        PROVE  VInv'
    BY <1>2, ServiceSteps, RunStep
  <1>3. ASSUME Enroll \/ Decide \/ Revoke \/ Reprove \/ Tick PROVE VInv'
    BY <1>3, AuthoritySteps, ReproveStep, TickStep
  <1>4. ASSUME NEW c \in Clients, Load(c) \/ Call(c) \/ Resolve(c) \/ Fail(c) \/ Accept(c)
        PROVE  VInv'
    BY <1>4, LoadStep, CallStep, ResolveStep, FailStep, AcceptStep
  <1>. QED
    BY <1>1, <1>2, <1>3, <1>4 DEF Next

\* The invariant holds in every state of the exchange.
THEOREM ExchangeInvariance == Spec => []VInv
  BY ExchangeInit, ExchangeStep, PTL DEF Spec

\* Whatever the way between the hosts loses, repeats, delays or answers to somebody else
\* (VerifierExchange.AcceptedIsGenuine), what SignedVerifierClient.verify returned tells of a
\* run of the tests on its own input, by the holder of the key it trusts.
THEOREM AcceptedIsGenuineHolds == Spec => []AcceptedIsGenuine
  <1>1. VInv => AcceptedIsGenuine
    BY DEF VInv
  <1>. QED
    BY <1>1, ExchangeInvariance, PTL

\* What is accepted or proven again under bound trust (VerifierExchange.TrustedIsCurrent) had
\* an enrollment and a decision of one deployment of two hosts, in force from the request to
\* the answer; when verify_staged_verifier_provenance looked again they were signed by an
\* authority of that moment, and the enrolled service had run the tests not long before.
THEOREM TrustedIsCurrentHolds == Spec => []TrustedIsCurrent
  <1>1. VInv => TrustedIsCurrent
    BY DEF VInv
  <1>. QED
    BY <1>1, ExchangeInvariance, PTL

=============================================================================
