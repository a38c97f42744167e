------------------------------- MODULE Approvals -------------------------------
(***************************************************************************)
(* From a staged artifact to a publication.  A request is prepared for a   *)
(* stage, an approver reviews and signs it, and a command verifies stage,  *)
(* request, signature, profile and enrollment, passes the gates and opens  *)
(* a channel.  Documents are files, which anybody may replace between two  *)
(* reads, and a person takes time at every prompt.  The local mock can     *)
(* also be run on a typed digest, which leaves a confirmation record.      *)
(***************************************************************************)
EXTENDS StageCopy, Authority, FiniteSets

CONSTANTS
    Commands,
    Approver,       \* the id the requests name
    Policies,       \* policy versions requests name
    Authorities,    \* keys in the pinned approver authority key set
    MaxSigned, MaxTime      \* bounds: signed approvals, time

\* What the word of a pinned authority is worth: it enrolls the approver's own key.
\* Nobody else has that key ("another", see Forged).
ASSUME ApprovalsAssumption ==
    /\ Key # "another"
    /\ \A e \in Enrollments : e.signer \in Authorities /\ e.approver = Approver => e.key = Key

VARIABLES
    now,
    request,        \* the request file
    signer,         \* the request under review
    signed,         \* signed approvals
    reviewed,       \* history: what the approver was shown and confirmed
    command,        \* [Commands -> state of a command]
    confirmations,  \* SQLiteOperatorConfirmationStore
    published       \* history: what went through an opened channel

approvalVars == <<now, request, signer, signed, reviewed, command, confirmations, published>>
allVars == <<copyVars, approvalVars>>

\* A database without sidecars has the stage: the source, or a copy.
Readable(s) == Stored(main, wal, s) \/ \E d \in copies : s \in d.rows

----------------------------------------------------------------------------
(* Request and signature                                                   *)

Forms == [head : Heads, id : {"approval-1"}, approver : {Approver}, policy : Policies]

\* load_approval_request; the command line prints the document to a file.
Prepare ==
    /\ \E s \in Stages, target \in Targets, f \in Forms, keys \in BOOLEAN :
           /\ Readable(s) /\ BuildHolds(s, target, keys, now)
           /\ request' = BuildRequest(s, target, f, now)
    /\ UNCHANGED <<copyVars, now, signer, signed, reviewed, command, confirmations, published>>

\* As it was printed.  Bound: a file is altered in one place.
Intact(r) == r.review = r.approval.stage /\ r.approval.expires = r.approval.at + TTL

\* The file is not signed: somebody writes another review, time or stage into it.
Edit ==
    /\ request # None /\ Intact(request)
    /\ \/ \E s \in Stages : request' = [request EXCEPT !.review = s]
       \/ \E s \in Stages : request' = [request EXCEPT !.approval.stage = s]
       \/ request' = [request EXCEPT !.approval.expires = MaxTime + TTL,
                                     !.intent.expires = MaxTime + TTL]
    /\ UNCHANGED <<copyVars, now, signer, signed, reviewed, command, confirmations, published>>

\* sign_approval_request up to the prompt: what is shown is rebuilt from the stage.
Review ==
    /\ signer = None /\ request # None
    /\ \E s \in Stages, target \in Targets, keys \in BOOLEAN :
           /\ Readable(s) /\ RebuildHolds(request, s, target, keys)
           /\ Unexpired(request, now)
           /\ signer' = BuildRequest(s, target, Fields(request), request.approval.at)
    /\ UNCHANGED <<copyVars, now, request, signed, reviewed, command, confirmations, published>>

\* The phrase is typed: the clock is read again, then the key is used.
Sign ==
    /\ signer # None /\ Cardinality(signed) < MaxSigned
    /\ Unexpired(signer, now)
    /\ signed' = signed \cup {[approval |-> signer.approval, key |-> Key]}
    /\ reviewed' = reviewed \cup {[request |-> signer, at |-> now]}
    /\ signer' = None
    /\ UNCHANGED <<copyVars, now, request, command, confirmations, published>>

\* Another phrase, the request has expired, no key
Decline ==
    /\ signer # None
    /\ signer' = None
    /\ UNCHANGED <<copyVars, now, request, signed, reviewed, command, confirmations, published>>

----------------------------------------------------------------------------
(* Commands with a signed approval                                         *)

Idle == [pc |-> "idle", kind |-> "none", moment |-> 0, verified |-> None]
Kinds == {"github", "enrolled", "mock"}

\* main reads the clock, once.
Begin(k) ==
    /\ command[k].pc = "idle"
    /\ \E kind \in Kinds :
           command' = [command EXCEPT ![k] = [@ EXCEPT !.pc = "begun", !.kind = kind, !.moment = now]]
    /\ UNCHANGED <<copyVars, now, request, signer, signed, reviewed, confirmations, published>>

\* Anybody can sign what the request file says, with another key.
Forged == [approval |-> request.approval, key |-> "another"]

\* load_verified_signed_approval: what verification of the files on disk returns
Verified(moment, enrolled) ==
    {v \in [stage : Stages, signed : signed \cup {Forged}, profile : Profiles, intent : {request.intent}] :
        /\ Readable(v.stage)
        /\ ProfileHolds(v.profile)
        /\ \E keys \in BOOLEAN : RebuildHolds(request, v.stage, v.profile.target, keys)
        /\ enrolled => \E e \in Enrollments :
               EnrollmentHolds(e, v.profile, request.approval.approver, Authorities, moment)
        /\ EnvelopeHolds(v.signed, request)
        /\ Decide(v.profile, ActuatorRequest(v.intent.of), v.signed, v.stage, v.intent, moment)}

\* _load_preview shows the stage of a first verification; the mock keeps it.
LoadApproval(k) ==
    /\ command[k].pc = "begun" /\ request # None
    /\ \E v \in Verified(command[k].moment, command[k].kind # "mock") :
           command' = [command EXCEPT ![k].pc = IF command[k].kind = "mock" THEN "ready" ELSE "loaded",
                                      ![k].verified = v]
    /\ UNCHANGED <<copyVars, now, request, signer, signed, reviewed, confirmations, published>>

\* The files are read again, by publish_signed_stage_github after the phrase, by
\* run_enrolled_signed_approval_local_mock_publication, which also compares.
Reload(k) ==
    /\ command[k].pc = "loaded" /\ request # None
    /\ \E v \in Verified(command[k].moment, TRUE) :
           /\ v.stage = command[k].verified.stage
           /\ command[k].kind = "enrolled" =>
                  v.intent = command[k].verified.intent /\ v.profile = command[k].verified.profile
           /\ command' = [command EXCEPT ![k].pc = "ready", ![k].verified = v]
    /\ UNCHANGED <<copyVars, now, request, signer, signed, reviewed, confirmations, published>>

\* run_approval_gate, run_policy_gate, run_broker_gate at the command's time
ApprovalGate(v, moment) ==
    /\ v.signed.approval.intent = v.intent
    /\ moment < v.intent.expires /\ moment < v.signed.approval.expires

PolicyGate(v, moment) ==
    DecisionUsable([allow |-> Decide(v.profile, ActuatorRequest(v.intent.of), v.signed, v.stage,
                                     v.intent, moment),
                    expires |-> moment + TTL], moment)

\* gateway of the GitHub command; the mocks have one that answers "slow, allowed".
GatewayGate(v, audited) ==
    LET e == Envelope(v.intent.of)
    IN EnvelopeBound(e, v.intent.of) /\ Enforce(e, TRUE, audited) = [path |-> "slow", allowed |-> TRUE]

BrokerGate(v, moment) ==
    GrantHolds(Grant(v.intent.of, v.signed.approval.expires), ActuatorRequest(v.intent.of), moment)

\* run_controlled_local_publication: a new broker knows of no used grant.  The mocks
\* have a gateway gate too, and the GitHub command compares target and configuration:
\* both only refuse more.
OpenAndPublish(k) ==
    /\ command[k].pc = "ready"
    /\ LET v == command[k].verified
       IN /\ ApprovalGate(v, command[k].moment)
          /\ PolicyGate(v, command[k].moment)
          /\ command[k].kind = "github" => \E audited \in BOOLEAN : GatewayGate(v, audited)
          /\ BrokerGate(v, command[k].moment)
          /\ published' = published \cup {[by |-> k, kind |-> command[k].kind, of |-> v.intent.of,
                                           moment |-> command[k].moment, profile |-> v.profile]}
    /\ command' = [command EXCEPT ![k] = [Idle EXCEPT !.pc = "done"]]
    /\ UNCHANGED <<copyVars, now, request, signer, signed, reviewed, confirmations>>

\* A refusal, another phrase, an error or a crash ends a command.
End(k) ==
    /\ command[k].pc \notin {"idle", "done"}
    /\ command' = [command EXCEPT ![k] = [Idle EXCEPT !.pc = "done"]]
    /\ UNCHANGED <<copyVars, now, request, signer, signed, reviewed, confirmations, published>>

----------------------------------------------------------------------------
(* The typed digest                                                        *)

\* save_confirmed
Confirmation(k, of) == [by |-> k, of |-> of, status |-> "confirmed", receipt |-> 0]

\* stage_approval.main: the preview, the typed digest, the record, read back
ConfirmTyped(k) ==
    /\ command[k].pc = "idle"
    /\ \E s \in Stages, head \in Heads :
           LET of == Intent(PublicationSeed(s), head)
           IN /\ Readable(s)
              /\ confirmations' = confirmations \cup {Confirmation(k, of)}
              /\ command' = [command EXCEPT ![k] = [pc |-> "confirmed", kind |-> "typed",
                                                    moment |-> now, verified |-> of]]
    /\ UNCHANGED <<copyVars, now, request, signer, signed, reviewed, published>>

\* run_local_mock_publication: an approval made and signed on the spot
RunTyped(k) ==
    /\ command[k].pc = "confirmed"
    /\ published' = published \cup {[by |-> k, kind |-> "typed", of |-> command[k].verified,
                                     moment |-> command[k].moment, profile |-> None]}
    /\ command' = [command EXCEPT ![k].pc = "ran"]
    /\ UNCHANGED <<copyVars, now, request, signer, signed, reviewed, confirmations>>

Completed(k) ==
    {IF c.by = k /\ c.status = "confirmed" THEN [c EXCEPT !.status = "mock_completed", !.receipt = 1]
     ELSE c : c \in confirmations}

\* Mutant: the record is completed before the mock has run.
CompleteMockEarly(k) ==
    /\ command[k].pc = "confirmed"
    /\ confirmations' = Completed(k)
    /\ UNCHANGED <<copyVars, now, request, signer, signed, reviewed, command, published>>

\* complete_mock
CompleteMock(k) ==
    /\ command[k].pc = "ran"
    /\ confirmations' = Completed(k)
    /\ command' = [command EXCEPT ![k] = [Idle EXCEPT !.pc = "done"]]
    /\ UNCHANGED <<copyVars, now, request, signer, signed, reviewed, published>>

Tick ==
    /\ now < MaxTime
    /\ now' = now + 1
    /\ UNCHANGED <<copyVars, request, signer, signed, reviewed, command, confirmations, published>>

Init ==
    /\ CopyInit
    /\ now = 0
    /\ request = None /\ signer = None
    /\ signed = {} /\ reviewed = {} /\ confirmations = {} /\ published = {}
    /\ command = [k \in Commands |-> Idle]

Next ==
    \/ CopyNext /\ UNCHANGED approvalVars
    \/ Prepare \/ Edit \/ Review \/ Sign \/ Decline \/ Tick
    \/ \E k \in Commands :
           \/ Begin(k) \/ LoadApproval(k) \/ Reload(k) \/ OpenAndPublish(k) \/ End(k)
           \/ ConfirmTyped(k) \/ RunTyped(k) \/ CompleteMock(k)

Spec == Init /\ [][Next]_allVars

----------------------------------------------------------------------------
(* Properties                                                              *)

\* The mock takes the profile it is given.
Ours(p) == p.kind = "mock" /\ p.profile.keys[Approver] = Key

\* Whatever files were replaced between the reads, whatever somebody else signed
\* and however long a prompt was open, what went through a channel on a signed
\* approval was shown to the approver as that stage with that intent, and confirmed,
\* before its request expired; the command began while the approval held, from a
\* repository whose verifier provenance held when the request was made.  A profile
\* need not be the approver's own where an authority has to have enrolled its key.
PublishedWasApproved ==
    \A p \in published : p.kind \in {"github", "enrolled"} \/ Ours(p) =>
        \E v \in reviewed :
            LET a == v.request.approval
            IN /\ v.request.review = p.of.stage /\ v.request.intent.of = p.of
               /\ v.at < a.expires
               /\ a.at <= p.moment /\ p.moment < a.expires
               /\ p.of.source = SourceOf[p.of.stage]
               /\ RequiresProvenance(PublicationSeed(p.of.stage)) => a.at \in ProvenIn[p.of.stage]
               /\ p.kind # "mock" => \E e \in Enrollments :
                      e.signer \in Authorities /\ e.key = Key /\ e.profile = p.profile.name
                          /\ p.moment < e.expires

\* "Grant lifetime is always enforced, so no channel opens for a malformed or
\* expired grant" (broker.py:123), said of the command that publishes to GitHub: a
\* channel it opens is opened before the grant, which ends with the approval, is over.
ChannelOpensInTime ==
    [][\A k \in Commands :
        /\ command[k].pc = "ready" /\ command[k].kind = "github"
        /\ published' # published
        /\ command'[k] # command[k]
        => now < command[k].verified.signed.approval.expires]_allVars

\* A confirmation record that says mock_completed tells of a mock publication of
\* the very intent whose digest was typed, wherever a command was cut off.
ConfirmationIsTrue ==
    \A c \in confirmations : c.status = "mock_completed" =>
        \E p \in published : p.by = c.by /\ p.kind = "typed" /\ p.of = c.of
=============================================================================
