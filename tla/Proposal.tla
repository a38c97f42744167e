------------------------------ MODULE Proposal ------------------------------
(***************************************************************************)
(* What the worker makes of the model's answer: the two channels           *)
(* (deepseek_http_channel.py, local_ollama_channel.py), the worker that    *)
(* reads a proposal out of one completion (deepseek_worker.py,             *)
(* openai_worker.py), the frames between the host and the worker in the    *)
(* container (worker_model_ipc.py, container_proposal_worker.py) and the   *)
(* executor's own check.  The model and the container may answer anything. *)
(***************************************************************************)
EXTENDS Naturals, FiniteSets, Snapshot

CONSTANTS
    Declared,   \* the declared change paths
    ChangeSets  \* the sets of [path, content] a document may propose

Invalid == [kind |-> "invalid"]
Declines(outcome) == [kind |-> outcome]
Proposes(changes) == [kind |-> "changes", changes |-> changes]

Reasons == [clarification_required |-> "conflicting_requirements",
            blocked |-> "target_test_outcome_unknown",
            denied |-> "publication_not_authorized"]

\* The JSON text of an answer: the legacy form has only its changes.
Documents ==
    [form : {"legacy"}, outcome : {"changes"}, reason : {"none"}, changes : ChangeSets]
      \cup [form : {"v2", "malformed"}, outcome : DOMAIN Reasons \cup {"changes"},
            reason : {Reasons[o] : o \in DOMAIN Reasons} \cup {"none"},
            changes : ChangeSets \cup {{}}]

----------------------------------------------------------------------------
(* parse_model_result                                                      *)

\* One entry per declared path, safe, within the limits.
Scoped(changes) ==
    /\ changes # {}
    /\ \A x \in changes : x.path \in Declared \cap SafePaths /\ x.content \notin Oversized
    /\ \A x, y \in changes : x.path = y.path => x = y

ParseModelResult(d) ==
    IF d.form = "v2" /\ d.outcome \in DOMAIN Reasons /\ d.changes = {}
         /\ d.reason = Reasons[d.outcome]
    THEN Declines(d.outcome)
    ELSE IF d.form \in {"legacy", "v2"} /\ d.outcome = "changes" /\ d.reason = "none"
              /\ Scoped(d.changes)
    THEN Proposes(d.changes)
    ELSE Invalid

----------------------------------------------------------------------------
(* The completion and the channels                                         *)

Completions == [status : {200, 429}, model : BOOLEAN, choices : 0..2, finish : {"stop", "length"},
                role : {"assistant", "user"}, tools : BOOLEAN, refusal : BOOLEAN]

\* DeepSeekHTTPChannel takes any well-formed completion of status 200 that
\* arrives before its deadline.
DeepSeekResponse(r) == r.status = 200 /\ r.choices = 1

\* LocalOllamaChatCompletionsChannel checks the completion itself.
OllamaResponse(r) ==
    /\ r.status = 200
    /\ r.model
    /\ r.choices = 1
    /\ r.finish = "stop"
    /\ r.role = "assistant"
    /\ ~r.tools
    /\ ~r.refusal

\* _extract_content, whichever channel answered.
Extracted(r) ==
    /\ r.choices = 1
    /\ r.finish = "stop"
    /\ r.role = "assistant"
    /\ ~r.tools
    /\ ~r.refusal

\* The credential is read when the channel is called: the manager may be there
\* and its value missing, blank or padded.
Credentials == [manager : BOOLEAN, value : {"absent", "blank", "padded", "usable"}]
CredentialHolds(k) == k.manager /\ k.value = "usable"

\* The answers a channel hands to the worker.
ChannelResults(model) ==
    {r \in Completions : IF model = "local" THEN OllamaResponse(r) ELSE DeepSeekResponse(r)}

\* R5LocalOllamaMetadataPreflight.inspect: version, one model of the name, its
\* digest.
Metadata == [status : {200, 500}, version : BOOLEAN, matches : 0..2, digest : BOOLEAN]
ExpectedModel(x) == x.status = 200 /\ x.version /\ x.matches = 1 /\ x.digest

----------------------------------------------------------------------------
(* The worker in the process and the worker in the container               *)

\* DeepSeekProposalWorker.propose after the call returned.
HostProposals(model) ==
    {IF Extracted(r) THEN ParseModelResult(d) ELSE Invalid :
         r \in ChannelResults(model), d \in Documents}

\* _encode_result: what may be framed for the container.
Framed(r) == r.choices = 1

\* _validated_proposal: the container's frame is one more document.  A terminal
\* outcome has its own frame; changes come in the legacy form.
ValidatedProposal(d) ==
    IF d.form = "v2"
    THEN IF ParseModelResult(d).kind = "changes" THEN Invalid ELSE ParseModelResult(d)
    ELSE ParseModelResult(d)

ContainerProposals == {ValidatedProposal(d) : d \in Documents}

\* The model request in the container's frame is the one of this task.
Requests == [schema : BOOLEAN, timeout : {"within", "beyond"}, payload : {"task", "another"}]
RequestFrame(q) == q.schema /\ q.timeout = "within" /\ q.payload = "task"

\* _assert_container: every restriction of the run command is in force.
Inspections == [found : BOOLEAN, running : BOOLEAN, image : BOOLEAN, restricted : BOOLEAN,
                mounts : BOOLEAN, environment : BOOLEAN]
ContainerAsserted(i) ==
    i.found /\ i.running /\ i.image /\ i.restricted /\ i.mounts /\ i.environment

\* validate_worker_proposal
ValidProposal(p) == p.kind = "changes" /\ Scoped(p.changes)
=============================================================================
