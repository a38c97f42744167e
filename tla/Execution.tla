----------------------------- MODULE Execution ------------------------------
(***************************************************************************)
(* Commands that run one pinned execution each and share a stage database: *)
(* run_pinned_deepseek_worker.py, worker_cli.py, executor.py and the stage *)
(* of durable_stage.py.  A command reads the pinned repository, lets a     *)
(* worker propose a change, tests it in one sandbox and replays it in      *)
(* another, asks the verifier, stages the artifact and then releases what  *)
(* it holds.  Every call may raise.  With a journal every call may also    *)
(* take effect and leave no terminal event (see RunJournal).  The source   *)
(* directory may change under a command, a command may be killed.          *)
(***************************************************************************)
EXTENDS Staging

CONSTANTS
    Commands,   \* running commands
    NoCommand,
    ModeOf,     \* [Commands -> sets of modes], the options of the command
    MaxChanges  \* how often a source directory changes, over all commands

\* The authorization card fixes origin and model.  The credential of the local
\* model is "not-applicable", so it works in the container only.
Cards == [origin : {"rest", "archive"}, model : {"deepseek", "local"}]

Modes == {m \in [journal : BOOLEAN, card : Cards, worker : {"container", "process"},
                 verifier : {"signed", "docker"}] :
              m.card.model = "local" => m.worker = "container"}

ASSUME ConstantsAssumption ==
    /\ NoCommand \notin Commands
    /\ ModeOf \in [Commands -> SUBSET Modes]
    /\ MaxChanges \in Nat

VARIABLES
    cmd,      \* [Commands -> the state of the process and of what it started]
    exists,   \* the file of the stage database exists
    stage,    \* rows of staged_artifacts
    writer,   \* who holds the stage's write lock
    replayed, \* history: <<changes, files>> whose tests passed in a replay
    passed,   \* history: inputs that some verifier answer called a pass
    changes   \* changes of source directories so far

vars == <<cmd, exists, stage, writer, replayed, passed, changes>>
shared == <<exists, stage, writer, replayed, passed, changes>>

----------------------------------------------------------------------------
(* State of a command                                                      *)

Boxes == {"prep", "replay"}
NoBox == [state |-> "none", snapshot |-> NoSnapshot, workspace |-> NoSnapshot]

\* none; copied: the directories exist; up: the container runs too; closed: the
\* directories are gone and docker rm was tried, its result is not looked at;
\* left: close() raised.
BoxStates == {"none", "copied", "up", "closed", "left"}
WorkerStates == {"none", "running", "gone", "unconfirmed"}

Held == Boxes \cup {"journal", "stage", "snapshot"}
NoDoc == [proposal |-> Invalid]

Idle(m) ==
    [step |-> "paths", mode |-> m, permit |-> "none", held |-> {}, open |-> FALSE,
     source |-> NoSnapshot, box |-> [b \in Boxes |-> NoBox], worker |-> "none",
     doc |-> NoDoc, result |-> "none"]

\* What follows a step that succeeds.
After == [paths |-> "confirm", confirm |-> "journal", journal |-> "readiness", readiness |-> "permit",
          preflight |-> "runtime", runtime |-> "authorize", authorize |-> "fetch",
          pin |-> "materialize", materialize |-> "request",
          request |-> "prep_snapshot",
          prep_snapshot |-> "prep_workspace", prep_workspace |-> "prep_run",
          prep_run |-> "bind",
          cleanup |-> "validate", validate |-> "apply", apply |-> "tests",
          tests |-> "bind_prepared", bind_prepared |-> "replay_snapshot",
          replay_snapshot |-> "replay_workspace", replay_workspace |-> "replay_run",
          replay_run |-> "check_replay", check_replay |-> "replay", replay |-> "close_replay",
          close_replay |-> "input", input |-> "verify", verify |-> "build", build |-> "save",
          insert |-> "load", load |-> "unwind"]

CopySnapshotStep == [prep |-> "prep_snapshot", replay |-> "replay_snapshot"]
CopyWorkspaceStep == [prep |-> "prep_workspace", replay |-> "replay_workspace"]
RunStep == [prep |-> "prep_run", replay |-> "replay_run"]

At(c, s) == cmd[c].step = s
Advanced(c) == [cmd[c] EXCEPT !.step = After[cmd[c].step]]
Becomes(c, r) == cmd' = [cmd EXCEPT ![c] = r]

\* A failure is remembered and never revoked; what was read is forgotten, and so is the
\* worker: what becomes of its container after a failure is not followed.
Aborted(r) ==
    [r EXCEPT !.step = "unwind", !.result = "failed", !.source = NoSnapshot, !.doc = NoDoc,
              !.permit = "none", !.worker = "none",
              !.box = [b \in Boxes |-> [NoBox EXCEPT !.state = r.box[b].state]]]

\* run_controlled_step and its relatives around a call that ends in r: it is
\* done, it raised (or the gate refused it), or it has no terminal event.
Call(c, r) ==
    \/ Becomes(c, r)
    \/ Becomes(c, Aborted(cmd[c]))
    \/ cmd[c].mode.journal /\ Becomes(c, [Aborted(r) EXCEPT !.open = TRUE])

Raises(c) == Becomes(c, Aborted(cmd[c]))

Init ==
    /\ cmd \in [Commands -> UNION {{Idle(m) : m \in ModeOf[c]} : c \in Commands}]
    /\ \A c \in Commands : cmd[c].mode \in ModeOf[c]
    /\ exists = FALSE
    /\ stage = {}
    /\ writer = NoCommand
    /\ replayed = {}
    /\ passed = {}
    /\ changes = 0

----------------------------------------------------------------------------
(* run_pinned_deepseek_worker.py, up to the runtime                        *)

\* _preflight_docker_images: the verifier's image only where it is run here.
Images == [docker : BOOLEAN, target : BOOLEAN, verifier : BOOLEAN]
ImagesReady(m, x) == x.docker /\ x.target /\ (m.verifier = "docker" => x.verifier)

\* The stage database must be new, the other databases too, Docker ready.
CheckPaths(c) ==
    /\ At(c, "paths")
    /\ \E x \in Images :
         \/ ~exists /\ ImagesReady(cmd[c].mode, x) /\ Becomes(c, Advanced(c))
         \/ Raises(c)
    /\ UNCHANGED shared

\* The phrase is typed and there is a place the credential will come from.
Confirm(c) ==
    /\ At(c, "confirm")
    /\ \E k \in Credentials, typed \in BOOLEAN :
         IF typed /\ (cmd[c].mode.card.model = "local" \/ k.manager)
         THEN Becomes(c, Advanced(c))
         ELSE Raises(c)
    /\ UNCHANGED shared

\* The journal and its artifact store are opened; both or none stay open.
OpenJournal(c) ==
    /\ At(c, "journal")
    /\ IF cmd[c].mode.journal
       THEN Becomes(c, [Advanced(c) EXCEPT !.held = {"journal"}]) \/ Raises(c)
       ELSE Becomes(c, Advanced(c))
    /\ UNCHANGED shared

\* A call, journaled by run_controlled_step, that changes nothing but the step.
ControlledStep(c, step) ==
    /\ At(c, step)
    /\ Call(c, Advanced(c))
    /\ UNCHANGED shared

\* GitHubReadiness.fetch: what is left of the rate limit.
Readiness(c) ==
    /\ At(c, "readiness")
    /\ \E x \in RateLimits :
         Call(c, [Advanced(c) EXCEPT !.permit = IF Ready(x) THEN "ready" ELSE "none"])
    /\ UNCHANGED shared

\* issue_remote_execution_permit
IssuePermit(c) ==
    /\ At(c, "permit")
    /\ IF cmd[c].permit = "ready"
       THEN Call(c, [cmd[c] EXCEPT !.permit = "fresh",
                       !.step = IF cmd[c].mode.card.model = "local" THEN "preflight" ELSE "runtime"])
       ELSE Raises(c)
    /\ UNCHANGED shared

\* The metadata of the local model is read, the model is not called.
Preflight(c) ==
    /\ At(c, "preflight")
    /\ \E x \in Metadata : IF ExpectedModel(x) THEN Call(c, Advanced(c)) ELSE Raises(c)
    /\ UNCHANGED shared

\* _validate_binding of the permit: the readiness observation gets too old.
PermitAges(c) ==
    /\ cmd[c].permit \in {"ready", "fresh"}
    /\ Becomes(c, [cmd[c] EXCEPT !.permit = "stale"])
    /\ UNCHANGED shared

\* run_remote_snapshot_with_runtime: the permit is looked at, the stage is
\* opened; an existing file is opened as it is.
OpenStage(c) ==
    /\ At(c, "runtime")
    /\ \/ /\ cmd[c].permit = "fresh"
          /\ Becomes(c, [Advanced(c) EXCEPT !.held = @ \cup {"stage"}])
          /\ exists' = TRUE
       \/ Raises(c) /\ exists' \in {exists, TRUE}
    /\ UNCHANGED <<stage, writer, replayed, passed, changes>>

\* RemoteExecutionPermit.consume burns the permit before it checks it.
Authorize(c) ==
    /\ At(c, "authorize")
    /\ LET spent == [cmd[c] EXCEPT !.permit = "spent"]
       IN  \/ cmd[c].permit = "fresh" /\ Call(c, [spent EXCEPT !.step = "fetch"])
           \/ cmd[c].permit = "stale" /\ Becomes(c, Aborted(spent))
    /\ UNCHANGED shared

----------------------------------------------------------------------------
(* The snapshot                                                            *)

\* read_github_snapshot_contents or read_github_archive_snapshot_contents
Fetch(c) ==
    /\ At(c, "fetch")
    /\ \E files \in Fetched(cmd[c].mode.card.origin) :
         IF files # NoSnapshot
         THEN Call(c, [cmd[c] EXCEPT !.step = "pin", !.source = files])
         ELSE Raises(c)
    /\ UNCHANGED shared

\* record_snapshot_pin_decision, and the end when it is not a match.
PinDecision(c) ==
    /\ At(c, "pin")
    /\ IF PinMatches(cmd[c].source) THEN Call(c, Advanced(c)) ELSE Raises(c)
    /\ UNCHANGED shared

\* materialize_github_snapshot
Materialize(c) ==
    /\ At(c, "materialize")
    /\ \E written \in Trees :
         IF Materialized(cmd[c].source, written)
         THEN Call(c, [Advanced(c) EXCEPT !.held = @ \cup {"snapshot"}, !.source = written])
         ELSE Raises(c)
    /\ UNCHANGED shared

\* The lease on the directory is open and the claim still holds.
LiveWorkspace(c) == "snapshot" \in cmd[c].held /\ Revalidated(Base)

\* run_remote_snapshot_execution and the start of run_local_execution
BuildRequest(c) ==
    /\ At(c, "request")
    /\ IF RequestHolds(Base) /\ LiveWorkspace(c) THEN Becomes(c, Advanced(c)) ELSE Raises(c)
    /\ UNCHANGED shared

\* Somebody rewrites the source directory of a command.
Tamper(c) ==
    /\ "snapshot" \in cmd[c].held
    /\ cmd[c].source # NoSnapshot
    /\ changes < MaxChanges
    /\ \E t \in Trees \ {cmd[c].source} : Becomes(c, [cmd[c] EXCEPT !.source = t])
    /\ changes' = changes + 1
    /\ UNCHANGED <<exists, stage, writer, replayed, passed>>

----------------------------------------------------------------------------
(* Sandboxes: DockerSandboxBackend.create, in three steps, and close       *)

CopySnapshot(c, b) ==
    /\ At(c, CopySnapshotStep[b])
    /\ \/ Becomes(c, [Advanced(c) EXCEPT !.box[b].state = "copied", !.box[b].snapshot = cmd[c].source])
       \/ Raises(c)
    /\ UNCHANGED shared

Uncreated(c, b, state) == Aborted([cmd[c] EXCEPT !.box[b].state = state])

\* create() raises: before that it removes the directories, as far as it can
\* (rmtree ignores errors), and the failure may stay without its terminal event.
\* What it leaves does not tell which of the two copies it failed in.
CreateFails(c, b) ==
    \E s \in {"none", "left"} :
        \/ Becomes(c, Uncreated(c, b, s))
        \/ cmd[c].mode.journal /\ Becomes(c, [Uncreated(c, b, s) EXCEPT !.open = TRUE])

CopyWorkspace(c, b) ==
    /\ At(c, CopyWorkspaceStep[b])
    /\ \/ Becomes(c, [Advanced(c) EXCEPT !.box[b].workspace = cmd[c].source])
       \/ CreateFails(c, b)
    /\ UNCHANGED shared

\* docker run; after its timeout the container may exist and nobody knows it.
\* A session whose creation could not be recorded is closed, and what close raises
\* is dropped.
RunContainer(c, b) ==
    /\ At(c, RunStep[b])
    /\ \/ Becomes(c, [Advanced(c) EXCEPT !.box[b].state = "up", !.held = @ \cup {b}])
       \/ CreateFails(c, b)
       \/ /\ cmd[c].mode.journal
          /\ Becomes(c, [Uncreated(c, b, "closed") EXCEPT !.open = TRUE])
    /\ UNCHANGED shared

\* The result of docker rm is not looked at; removing the directories may raise.
Closed(c, b, s) == [cmd[c] EXCEPT !.box[b].state = s, !.held = @ \ {b}]

\* Mutant: when the journal refuses, the sandbox is not closed.
CloseSandboxIfRecorded(c, b) ==
    /\ b \in cmd[c].held
    /\ At(c, "unwind") \/ (At(c, "close_replay") /\ b = "replay")
    /\ \/ Becomes(c, IF At(c, "unwind") THEN Closed(c, b, "closed")
                     ELSE [Closed(c, b, "closed") EXCEPT !.step = After[@]])
       \/ cmd[c].mode.journal /\ Becomes(c, Aborted(Closed(c, b, "up")))
    /\ UNCHANGED shared

\* close() of the replay's sandbox at the end of the replay and of both while a
\* failure or the result unwinds, the inner one first.  A refusing journal does
\* not keep the sandbox: it is closed all the same and the call raises.
CloseSandbox(c, b) ==
    /\ b \in cmd[c].held
    /\ \/ At(c, "close_replay") /\ b = "replay"
       \/ At(c, "unwind") /\ (b = "prep" => "replay" \notin cmd[c].held)
    /\ \E s \in {"closed", "left"} :
         \/ /\ s # "left"
            /\ Becomes(c, IF At(c, "unwind") THEN Closed(c, b, s)
                          ELSE [Closed(c, b, s) EXCEPT !.step = After[@]])
         \/ s = "left" /\ Becomes(c, Aborted(Closed(c, b, s)))
         \/ cmd[c].mode.journal /\ Becomes(c, Aborted(Closed(c, b, s)))
         \/ /\ cmd[c].mode.journal
            /\ Becomes(c, [Aborted(Closed(c, b, s)) EXCEPT !.open = TRUE])
    /\ UNCHANGED shared

\* validate_sandbox_snapshot_binding: the copy the patch will be made from, and
\* the source, are the claim's files.  The workspace is not looked at.
BindSnapshot(c) ==
    /\ At(c, "bind")
    /\ IF cmd[c].source = Base /\ cmd[c].box["prep"].snapshot = Base
       THEN Call(c, [cmd[c] EXCEPT
                       !.step = IF cmd[c].mode.worker = "container" THEN "start_worker"
                                ELSE "call_model"])
       ELSE Raises(c)
    /\ UNCHANGED shared

----------------------------------------------------------------------------
(* The worker                                                              *)

\* ContainerProposalWorker.propose.  Without a process nothing is cleaned up.
StartWorker(c) ==
    /\ At(c, "start_worker")
    /\ \/ Becomes(c, [cmd[c] EXCEPT !.step = "check_worker", !.worker = "running"])
       \/ Raises(c)
    /\ UNCHANGED shared

\* The startup frames, the request of the container and docker inspect.
CheckWorker(c) ==
    /\ At(c, "check_worker")
    /\ \E q \in Requests, i \in Inspections :
         Becomes(c, [cmd[c] EXCEPT !.step = IF RequestFrame(q) /\ ContainerAsserted(i)
                                            THEN "call_model" ELSE "cleanup"])
    /\ UNCHANGED shared

\* The one call of the model, and the proposal that comes of it.
CallModel(c) ==
    /\ At(c, "call_model")
    /\ LET next == IF cmd[c].mode.worker = "container" THEN "cleanup" ELSE "validate"
           answers == IF cmd[c].mode.worker = "container"
                      THEN IF \E r \in ChannelResults(cmd[c].mode.card.model) : Framed(r)
                           THEN ContainerProposals ELSE {Invalid}
                      ELSE HostProposals(cmd[c].mode.card.model)
       IN  \/ \E p \in answers, k \in Credentials :
                /\ cmd[c].mode.card.model = "deepseek" => CredentialHolds(k)
                /\ Becomes(c, [cmd[c] EXCEPT !.step = next, !.doc = [proposal |-> p]])
           \/ Becomes(c, [cmd[c] EXCEPT !.step = next])
           \/ /\ cmd[c].mode.journal
              /\ Becomes(c, [cmd[c] EXCEPT !.step = next, !.open = TRUE])
    /\ UNCHANGED shared

\* The finally of propose: a container that may still run replaces a good
\* proposal by an error.
CleanUpWorker(c) ==
    /\ At(c, "cleanup")
    /\ \/ Call(c, [Advanced(c) EXCEPT !.worker = "gone"])
       \/ Becomes(c, Aborted([cmd[c] EXCEPT !.worker = "unconfirmed"]))
    /\ UNCHANGED shared

\* The executor looks at the proposal: an outcome without changes ends the
\* execution, changes are validated.
ValidateProposal(c) ==
    /\ At(c, "validate")
    /\ LET p == cmd[c].doc.proposal
       IN  \/ p.kind \in DOMAIN Reasons /\ Becomes(c, [Aborted(cmd[c]) EXCEPT !.result = "declined"])
           \/ p.kind \notin DOMAIN Reasons /\ ~ValidProposal(p) /\ Raises(c)
           \/ ValidProposal(p) /\ Call(c, Advanced(c))
    /\ UNCHANGED shared

----------------------------------------------------------------------------
(* Preparation and replay                                                  *)

\* prepare_change up to the tests: the patch is made from the copied snapshot,
\* the files are written in the workspace.
ApplyProposal(c) ==
    /\ At(c, "apply")
    /\ LET files == cmd[c].box["prep"].snapshot
           x == cmd[c].doc.proposal.changes
       IN  IF Applicable(files, x)
           THEN Call(c, [Advanced(c) EXCEPT !.box["prep"].workspace = Rewritten(@, x),
                           !.doc = [proposal |-> cmd[c].doc.proposal,
                                    prepared |-> Prepared(cmd[c].mode.card, files, x)]])
           ELSE Raises(c)
    /\ UNCHANGED shared

\* The tests in the workspace; a nonzero code raises.
RunTests(c) == ControlledStep(c, "tests")

\* validate_prepared_change_binding: a remote snapshot has nothing more to bind.
BindPrepared(c) == ControlledStep(c, "bind_prepared")

\* Mutant: the workspace that the tests run in is not compared.
CheckReplaySnapshotOnly(c) ==
    /\ At(c, "check_replay")
    /\ IF cmd[c].source = Base /\ cmd[c].box["replay"].snapshot = Base
       THEN Becomes(c, Advanced(c))
       ELSE Raises(c)
    /\ UNCHANGED shared

\* _run_snapshot_verifier_replay: the source and both copies are the claim's.
CheckReplay(c) ==
    /\ At(c, "check_replay")
    /\ IF /\ LiveWorkspace(c)
          /\ TreeDigest(cmd[c].source) = TreeDigest(Base)
          /\ TreeDigest(cmd[c].box["replay"].snapshot) = TreeDigest(Base)
          /\ TreeDigest(cmd[c].box["replay"].workspace) = TreeDigest(Base)
       THEN Becomes(c, Advanced(c))
       ELSE Raises(c)
    /\ UNCHANGED shared

RunReplay(c) ==
    /\ At(c, "replay")
    /\ \/ /\ Becomes(c, Advanced(c))
          /\ replayed' = replayed \cup
               {<<cmd[c].doc.prepared.contents, cmd[c].box["replay"].workspace>>}
       \/ Call(c, Aborted(cmd[c])) /\ UNCHANGED replayed
    /\ UNCHANGED <<exists, stage, writer, passed, changes>>

----------------------------------------------------------------------------
(* The verifier                                                            *)

\* _build_verifier_input
BuildInput(c) ==
    /\ At(c, "input")
    /\ LET d == cmd[c].doc
       IN  IF InputHolds(d.prepared, d.proposal, cmd[c].source)
           THEN Becomes(c, [Advanced(c) EXCEPT !.source = NoSnapshot,
                              !.doc = [prepared |-> d.prepared,
                                       input |-> VerifierInput(d.prepared, cmd[c].source)]])
           ELSE Raises(c)
    /\ UNCHANGED shared

\* verify() and what the executor makes of its answer.
Verify(c) ==
    /\ At(c, "verify")
    /\ LET d == cmd[c].doc
       IN  \/ \E a \in VerifierAnswers(cmd[c].mode.verifier, d.input) :
                /\ passed' = IF a.verdict = "pass" THEN passed \cup ({a.input} \ {NoInput})
                             ELSE passed
                /\ IF Accepted(a, d.input)
                   THEN Call(c, [Advanced(c) EXCEPT !.doc = [prepared |-> d.prepared, answer |-> a]])
                   ELSE Raises(c)
           \/ Raises(c) /\ UNCHANGED passed
    /\ UNCHANGED <<exists, stage, writer, replayed, changes>>

----------------------------------------------------------------------------
(* The stage                                                               *)

\* build_staged_artifact and the validation of what it built.
BuildArtifact(c) ==
    /\ At(c, "build")
    /\ LET d == cmd[c].doc
           x == BuildStagedArtifact(Base, d.prepared, d.answer)
       IN  IF SeedHolds(Base, d.prepared, d.answer) /\ TrustEvidence(d.answer.receipt)
                /\ CanonicalArtifact(x)
           THEN Becomes(c, [Advanced(c) EXCEPT !.doc = [artifact |-> x]])
           ELSE Raises(c)
    /\ UNCHANGED shared

RowOf(c) == Row(cmd[c].doc.artifact)
Stored(c) == {r \in stage : r.key = RowOf(c).key}

\* save(): BEGIN IMMEDIATE and SELECT.  Another writer makes it raise.
SaveBegin(c) ==
    /\ At(c, "save")
    /\ \/ /\ writer = NoCommand
          /\ \/ /\ Stored(c) = {}
                /\ Becomes(c, [cmd[c] EXCEPT !.step = "insert"])
                /\ writer' = c
             \/ /\ Stored(c) = {RowOf(c)}
                /\ Call(c, [cmd[c] EXCEPT !.step = "load"])
                /\ UNCHANGED writer
       \/ Raises(c) /\ UNCHANGED writer
    /\ UNCHANGED <<exists, stage, replayed, passed, changes>>

\* Mutant: no rollback after an error.
SaveInsertNoRollback(c) ==
    /\ At(c, "insert")
    /\ \/ /\ Stored(c) = {}
          /\ stage' = stage \cup {RowOf(c)}
          /\ Becomes(c, Advanced(c))
          /\ writer' = NoCommand
       \/ Raises(c) /\ UNCHANGED <<stage, writer>>
    /\ UNCHANGED <<exists, replayed, passed, changes>>

\* INSERT and COMMIT; the primary key refuses a second row.
SaveInsert(c) ==
    /\ At(c, "insert")
    /\ writer' = NoCommand
    /\ \/ /\ Stored(c) = {}
          /\ stage' = stage \cup {RowOf(c)}
          /\ \/ Becomes(c, Advanced(c))
             \/ cmd[c].mode.journal /\ Becomes(c, [Aborted(cmd[c]) EXCEPT !.open = TRUE])
       \/ Raises(c) /\ UNCHANGED stage
    /\ UNCHANGED <<exists, replayed, passed, changes>>

\* Mutant: INSERT OR REPLACE instead of the comparison with the stored row.
SaveUpsert(c) ==
    /\ At(c, "save")
    /\ stage' = (stage \ Stored(c)) \cup {RowOf(c)}
    /\ Becomes(c, [cmd[c] EXCEPT !.step = "load"])
    /\ UNCHANGED <<exists, writer, replayed, passed, changes>>

Save(c) == SaveBegin(c) \/ SaveInsert(c)

\* load() and the comparison with what was saved: the result is verified.
Load(c) ==
    /\ At(c, "load")
    /\ IF Stored(c) = {RowOf(c)}
       THEN Call(c, [Advanced(c) EXCEPT !.result = "verified",
                       !.box = [b \in Boxes |-> [NoBox EXCEPT !.state = cmd[c].box[b].state]]])
       ELSE Raises(c)
    /\ UNCHANGED shared

----------------------------------------------------------------------------
(* Unwinding                                                               *)

Failed(r) == [r EXCEPT !.result = IF @ = "verified" THEN "failed" ELSE @, !.doc = NoDoc]

\* The materialized snapshot is closed after the sandboxes.
CloseSnapshot(c) ==
    /\ At(c, "unwind")
    /\ "snapshot" \in cmd[c].held
    /\ cmd[c].held \cap Boxes = {}
    /\ LET r == [cmd[c] EXCEPT !.held = @ \ {"snapshot"}] IN Becomes(c, r) \/ Becomes(c, Failed(r))
    /\ UNCHANGED shared

\* _remote_execution_evidence reads the stage's file too, and may raise.
Evidence(c) ==
    /\ At(c, "unwind")
    /\ cmd[c].held \subseteq {"stage", "journal"}
    /\ LET r == [cmd[c] EXCEPT !.step = "finish"]
       IN  \/ /\ r.result = "verified" => EvidenceHolds(r.doc.artifact.receipt)
             /\ Becomes(c, r)
          \/ Becomes(c, Failed(r))
    /\ UNCHANGED shared

\* Mutant: what finish_agent_invocation raises is dropped.
FinishIgnored(c) ==
    /\ At(c, "finish")
    /\ LET r == [cmd[c] EXCEPT !.step = "close"]
       IN  Becomes(c, r) \/ (cmd[c].mode.journal /\ Becomes(c, [r EXCEPT !.open = TRUE]))
    /\ UNCHANGED shared

\* finish_agent_invocation: it raises while a call has no terminal event, or
\* when its own cannot be written, and then the command has failed.
Finish(c) ==
    /\ At(c, "finish")
    /\ LET r == [cmd[c] EXCEPT !.step = "close"]
       IN  \/ ~(cmd[c].mode.journal /\ cmd[c].open) /\ Becomes(c, r)
           \/ cmd[c].mode.journal /\ Becomes(c, [Failed(r) EXCEPT !.open = TRUE])
    /\ UNCHANGED shared

\* The stage and then the journal are closed; either may raise.
CloseStore(c, s) ==
    /\ At(c, "close")
    /\ s \in cmd[c].held
    /\ s = "journal" => "stage" \notin cmd[c].held
    /\ LET r == [cmd[c] EXCEPT !.held = @ \ {s}] IN Becomes(c, r) \/ Becomes(c, Failed(r))
    /\ UNCHANGED shared

\* The process ends with code 0 exactly when the result is still verified.
Exit(c) ==
    /\ At(c, "close")
    /\ cmd[c].held = {}
    /\ Becomes(c, [cmd[c] EXCEPT !.step = "exited"])
    /\ UNCHANGED shared

\* The process is killed: its transaction is rolled back, all else stays.
Crash(c) ==
    /\ cmd[c].step \notin {"exited", "crashed"}
    /\ Becomes(c, [Aborted(cmd[c]) EXCEPT !.step = "crashed", !.held = {}, !.open = FALSE,
                     !.box = [b \in Boxes |-> NoBox]])
    /\ writer' = IF writer = c THEN NoCommand ELSE writer
    /\ UNCHANGED <<exists, stage, replayed, passed, changes>>

Next ==
    \E c \in Commands :
        \/ CheckPaths(c) \/ Confirm(c) \/ OpenJournal(c) \/ Readiness(c) \/ IssuePermit(c) \/ Preflight(c)
        \/ PermitAges(c) \/ OpenStage(c) \/ Authorize(c) \/ Fetch(c) \/ PinDecision(c) \/ Materialize(c) \/ BuildRequest(c)
        \/ Tamper(c)
        \/ \E b \in Boxes :
             CopySnapshot(c, b) \/ CopyWorkspace(c, b) \/ RunContainer(c, b) \/ CloseSandbox(c, b)
        \/ BindSnapshot(c) \/ StartWorker(c) \/ CheckWorker(c) \/ CallModel(c) \/ CleanUpWorker(c)
        \/ ValidateProposal(c) \/ ApplyProposal(c) \/ RunTests(c) \/ BindPrepared(c)
        \/ CheckReplay(c) \/ RunReplay(c)
        \/ BuildInput(c) \/ Verify(c) \/ BuildArtifact(c) \/ Save(c) \/ Load(c)
        \/ CloseSnapshot(c) \/ Evidence(c) \/ Finish(c)
        \/ \E s \in {"stage", "journal"} : CloseStore(c, s)
        \/ Exit(c) \/ Crash(c)

Spec == Init /\ [][Next]_vars
----------------------------------------------------------------------------
(* Properties                                                              *)

\* Every command is where the code can be, holds the sandboxes that run for it
\* while it is at work, and the lock of the stage is held only to insert.
TypeOK ==
    /\ \A c \in Commands :
         /\ cmd[c].step \in DOMAIN After \cup {"permit", "fetch", "start_worker", "check_worker",
                "call_model", "bind", "save", "unwind", "finish", "close", "exited", "crashed"}
         /\ cmd[c].mode \in ModeOf[c]
         /\ cmd[c].permit \in {"none", "ready", "fresh", "stale", "spent"}
         /\ cmd[c].held \subseteq Held
         /\ cmd[c].open \in BOOLEAN
         /\ cmd[c].source \in Trees \cup {NoSnapshot}
         /\ \A b \in Boxes : cmd[c].box[b].state \in BoxStates
         /\ \A b \in cmd[c].held \cap Boxes : cmd[c].box[b].state = "up"
         /\ cmd[c].worker \in WorkerStates
         /\ cmd[c].result \in {"none", "verified", "failed", "declined"}
    /\ writer \in Commands \cup {NoCommand}
    /\ writer # NoCommand => cmd[writer].step = "insert"
    /\ stage # {} => exists
    /\ changes \in 0..MaxChanges

\* A staged row is about the pinned files, whatever happened to the directories
\* on the way: its patch is the one from the pinned files to its contents, its
\* contents passed the tests on exactly the pinned files, and a verifier called
\* exactly that change of exactly those files a pass, with a trusted host when
\* it signed.  (executor.py 472-540, 1449-1555 and durable_stage.py 224-426)
StagedIsVerified ==
    \A r \in stage :
        /\ r.key.patch = RenderPatch(Base, r.artifact.contents)
        /\ <<r.artifact.contents, Base>> \in replayed
        /\ [contents |-> r.artifact.contents, staged |-> r.key, files |-> Base] \in passed
        /\ r.artifact.receipt.signed => HostTrusted(r.artifact.receipt)
        /\ ~CredentialShaped(r.artifact.contents)

\* A staged row is never replaced or removed and never has a rival, although the
\* stage that was found missing may be another command's when it is opened.
\* (save, durable_stage.py 917-956)
StageNeverReplaced ==
    [][/\ stage \subseteq stage'
       /\ \A r, s \in stage' : r.key = s.key => r = s]_stage

\* Exit code 0 is the truth: the artifact is staged, the permit was spent, every
\* journaled call has its terminal event, the worker's container is known to be
\* gone and no directory was left behind.  An error while closing turns a
\* verified result into a failure.  (executor.py 1177, worker_cli.py 1583)
VerifiedExitIsTrue ==
    \A c \in Commands :
        At(c, "exited") /\ cmd[c].result = "verified" =>
            /\ RowOf(c) \in stage
            /\ cmd[c].permit = "spent"
            /\ ~cmd[c].open
            /\ cmd[c].worker \in {"none", "gone"}
            /\ \A b \in Boxes : cmd[c].box[b].state = "closed"

\* A command that ends by itself has called close on every sandbox it started,
\* also when the journal refuses to record it: "Never strand a sandbox because
\* the journal failed".  (observer_runtime.py 1958-2089)
SandboxesAreClosed ==
    \A c \in Commands :
        At(c, "exited") => \A b \in Boxes : cmd[c].box[b].state \notin {"copied", "up"}
=============================================================================
