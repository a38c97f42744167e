# TLA+ verification of Agent 00X

Agent 00X (Agent Process Platform) takes a change request for a repository from a
contract to a pull request: a worker proposes a change, a sandbox and a verifier
check it, a stage keeps the verified bytes, a human approves exactly those bytes, a
policy, a gateway and a broker issue a single-use grant, and a publisher writes the
files and the pull request through a GitHub App.  An experiment runner (R5) spends a
frozen list of model attempts, each at most once.  Every part is a single process that
may die at any step; what survives is in SQLite files, and the same file may be opened
by several processes.  The models here are about that: what the durable records say,
and what a command may conclude, when processes interleave, die, lose the answers to
what they asked for, and read files that others replace.

Paths below are relative to the repository; `AC` stands for `src/app_contracts`.

## 1. Inventory

| Component | State | Operations | Used by / uses | Hard part | What makes it correct |
|---|---|---|---|---|---|
| Publication journal (`AC/publication.py`) | table `publication_attempts`: status, key, digest, receipt, evidence | `prepare`, `mark_attempting`, `mark_completed`, `mark_reconciliation_required`, `mark_completed_from_reconciliation`, `record_verified_file_reconciliation`; `execute_publication`, `recover_publication` | the publisher and the reconciler, from different processes | two holders of one row; crash between effect and record | one effect per row; recorded before it happens; completed only if it did |
| Controlled publication (`AC/controlled_publication.py`) | one run: gates passed, failure handler | `run_controlled_local_publication`, `reconcile_controlled_attempt_after_restart` | journal, gates, channel | the handler acts on a row that may be someone else's live attempt | failure handling never publishes and never loses a pull request |
| GitHub App channel (`AC/github_app.py`) | token, used grants, `_file_reconciliation_required` (memory) | `publish_verified_files`, `publish_pull_request`, `find_by_idempotency_key`, `reconcile_verified_files` | GitHub over HTTP | lost and late answers to each of several writes | the pull request is asked for on a complete manifest only |
| Signed GitHub command lines (`AC/signed_github_publication.py`, `..._reconciliation.py`) | clock read once, files and row read before the operator types | publish, reconcile | the three above, approvals | files and row move while the operator types | what is published is what was approved; the reconciler only reads |
| Process store and workflow (`AC/runtime_store.py`, `AC/state_machine.py`) | `processes` (state, version), `process_events`, audit events | `create`, `get`, `advance`, `append_audit_event` | orchestration code | check in one transaction, write in another; edges back in the graph | the log is one chain; what is applied was verified after it last executed |
| R5 attempt ledger (`AC/r5_attempt_ledger.py`) | metadata, attempts, append-only events, in one file | `create`, `open_existing`, `claim`, `complete`, `mark_unknown`, `extend_allowed_attempt_ids` | the batch runner | creation is several autocommitted statements | an attempt is spent before it is tried and never twice |
| R5 batch runner and command line (`scripts/run_r5_preregistered_batch.py`, `scripts/run_r5_batch_cli.py`, `AC/r5_execution.py`) | selection, report, open stores, alarm | create/resume stores, gate, run batch, close/remove | ledger, stage, executor | alarm inside a handler; two command lines; removal of a file another one uses | order, truthful report, termination |
| Observation store and gated dispatch (`AC/observation_store.py`, `AC/observer_runtime.py`) | events with cursors, checkpoints, artifacts; run objects with single-use flags | `start`/`resume_existing`, `append`, `record_checkpoint_and_intent(_once)`, `run_gated_dispatch`, `finish_agent_invocation`, `finish_run` | executor, publishing commands | cursor allocation; histories judged before they are written to; an answer that is lost | no call without its durable intent; no second call after an uncertain one |
| Observer exports (`AC/observer_report.py`, `AC/observer_copy.py`, `AC/observer_artifact_store.py`, `AC/simulation_branch.py`) | none of their own | report, copy, replay | read a finished journal | - | pure readers |
| Authority, gateway and brokers (`AC/authority.py`, `AC/gateway.py`, `AC/broker.py`, `AC/publication_seed.py`) | decisions and grants, in memory | decide, enforce, issue, consume | publishing commands | the time they are asked about is an argument | an effect is bound to one intent, approver and window |
| Local chain and mock endpoint (`AC/chain.py`, `AC/actuator.py`, `AC/mock_github.py`, `AC/signed_mock_publication.py`) | idempotency dictionary | mock publication | journal, gates | - | as the GitHub command |
| Durable stage (`AC/durable_stage.py`, `AC/wal_stage_snapshot.py`, `AC/stage_copy.py`) | rows by digest, the WAL sidecars, copies | save, load, read-only open, two copy commands | executor, approvals | concurrent saves; copies taken without a lock while a writer commits and checkpoints | a digest names one artifact, for good; a copy is one committed state |
| Stage preview (`AC/stage_preview.py`) | none | render | approvals | - | pure function |
| Approvals (`AC/signed_approval.py`, `AC/approval_*.py`, `AC/stage_approval.py`) | request, approval, profile and enrollment files; confirmation records | prepare, review, sign, verify, confirm | publishing commands | unauthenticated files replaced between two reads; prompts that take time | approved bytes are the published bytes |
| Keys and signatures | key files and pinned key sets | load, sign, verify | all signed documents | - | pure functions of bytes |
| Executor and sandbox (`AC/executor.py`, `AC/sandbox.py`, `AC/repository_process.py`, `AC/remote_snapshot_*.py`) | one run: held resources, workspaces | `run_local_execution`, the remote executions | worker, verifier, stage, observer | one call of many failing; clean-up that fails; a directory that changes | a stage is saved only after replayed verification of exactly the pinned files |
| Verifier (`AC/verifier_*.py`, `AC/signed_verifier_*.py`, `scripts/serve_ephemeral_*`) | a one-request service, trust records, a client call | serve, enroll, decide, verify | executor, publisher | lost, late and foreign answers; trust that lapses during a call | an accepted answer is the enrolled service's own, for this request, and recent |
| Verifier deployment | none | argument checks, image checks | operators | - | I/O only |
| Workers and model channels (`AC/worker_*.py`, `AC/*_worker.py`, `AC/*_channel.py`) | a container, frames, one permit | one proposal per run | executor | a container that does not die; an answer that is any text | only a scoped, whole proposal goes on |
| Snapshots (`AC/github_snapshot.py`, `AC/github_archive_snapshot.py`, `AC/pinned_snapshot.py`, `AC/github_git_commit_source.py`) | none that lasts | read a pinned commit | executor | the provider may answer anything | what is read is the pinned tree |
| Commit signatures, contracts and helpers | none | documents and digests | all | - | pure functions |
| Experiment scripts (`scripts/`) | files and Docker objects | one-off command lines | all | - | straight-line I/O |

`PROJECT.json` lists each component with its source files, and 37 hazards at the lines
where they bite.

How the parts interact: by calls inside one process, by rows of shared SQLite files and
by document files between processes, and by HTTP with GitHub, a model and a verifier.
There are no threads that share memory in the modelled parts except the resolver thread
of the verifier client; the concurrency is between operating-system processes, between
a process and its SIGALRM handler, between a process and people who replace its files,
and between a process and requests it gave up on.

## 2. Modules

| Module | What it is |
|---|---|
| `DurableEffect` | abstract: declare, make the effect at most once, confirm only if made |
| `Publication` | journal + publisher + failure handler + reconciler + GitHub channel; implements `DurableEffect` |
| `PublicationProofs` | its inductive invariant and theorems |
| `Workflow` | abstract: each process moves along the workflow graph in atomic steps |
| `ProcessStore` | the graph, its evidence requirements and the two-transaction store; implements `Workflow` |
| `ProcessStoreProofs` | its inductive invariant and theorems |
| `OneShot` | abstract: an attempt is spent, then called at most once, then decided |
| `BatchLedger` | ledger + batch runner + command line; implements `OneShot` |
| `BatchLedgerProofs` | its inductive invariant and theorems |
| `RunJournal` | observation store + gated dispatch + the runs kept in it |
| `RunJournalProofs` | its two inductive invariants and theorems |
| `Snapshot` -> `Proposal` -> `Staging` -> `Execution` | how the pinned files are read; what becomes of a model's answer; what an execution puts together; the executions as processes that share a stage (each extends the one before) |
| `ExecutionProofs` | its inductive invariant and theorems |
| `VerifierTrust` -> `VerifierExchange` | the documents and checks of the signed verifier; services, trust and calls as processes |
| `VerifierExchangeProofs` | its inductive invariant and theorems |
| `StageCopy`, `Authority` -> `Approvals` | a stage database and its copies; the documents and checks of an approval; people, files and publishing commands |
| `ApprovalsProofs` | the inductive invariants of the copies and of the approvals, and theorems |
| `MC...` | instances for TLC |

`Snapshot`, `Proposal`, `Staging`, `VerifierTrust` and `Authority` have no variables: they
translate the pure checks of the code into operators, and a digest of a record is the
record, a signature is the key that made it.  The modules that extend them own the state.

Each module carries, next to the operation it changes, operators marked "Mutant": the
same operation with a plausible bug (a dropped guard, a missing reset, a swapped order).
For every property some mutant makes TLC report a violation; `PROJECT.json` pairs them.

### Publication

State: `journal` is the durable table, one record per row (a process id in a journal
file).  `run` is the local state of each worker process, lost in a crash.  `branch` and
`created` are GitHub's; `wireRefs`, `wirePuts` and `wirePosts` are requests whose answer
the sender never saw: GitHub applies them later (`Deliver...`) or never (`LoseRequest`).

Actions are one journal statement or one HTTP call each:

* publisher: `StartPublication`, `Prepare`, `Insert` (`PublicationJournal.prepare`),
  `Execute`, `MarkAttempting` (`execute_publication`), `ReadBaseFiles`, `ReadRef`,
  `CreateRef`, `CompareFile`, `PutFile` (`publish_verified_files`), `ListPullRequests`,
  `PostPullRequest` (`publish_pull_request`), `MarkCompleted`, `HandleFailure`,
  `ReadReceipt` (the except clause of `publish_after_broker`);
* both: `Recover`, `RecoverLookup`, `RecoverComplete`, `RecoverFlag`
  (`recover_publication`), `Settle`, `SettleFlag` (what both callers do if it raised),
  `VerifyRef`, `VerifyFile` (`reconcile_verified_files`);
* reconciler: `StartReconciliation`, `RecheckRow`, `OpenReadOnlyChannel`, `Lookup`,
  `MarkCompletedFromReconciliation`, `RecordVerifiedFileReconciliation`;
* environment: `Tick`, `Crash`, `JournalFault` (a statement raises), deliveries, losses.

Abstractions.  A commit is its tree, a tree says of each path whether it has the base
blob, the verified one or another.  A pull request is identified by the row and intent
it was made for; the idempotency marker in its body is what look-ups match.  The gates
before the journal are the guard `clock < ApprovalExpiry`; they are modelled in
`Approvals`.  The request digest covers the decision's times, which all derive from the
clock read at the start, so `digest = now`.  `find_by_idempotency_key` answers None both
when there is nothing and when the read failed, so that answer is always possible.
GitHub is external and is as permissive as the channel's checks allow: an answer that
lacks a field counts as not seen.  The signed command line insists on a new journal
file, while `run_controlled_local_publication` takes an existing one; both are covered
(`many_rows`, `shared_row`).

### ProcessStore

`rows` and `events` are the tables, `call` what each client is inside.  `advance` is two
actions, `AdvanceReads` (read, compare the caller's version, `transition`) and
`AdvanceWrites` (`UPDATE ... WHERE version = ?` and the event, in one transaction), with
anything in between; `Reread` is the `get` that `create` and `advance` end with; `Abort`
is a client that dies or rolls back.  `Normal` and `Required` are the graph and the
evidence requirements of `state_machine.py`; evidence is the set of flags that are true.

### BatchLedger

`path` is the ledger the path leads to, `ledger` the files ever created (an unlinked
file lives on in the connections that have it open, and SQLite refuses writes to it),
`run` the command lines, `stale` a stage sidecar left by a crash, `calls` how often an
attempt was handed to its worker.  `CreateFile`, `CreateSchema` and `InsertAttempt` are
the autocommitted pieces of `create`; `OpenExisting` is `open_existing` with the checks
of resume; `Decline` and `Unlink` close the stores and remove what was created;
`Activate` and `Recheck` are the extension of the schedule and the second look at the
ledger; `StartBatch` to `Complete` are the batch loop; `Interrupt` is the alarm, which
may go off at any of its points, and `MarkUnknown` the handler.  The outcomes
needs_input, blocked and denied act as "verified"; "complete" stands also for
"complete-with-failures".  The stage is present through its sidecar only.

### RunJournal

`events` is `observation_events` (with the checkpoints: every intent is stored with its
own), `artifacts` the pending-action artifacts, which go to another database first,
`client` the commands with their run object (its single-use flags, its sequence number,
the stack of calls that are running), `called` what was dispatched.

* `OpenNew`, `ResumeExisting` judge the history and then write, in two steps;
* `ReadCursor`, `Insert` are the two statements of `append`: a writer in between makes
  the insert fail, and what the command makes of that depends on what it was writing
  (`NotStored`): a call whose terminal was not stored stays without one;
* `Gate`, `RecordCheckpointAndIntent`, `RecordCheckpointAndIntentOnce`, `Dispatch`,
  `Return` are `run_gated_dispatch`.  The kinds of work that the code wraps in it (a
  proposal, a model call, a step, a sandbox run, a mock publication, a dispatch) differ
  in four facts, the record `Op(l)`: whether a flag allows one, whether the intent's id
  is fixed by the run, the terminal status of a call that raised, and which other work
  may be journalled while it runs;
* `FinishAgentInvocation`, `FinishRun`; `Crash`, `StoreFault`.

### Snapshot, Proposal, Staging, Execution

`Snapshot`: an answer of the provider is a record of everything its calls returned, over
all combinations; `ReadSnapshotContents` and `ReadArchive` are the readers' checks in
their order, and a read ends in files or in `NoSnapshot`.  `Proposal`: the completions a
channel may hand over, `ParseModelResult`, and the second path through the worker
container's frames, which accepts less.  `Staging`: prepared change, verifier input,
what is accepted of an answer, publication seed, and the artifact with the bindings
that `_validate_canonical_artifact` compares.

`Execution` has the processes.  `cmd[c]` is one command: the step it is at, the permit,
what it holds (`held`), the source directory, the two sandboxes with their copies, the
worker, the document under construction and its result; `stage` and `writer` are the
shared database and its write lock; `replayed` and `passed` are histories.  A call that
is journalled has three ends (`Call`): it is done, it raised, or it took effect and its
terminal event is missing.  Every failure goes to `unwind`, where `CloseSandbox`,
`CloseSnapshot`, `Evidence`, `Finish`, `CloseStore` and `Exit` are the `finally` clauses
in their order, each of which may itself raise.  `Tamper` changes a source directory,
`PermitAges` makes the readiness observation too old, `Crash` kills the process.

Abstractions.  Contents are model strings, digests are injective.  The database stores
timestamps inside the evidence, so two executions rarely have one key; the model leaves
the times out, which makes equal keys the rule: the worst case for the stage.  The
archive source is used by `r5_execution.py`; the card script reads over REST.  A
container that outlives its killed `docker` client is the worker state `unconfirmed`
and the sandbox state `left`; so are directories that could not be removed.  What becomes
of a worker's container after the command has failed is not followed.  What runs inside a sandbox is one outcome.

### VerifierTrust, VerifierExchange

`service[s]` is a process that makes a key, prints its bootstrap and answers one request;
`captured`, `enrollments` and `decisions` are the documents, `client[c]` a client object
and its call, `resolver` the one resolver slot, `posted` and `answers` what is on the
way and can be read again and again, by anyone.  Actions: `StartSession`, `Receive`,
`RunVerifier`, `Leave` (service), `Enroll`, `Decide`, `Revoke` (authority), `Load`,
`Call`, `Resolve`, `Fail`, `Accept` (client), `Reprove` (a publication checks the stored
provenance again), `Tick`.

Abstractions.  Connecting and posting are one step, together with the resolver's return;
the check of the answer and the second check of trust are one step.  `issued_at` is
taken before the tests run, as in the code, so an answer may be old when it is made.
Whatever `docker` commands around the container do is among the stray outcomes.  The
transport to a literal address behaves as the one to a name without its resolver and is
not in the instance.

### StageCopy, Authority, Approvals

`StageCopy`: `main` and `wal` are the database file and its log, `history` every set of
rows that was committed, `copier[c]` a copy command as a program of reads (`Snapshot` and
`CopyEvidence` are the steps of the two programs in their order), between any two of
which the writer may save, checkpoint half or all, close or die.  A file is noted,
copied and checked by its digest.

`Authority`: building and rebuilding the approval request, profile, enrollment, policy
(`Decide`), decision, gateway and grant.

`Approvals`: `request` is the request file, which is not authenticated and is replaced in
place (`Prepare`, `Edit`); `signer`, `signed` and `reviewed` are the approver (`Review`,
`Sign`, `Decline`); `command[k]` a publishing command: `Begin` reads the clock, once;
`LoadApproval` and `Reload` verify whatever the files say at that time;
`OpenAndPublish` passes the approval, policy, gateway and broker gates and opens the
channel; `End` is any refusal, error or crash.  The typed-digest mock is `ConfirmTyped`,
`RunTyped`, `CompleteMock`.  Anybody may sign with another key (`Forged`); the approver's
own key is used by `sign_approval_request` only.

What the code binds and what it does not, as it came out of the model: provenance is
verified as of the request's `approved_at`; the phrase the GitHub operator types names
the stage digest, so files that changed to another approved branch of the same stage are
taken; the mock takes the profile it is given, which need not name the approver's key;
the typed path needs no provenance; a used grant is remembered by no file, so that a
second command does not publish again is up to the journal (`Publication!Implements`).
`PublishedWasApproved` is stated accordingly.

## 3. Runs

| Run | Instance | Shows |
|---|---|---|
| `shared_row` | 2 workers in both roles, 1 row, 2 files, any initial branch, 2 clock values, 1 fault | all safety properties of `Publication` but the next, and that it implements `DurableEffect` |
| `many_rows` | 2 rows of one journal, 1 of another, all asked for the same intent by 2 publishers, any initial branch, 1 fault | at most one effect per row, and per intent within a journal |
| `resolution` | a publisher and an operator who reconciles, 1 fault | an open attempt is resolved; an existing pull request is recorded |
| `process_store` | 2 clients, 1 process, 11 versions, complete evidence or without a passed verification | the log is a gapless chain that ends at the row; `advance` looks atomic; nothing applied that was not verified since it last executed |
| `batch` | 2 command lines, 2 attempts, first batch of 1, 2 input digests, fair | called once and in order; evidence never taken back; half-created ledgers never used; truthful report; implements `OneShot`; every command line ends or waits at its prompt |
| `run_journal` | 2 commands, 2 runs, 2 invocations, 1 outermost operation each, 1 fault | no call without intent and artifact; one mock publication per run, one Worker call per task; uncertainty is final |
| `execution` | 2 commands, one of them in two modes (journal, container, signed verifier; archive, local model), one plain; 2 directory changes | only replayed, verified, pinned bytes are staged; rows are never replaced; exit code 0 is the truth; sandboxes are closed |
| `verifier` | 2 services, one on a host whose clock is ahead and one a child; 2 clients; 3 clock values; 1 record of each kind | accepted answers are genuine and timely; trust is current when used; every call ends |
| `approvals` | 4 stages, 2 of them in approvals, one copier with either program, one command, 2 profiles, 2 enrollments, 2 signatures, 3 clock values | copies are committed states; what is published was shown, confirmed and in time; confirmation records are true |
| `retry_prepared`, `verified_commit`, `evidence_kept` | small | the first, second and last disagreement of section 5 |

Why the bounds are enough to be interesting. Two workers suffice for every race here,
since each is between two holders of one row, file or slot; the theorems of section 6
remove the bounds for every safety property. Two files separate "some written" from "all
written"; two clock values separate a run from a later one; one fault gives a crash at
every point, and lost answers are not counted as faults, so they combine with it.
`many_rows` has one fault, so a publisher may die with its post under way and start
again, but no reconciler: that question is about two publishers and the constraints of
the tables, the rest is in `shared_row` and the theorem `EffectOnce`.

A second execution that is staged, approved and applied ends at version 9. Eleven
versions take a process through executing, verifying, staging and waiting for approval,
back to executing, and all the way again to `applying`, so a verification that was good
for the first round is there to be stale in the second. To pay for them only one client
moves on beyond version 6 (`RaceEarly`): a race is between two calls, and the graph has
been through its branch by then. A caller leaves a passed verification out of its
evidence only when it leaves `verifying` (`WithheldAtVerifying`), the one state where
the code asks for it to stage. The theorems need none of these bounds.

Two attempts with a first batch of one make an extension of the schedule and an overlap
possible; `OneBuilder` lets only one of the two interchangeable command lines come with
changed input. `MaxWork`, `MaxInvocations` let one command start a run, die or lose an
answer, and another resume it. Two directory changes can change a file and change it
back.

Three clock values, lives of 2 and 3 and a skew of 1 make every window open, current and
over, with a host that is ahead. A client makes one call (`Callers` is 1: two exceed
five minutes), so the answers it must refuse in the run are those of the other client
and of strangers; its own earlier ones are a matter of the theorem.

In `approvals` there are stages enough that the log is written into the database file,
starts over and grows again under one copy.  `CopiesFirst` explores approvals only from
states where copying is over and at most two stages were saved: requests and commands ask
of the database only whether a stage can be read, copies only add to that, and copying
never looks at requests, so what a command can do in the middle of a copy it can do after
it.
`Intact` lets a request file be altered in one
place: every check compares the whole request with a rebuilt one, so a second alteration
has no check of its own.

`MaxClock`, `MaxTime`, `MaxFaults`, `MaxVersion`, `MaxAudits`, `MaxLedgers`, `MaxWork`,
`MaxInvocations`, `MaxChanges`, `MaxSigned`, `MaxRecords`, `Callers` are the caps.
Deadlock is checked for `Publication` and `ProcessStore`.  Elsewhere the system stops
when its work is done: all attempts are spent or a half-created ledger blocks the path;
the commands have exited; the clock is at its bound and all calls are over; a run that
is uncertain is not touched again.  Workers, clients and runs are symmetric in some
safety runs; the runs that check liveness use no symmetry.

## 4. Fairness

`Publication!FairSpec`: a worker that is running takes its next step (weak fairness; the
interpreter goes on, HTTP calls have timeouts).  An operator who only reconciles starts
a reconciliation as long as an attempt is open (weak).  Three steps get strong fairness
in their successful form: that the row did not change between load and re-check, that
the token is minted, and that the look-up finds what is there.  Each can fail any number
of times (two reconcilers can disturb one another for ever, GitHub may refuse a token,
None hides a failed read); the assumption is that it does not fail every time.
Deliveries are not assumed: a lost post may stay lost.

`BatchLedger!FairSpec`: weak fairness of each command line's own steps, except at its
prompt.  The loop is deterministic code, and a worker that hangs is ended by the SIGALRM
timer (`Interrupt`).  Nothing is assumed of the operator: the `input()` of
`scripts/run_r5_batch_cli.py:289` has no time limit, the timer starts after it, so a
command line at its prompt may stay there (`Prompt`), and `BatchEnds` says that one which
is not at its prompt ends or comes to it.  `RecoverStage` is an operator's action and is
not assumed.

`VerifierExchange!Spec`: weak fairness of `Fail` only, which is the client's deadline: it
runs on the client's own clock while it waits.  Nothing is assumed of the network, of
services, of the resolver, or of an answer that would be accepted.

## 5. Where code and documentation disagree

* `retry_prepared`: the comment at `AC/publication.py:442` says a prepared row may be
  retried by the caller; the digest built at `AC/controlled_publication.py:1138` covers
  the decision's times, so a later retry is refused as a payload conflict.
* `verified_commit`: `AC/github_app.py:504` says a commit is returned only if every path
  in it matches; the reference is read once and the files from the moving branch
  (line 539), so a write that lands in between gives a commit without the manifest.  The
  weaker statement, that the *branch* carries the manifest, holds and is proved.
* the clock of the GitHub command: `AC/broker.py:123` says the grant's lifetime is
  always enforced, so that no channel opens for an expired grant;
  `AC/signed_github_publication.py:423` reads the clock before the preview and the
  prompt, and every later check, the broker's included, is made for that moment. The
  signer (`AC/approval_signer.py:125`) reads the clock again after its own prompt.
  `Approvals!ChannelOpensInTime` states the claim; put in the place of the properties of
  `approvals.cfg` it is refuted in 13 states: the operator answers the prompt after the
  approval has run out. No run keeps the counterexample. What holds, and is checked, is
  that the command *began* before the expiry.
* `evidence_kept`: the ledger is described as append-only and preserved; a declined
  command line closes its stores and then unlinks the ledger it created
  (`scripts/run_r5_batch_cli.py:140`), into which another one may have claimed meanwhile.

## 6. Proofs

All theorems are checked by TLAPS, for every value of the constants that satisfies the
assumptions their modules name; TLC evaluates each assumption on a run.  They ask for
little: absent values are absent, roles are workers, bounds are numbers.  Some say more:

* `ApprovalsAssumption`: an enrollment that an authority signed for the approver names
  the approver's own key.  The code cannot check it: the header of
  `AC/approver_trust_enrollment.py` says that the authority's signature "does not
  independently prove the person's identity" and that the authority must be governed
  out of band.  `PublishedWasApproved` speaks of the approver, so it rests on this.
* `ExchangeAssumption`: how far a host's clock is ahead of the client's is a constant of
  the host (`Ahead`, any integer).  `AcceptedIsGenuine` names it in its bound.
* `ConstantsAssumption` of `Execution` and `FilesAssumption` of `Snapshot`: a file is a
  path, a mode and a content.
* `BatchAssumption`: a selection is not empty and names no attempt twice, as
  `select_r5_attempts` checks (`scripts/r5_batch_selection.py`, lines 81-91).

The table says which theorem states which property.

| Module | Inductive invariant | Theorems |
|---|---|---|
| `PublicationProofs` | `IInv` | types, `AtMostOneEffect`, `WriteAhead`, `ManifestBeforePullRequest`, `CompletedHasPullRequest`, `VerifiedManifestIsOnBranch`, `JournalOnlyMovesForward`, `ReconcilerNeverWrites`, implements `DurableEffect` |
| `ProcessStoreProofs` | `SInv` | types, `HistoryIsChain`, `AppliedWasVerified`, `ExecutedWasAllowed`, `StoreOnlyMovesForward`, implements `Workflow` |
| `BatchLedgerProofs` | `BInv` | types, `CalledOnce`, `ClaimedLedgerIsValid`, `OrderIsKept`, `ReportIsTrue`, `EvidenceOnlyGrows`, implements `OneShot` |
| `RunJournalProofs` | `JInv`, then `HInv` | types, `EffectsAreJournaled`, `CalledAtMostOnce`, `UncertaintyIsFinal` |
| `ExecutionProofs` | `EInv` | types, `StagedIsVerified`, `VerifiedExitIsTrue`, `SandboxesAreClosed`, `StageNeverReplaced` |
| `VerifierExchangeProofs` | `VInv` | `AcceptedIsGenuine`, `TrustedIsCurrent` |
| `ApprovalsProofs` | `CInv` and `AInv` | `CopyIsFaithful`, `PublishedWasApproved`, `ConfirmationIsTrue` |

`PublicationProofs`: `Invariance` (`Spec => []IInv`), and from it `TypeCorrect`,
`EffectOnce`, `JournalledFirst`, `ManifestFirst`, `CompletedIsTrue`, `EvidenceIsTrue`,
`JournalForward`, `ReconcilerReads` and `Refinement`.  The properties are not inductive:
that no second post happens depends on who may still post.  `IInv` adds

* `EntitledOK`: between winning `mark_attempting` and posting, a publisher is the only
  such worker for its row, and nothing was posted for the row.  The compare-and-set
  establishes it, failure handling gives the entitlement up for good;
* `FilesOK`: what a worker that compares, writes or verifies files knows of the branch.
  It survives other writers because a file only ever goes from base to verified;
* `FoundOK`: a receipt at hand is of an existing pull request of the intent;
* `Bound`, `RoleOK`, `KeysOK`, `EffectsOK`, `WireOK`, `EvidenceOK`: which row and intent
  a worker is at, unique keys, and what is under way.

The layout: frame lemmas (`OthersInv`, `RunStep`, `JournalStep`, `ProviderStep`) say
what a worker that does not move keeps when the journal or the provider moves forward;
one lemma per action or group of like actions; `NextInv` combines them.  The action
property and the refinement rest on `StepShape`, which says what a step can do to
journal and pull requests.

`ProcessStoreProofs`: `StoreInvariance` (`Spec => []SInv`), `StoreTypeCorrect`,
`LogIsChain`, `AppliedVerified`, `ExecutedAllowed`, `StoreForward`, `StoreRefinement`.
`SInv` adds to the types: a call that is about to write holds a transition that was
checked for the version it names (so it is right whenever the version still matches),
the chain, and what the current state implies about the log (a process in a state that
can reach `applying` without executing again has a verified `staged` event after its
last `executing` one).  `Edges` enumerates the graph once for all later steps.

`ExecutionProofs`: `RestReadIsPinned`, a theorem about the reader of `Snapshot`, and
`ExecutionInvariance` (`Spec => []EInv`), from which follow `ExecutionTypeOK`,
`StagedRowsAreVerified`, `ExitCodesAreTrue`, `EndedCommandsLeaveNothing` and
`StagedRowsAreKept`.  They hold for any number of commands in any modes, any pinned
files, any documents and any number of changes of the source directories.  That a row is
verified cannot be seen from the rows: it depends on how the command that saves one got
there.  `EInv` adds, for every command,

* `BoxesOK`: a sandbox is up exactly while it is held, copied-but-not-run only at the
  steps that copy it; the snapshot copied for the preparation is the pinned one while the
  model works and the patch is made, the copy the tests replay in when they run;
* `DocOK`: what the document at hand says of itself at each step: the patch is rendered
  from the pinned files, the prepared contents were replayed on them, the verifier
  passed exactly this input, the artifact carries all three (`ArtifactOK`);
* `WorkerOK`, `ResultOK`: the worker's container is gone by the time its answer is
  validated, and a result is "verified" only while the row of the artifact is staged,
  the permit spent and every sandbox closed or still held;
* `UniqueKeys`, and that only the command at `insert` has the write lock.

A digest of a directory is taken to determine it, so comparing digests pins the copy.
The layout: one lemma per way a command's record may change (`AdvanceOK`, `FetchOK`,
..., `FailedOK`), each a proof that `CommandOK` survives; the lemmas `...Inv` that lift
them to the actions through `BecomesInv`, which says that the other commands are not
touched; `NextInv` combines them.

`BatchLedgerProofs`: that an attempt is called once is a fact about two command lines
that share a file, one of which may still be making it.  `BInv` says of each what it
knows of the file it has open (`FileOK`: it makes it alone, or the file is valid), how
far its batch is (`BatchOK`: what it passed by is completed on its input), what it owns
(`ClaimOK`) and what it reported (`ReportOK`); of two, that nobody else has a file that
is being made and that they own different attempts (`Apart`); and that files are
numbered as they were made, so a new one is no old one (`NumberingOK`).  `StepShape`
sums up what a step does to attempts; `EvidenceOnlyGrows` and the refinement of
`OneShot` rest on it.

`RunJournalProofs`: `JInv` has the table (`EventsOK`: it always has an event with the
greatest cursor, so `MAX + 1` is a number and new), each command (`StepOK`, `ClientOK`)
and each call on its stack (`CallOK`: its intent is stored, it was made once its dispatch
is over, it is older than the terminal at hand).  `HInv` builds on it: two commands with
one run are counted as a crowd (`SoleOK`), so what a lone command judged before a write
still holds at the write (`SettledOK`); and without any crowd one command at a time is
at work, on one run, with the Worker's flag read back from the history (`AttemptOK`).
`Kind` sums the actions up for that second part.

`VerifierExchangeProofs`: `VInv` follows a nonce.  It was used only by a call that was
made (`Told`), so no run for the current call is older than the call (`RanOK`); every
signed answer tells of a run that is at most as old as its date says, corrected by the
host's clock (`AnswersOK`), and every accepted envelope is one of them; what a client
loaded belongs together and held when its call began (`TrustOK`).  That a service signs what the tests said, and no stray output of
`docker`, is `SignedIsRun`.

`ApprovalsProofs`: `CInv` is about the copies.  The database file never is again what it
was before a checkpoint (`Before`), so a file that still has the noted digest has not
moved in between, and what was noted was committed.  One lemma per step of the copy
programs.  `AInv` is about the approvals: a request that was shown is one stage with
its intent and provenance (`ReviewedOK`), what a command verified at the moment it
began stays true of it (`VerifiedOK`), a confirmation is completed after its own
command's mock ran (`ConfirmationsOK`).

Every inductive invariant was checked by TLC on the instance of its run before it was
proved.

Only model-checked: the liveness properties (`AttemptIsResolved`, `PublishedIsRecorded`,
`BatchEnds`, `CallEnds`), since liveness under fairness is out of the prover's reach, and
the four refuted statements of section 5.  No module uses a RECURSIVE operator, so
each can be proved about.

## 7. Not modelled, and the plan

Left out for good: HTTP framing, JSON validation, digests and signatures as byte
computations, Docker and Buildx scripts, key files, previews, exports and commit
signatures: sequential code without state of its own, or pure functions.  Tampering with
the database files is outside the models, tampering with document files is inside.  A
container left behind when the `docker` client that started it is killed has no variable:
nothing in the code looks for it again.  The parts that are modelled in modules of their
own are not composed: `Publication` starts where `Approvals` ends, `BatchLedger` calls
what `Execution` does, `Execution` takes an answer that `VerifierExchange` explains, and
`RunJournal` is what its journalled calls do; the interface is in each case one call and
its outcomes, and each side takes every outcome the other can produce.

To come, in this order:

1. Theorems about the abstract specifications themselves, and about the operators of
   `Snapshot`, `Proposal` and `Authority` beyond what the invariants needed.
2. Composition of `Approvals` with `Publication` in place of the guard of
   `StartPublication`, and of `Execution` with the batch loop.
3. The other modes of `worker_cli.py`.
