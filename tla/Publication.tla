---------------------------- MODULE Publication ----------------------------
(***************************************************************************)
(* The publication path of src/app_contracts: the SQLite publication       *)
(* journal (publication.py), the publisher that writes the verified files  *)
(* and the pull request and handles its own failures                       *)
(* (controlled_publication.py, signed_github_publication.py), the          *)
(* read-only reconciler an operator starts after an uncertain attempt      *)
(* (controlled_publication.py, signed_github_reconciliation.py), and the   *)
(* GitHub App channel both use (github_app.py).  GitHub itself is external *)
(* and is modelled by what the channel relies on.                          *)
(*                                                                         *)
(* Several workers (operating-system processes) share the journal; each    *)
(* runs one publication or one reconciliation at a time, a step per        *)
(* journal transaction or HTTP call, and may crash between any two.        *)
(***************************************************************************)
EXTENDS Naturals, FiniteSets

CONSTANTS
    Workers,          \* processes that open the journal
    Publishers,       \* the workers that run publications
    Reconcilers,      \* the workers that run reconciliations
    Rows,             \* the process ids that can have a journal row
    Journals,         \* journal files
    JournalOf,        \* [Rows -> Journals], the file that holds a row
    Intents,          \* publication intents; one idempotency key and one branch each
    Intended,         \* [Rows -> SUBSET Intents], the intents callers present for a row
    Files,            \* the paths of the verified manifest
    InitialBranches,  \* what earlier runs may have left on a branch
    ApprovalExpiry,   \* the approval, decision and grant are usable while clock < this
    MaxClock,         \* bound on the clock
    MaxFaults,        \* bound on crashes and journal I/O errors
    NoIntent, NoPullRequest, NoCommit, NoBranch, NoRow   \* the absent values

ASSUME ConstantsAssumption ==
    /\ Publishers \subseteq Workers
    /\ Reconcilers \subseteq Workers
    /\ JournalOf \in [Rows -> Journals]
    /\ Intended \in [Rows -> SUBSET Intents]
    /\ InitialBranches \subseteq [Files -> {"base", "new", "foreign"}] \cup {NoBranch}
    /\ ApprovalExpiry \in Nat
    /\ MaxClock \in Nat
    /\ MaxFaults \in Nat
    /\ Files # {}
    /\ NoIntent \notin Intents
    /\ NoPullRequest \notin Rows \X Intents
    /\ NoCommit \notin [Files -> {"base", "new", "foreign"}]
    /\ NoBranch \notin [Files -> {"base", "new", "foreign"}]
    /\ NoRow \notin Rows

VARIABLES
    clock,      \* the wall clock the callers read once per run
    faults,     \* crashes and journal errors so far
    journal,    \* [Rows -> Record], the durable table publication_attempts
    run,        \* [Workers -> Run], what each worker is doing, lost in a crash
    branch,     \* provider: [Intents -> Trees \cup {NoBranch}]
    created,    \* provider: [Rows \X Intents -> Nat], pull requests made for a row
    wireRefs,   \* branch creations sent whose answer the sender never saw
    wirePuts,   \* file writes, likewise
    wirePosts   \* pull-request creations, likewise

provider == <<branch, created>>
wire == <<wireRefs, wirePuts, wirePosts>>
vars == <<clock, faults, journal, run, branch, created, wireRefs, wirePuts, wirePosts>>

----------------------------------------------------------------------------
(* Data                                                                     *)

Content == {"base", "new", "foreign"}   \* blob at the base commit, verified, neither
Trees == [Files -> Content]             \* a commit is its tree
BaseTree == [f \in Files |-> "base"]
PullRequests == Rows \X Intents         \* a pull request is the row and intent it is for

Status == {"absent", "prepared", "attempting", "reconciliation_required", "completed"}

Record == [status : Status,
           intent : Intents \cup {NoIntent},           \* idempotency_key, base_branch
           digest : Nat,                               \* request_digest
           receipt : PullRequests \cup {NoPullRequest},
           outcome : {"none", "verified", "unverified"},
           commit : Trees \cup {NoCommit}]             \* verified_branch_commit_sha

NoRecord == [status |-> "absent", intent |-> NoIntent, digest |-> 0,
             receipt |-> NoPullRequest, outcome |-> "none", commit |-> NoCommit]

PublisherSteps == {"prepare", "insert", "execute", "mark", "base", "ref", "create_ref",
                   "compare", "put", "list", "post", "complete", "handler", "receipt"}
ReconcilerSteps == {"recheck", "open", "lookup", "reconcile_complete", "evidence"}
SharedSteps == {"recover", "recover_lookup", "recover_complete", "recover_flag",
                "settle", "settle_flag", "verify_ref", "verify"}

Run == [pc : {"idle"} \cup PublisherSteps \cup ReconcilerSteps \cup SharedSteps,
        role : {"none", "publisher", "reconciler"},
        row : Rows \cup {NoRow},
        intent : Intents \cup {NoIntent},
        now : Nat,                                     \* the clock at the start
        snapshot : Record,                             \* the row as first loaded
        unseen : SUBSET Files,                         \* files still to be read
        todo : SUBSET Files,                           \* files still to be written
        commit : Trees \cup {NoCommit},
        found : PullRequests \cup {NoPullRequest}]

IdleRun == [pc |-> "idle", role |-> "none", row |-> NoRow, intent |-> NoIntent, now |-> 0,
            snapshot |-> NoRecord, unseen |-> {}, todo |-> {}, commit |-> NoCommit,
            found |-> NoPullRequest]

Init ==
    /\ clock = 0
    /\ faults = 0
    /\ journal = [r \in Rows |-> NoRecord]
    /\ run = [w \in Workers |-> IdleRun]
    /\ branch \in [Intents -> InitialBranches]
    /\ created = [x \in PullRequests |-> 0]
    /\ wireRefs = {}
    /\ wirePuts = {}
    /\ wirePosts = [x \in PullRequests |-> 0]

----------------------------------------------------------------------------
(* Helpers                                                                  *)

Row(w) == journal[run[w].row]
Attempt(w) == <<run[w].row, run[w].intent>>
At(w, pc) == run[w].pc = pc
Goto(w, pc) == run' = [run EXCEPT ![w].pc = pc]
Finish(w) == run' = [run EXCEPT ![w] = IdleRun]

\* Mutant: the update does not check the status it replaces.
SetStatusUnchecked(w, expected, new) ==
    journal' = [journal EXCEPT ![run[w].row].status = new]

\* UPDATE publication_attempts SET status = new ... WHERE status = expected.
SetStatus(w, expected, new) ==
    /\ Row(w).status = expected
    /\ journal' = [journal EXCEPT ![run[w].row].status = new]

SetCompleted(w, expected) ==
    /\ Row(w).status = expected
    /\ journal' = [journal EXCEPT ![run[w].row].status = "completed",
                                  ![run[w].row].receipt = run[w].found]

\* The pull requests that carry the idempotency marker of intent i.
Marked(i) == {x \in PullRequests : x[2] = i /\ created[x] > 0}

ReadsBranch(i) == branch[i] # NoBranch

\* A look-up by idempotency key that returns a matching receipt.  The other answer,
\* None, is always possible: find_by_idempotency_key returns it when nothing
\* matches and also when the read fails.
LookupFinds(w, pc) ==
    \E x \in Marked(run[w].intent) :
        run' = [run EXCEPT ![w].found = x, ![w].pc = pc]


----------------------------------------------------------------------------
(* The publisher: run_controlled_local_publication                          *)

\* The approval, policy, gateway and broker gates pass for the clock value read
\* at the start; the run keeps that value.
StartPublication(w, r, i) ==
    /\ w \in Publishers
    /\ At(w, "idle")
    /\ i \in Intended[r]
    /\ clock < ApprovalExpiry
    /\ run' = [run EXCEPT ![w] = [IdleRun EXCEPT !.pc = "prepare", !.role = "publisher",
                                                 !.row = r, !.intent = i, !.now = clock]]
    /\ UNCHANGED <<clock, faults, journal, provider, wire>>

\* Mutant: prepare compares the digest only.
SameRequestDigestOnly(w) == Row(w).digest = run[w].now

\* PublicationJournal.prepare looks for the row first.  The request digest covers
\* the decision's evaluation time, hence digest = now.
SameRequest(w) == Row(w).intent = run[w].intent /\ Row(w).digest = run[w].now

Prepare(w) ==
    /\ At(w, "prepare")
    /\ \/ Row(w).status = "absent" /\ Goto(w, "insert")
       \/ Row(w).status # "absent" /\ SameRequest(w) /\ Goto(w, "execute")
       \/ Row(w).status # "absent" /\ ~SameRequest(w) /\ Finish(w)
    /\ UNCHANGED <<clock, faults, journal, provider, wire>>

\* Mutant: no UNIQUE constraint on the idempotency key.
InsertableDuplicateKey(r, i) == journal[r].status = "absent"

\* PRIMARY KEY(process_id), UNIQUE(idempotency_key), within one journal file.
Insertable(r, i) ==
    /\ journal[r].status = "absent"
    /\ \A s \in Rows : JournalOf[s] = JournalOf[r] => journal[s].intent # i

Insert(w) ==
    /\ At(w, "insert")
    /\ \/ /\ Insertable(run[w].row, run[w].intent)
          /\ journal' = [journal EXCEPT ![run[w].row] =
                            [NoRecord EXCEPT !.status = "prepared",
                                             !.intent = run[w].intent,
                                             !.digest = run[w].now]]
          /\ Goto(w, "execute")
       \/ /\ ~Insertable(run[w].row, run[w].intent)
          /\ Finish(w)
          /\ UNCHANGED journal
    /\ UNCHANGED <<clock, faults, provider, wire>>

\* execute_publication
Execute(w) ==
    /\ At(w, "execute")
    /\ IF Row(w).status = "prepared" THEN Goto(w, "mark") ELSE Goto(w, "handler")
    /\ UNCHANGED <<clock, faults, journal, provider, wire>>

\* Mutant: the effects start before the attempt is journalled.
MarkAttemptingLate(w) ==
    /\ At(w, "mark")
    /\ Goto(w, "base")
    /\ UNCHANGED <<clock, faults, journal, provider, wire>>

MarkAttempting(w) ==
    /\ At(w, "mark")
    /\ \/ SetStatus(w, "prepared", "attempting") /\ Goto(w, "base")
       \/ Row(w).status # "prepared" /\ Goto(w, "handler") /\ UNCHANGED journal
    /\ UNCHANGED <<clock, faults, provider, wire>>

\* GitHubAppPublicationChannel.publish_verified_files.  Whatever it raises, the
\* publisher checks the manifest with GETs once (verify_ref) before giving up.
ReadBaseFiles(w) ==
    /\ At(w, "base")
    /\ Goto(w, "ref") \/ Goto(w, "verify_ref")
    /\ UNCHANGED <<clock, faults, journal, provider, wire>>

ReadRef(w) ==
    /\ At(w, "ref")
    /\ \/ ~ReadsBranch(run[w].intent) /\ Goto(w, "create_ref")
       \/ /\ ReadsBranch(run[w].intent)
          /\ run' = [run EXCEPT ![w].pc = "compare", ![w].unseen = Files]
       \/ Goto(w, "verify_ref")
    /\ UNCHANGED <<clock, faults, journal, provider, wire>>

CreateRef(w) ==
    /\ At(w, "create_ref")
    /\ \/ /\ ~ReadsBranch(run[w].intent)
          /\ branch' = [branch EXCEPT ![run[w].intent] = BaseTree]
          /\ run' = [run EXCEPT ![w].pc = "put", ![w].todo = Files]
          /\ UNCHANGED wireRefs
       \/ /\ wireRefs' = wireRefs \cup {run[w].intent}
          /\ Goto(w, "verify_ref")
          /\ UNCHANGED branch
    /\ UNCHANGED <<clock, faults, journal, created, wirePuts, wirePosts>>

\* Mutant: a conflicting file of an existing branch is left as it is.
ComparedKeepsConflict(w, f) ==
    LET unseen == run[w].unseen \ {f}
    IN  run' = [run EXCEPT ![w].unseen = unseen,
                           ![w].pc = IF unseen # {} THEN "compare" ELSE "list"]

\* A file of an existing branch is kept if verified, replaced if it is the base
\* blob, and a conflict otherwise.
Compared(w, f) ==
    LET keep == branch[run[w].intent][f] = "new"
        todo == IF keep THEN run[w].todo ELSE run[w].todo \cup {f}
        unseen == run[w].unseen \ {f}
    IN  /\ branch[run[w].intent][f] # "foreign"
        /\ run' = [run EXCEPT ![w].unseen = unseen, ![w].todo = todo,
                              ![w].pc = IF unseen # {} THEN "compare"
                                        ELSE IF todo # {} THEN "put" ELSE "list"]

CompareFile(w, f) ==
    /\ At(w, "compare")
    /\ f \in run[w].unseen
    /\ Compared(w, f) \/ Goto(w, "verify_ref")
    /\ UNCHANGED <<clock, faults, journal, provider, wire>>

\* The Contents API replaces a blob only if it is the one the request names,
\* here always the base blob.
PutApplies(i, f) == ReadsBranch(i) /\ branch[i][f] = "base"
PutFile(w, f) ==
    /\ At(w, "put")
    /\ f \in run[w].todo
    /\ \/ /\ PutApplies(run[w].intent, f)
          /\ branch' = [branch EXCEPT ![run[w].intent][f] = "new"]
          /\ run' = [run EXCEPT ![w].todo = @ \ {f},
                                ![w].pc = IF run[w].todo = {f} THEN "list" ELSE "put"]
          /\ UNCHANGED wirePuts
       \/ /\ wirePuts' = wirePuts \cup {<<run[w].intent, f>>}
          /\ Goto(w, "verify_ref")
          /\ UNCHANGED branch
    /\ UNCHANGED <<clock, faults, journal, created, wireRefs, wirePosts>>

\* publish_pull_request lists before it posts, and returns the pull request that
\* is already there.
ListPullRequests(w) ==
    /\ At(w, "list")
    /\ \/ LookupFinds(w, "complete")
       \/ Marked(run[w].intent) = {} /\ Goto(w, "post")
       \/ Goto(w, "handler")
    /\ UNCHANGED <<clock, faults, journal, provider, wire>>

\* Mutant: a post without an answer is taken for a success.
PostPullRequestAssumed(w) ==
    /\ At(w, "post")
    /\ run' = [run EXCEPT ![w].pc = "complete", ![w].found = Attempt(w)]
    /\ \/ created' = [created EXCEPT ![Attempt(w)] = @ + 1] /\ UNCHANGED wirePosts
       \/ wirePosts' = [wirePosts EXCEPT ![Attempt(w)] = @ + 1] /\ UNCHANGED created
    /\ UNCHANGED <<clock, faults, journal, branch, wireRefs, wirePuts>>

PostPullRequest(w) ==
    /\ At(w, "post")
    /\ \/ /\ created' = [created EXCEPT ![Attempt(w)] = @ + 1]
          /\ run' = [run EXCEPT ![w].pc = "complete", ![w].found = Attempt(w)]
          /\ UNCHANGED wirePosts
       \/ /\ wirePosts' = [wirePosts EXCEPT ![Attempt(w)] = @ + 1]
          /\ Goto(w, "handler")
          /\ UNCHANGED created
    /\ UNCHANGED <<clock, faults, journal, branch, wireRefs, wirePuts>>

MarkCompleted(w) ==
    /\ At(w, "complete")
    /\ \/ SetCompleted(w, "attempting") /\ Finish(w)
       \/ Row(w).status # "attempting" /\ Goto(w, "handler") /\ UNCHANGED journal
    /\ UNCHANGED <<clock, faults, provider, wire>>

\* Mutant: a failed publication is tried again from the look-up.
HandleFailureRetries(w) ==
    /\ At(w, "handler")
    /\ IF Row(w).status = "attempting" THEN Goto(w, "list") ELSE Finish(w)
    /\ UNCHANGED <<clock, faults, journal, provider, wire>>

\* The except clause of publish_after_broker.
HandleFailure(w) ==
    /\ At(w, "handler")
    /\ IF Row(w).status = "attempting" THEN Goto(w, "recover") ELSE Finish(w)
    /\ UNCHANGED <<clock, faults, journal, provider, wire>>

\* The publisher reads its receipt once more after recover_publication completed.
ReadReceipt(w) ==
    /\ At(w, "receipt")
    /\ \/ Marked(run[w].intent) # {} /\ Finish(w)
       \/ Goto(w, "settle")
    /\ UNCHANGED <<clock, faults, journal, provider, wire>>

----------------------------------------------------------------------------
(* recover_publication, and what its two callers do with its result         *)

\* Mutant: an open attempt is left alone.
RecoverIgnoresOpenAttempt(w) ==
    /\ At(w, "recover")
    /\ Finish(w)
    /\ UNCHANGED <<clock, faults, journal, provider, wire>>

\* A failure inside recover_publication is absorbed by both callers, which then
\* make sure the row does not stay in "attempting" (settle).
Recover(w) ==
    /\ At(w, "recover")
    /\ CASE Row(w).status = "attempting" -> Goto(w, "recover_lookup")
         [] Row(w).status = "completed" /\ run[w].role = "publisher" -> Goto(w, "receipt")
         [] Row(w).status \in {"prepared", "completed"} /\ run[w].role = "reconciler" -> Finish(w)
         [] OTHER -> Goto(w, "settle")
    /\ UNCHANGED <<clock, faults, journal, provider, wire>>

RecoverLookup(w) ==
    /\ At(w, "recover_lookup")
    /\ LookupFinds(w, "recover_complete") \/ Goto(w, "recover_flag")
    /\ UNCHANGED <<clock, faults, journal, provider, wire>>

RecoverComplete(w) ==
    /\ At(w, "recover_complete")
    /\ \/ /\ SetCompleted(w, "attempting")
          /\ IF run[w].role = "publisher" THEN Goto(w, "receipt") ELSE Finish(w)
       \/ Row(w).status # "attempting" /\ Goto(w, "settle") /\ UNCHANGED journal
    /\ UNCHANGED <<clock, faults, provider, wire>>

\* Mutant: the row gets a status the table does not know.
RecoverFlagUnknownStatus(w) ==
    /\ At(w, "recover_flag")
    /\ \/ SetStatus(w, "attempting", "failed")
       \/ Row(w).status # "attempting" /\ UNCHANGED journal
    /\ Goto(w, "settle")
    /\ UNCHANGED <<clock, faults, provider, wire>>

\* Flagged or not, recover_publication raises.
RecoverFlag(w) ==
    /\ At(w, "recover_flag")
    /\ \/ SetStatus(w, "attempting", "reconciliation_required")
       \/ Row(w).status # "attempting" /\ UNCHANGED journal
    /\ Goto(w, "settle")
    /\ UNCHANGED <<clock, faults, provider, wire>>

Settle(w) ==
    /\ At(w, "settle")
    /\ CASE Row(w).status = "attempting" -> Goto(w, "settle_flag")
         [] Row(w).status = "reconciliation_required" /\ run[w].role = "reconciler"
                -> Goto(w, "verify_ref")
         [] OTHER -> Finish(w)
    /\ UNCHANGED <<clock, faults, journal, provider, wire>>

SettleFlag(w) ==
    /\ At(w, "settle_flag")
    /\ \/ /\ SetStatus(w, "attempting", "reconciliation_required")
          /\ IF run[w].role = "publisher" THEN Finish(w) ELSE Goto(w, "verify_ref")
       \/ Row(w).status # "attempting" /\ Finish(w) /\ UNCHANGED journal
    /\ UNCHANGED <<clock, faults, provider, wire>>

----------------------------------------------------------------------------
(* reconcile_verified_files: the branch commit, then one GET per file       *)

\* Mutant: the commit that was read stays although a file did not match.
NotVerifiedKeepsCommit(w) ==
    run' = [run EXCEPT ![w].pc = IF run[w].role = "publisher" THEN "handler" ELSE "evidence",
                       ![w].unseen = {}, ![w].todo = {}]

\* Mutant: the publisher goes on without the manifest.
NotVerifiedGoesOn(w) ==
    run' = [run EXCEPT ![w].pc = IF run[w].role = "publisher" THEN "list" ELSE "evidence",
                       ![w].commit = NoCommit, ![w].unseen = {}, ![w].todo = {}]

\* A publisher that cannot confirm the manifest fails; a reconciler records it.
NotVerified(w) ==
    run' = [run EXCEPT ![w].pc = IF run[w].role = "publisher" THEN "handler" ELSE "evidence",
                       ![w].commit = NoCommit, ![w].unseen = {}, ![w].todo = {}]

VerifyRef(w) ==
    /\ At(w, "verify_ref")
    /\ \/ /\ ReadsBranch(run[w].intent)
          /\ run' = [run EXCEPT ![w].pc = "verify", ![w].unseen = Files, ![w].todo = {},
                                ![w].commit = branch[run[w].intent]]
       \/ NotVerified(w)
    /\ UNCHANGED <<clock, faults, journal, provider, wire>>

VerifyFile(w, f) ==
    /\ At(w, "verify")
    /\ f \in run[w].unseen
    /\ \/ /\ branch[run[w].intent][f] = "new"
          /\ run' = [run EXCEPT ![w].unseen = @ \ {f},
                                ![w].pc = IF run[w].unseen # {f} THEN "verify"
                                          ELSE IF run[w].role = "publisher" THEN "list"
                                          ELSE "evidence"]
       \/ NotVerified(w)
    /\ UNCHANGED <<clock, faults, journal, provider, wire>>

----------------------------------------------------------------------------
(* The reconciler: reconcile_signed_stage_github                            *)

\* A row that is absent, prepared or completed needs no reconciliation.
StartReconciliation(w, r) ==
    /\ w \in Reconcilers
    /\ At(w, "idle")
    /\ journal[r].status \in {"attempting", "reconciliation_required"}
    /\ run' = [run EXCEPT ![w] = [IdleRun EXCEPT !.pc = "recheck", !.role = "reconciler",
                                                 !.row = r, !.intent = journal[r].intent,
                                                 !.snapshot = journal[r]]]
    /\ UNCHANGED <<clock, faults, journal, provider, wire>>

RecheckRow(w) ==
    /\ At(w, "recheck")
    /\ IF Row(w) = run[w].snapshot THEN Goto(w, "open") ELSE Finish(w)
    /\ UNCHANGED <<clock, faults, journal, provider, wire>>

\* Minting the read-only token may fail; then the row is read again.
OpenReadOnlyChannel(w) ==
    /\ At(w, "open")
    /\ \/ Finish(w)
       \/ Row(w).status = "attempting" /\ Goto(w, "recover")
       \/ Row(w).status = "reconciliation_required" /\ Goto(w, "lookup")
    /\ UNCHANGED <<clock, faults, journal, provider, wire>>

\* Mutant: without a receipt the reconciler publishes.
LookupPublishes(w) ==
    /\ At(w, "lookup")
    /\ LookupFinds(w, "reconcile_complete") \/ Goto(w, "list")
    /\ UNCHANGED <<clock, faults, journal, provider, wire>>

\* Mutant: a flagged row is never looked up again.
LookupSkipped(w) ==
    /\ At(w, "lookup")
    /\ Goto(w, "verify_ref")
    /\ UNCHANGED <<clock, faults, journal, provider, wire>>

Lookup(w) ==
    /\ At(w, "lookup")
    /\ LookupFinds(w, "reconcile_complete") \/ Goto(w, "verify_ref")
    /\ UNCHANGED <<clock, faults, journal, provider, wire>>

MarkCompletedFromReconciliation(w) ==
    /\ At(w, "reconcile_complete")
    /\ \/ SetCompleted(w, "reconciliation_required") /\ Finish(w)
       \/ /\ Row(w).status # "reconciliation_required"
          /\ Goto(w, "verify_ref")
          /\ UNCHANGED journal
    /\ UNCHANGED <<clock, faults, provider, wire>>

\* Mutant: the evidence is stored whatever the status.
RecordEvidenceUnchecked(w) ==
    /\ At(w, "evidence")
    /\ journal' = [journal EXCEPT
            ![run[w].row].outcome = IF run[w].commit = NoCommit THEN "unverified"
                                                                ELSE "verified",
            ![run[w].row].commit = run[w].commit]
    /\ Finish(w)
    /\ UNCHANGED <<clock, faults, provider, wire>>

RecordVerifiedFileReconciliation(w) ==
    /\ At(w, "evidence")
    /\ \/ /\ Row(w).status = "reconciliation_required"
          /\ journal' = [journal EXCEPT
                ![run[w].row].outcome = IF run[w].commit = NoCommit THEN "unverified"
                                                                    ELSE "verified",
                ![run[w].row].commit = run[w].commit]
       \/ Row(w).status # "reconciliation_required" /\ UNCHANGED journal
    /\ Finish(w)
    /\ UNCHANGED <<clock, faults, provider, wire>>

----------------------------------------------------------------------------
(* The environment                                                          *)

Tick ==
    /\ clock < MaxClock
    /\ clock' = clock + 1
    /\ UNCHANGED <<faults, journal, run, provider, wire>>

\* The process dies: the channel, its token and all local state are gone.
Crash(w) ==
    /\ ~At(w, "idle")
    /\ faults < MaxFaults
    /\ faults' = faults + 1
    /\ Finish(w)
    /\ UNCHANGED <<clock, journal, provider, wire>>

\* A journal statement raises (locked database, I/O error) and changes nothing.
FaultTarget == [insert |-> "idle", mark |-> "handler", complete |-> "handler",
                recover_complete |-> "settle", recover_flag |-> "settle",
                settle_flag |-> "idle", reconcile_complete |-> "verify_ref",
                evidence |-> "idle"]

JournalFault(w) ==
    /\ run[w].pc \in DOMAIN FaultTarget
    /\ faults < MaxFaults
    /\ faults' = faults + 1
    /\ IF FaultTarget[run[w].pc] = "idle" THEN Finish(w) ELSE Goto(w, FaultTarget[run[w].pc])
    /\ UNCHANGED <<clock, journal, provider, wire>>

\* A request whose answer the sender never saw takes effect late, or never.
DeliverRef(i) ==
    /\ i \in wireRefs
    /\ wireRefs' = wireRefs \ {i}
    /\ branch' = [branch EXCEPT ![i] = IF @ = NoBranch THEN BaseTree ELSE @]
    /\ UNCHANGED <<clock, faults, journal, run, created, wirePuts, wirePosts>>

DeliverPut(i, f) ==
    /\ <<i, f>> \in wirePuts
    /\ wirePuts' = wirePuts \ {<<i, f>>}
    /\ branch' = IF PutApplies(i, f) THEN [branch EXCEPT ![i][f] = "new"] ELSE branch
    /\ UNCHANGED <<clock, faults, journal, run, created, wireRefs, wirePosts>>

DeliverPost(x) ==
    /\ wirePosts[x] > 0
    /\ wirePosts' = [wirePosts EXCEPT ![x] = @ - 1]
    /\ created' = [created EXCEPT ![x] = @ + 1]
    /\ UNCHANGED <<clock, faults, journal, run, branch, wireRefs, wirePuts>>

LoseRequest ==
    /\ \/ \E i \in wireRefs : wireRefs' = wireRefs \ {i} /\ UNCHANGED <<wirePuts, wirePosts>>
       \/ \E y \in wirePuts : wirePuts' = wirePuts \ {y} /\ UNCHANGED <<wireRefs, wirePosts>>
       \/ \E x \in PullRequests :
            /\ wirePosts[x] > 0
            /\ wirePosts' = [wirePosts EXCEPT ![x] = @ - 1]
            /\ UNCHANGED <<wireRefs, wirePuts>>
    /\ UNCHANGED <<clock, faults, journal, run, provider>>

----------------------------------------------------------------------------
Publishing(w) ==
    \/ \E r \in Rows, i \in Intents : StartPublication(w, r, i)
    \/ Prepare(w) \/ Insert(w) \/ Execute(w) \/ MarkAttempting(w)
    \/ ReadBaseFiles(w) \/ ReadRef(w) \/ CreateRef(w)
    \/ \E f \in Files : CompareFile(w, f) \/ PutFile(w, f)
    \/ ListPullRequests(w) \/ PostPullRequest(w) \/ MarkCompleted(w)
    \/ HandleFailure(w) \/ ReadReceipt(w)

Recovering(w) ==
    \/ Recover(w) \/ RecoverLookup(w) \/ RecoverComplete(w) \/ RecoverFlag(w)
    \/ Settle(w) \/ SettleFlag(w)
    \/ VerifyRef(w) \/ \E f \in Files : VerifyFile(w, f)

Reconciling(w) ==
    \/ \E r \in Rows : StartReconciliation(w, r)
    \/ RecheckRow(w) \/ OpenReadOnlyChannel(w) \/ Lookup(w)
    \/ MarkCompletedFromReconciliation(w) \/ RecordVerifiedFileReconciliation(w)

Environment ==
    \/ Tick
    \/ \E w \in Workers : Crash(w) \/ JournalFault(w)
    \/ \E i \in Intents : DeliverRef(i) \/ \E f \in Files : DeliverPut(i, f)
    \/ \E x \in PullRequests : DeliverPost(x)
    \/ LoseRequest

Next ==
    \/ \E w \in Workers : Publishing(w) \/ Recovering(w) \/ Reconciling(w)
    \/ Environment

Spec == Init /\ [][Next]_vars

\* A worker that runs keeps running until it returns or crashes.  An operator who
\* only reconciles starts a reconciliation whenever an attempt is open; she is not
\* disturbed by another reconciler, refused a token or left without an answer to
\* her look-up every single time.
Stepping(w) ==
    ~At(w, "idle") /\ (Publishing(w) \/ Recovering(w) \/ Reconciling(w))

Fairness ==
    /\ \A w \in Workers : WF_vars(Stepping(w))
    /\ \A w \in Reconcilers \ Publishers :
        /\ WF_vars(\E r \in Rows : StartReconciliation(w, r))
        /\ SF_vars(RecheckRow(w) /\ run'[w].pc = "open")
        /\ SF_vars(OpenReadOnlyChannel(w) /\ run'[w].pc # "idle")
        /\ SF_vars(Lookup(w) /\ run'[w].pc = "reconcile_complete")

FairSpec == Spec /\ Fairness

----------------------------------------------------------------------------
(* Properties                                                               *)

\* The journal holds what the table's CHECK on status and the record's fields allow,
\* and every worker is at a step of the code with values of the right kind.
TypeOK ==
    /\ clock \in Nat
    /\ faults \in Nat
    /\ journal \in [Rows -> Record]
    /\ run \in [Workers -> Run]
    /\ branch \in [Intents -> Trees \cup {NoBranch}]
    /\ created \in [PullRequests -> Nat]
    /\ wireRefs \subseteq Intents
    /\ wirePuts \subseteq Intents \X Files
    /\ wirePosts \in [PullRequests -> Nat]

\* The pull requests made for x, and the ones that may still be made: posts that
\* are under way although their sender gave up on them.
Effects(x) == created[x] + wirePosts[x]

Started == {"attempting", "reconciliation_required", "completed"}

\* At most one pull request is ever requested from the provider for a journal row,
\* and one journal never holds two rows that published the same intent, whatever
\* workers share it, crash, or see their answers lost (execute_publication's
\* compare-and-set on "prepared", and never posting again during recovery).
AtMostOneEffect ==
    \A x, y \in PullRequests :
        /\ Effects(x) <= 1
        /\ Effects(x) > 0 /\ Effects(y) > 0 /\ JournalOf[x[1]] = JournalOf[y[1]]
              /\ (x[1] = y[1] \/ x[2] = y[2])
           => x = y

\* Whatever reached the provider was journalled first: a pull request made or under
\* way has its row, with that intent and past "prepared", and so has every branch
\* and file write under way (mark_attempting precedes before_publish and the post).
WriteAhead ==
    /\ \A x \in PullRequests :
        Effects(x) > 0 => journal[x[1]].intent = x[2] /\ journal[x[1]].status \in Started
    /\ \A i \in wireRefs \cup {y[1] : y \in wirePuts} :
        \E r \in Rows : journal[r].intent = i /\ journal[r].status \in Started

\* A pull request is only ever requested for a branch that carries the complete
\* verified manifest, even when the answer to a file write was lost or two journals
\* drive the same branch (publish_verified_files, reconcile_verified_files).
ManifestBeforePullRequest ==
    \A x \in PullRequests :
        Effects(x) > 0 => branch[x[2]] # NoBranch /\ \A f \in Files : branch[x[2]][f] = "new"

\* A completed row names a pull request that exists and is for the row's intent,
\* whoever completed it: the publisher, its failure handler or a reconciler.
CompletedHasPullRequest ==
    \A r \in Rows :
        journal[r].status = "completed" =>
            /\ journal[r].receipt \in PullRequests
            /\ journal[r].receipt[2] = journal[r].intent
            /\ created[journal[r].receipt] > 0

\* Evidence "verified" in a row is true of the branch, although the reconciler reads
\* the files one by one while writes may still be landing.
VerifiedManifestIsOnBranch ==
    \A r \in Rows :
        journal[r].outcome = "verified" =>
            /\ branch[journal[r].intent] # NoBranch
            /\ \A f \in Files : branch[journal[r].intent][f] = "new"

\* The commit stored with evidence "verified" contains the manifest
\* (reconcile_verified_files returns the commit of the branch reference).
VerifiedCommitHasManifest ==
    \A r \in Rows :
        journal[r].outcome = "verified" => \A f \in Files : journal[r].commit[f] = "new"

Rank == [absent |-> 0, prepared |-> 1, attempting |-> 2,
         reconciliation_required |-> 3, completed |-> 4]

\* No step of any worker takes a row back, changes what it is for, or replaces the
\* receipt or the evidence of a completed row.
JournalOnlyMovesForward ==
    [][\A r \in Rows :
        /\ Rank[journal'[r].status] >= Rank[journal[r].status]
        /\ journal[r].status # "absent" =>
              /\ journal'[r].intent = journal[r].intent
              /\ journal'[r].digest = journal[r].digest
        /\ journal[r].status = "completed" => journal'[r] = journal[r]]_vars

\* What a step asks of the provider comes from a publisher: a reconciler's step
\* leaves the branches, the pull requests and the requests under way as they are.
ReconcilerNeverWrites ==
    [][\A w \in Workers :
        run[w].role = "reconciler" /\ run'[w] # run[w] => UNCHANGED <<provider, wire>>]_vars

\* A caller that presents the intent of a row that is still "prepared" is let
\* through by PublicationJournal.prepare.
PreparedMayBeRetried ==
    [][\A w \in Workers :
        /\ At(w, "prepare")
        /\ Row(w).status = "prepared"
        /\ Row(w).intent = run[w].intent
        /\ faults' = faults
        /\ run'[w] # run[w]
        => run'[w].pc = "execute"]_vars

\* An attempt does not stay open: its row is completed or flagged.
AttemptIsResolved ==
    \A r \in Rows : journal[r].status = "attempting" ~> journal[r].status # "attempting"

\* A pull request that exists is recorded at last: no crash and no lost answer
\* leaves it unknown to the journal for ever.
PublishedIsRecorded ==
    \A x \in PullRequests : created[x] > 0 ~> journal[x[1]].status = "completed"

\* What the journal shows of an effect: declared once the attempt is journalled,
\* confirmed once the row is completed.
Promise == INSTANCE DurableEffect WITH
    declared <- [r \in Rows |-> IF journal[r].status \in Started THEN journal[r].intent
                                                                 ELSE NoIntent],
    effects <- created,
    confirmed <- {r \in Rows : journal[r].status = "completed"}

\* The publication path keeps the promise of a durable effect (module DurableEffect):
\* declared first, made at most once, confirmed only when made.
Implements == Promise!AbstractSpec
=============================================================================
