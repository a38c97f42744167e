-------------------------- MODULE PublicationProofs --------------------------
(***************************************************************************)
(* The safety of the publication path for any number of workers, rows,     *)
(* journals, intents and files, and any number of crashes.                 *)
(***************************************************************************)
EXTENDS Publication, TLAPS

----------------------------------------------------------------------------
(* The inductive invariant                                                  *)

\* The complete verified manifest is on the branch of intent i.
Complete(i) == branch[i] # NoBranch /\ \A f \in Files : branch[i][f] = "new"

\* A running worker has a row and an intent; from "execute" on, the row exists and
\* is for that intent.
Bound(w) ==
    /\ run[w].pc # "idle" => run[w].row \in Rows /\ run[w].intent \in Intents
    /\ run[w].pc \notin {"idle", "prepare", "insert"} =>
            journal[run[w].row].status # "absent" /\ journal[run[w].row].intent = run[w].intent

\* The steps belong to their roles.
RoleOK(w) ==
    /\ run[w].pc \in PublisherSteps => run[w].role = "publisher"
    /\ run[w].pc \in ReconcilerSteps => run[w].role = "reconciler"
    /\ run[w].pc \in SharedSteps => run[w].role \in {"publisher", "reconciler"}

\* A publisher that won the compare-and-set of its row and has not posted yet.
Entitled(w) ==
    /\ run[w].role = "publisher"
    /\ run[w].pc \in {"base", "ref", "create_ref", "compare", "put", "verify_ref", "verify",
                      "list", "post"}

\* It is the only one for its row, and nothing was posted for the row.
EntitledOK(w) ==
    Entitled(w) =>
        /\ journal[run[w].row].status \in Started
        /\ Effects(<<run[w].row, run[w].intent>>) = 0
        /\ \A v \in Workers : Entitled(v) /\ run[v].row = run[w].row => v = w

\* What a worker knows of the files.
FilesOK(w) ==
    /\ run[w].pc \in {"compare", "put", "verify"} => branch[run[w].intent] # NoBranch
    /\ run[w].pc = "compare" => \A f \in Files :
            f \notin run[w].unseen /\ f \notin run[w].todo => branch[run[w].intent][f] = "new"
    /\ run[w].pc = "put" => \A f \in Files :
            f \notin run[w].todo => branch[run[w].intent][f] = "new"
    /\ run[w].pc = "verify" => \A f \in Files :
            f \notin run[w].unseen => branch[run[w].intent][f] = "new"
    /\ run[w].pc \in {"list", "post"} => Complete(run[w].intent)
    /\ run[w].pc = "evidence" /\ run[w].commit # NoCommit => Complete(run[w].intent)

\* What a worker knows of the pull request.
FoundOK(w) ==
    /\ run[w].pc \in {"complete", "recover_complete", "reconcile_complete"} =>
            run[w].found \in Marked(run[w].intent)

WorkerInv ==
    \A w \in Workers : Bound(w) /\ RoleOK(w) /\ EntitledOK(w) /\ FilesOK(w) /\ FoundOK(w)

\* The keys of one journal are distinct, and a row without a record has no key.
KeysOK ==
    /\ \A r \in Rows : journal[r].status = "absent" <=> journal[r].intent = NoIntent
    /\ \A r, s \in Rows :
        JournalOf[r] = JournalOf[s] /\ journal[r].intent = journal[s].intent
            /\ journal[r].status # "absent" => r = s

EffectsOK ==
    \A x \in PullRequests :
        /\ Effects(x) <= 1
        /\ Effects(x) > 0 =>
            /\ journal[x[1]].intent = x[2]
            /\ journal[x[1]].status \in Started
            /\ Complete(x[2])

WireOK ==
    \A i \in Intents :
        (i \in wireRefs \/ \E f \in Files : <<i, f>> \in wirePuts) =>
            \E r \in Rows : journal[r].intent = i /\ journal[r].status \in Started

EvidenceOK ==
    \A r \in Rows : journal[r].outcome = "verified" =>
        journal[r].status # "absent" /\ Complete(journal[r].intent)

IInv ==
    /\ TypeOK
    /\ WorkerInv
    /\ KeysOK
    /\ EffectsOK
    /\ WireOK
    /\ CompletedHasPullRequest
    /\ EvidenceOK

----------------------------------------------------------------------------
(* Frame lemmas                                                             *)

PCs == {"idle"} \cup PublisherSteps \cup ReconcilerSteps \cup SharedSteps

\* Only worker w moves.
OthersKeep(w) == \A v \in Workers : v # w => run'[v] = run[v]

\* What every step preserves of the journal and the provider.
Mono ==
    /\ \A r \in Rows : journal[r].status # "absent" =>
            journal'[r].status # "absent" /\ journal'[r].intent = journal[r].intent
    /\ \A r \in Rows : journal[r].status \in Started => journal'[r].status \in Started
    /\ \A i \in Intents : branch[i] # NoBranch =>
            /\ branch'[i] # NoBranch
            /\ \A f \in Files : branch[i][f] = "new" => branch'[i][f] = "new"
    /\ \A x \in PullRequests : created[x] > 0 => created'[x] > 0

\* A step that replaces the run of one worker.
LEMMA UpdateFacts ==
    ASSUME run \in [Workers -> Run], NEW w \in Workers, NEW x \in Run,
           run' = [run EXCEPT ![w] = x]
    PROVE  run' \in [Workers -> Run] /\ OthersKeep(w) /\ run'[w] = x
  BY DEF OthersKeep

\* Goto changes the program counter of one worker and nothing else of its run.
LEMMA GotoFacts ==
    ASSUME run \in [Workers -> Run], NEW w \in Workers, NEW pc \in PCs, Goto(w, pc)
    PROVE  /\ run' \in [Workers -> Run]
           /\ OthersKeep(w)
           /\ run'[w] = [run[w] EXCEPT !.pc = pc]
           /\ run'[w].pc = pc
           /\ run'[w].role = run[w].role
           /\ run'[w].row = run[w].row
           /\ run'[w].intent = run[w].intent
           /\ run'[w].unseen = run[w].unseen
           /\ run'[w].todo = run[w].todo
           /\ run'[w].commit = run[w].commit
           /\ run'[w].found = run[w].found
  <1> DEFINE x == [run[w] EXCEPT !.pc = pc]
  <1>1. x \in Run
    BY DEF Run, PCs
  <1>2. run' = [run EXCEPT ![w] = x]
    BY DEF Goto
  <1>3. run' \in [Workers -> Run] /\ OthersKeep(w) /\ run'[w] = x
    BY <1>1, <1>2, UpdateFacts
  <1>. QED
    BY <1>3 DEF Run

\* Finish resets one worker.
LEMMA FinishFacts ==
    ASSUME run \in [Workers -> Run], NEW w \in Workers, Finish(w)
    PROVE  /\ run' \in [Workers -> Run]
           /\ OthersKeep(w)
           /\ run'[w] = IdleRun
           /\ run'[w].pc = "idle"
           /\ run'[w].role = "none"
  <1>1. IdleRun \in Run
    BY DEF IdleRun, Run, NoRecord, Record, Status
  <1>. QED
    BY <1>1 DEF Finish, IdleRun, OthersKeep

\* A worker that does not move keeps what it knows.
LEMMA OthersInv ==
    ASSUME IInv, Mono, NEW v \in Workers, run'[v] = run[v]
    PROVE  Bound(v)' /\ RoleOK(v)' /\ FilesOK(v)' /\ FoundOK(v)'
  <1>1. run[v] \in Run /\ Bound(v) /\ RoleOK(v) /\ FilesOK(v) /\ FoundOK(v)
    BY DEF IInv, TypeOK, WorkerInv
  <1>2. Bound(v)'
    BY <1>1 DEF Bound, Mono
  <1>3. RoleOK(v)'
    BY <1>1 DEF RoleOK
  <1>4. ASSUME NEW i \in Intents, Complete(i) PROVE Complete(i)'
    BY <1>4 DEF Complete, Mono
  <1>5. run[v].pc # "idle" => run[v].intent \in Intents
    BY <1>1 DEF Bound
  <1>6. FilesOK(v)'
    BY <1>1, <1>4, <1>5 DEF FilesOK, Mono
  <1>7. FoundOK(v)'
    <2>1. ASSUME NEW i \in Intents, NEW x \in Marked(i) PROVE x \in Marked(i)'
      BY DEF Marked, Mono
    <2>2. QED
      BY <1>1, <1>5, <2>1 DEF FoundOK
  <1>. QED
    BY <1>2, <1>3, <1>6, <1>7

\* A step that only moves the run of one worker.
LEMMA RunStep ==
    ASSUME IInv, NEW w \in Workers,
           run' \in [Workers -> Run], OthersKeep(w),
           clock' \in Nat, faults' \in Nat,
           UNCHANGED <<journal, provider, wire>>,
           Bound(w)', RoleOK(w)', FilesOK(w)', FoundOK(w)',
           Entitled(w)' => /\ Entitled(w)
                           /\ run'[w].row = run[w].row
                           /\ run'[w].intent = run[w].intent
    PROVE  IInv'
  <1>. USE DEF provider, wire
  <1>1. TypeOK'
    BY DEF IInv, TypeOK
  <1>2. Mono
    BY DEF Mono, Started
  <1>3. ASSUME NEW v \in Workers PROVE Bound(v)' /\ RoleOK(v)' /\ FilesOK(v)' /\ FoundOK(v)'
    BY <1>2, OthersInv DEF OthersKeep
  <1>4. ASSUME NEW v \in Workers PROVE EntitledOK(v)'
    <2>1. EntitledOK(v)
      BY DEF IInv, WorkerInv
    <2>2. \A u \in Workers : Entitled(u)' =>
            Entitled(u) /\ run'[u].row = run[u].row /\ run'[u].intent = run[u].intent
      BY DEF OthersKeep, Entitled
    <2>. QED
      BY <2>1, <2>2 DEF EntitledOK, Effects
  <1>5. KeysOK' /\ WireOK' /\ CompletedHasPullRequest'
    BY DEF IInv, KeysOK, WireOK, CompletedHasPullRequest
  <1>6. EffectsOK'
    BY DEF IInv, EffectsOK, Effects, Complete
  <1>7. EvidenceOK'
    BY DEF IInv, EvidenceOK, Complete
  <1>. QED
    BY <1>1, <1>3, <1>4, <1>5, <1>6, <1>7 DEF IInv, WorkerInv

\* A worker that returns leaves the invariant alone.
LEMMA FinishStep ==
    ASSUME IInv, NEW w \in Workers, Finish(w), clock' \in Nat, faults' \in Nat,
           UNCHANGED <<journal, provider, wire>>
    PROVE  IInv'
  <1>1. /\ run' \in [Workers -> Run] /\ OthersKeep(w)
        /\ run'[w].pc = "idle" /\ run'[w].role = "none"
    BY FinishFacts DEF IInv, TypeOK
  <1>2. Bound(w)' /\ RoleOK(w)' /\ FilesOK(w)' /\ FoundOK(w)' /\ ~Entitled(w)'
    BY <1>1 DEF Bound, RoleOK, FilesOK, FoundOK, Entitled,
                PublisherSteps, ReconcilerSteps, SharedSteps
  <1>. QED
    BY <1>1, <1>2, RunStep

\* The steps at which a worker has a claim on files, receipts or the post.
ClaimSteps == {"base", "ref", "create_ref", "compare", "put", "verify_ref", "verify", "list",
               "post", "evidence", "complete", "recover_complete", "reconcile_complete"}

\* A bound worker may go to any step of its role that carries no claim.
LEMMA GotoStep ==
    ASSUME IInv, NEW w \in Workers, NEW pc \in PCs, Goto(w, pc),
           clock' \in Nat, faults' \in Nat, UNCHANGED <<journal, provider, wire>>,
           run[w].pc \notin {"idle", "prepare", "insert"},
           pc \notin ClaimSteps \cup {"idle"},
           pc \in PublisherSteps => run[w].role = "publisher",
           pc \in ReconcilerSteps => run[w].role = "reconciler"
    PROVE  IInv'
  <1>1. run \in [Workers -> Run] /\ Bound(w) /\ RoleOK(w)
    BY DEF IInv, TypeOK, WorkerInv
  <1>2. /\ run' \in [Workers -> Run] /\ OthersKeep(w)
        /\ run'[w].pc = pc /\ run'[w].role = run[w].role
        /\ run'[w].row = run[w].row /\ run'[w].intent = run[w].intent
    BY <1>1, GotoFacts
  <1>3. Bound(w)'
    BY <1>1, <1>2 DEF Bound
  <1>4. RoleOK(w)'
    BY <1>1, <1>2 DEF RoleOK, PublisherSteps, ReconcilerSteps, SharedSteps, Run
  <1>5. FilesOK(w)' /\ FoundOK(w)' /\ ~Entitled(w)'
    BY <1>2 DEF FilesOK, FoundOK, Entitled, ClaimSteps
  <1>. QED
    BY <1>2, <1>3, <1>4, <1>5, RunStep

\* Any worker that is entitled, or reconciles, may go and read the manifest.
LEMMA GotoVerifyRef ==
    ASSUME IInv, NEW w \in Workers, Goto(w, "verify_ref"),
           clock' \in Nat, faults' \in Nat, UNCHANGED <<journal, provider, wire>>,
           run[w].pc \notin {"idle", "prepare", "insert"},
           Entitled(w) \/ run[w].role = "reconciler"
    PROVE  IInv'
  <1>1. run \in [Workers -> Run] /\ Bound(w)
    BY DEF IInv, TypeOK, WorkerInv
  <1>2. /\ run' \in [Workers -> Run] /\ OthersKeep(w)
        /\ run'[w].pc = "verify_ref" /\ run'[w].role = run[w].role
        /\ run'[w].row = run[w].row /\ run'[w].intent = run[w].intent
    BY <1>1, GotoFacts DEF PCs, SharedSteps
  <1>3. Bound(w)' /\ FilesOK(w)' /\ FoundOK(w)'
    BY <1>1, <1>2 DEF Bound, FilesOK, FoundOK
  <1>4. RoleOK(w)'
    BY <1>2 DEF RoleOK, Entitled, PublisherSteps, ReconcilerSteps
  <1>5. Entitled(w)' => Entitled(w)
    BY <1>2 DEF Entitled
  <1>. QED
    BY <1>2, <1>3, <1>4, <1>5, RunStep

----------------------------------------------------------------------------
(* Steps that change only a run                                             *)

\* A new publication is bound to its row and claims nothing.
LEMMA StartPublicationInv ==
    ASSUME IInv, NEW w \in Workers, NEW r \in Rows, NEW i \in Intents, StartPublication(w, r, i)
    PROVE  IInv'
  <1> DEFINE u == [IdleRun EXCEPT !.pc = "prepare", !.role = "publisher",
                                  !.row = r, !.intent = i, !.now = clock]
  <1>1. run \in [Workers -> Run] /\ clock \in Nat /\ faults \in Nat
    BY DEF IInv, TypeOK
  <1>2. u \in Run
    BY <1>1 DEF IdleRun, Run, NoRecord, Record, Status, PublisherSteps
  <1>3. run' = [run EXCEPT ![w] = u] /\ UNCHANGED <<clock, faults, journal, provider, wire>>
    BY DEF StartPublication
  <1>4. u.pc = "prepare" /\ u.role = "publisher" /\ u.row = r /\ u.intent = i
    BY DEF IdleRun
  <1> HIDE DEF u
  <1>5. run' \in [Workers -> Run] /\ OthersKeep(w) /\ run'[w] = u
    BY <1>1, <1>2, <1>3 DEF OthersKeep
  <1>6. Bound(w)' /\ RoleOK(w)' /\ FilesOK(w)' /\ FoundOK(w)' /\ ~Entitled(w)'
    BY <1>4, <1>5 DEF Bound, RoleOK, FilesOK, FoundOK, Entitled,
                      PublisherSteps, ReconcilerSteps, SharedSteps
  <1>. QED
    BY <1>1, <1>3, <1>5, <1>6, RunStep

\* prepare lets a publisher through to "execute" only for its own intent.
LEMMA PrepareInv ==
    ASSUME IInv, NEW w \in Workers, Prepare(w)
    PROVE  IInv'
  <1>1. /\ run \in [Workers -> Run] /\ clock' \in Nat /\ faults' \in Nat
        /\ Bound(w) /\ RoleOK(w)
        /\ run[w].pc = "prepare" /\ UNCHANGED <<journal, provider, wire>>
    BY DEF IInv, TypeOK, WorkerInv, Prepare, At
  <1>2. CASE Row(w).status = "absent" /\ Goto(w, "insert")
    <2>1. /\ run' \in [Workers -> Run] /\ OthersKeep(w)
          /\ run'[w].pc = "insert" /\ run'[w].role = run[w].role
          /\ run'[w].row = run[w].row /\ run'[w].intent = run[w].intent
      BY <1>1, <1>2, GotoFacts DEF PCs, PublisherSteps
    <2>2. Bound(w)' /\ RoleOK(w)' /\ FilesOK(w)' /\ FoundOK(w)' /\ ~Entitled(w)'
      BY <1>1, <2>1 DEF Bound, RoleOK, FilesOK, FoundOK, Entitled,
                        PublisherSteps, ReconcilerSteps, SharedSteps
    <2>. QED
      BY <1>1, <2>1, <2>2, RunStep
  <1>3. CASE Row(w).status # "absent" /\ SameRequest(w) /\ Goto(w, "execute")
    <2>1. /\ run' \in [Workers -> Run] /\ OthersKeep(w)
          /\ run'[w].pc = "execute" /\ run'[w].role = run[w].role
          /\ run'[w].row = run[w].row /\ run'[w].intent = run[w].intent
      BY <1>1, <1>3, GotoFacts DEF PCs, PublisherSteps
    <2>2. Bound(w)'
      BY <1>1, <1>3, <2>1 DEF Bound, Row, SameRequest
    <2>3. RoleOK(w)' /\ FilesOK(w)' /\ FoundOK(w)' /\ ~Entitled(w)'
      BY <1>1, <2>1 DEF RoleOK, FilesOK, FoundOK, Entitled,
                        PublisherSteps, ReconcilerSteps, SharedSteps
    <2>. QED
      BY <1>1, <2>1, <2>2, <2>3, RunStep
  <1>4. CASE Finish(w)
    BY <1>1, <1>4, FinishStep
  <1>. QED
    BY <1>2, <1>3, <1>4 DEF Prepare

\* Steps that read the journal or the provider and pass no claim on.
LEMMA ReadStepsInv ==
    ASSUME IInv, NEW w \in Workers,
           \/ Execute(w) \/ HandleFailure(w) \/ ReadReceipt(w) \/ Recover(w) \/ RecheckRow(w)
           \/ OpenReadOnlyChannel(w)
    PROVE  IInv'
  <1>1. /\ clock' \in Nat /\ faults' \in Nat /\ UNCHANGED <<journal, provider, wire>>
        /\ RoleOK(w) /\ run[w] \in Run
    BY DEF IInv, TypeOK, WorkerInv, Execute, HandleFailure, ReadReceipt, Recover, RecheckRow,
           OpenReadOnlyChannel
  <1>2. run[w].pc \in {"execute", "handler", "receipt", "recover", "recheck", "open"}
    BY DEF Execute, HandleFailure, ReadReceipt, Recover, RecheckRow, OpenReadOnlyChannel, At
  <1>3. CASE Finish(w)
    BY <1>1, <1>3, FinishStep
  <1>4. ASSUME NEW pc \in {"mark", "handler", "receipt", "recover", "settle", "recover_lookup",
                           "open", "lookup"},
               Goto(w, pc),
               pc \in PublisherSteps => run[w].role = "publisher",
               pc \in ReconcilerSteps => run[w].role = "reconciler"
        PROVE  IInv'
    BY <1>1, <1>2, <1>4, GotoStep DEF PCs, ClaimSteps, PublisherSteps, ReconcilerSteps,
                                      SharedSteps
  <1>5. run[w].pc \in {"execute", "handler", "receipt"} => run[w].role = "publisher"
    BY <1>1 DEF RoleOK, PublisherSteps
  <1>6. run[w].pc \in {"recheck", "open"} => run[w].role = "reconciler"
    BY <1>1 DEF RoleOK, ReconcilerSteps
  <1>7. CASE Execute(w)
    BY <1>4, <1>5, <1>7 DEF Execute, At, ReconcilerSteps
  <1>8. CASE HandleFailure(w)
    BY <1>3, <1>4, <1>8 DEF HandleFailure, PublisherSteps, ReconcilerSteps
  <1>9. CASE ReadReceipt(w)
    BY <1>3, <1>4, <1>9 DEF ReadReceipt, PublisherSteps, ReconcilerSteps
  <1>10. CASE Recover(w)
    <2>1. \/ Goto(w, "recover_lookup") \/ Finish(w) \/ Goto(w, "settle")
          \/ run[w].role = "publisher" /\ Goto(w, "receipt")
      BY <1>10 DEF Recover
    <2>. QED
      BY <1>3, <1>4, <2>1 DEF PublisherSteps, ReconcilerSteps
  <1>11. CASE RecheckRow(w)
    BY <1>3, <1>4, <1>6, <1>11 DEF RecheckRow, At, PublisherSteps
  <1>12. CASE OpenReadOnlyChannel(w)
    BY <1>3, <1>4, <1>6, <1>12 DEF OpenReadOnlyChannel, At, PublisherSteps, ReconcilerSteps
  <1>. QED
    BY <1>7, <1>8, <1>9, <1>10, <1>11, <1>12

\* A worker that found a pull request may go and record it.
LEMMA LookupStep ==
    ASSUME IInv, NEW w \in Workers, clock' \in Nat, faults' \in Nat,
           UNCHANGED <<journal, provider, wire>>,
           NEW pc \in {"complete", "recover_complete", "reconcile_complete"},
           LookupFinds(w, pc),
           run[w].pc \notin {"idle", "prepare", "insert"},
           pc = "complete" => run[w].role = "publisher",
           pc = "reconcile_complete" => run[w].role = "reconciler"
    PROVE  IInv'
  <1>1. /\ run \in [Workers -> Run] /\ run[w] \in Run /\ Bound(w) /\ RoleOK(w)
        /\ created' = created
    BY DEF IInv, TypeOK, WorkerInv, provider
  <1>2. PICK x \in Marked(run[w].intent) : run' = [run EXCEPT ![w].found = x, ![w].pc = pc]
    BY DEF LookupFinds
  <1>3. x \in PullRequests
    BY DEF Marked
  <1>4. pc \in PCs
    BY DEF PCs, PublisherSteps, ReconcilerSteps, SharedSteps
  <1>5. /\ run' \in [Workers -> Run] /\ OthersKeep(w)
        /\ run'[w].pc = pc /\ run'[w].role = run[w].role /\ run'[w].found = x
        /\ run'[w].row = run[w].row /\ run'[w].intent = run[w].intent
    <2> DEFINE y == [run[w] EXCEPT !.found = x, !.pc = pc]
    <2>1. y \in Run
      BY <1>1, <1>3, <1>4, Zenon DEF Run, PCs
    <2>2. /\ y.pc = pc /\ y.role = run[w].role /\ y.found = x
          /\ y.row = run[w].row /\ y.intent = run[w].intent
      BY <1>1 DEF Run
    <2>3. run' = [run EXCEPT ![w] = y]
      BY <1>2
    <2> HIDE DEF y
    <2>4. run' \in [Workers -> Run] /\ OthersKeep(w) /\ run'[w] = y
      BY <1>1, <2>1, <2>3, UpdateFacts
    <2>. QED
      BY <2>2, <2>4
  <1>6. Bound(w)'
    BY <1>1, <1>5 DEF Bound
  <1>7. RoleOK(w)'
    BY <1>1, <1>5 DEF RoleOK, PublisherSteps, ReconcilerSteps, SharedSteps, Run
  <1>8. FilesOK(w)' /\ ~Entitled(w)'
    BY <1>5 DEF FilesOK, Entitled
  <1>9. FoundOK(w)'
    BY <1>1, <1>2, <1>5 DEF FoundOK, Marked
  <1>. QED
    BY <1>5, <1>6, <1>7, <1>8, <1>9, RunStep

\* Look-ups and the steps that decide what to do with their result.
LEMMA LookupStepsInv ==
    ASSUME IInv, NEW w \in Workers, RecoverLookup(w) \/ Lookup(w) \/ Settle(w) \/ ReadBaseFiles(w)
    PROVE  IInv'
  <1>1. /\ clock' \in Nat /\ faults' \in Nat /\ UNCHANGED <<journal, provider, wire>>
        /\ RoleOK(w)
    BY DEF IInv, TypeOK, WorkerInv, RecoverLookup, Lookup, Settle, ReadBaseFiles
  <1>2. CASE RecoverLookup(w)
    <2>1. run[w].pc = "recover_lookup"
      BY <1>2 DEF RecoverLookup, At
    <2>2. CASE LookupFinds(w, "recover_complete")
      BY <1>1, <2>1, <2>2, LookupStep
    <2>3. CASE Goto(w, "recover_flag")
      BY <1>1, <2>1, <2>3, GotoStep
         DEF PCs, SharedSteps, ClaimSteps, PublisherSteps, ReconcilerSteps
    <2>. QED
      BY <1>2, <2>2, <2>3 DEF RecoverLookup
  <1>3. CASE Lookup(w)
    <2>1. run[w].pc = "lookup" /\ run[w].role = "reconciler"
      BY <1>1, <1>3 DEF Lookup, At, RoleOK, ReconcilerSteps
    <2>2. CASE LookupFinds(w, "reconcile_complete")
      BY <1>1, <2>1, <2>2, LookupStep
    <2>3. CASE Goto(w, "verify_ref")
      BY <1>1, <2>1, <2>3, GotoVerifyRef
    <2>. QED
      BY <1>3, <2>2, <2>3 DEF Lookup
  <1>4. CASE Settle(w)
    <2>1. run[w].pc = "settle"
      BY <1>4 DEF Settle, At
    <2>2. CASE Goto(w, "settle_flag")
      BY <1>1, <2>1, <2>2, GotoStep
         DEF PCs, SharedSteps, ClaimSteps, PublisherSteps, ReconcilerSteps
    <2>3. CASE run[w].role = "reconciler" /\ Goto(w, "verify_ref")
      BY <1>1, <2>1, <2>3, GotoVerifyRef
    <2>4. CASE Finish(w)
      BY <1>1, <2>4, FinishStep
    <2>. QED
      BY <1>4, <2>2, <2>3, <2>4 DEF Settle
  <1>5. CASE ReadBaseFiles(w)
    <2>1. run[w].pc = "base" /\ run[w].role = "publisher" /\ Entitled(w)
      BY <1>1, <1>5 DEF ReadBaseFiles, At, RoleOK, PublisherSteps, Entitled
    <2>2. CASE Goto(w, "verify_ref")
      BY <1>1, <2>1, <2>2, GotoVerifyRef
    <2>3. CASE Goto(w, "ref")
      <3>1. run \in [Workers -> Run] /\ Bound(w)
        BY DEF IInv, TypeOK, WorkerInv
      <3>2. /\ run' \in [Workers -> Run] /\ OthersKeep(w)
            /\ run'[w].pc = "ref" /\ run'[w].role = run[w].role
            /\ run'[w].row = run[w].row /\ run'[w].intent = run[w].intent
        BY <2>3, <3>1, GotoFacts DEF PCs, PublisherSteps
      <3>3. Bound(w)' /\ FilesOK(w)' /\ FoundOK(w)'
        BY <1>1, <2>1, <3>1, <3>2 DEF Bound, FilesOK, FoundOK
      <3>4. RoleOK(w)'
        BY <2>1, <3>2 DEF RoleOK, PublisherSteps, ReconcilerSteps, SharedSteps
      <3>. QED
        BY <1>1, <2>1, <3>2, <3>3, <3>4, RunStep
    <2>. QED
      BY <1>5, <2>2, <2>3 DEF ReadBaseFiles
  <1>. QED
    BY <1>2, <1>3, <1>4, <1>5

\* A new reconciliation is bound to the row it loaded.
LEMMA StartReconciliationInv ==
    ASSUME IInv, NEW w \in Workers, NEW r \in Rows, StartReconciliation(w, r)
    PROVE  IInv'
  <1> DEFINE u == [IdleRun EXCEPT !.pc = "recheck", !.role = "reconciler",
                                  !.row = r, !.intent = journal[r].intent,
                                  !.snapshot = journal[r]]
  <1>1. /\ run \in [Workers -> Run] /\ clock \in Nat /\ faults \in Nat
        /\ journal[r] \in Record /\ journal[r].status # "absent"
    BY DEF IInv, TypeOK, StartReconciliation
  <1>2. journal[r].intent \in Intents
    BY <1>1 DEF IInv, KeysOK, Record
  <1>3. u \in Run
    BY <1>1, <1>2 DEF IdleRun, Run, ReconcilerSteps
  <1>4. run' = [run EXCEPT ![w] = u] /\ UNCHANGED <<clock, faults, journal, provider, wire>>
    BY DEF StartReconciliation
  <1>5. u.pc = "recheck" /\ u.role = "reconciler" /\ u.row = r /\ u.intent = journal[r].intent
    BY DEF IdleRun
  <1> HIDE DEF u
  <1>6. run' \in [Workers -> Run] /\ OthersKeep(w) /\ run'[w] = u
    BY <1>1, <1>3, <1>4 DEF OthersKeep
  <1>7. Bound(w)'
    BY <1>1, <1>2, <1>4, <1>5, <1>6 DEF Bound
  <1>8. RoleOK(w)' /\ FilesOK(w)' /\ FoundOK(w)' /\ ~Entitled(w)'
    BY <1>5, <1>6 DEF RoleOK, FilesOK, FoundOK, Entitled,
                      PublisherSteps, ReconcilerSteps, SharedSteps
  <1>. QED
    BY <1>1, <1>4, <1>6, <1>7, <1>8, RunStep

----------------------------------------------------------------------------
(* Reading the files of a branch, and listing                               *)

\* What a move of an entitled or reconciling worker owes for its new claims.
LEMMA ClaimStep ==
    ASSUME IInv, NEW w \in Workers,
           run' \in [Workers -> Run], OthersKeep(w),
           clock' \in Nat, faults' \in Nat, UNCHANGED <<journal, provider, wire>>,
           run[w].pc \notin {"idle", "prepare", "insert"},
           run'[w].row = run[w].row, run'[w].intent = run[w].intent,
           run'[w].role = run[w].role,
           RoleOK(w)', FilesOK(w)', FoundOK(w)',
           Entitled(w)' => Entitled(w)
    PROVE  IInv'
  <1>1. Bound(w)
    BY DEF IInv, WorkerInv
  <1>2. Bound(w)'
    BY <1>1 DEF Bound
  <1>. QED
    BY <1>2, RunStep

\* Reading the branch reference starts the comparison of every file.
LEMMA ReadRefInv ==
    ASSUME IInv, NEW w \in Workers, ReadRef(w)
    PROVE  IInv'
  <1>1. /\ clock' \in Nat /\ faults' \in Nat /\ UNCHANGED <<journal, provider, wire>>
        /\ run \in [Workers -> Run] /\ run[w] \in Run
        /\ run[w].pc = "ref" /\ run[w].role = "publisher"
        /\ branch' = branch
    BY DEF IInv, TypeOK, WorkerInv, ReadRef, At, RoleOK, PublisherSteps, provider
  <1>2. Entitled(w)
    BY <1>1 DEF Entitled
  <1>3. CASE ~ReadsBranch(run[w].intent) /\ Goto(w, "create_ref")
    <2>1. /\ run' \in [Workers -> Run] /\ OthersKeep(w)
          /\ run'[w].pc = "create_ref" /\ run'[w].role = run[w].role
          /\ run'[w].row = run[w].row /\ run'[w].intent = run[w].intent
      BY <1>1, <1>3, GotoFacts DEF PCs, PublisherSteps
    <2>2. RoleOK(w)' /\ FilesOK(w)' /\ FoundOK(w)'
      BY <1>1, <2>1 DEF RoleOK, FilesOK, FoundOK, PublisherSteps, ReconcilerSteps, SharedSteps
    <2>. QED
      BY <1>1, <1>2, <2>1, <2>2, ClaimStep
  <1>4. CASE /\ ReadsBranch(run[w].intent)
             /\ run' = [run EXCEPT ![w].pc = "compare", ![w].unseen = Files]
    <2>1. /\ run' \in [Workers -> Run] /\ OthersKeep(w)
          /\ run'[w].pc = "compare" /\ run'[w].role = run[w].role
          /\ run'[w].row = run[w].row /\ run'[w].intent = run[w].intent
          /\ run'[w].unseen = Files
      <3> DEFINE x == [run[w] EXCEPT !.pc = "compare", !.unseen = Files]
      <3>1. run \in [Workers -> Run] /\ run[w] \in Run /\ "compare" \in PCs
        BY <1>1 DEF PCs, PublisherSteps
      <3>2. x \in Run
        BY <3>1, Zenon DEF Run, PCs
      <3>3. /\ x.pc = "compare" /\ x.unseen = Files
             /\ x.role = run[w].role
             /\ x.row = run[w].row /\ x.intent = run[w].intent
        BY <3>1 DEF Run
      <3>4. run' = [run EXCEPT ![w] = x]
        BY <1>4
      <3> HIDE DEF x
      <3>5. run' \in [Workers -> Run] /\ OthersKeep(w) /\ run'[w] = x
        BY <3>1, <3>2, <3>4, UpdateFacts
      <3>. QED
        BY <3>3, <3>5
    <2>2. RoleOK(w)' /\ FoundOK(w)'
      BY <1>1, <2>1 DEF RoleOK, FoundOK, PublisherSteps, ReconcilerSteps, SharedSteps
    <2>3. FilesOK(w)'
      BY <1>1, <1>4, <2>1 DEF FilesOK, ReadsBranch
    <2>. QED
      BY <1>1, <1>2, <2>1, <2>2, <2>3, ClaimStep
  <1>5. CASE Goto(w, "verify_ref")
    BY <1>1, <1>2, <1>5, GotoVerifyRef
  <1>. QED
    BY <1>3, <1>4, <1>5 DEF ReadRef

\* A compared file is verified, or remembered as still to be written.
LEMMA CompareFileInv ==
    ASSUME IInv, NEW w \in Workers, NEW f \in Files, CompareFile(w, f)
    PROVE  IInv'
  <1>1. /\ clock' \in Nat /\ faults' \in Nat /\ UNCHANGED <<journal, provider, wire>>
        /\ run \in [Workers -> Run] /\ run[w] \in Run
        /\ run[w].pc = "compare" /\ run[w].role = "publisher"
        /\ FilesOK(w) /\ branch' = branch
    BY DEF IInv, TypeOK, WorkerInv, CompareFile, At, RoleOK, PublisherSteps, provider
  <1>2. Entitled(w)
    BY <1>1 DEF Entitled
  <1>3. CASE Compared(w, f)
    <2> DEFINE keep == branch[run[w].intent][f] = "new"
               todo == IF keep THEN run[w].todo ELSE run[w].todo \cup {f}
               unseen == run[w].unseen \ {f}
               pc == IF unseen # {} THEN "compare" ELSE IF todo # {} THEN "put" ELSE "list"
    <2>1. run' = [run EXCEPT ![w].unseen = unseen, ![w].todo = todo, ![w].pc = pc]
      BY <1>3 DEF Compared
    <2>2. /\ unseen \subseteq Files /\ todo \subseteq Files
          /\ pc \in {"compare", "put", "list"}
          /\ \A g \in Files : g \notin unseen /\ g \notin todo => branch[run[w].intent][g] = "new"
          /\ pc = "put" => unseen = {}
          /\ pc = "list" => unseen = {} /\ todo = {}
          /\ branch[run[w].intent] # NoBranch
      BY <1>1 DEF FilesOK, Run
    <2> HIDE DEF todo, unseen, pc, keep
    <2>3. /\ run' \in [Workers -> Run] /\ OthersKeep(w)
          /\ run'[w].pc = pc /\ run'[w].role = run[w].role
          /\ run'[w].row = run[w].row /\ run'[w].intent = run[w].intent
          /\ run'[w].unseen = unseen /\ run'[w].todo = todo
      <3> DEFINE x == [run[w] EXCEPT !.unseen = unseen, !.todo = todo, !.pc = pc]
      <3>1. run \in [Workers -> Run] /\ run[w] \in Run /\ pc \in PCs
        BY <1>1, <2>2 DEF PCs, PublisherSteps
      <3>2. x \in Run
        BY <3>1, <2>2, Zenon DEF Run, PCs
      <3>3. /\ x.pc = pc /\ x.unseen = unseen /\ x.todo = todo
             /\ x.role = run[w].role
             /\ x.row = run[w].row /\ x.intent = run[w].intent
        BY <3>1 DEF Run
      <3>4. run' = [run EXCEPT ![w] = x]
        BY <2>1
      <3> HIDE DEF x
      <3>5. run' \in [Workers -> Run] /\ OthersKeep(w) /\ run'[w] = x
        BY <3>1, <3>2, <3>4, UpdateFacts
      <3>. QED
        BY <3>3, <3>5
    <2>4. RoleOK(w)' /\ FoundOK(w)'
      BY <1>1, <2>2, <2>3 DEF RoleOK, FoundOK, PublisherSteps, ReconcilerSteps, SharedSteps
    <2>5. FilesOK(w)'
      BY <1>1, <2>2, <2>3 DEF FilesOK, Complete
    <2>. QED
      BY <1>1, <1>2, <2>3, <2>4, <2>5, ClaimStep
  <1>4. CASE Goto(w, "verify_ref")
    BY <1>1, <1>2, <1>4, GotoVerifyRef
  <1>. QED
    BY <1>3, <1>4 DEF CompareFile

\* A publisher that found no pull request of its own goes on to post one, once.
LEMMA ListPullRequestsInv ==
    ASSUME IInv, NEW w \in Workers, ListPullRequests(w)
    PROVE  IInv'
  <1>1. /\ clock' \in Nat /\ faults' \in Nat /\ UNCHANGED <<journal, provider, wire>>
        /\ run \in [Workers -> Run] /\ run[w] \in Run
        /\ run[w].pc = "list" /\ run[w].role = "publisher"
        /\ FilesOK(w) /\ branch' = branch
    BY DEF IInv, TypeOK, WorkerInv, ListPullRequests, At, RoleOK, PublisherSteps, provider
  <1>2. Entitled(w)
    BY <1>1 DEF Entitled
  <1>3. CASE LookupFinds(w, "complete")
    BY <1>1, <1>3, LookupStep
  <1>4. CASE Goto(w, "post")
    <2>1. /\ run' \in [Workers -> Run] /\ OthersKeep(w)
          /\ run'[w].pc = "post" /\ run'[w].role = run[w].role
          /\ run'[w].row = run[w].row /\ run'[w].intent = run[w].intent
      BY <1>1, <1>4, GotoFacts DEF PCs, PublisherSteps
    <2>2. RoleOK(w)' /\ FoundOK(w)'
      BY <1>1, <2>1 DEF RoleOK, FoundOK, PublisherSteps, ReconcilerSteps, SharedSteps
    <2>3. FilesOK(w)'
      BY <1>1, <2>1 DEF FilesOK, Complete
    <2>. QED
      BY <1>1, <1>2, <2>1, <2>2, <2>3, ClaimStep
  <1>5. CASE Goto(w, "handler")
    BY <1>1, <1>5, GotoStep DEF PCs, ClaimSteps, PublisherSteps, ReconcilerSteps
  <1>. QED
    BY <1>3, <1>4, <1>5 DEF ListPullRequests

\* Giving up on the manifest gives up every claim on it.
LEMMA NotVerifiedStep ==
    ASSUME IInv, NEW w \in Workers, NotVerified(w),
           clock' \in Nat, faults' \in Nat, UNCHANGED <<journal, provider, wire>>,
           run[w].pc \in {"verify_ref", "verify"}
    PROVE  IInv'
  <1>1. run \in [Workers -> Run] /\ run[w] \in Run /\ RoleOK(w)
    BY DEF IInv, TypeOK, WorkerInv
  <1> DEFINE pc == IF run[w].role = "publisher" THEN "handler" ELSE "evidence"
  <1>2. /\ pc \in {"handler", "evidence"}
        /\ pc = "handler" => run[w].role = "publisher"
        /\ pc = "evidence" => run[w].role = "reconciler"
    BY <1>1 DEF RoleOK, SharedSteps
  <1>3. run' = [run EXCEPT ![w].pc = pc, ![w].commit = NoCommit, ![w].unseen = {}, ![w].todo = {}]
    BY DEF NotVerified
  <1> HIDE DEF pc
  <1>4. /\ run' \in [Workers -> Run] /\ OthersKeep(w)
        /\ run'[w].pc = pc /\ run'[w].role = run[w].role /\ run'[w].commit = NoCommit
        /\ run'[w].row = run[w].row /\ run'[w].intent = run[w].intent
    <2> DEFINE x == [run[w] EXCEPT !.pc = pc, !.commit = NoCommit, !.unseen = {}, !.todo = {}]
    <2>1. run \in [Workers -> Run] /\ run[w] \in Run /\ pc \in PCs
      BY <1>1, <1>2 DEF PCs, PublisherSteps, ReconcilerSteps
    <2>2. x \in Run
      BY <2>1, Zenon DEF Run, PCs
    <2>3. /\ x.pc = pc /\ x.commit = NoCommit
           /\ x.role = run[w].role
           /\ x.row = run[w].row /\ x.intent = run[w].intent
      BY <2>1 DEF Run
    <2>4. run' = [run EXCEPT ![w] = x]
      BY <1>3
    <2> HIDE DEF x
    <2>5. run' \in [Workers -> Run] /\ OthersKeep(w) /\ run'[w] = x
      BY <2>1, <2>2, <2>4, UpdateFacts
    <2>. QED
      BY <2>3, <2>5
  <1>5. RoleOK(w)' /\ FoundOK(w)' /\ FilesOK(w)' /\ ~Entitled(w)'
    BY <1>2, <1>4 DEF RoleOK, FoundOK, FilesOK, Entitled,
                      PublisherSteps, ReconcilerSteps, SharedSteps
  <1>. QED
    BY <1>4, <1>5, ClaimStep

\* Every file read as verified stays verified, so the last read completes the manifest.
LEMMA VerifyInv ==
    ASSUME IInv, NEW w \in Workers, VerifyRef(w) \/ \E f \in Files : VerifyFile(w, f)
    PROVE  IInv'
  <1>1. /\ clock' \in Nat /\ faults' \in Nat /\ UNCHANGED <<journal, provider, wire>>
        /\ run \in [Workers -> Run] /\ run[w] \in Run
        /\ run[w].pc \in {"verify_ref", "verify"} /\ run[w].role \in {"publisher", "reconciler"}
        /\ Bound(w) /\ FilesOK(w) /\ branch' = branch
        /\ branch \in [Intents -> Trees \cup {NoBranch}]
    BY DEF IInv, TypeOK, WorkerInv, VerifyRef, VerifyFile, At, RoleOK, SharedSteps, provider
  <1>2. run[w].role = "publisher" => Entitled(w)
    BY <1>1 DEF Entitled
  <1>3. CASE NotVerified(w)
    BY <1>1, <1>3, NotVerifiedStep
  <1>4. CASE /\ ReadsBranch(run[w].intent)
             /\ run' = [run EXCEPT ![w].pc = "verify", ![w].unseen = Files, ![w].todo = {},
                                   ![w].commit = branch[run[w].intent]]
    <2>1. branch[run[w].intent] \in Trees /\ branch[run[w].intent] # NoBranch
      BY <1>1, <1>4 DEF Bound, ReadsBranch
    <2>2. /\ run' \in [Workers -> Run] /\ OthersKeep(w)
          /\ run'[w].pc = "verify" /\ run'[w].role = run[w].role /\ run'[w].unseen = Files
          /\ run'[w].row = run[w].row /\ run'[w].intent = run[w].intent
      <3> DEFINE x == [run[w] EXCEPT !.pc = "verify", !.unseen = Files, !.todo = {},
                                !.commit = branch[run[w].intent]]
      <3>1. run \in [Workers -> Run] /\ run[w] \in Run /\ "verify" \in PCs
        BY <1>1 DEF PCs, SharedSteps
      <3>2. x \in Run
        BY <3>1, <2>1, Zenon DEF Run, PCs
      <3>3. /\ x.pc = "verify" /\ x.unseen = Files
             /\ x.role = run[w].role
             /\ x.row = run[w].row /\ x.intent = run[w].intent
        BY <3>1 DEF Run
      <3>4. run' = [run EXCEPT ![w] = x]
        BY <1>4
      <3> HIDE DEF x
      <3>5. run' \in [Workers -> Run] /\ OthersKeep(w) /\ run'[w] = x
        BY <3>1, <3>2, <3>4, UpdateFacts
      <3>. QED
        BY <3>3, <3>5
    <2>3. RoleOK(w)' /\ FoundOK(w)' /\ FilesOK(w)'
      BY <1>1, <2>1, <2>2 DEF RoleOK, FoundOK, FilesOK,
                              PublisherSteps, ReconcilerSteps, SharedSteps
    <2>4. Entitled(w)' => Entitled(w)
      BY <1>2, <2>2 DEF Entitled
    <2>. QED
      BY <1>1, <2>2, <2>3, <2>4, ClaimStep
  <1>5. ASSUME NEW f \in Files, run[w].pc = "verify", branch[run[w].intent][f] = "new",
               run' = [run EXCEPT ![w].unseen = @ \ {f},
                                  ![w].pc = IF run[w].unseen # {f} THEN "verify"
                                            ELSE IF run[w].role = "publisher" THEN "list"
                                            ELSE "evidence"]
        PROVE  IInv'
    <2> DEFINE unseen == run[w].unseen \ {f}
               pc == IF run[w].unseen # {f} THEN "verify"
                     ELSE IF run[w].role = "publisher" THEN "list" ELSE "evidence"
    <2>1. /\ unseen \subseteq Files /\ pc \in {"verify", "list", "evidence"}
          /\ pc \in {"list", "evidence"} => unseen = {}
          /\ pc = "list" => run[w].role = "publisher"
          /\ pc = "evidence" => run[w].role = "reconciler"
          /\ \A g \in Files : g \notin unseen => branch[run[w].intent][g] = "new"
          /\ branch[run[w].intent] # NoBranch
      BY <1>1, <1>5 DEF FilesOK, Run
    <2>2. run' = [run EXCEPT ![w].unseen = unseen, ![w].pc = pc]
      BY <1>5
    <2> HIDE DEF unseen, pc
    <2>3. /\ run' \in [Workers -> Run] /\ OthersKeep(w)
          /\ run'[w].pc = pc /\ run'[w].role = run[w].role /\ run'[w].unseen = unseen
          /\ run'[w].row = run[w].row /\ run'[w].intent = run[w].intent
      <3> DEFINE x == [run[w] EXCEPT !.unseen = unseen, !.pc = pc]
      <3>1. run \in [Workers -> Run] /\ run[w] \in Run /\ pc \in PCs
        BY <1>1, <2>1 DEF PCs, PublisherSteps, ReconcilerSteps, SharedSteps
      <3>2. x \in Run
        BY <3>1, <2>1, Zenon DEF Run, PCs
      <3>3. /\ x.pc = pc /\ x.unseen = unseen
             /\ x.role = run[w].role
             /\ x.row = run[w].row /\ x.intent = run[w].intent
        BY <3>1 DEF Run
      <3>4. run' = [run EXCEPT ![w] = x]
        BY <2>2
      <3> HIDE DEF x
      <3>5. run' \in [Workers -> Run] /\ OthersKeep(w) /\ run'[w] = x
        BY <3>1, <3>2, <3>4, UpdateFacts
      <3>. QED
        BY <3>3, <3>5
    <2>4. RoleOK(w)' /\ FoundOK(w)'
      BY <1>1, <2>1, <2>3 DEF RoleOK, FoundOK, PublisherSteps, ReconcilerSteps, SharedSteps
    <2>5. FilesOK(w)'
      BY <1>1, <2>1, <2>3 DEF FilesOK, Complete
    <2>6. Entitled(w)' => Entitled(w)
      BY <1>2, <2>3 DEF Entitled
    <2>. QED
      BY <1>1, <2>3, <2>4, <2>5, <2>6, ClaimStep
  <1>. QED
    BY <1>3, <1>4, <1>5 DEF VerifyRef, VerifyFile, At

----------------------------------------------------------------------------
(* Journal transactions                                                     *)

\* A transaction on the row of one worker.  The worker becomes entitled only by taking
\* the row out of "prepared", where nobody else can be entitled.
LEMMA JournalStep ==
    ASSUME IInv, NEW w \in Workers,
           run' \in [Workers -> Run], OthersKeep(w), journal' \in [Rows -> Record],
           UNCHANGED <<clock, faults, provider, wire>>,
           Mono, KeysOK', CompletedHasPullRequest', EvidenceOK',
           Bound(w)', RoleOK(w)', FilesOK(w)', FoundOK(w)',
           Entitled(w)' =>
                \/ /\ Entitled(w)
                   /\ run'[w].row = run[w].row /\ run'[w].intent = run[w].intent
                \/ /\ journal[run'[w].row].status = "prepared"
                   /\ journal'[run'[w].row].status \in Started
    PROVE  IInv'
  <1>. USE DEF provider, wire
  <1>1. TypeOK'
    BY DEF IInv, TypeOK
  <1>2. ASSUME NEW v \in Workers PROVE Bound(v)' /\ RoleOK(v)' /\ FilesOK(v)' /\ FoundOK(v)'
    BY OthersInv DEF OthersKeep
  <1>3. EffectsOK' /\ WireOK'
    <2>1. EffectsOK'
      <3> SUFFICES ASSUME NEW x \in PullRequests
                   PROVE /\ Effects(x) <= 1
                         /\ Effects(x) > 0 => /\ journal'[x[1]].intent = x[2]
                                              /\ journal'[x[1]].status \in Started
                                              /\ Complete(x[2])
        BY DEF EffectsOK, Effects, Complete
      <3>1. /\ Effects(x) <= 1
            /\ Effects(x) > 0 => /\ journal[x[1]].intent = x[2]
                                 /\ journal[x[1]].status \in Started
                                 /\ Complete(x[2])
        BY DEF IInv, EffectsOK
      <3>2. x[1] \in Rows
        BY DEF PullRequests
      <3>. QED
        BY <3>1, <3>2 DEF Mono, Started
    <2>2. WireOK'
      BY DEF IInv, WireOK, Mono, Started
    <2>. QED
      BY <2>1, <2>2
  <1>4. ASSUME NEW v \in Workers PROVE EntitledOK(v)'
    <2> SUFFICES ASSUME Entitled(v)' PROVE EntitledOK(v)'
      BY DEF EntitledOK
    <2>1. ASSUME NEW u \in Workers, Entitled(u), u # w
          PROVE  /\ run'[u] = run[u] /\ run[u].row \in Rows
                 /\ journal[run[u].row].status \in Started
                 /\ Effects(<<run[u].row, run[u].intent>>) = 0
      BY <2>1 DEF IInv, WorkerInv, EntitledOK, Bound, Entitled, OthersKeep
    <2>2. ASSUME NEW u \in Workers, u # w, Entitled(u)' PROVE Entitled(u)
      BY <2>2 DEF Entitled, OthersKeep
    <2>3. CASE v # w
      <3>1. Entitled(v) /\ EntitledOK(v)
        BY <2>2, <2>3 DEF IInv, WorkerInv
      <3>2. journal'[run'[v].row].status \in Started
        BY <2>1, <2>3, <3>1 DEF Mono
      <3>3. Effects(<<run[v].row, run[v].intent>>)' = 0
        BY <2>1, <2>3, <3>1 DEF Effects
      <3>4. ASSUME NEW u \in Workers, Entitled(u)', run'[u].row = run'[v].row PROVE u = v
        <4>1. CASE u # w
          BY <2>1, <2>2, <2>3, <3>1, <3>4, <4>1 DEF EntitledOK
        <4>2. CASE u = w
          <5>1. journal[run'[w].row].status # "prepared"
            BY <2>1, <2>3, <3>1, <3>4, <4>2 DEF Started
          <5>2. Entitled(w) /\ run'[w].row = run[w].row
            BY <3>4, <4>2, <5>1
          <5>. QED
            BY <2>1, <2>3, <3>1, <3>4, <4>2, <5>2 DEF EntitledOK
        <4>. QED
          BY <4>1, <4>2
      <3>. QED
        BY <3>2, <3>3, <3>4 DEF EntitledOK
    <2>4. CASE v = w
      <3>1. run'[w].row \in Rows /\ run'[w].intent \in Intents
        BY <2>4 DEF Bound, Entitled
      <3>2. <<run'[w].row, run'[w].intent>> \in PullRequests
        BY <3>1 DEF PullRequests
      <3>3. CASE /\ Entitled(w)
                 /\ run'[w].row = run[w].row /\ run'[w].intent = run[w].intent
        <4>1. EntitledOK(w)
          BY DEF IInv, WorkerInv
        <4>2. \A u \in Workers : Entitled(u)' /\ run'[u].row = run'[w].row => u = w
          BY <2>1, <2>2, <3>3, <4>1 DEF EntitledOK
        <4>3. journal'[run'[w].row].status \in Started
          BY <3>1, <3>3, <4>1 DEF EntitledOK, Mono
        <4>4. Effects(<<run[w].row, run[w].intent>>)' = 0
          BY <3>3, <4>1 DEF EntitledOK, Effects
        <4>. QED
          BY <2>4, <4>2, <4>3, <4>4 DEF EntitledOK
      <3>4. CASE /\ journal[run'[w].row].status = "prepared"
                 /\ journal'[run'[w].row].status \in Started
        <4>1. \A u \in Workers : Entitled(u)' /\ run'[u].row = run'[w].row => u = w
          BY <2>1, <2>2, <3>4 DEF Started
        <4> DEFINE x == <<run'[w].row, run'[w].intent>>
        <4>2. x \in PullRequests /\ x[1] = run'[w].row
          BY <3>2
        <4> HIDE DEF x
        <4>3. ~(Effects(x) > 0)
          BY <3>4, <4>2 DEF IInv, EffectsOK, Started
        <4>4. Effects(x) \in Nat
          BY <4>2 DEF IInv, TypeOK, Effects
        <4>5. Effects(<<run[w].row, run[w].intent>>)' = 0
          BY <4>3, <4>4 DEF Effects, x
        <4>. QED
          BY <2>4, <3>4, <4>1, <4>5 DEF EntitledOK
      <3>. QED
        BY <2>4, <3>3, <3>4
    <2>. QED
      BY <2>3, <2>4
  <1>. QED
    BY <1>1, <1>2, <1>3, <1>4 DEF IInv, WorkerInv

\* A status update moves the row of the worker and keeps the rest of the journal.
LEMMA StatusFacts ==
    ASSUME IInv, NEW w \in Workers, run[w].row \in Rows,
           NEW old \in {"prepared", "attempting"},
           NEW new \in {"attempting", "reconciliation_required"},
           SetStatus(w, old, new), UNCHANGED <<provider, wire>>
    PROVE  /\ journal' \in [Rows -> Record] /\ Mono
           /\ KeysOK' /\ CompletedHasPullRequest' /\ EvidenceOK'
           /\ journal[run[w].row].status = old /\ journal'[run[w].row].status = new
  <1> DEFINE r == run[w].row
  <1>1. journal \in [Rows -> Record] /\ journal[r] \in Record /\ r \in Rows
    BY DEF IInv, TypeOK
  <1>2. new \in Status
    BY DEF Status
  <1>3. journal[r].status = old /\ journal' = [journal EXCEPT ![r].status = new]
    BY DEF SetStatus, Row
  <1>4. journal[r].status \in {"prepared", "attempting"} /\ new \in Started /\ new # "completed"
        /\ new # "absent"
    BY <1>3 DEF Started
  <1> HIDE DEF r
  <1>5. journal' \in [Rows -> Record]
    BY <1>1, <1>2, <1>3 DEF Record
  <1>6. /\ journal'[r].status = new /\ journal'[r].intent = journal[r].intent
        /\ journal'[r].outcome = journal[r].outcome /\ journal'[r].receipt = journal[r].receipt
        /\ \A s \in Rows : s # r => journal'[s] = journal[s]
    BY <1>1, <1>3 DEF Record
  <1>7. \A s \in Rows : /\ journal'[s].intent = journal[s].intent
                        /\ journal'[s].outcome = journal[s].outcome
    BY <1>6
  <1>8. Mono
    BY <1>1, <1>4, <1>6, <1>7 DEF Mono, provider
  <1>9. KeysOK'
    <2>1. \A s \in Rows : journal'[s].status = "absent" <=> journal[s].status = "absent"
      BY <1>4, <1>6
    <2>. QED
      BY <1>7, <2>1 DEF IInv, KeysOK
  <1>10. CompletedHasPullRequest'
    BY <1>4, <1>6 DEF IInv, CompletedHasPullRequest, provider
  <1>11. EvidenceOK'
    BY <1>4, <1>6, <1>7 DEF IInv, EvidenceOK, Complete, provider
  <1>. QED
    BY <1>3, <1>5, <1>6, <1>8, <1>9, <1>10, <1>11 DEF r

\* So does a completion, which stores a pull request known to exist.
LEMMA CompletedFacts ==
    ASSUME IInv, NEW w \in Workers, run[w].row \in Rows,
           NEW old \in {"attempting", "reconciliation_required"},
           SetCompleted(w, old), UNCHANGED <<provider, wire>>,
           run[w].found \in Marked(journal[run[w].row].intent)
    PROVE  /\ journal' \in [Rows -> Record] /\ Mono
           /\ KeysOK' /\ CompletedHasPullRequest' /\ EvidenceOK'
  <1> DEFINE r == run[w].row
             x == run[w].found
  <1>1. journal \in [Rows -> Record] /\ journal[r] \in Record /\ r \in Rows
    BY DEF IInv, TypeOK
  <1>2. x \in PullRequests /\ x[2] = journal[r].intent /\ created[x] > 0
    BY DEF Marked
  <1>3. journal[r].status = old
        /\ journal' = [journal EXCEPT ![r].status = "completed", ![r].receipt = x]
    BY DEF SetCompleted, Row
  <1> HIDE DEF r, x
  <1>4. journal' \in [Rows -> Record]
    BY <1>1, <1>2, <1>3 DEF Record, Status
  <1>5. /\ journal'[r].status = "completed" /\ journal'[r].intent = journal[r].intent
        /\ journal'[r].outcome = journal[r].outcome /\ journal'[r].receipt = x
        /\ \A s \in Rows : s # r => journal'[s] = journal[s]
    BY <1>1, <1>3 DEF Record
  <1>6. \A s \in Rows : /\ journal'[s].intent = journal[s].intent
                        /\ journal'[s].outcome = journal[s].outcome
    BY <1>5
  <1>7. Mono
    BY <1>1, <1>5, <1>6 DEF Mono, provider, Started
  <1>8. KeysOK'
    <2>1. \A s \in Rows : journal'[s].status = "absent" <=> journal[s].status = "absent"
      BY <1>3, <1>5
    <2>. QED
      BY <1>6, <2>1 DEF IInv, KeysOK
  <1>9. CompletedHasPullRequest'
    BY <1>2, <1>5 DEF IInv, CompletedHasPullRequest, provider
  <1>10. EvidenceOK'
    BY <1>5, <1>6 DEF IInv, EvidenceOK, Complete, provider
  <1>. QED
    BY <1>4, <1>7, <1>8, <1>9, <1>10

\* After its transaction a worker returns, goes to a step without a claim, or, if it
\* reconciles, to the manifest.
LEMMA JournalMove ==
    ASSUME IInv, NEW w \in Workers, journal' \in [Rows -> Record],
           UNCHANGED <<clock, faults, provider, wire>>,
           Mono, KeysOK', CompletedHasPullRequest', EvidenceOK',
           run[w].pc \notin {"idle", "prepare", "insert"},
           \/ Finish(w)
           \/ \E pc \in {"handler", "receipt", "settle"} :
                Goto(w, pc) /\ (pc \in PublisherSteps => run[w].role = "publisher")
           \/ Goto(w, "verify_ref") /\ run[w].role = "reconciler"
    PROVE  IInv'
  <1>1. run \in [Workers -> Run] /\ run[w] \in Run /\ Bound(w) /\ RoleOK(w)
    BY DEF IInv, TypeOK, WorkerInv
  <1>2. CASE Finish(w)
    <2>1. /\ run' \in [Workers -> Run] /\ OthersKeep(w)
          /\ run'[w].pc = "idle" /\ run'[w].role = "none"
      BY <1>1, <1>2, FinishFacts
    <2>2. Bound(w)' /\ RoleOK(w)' /\ FilesOK(w)' /\ FoundOK(w)' /\ ~Entitled(w)'
      BY <2>1 DEF Bound, RoleOK, FilesOK, FoundOK, Entitled,
                  PublisherSteps, ReconcilerSteps, SharedSteps
    <2>. QED
      BY <2>1, <2>2, JournalStep
  <1>3. ASSUME NEW pc \in {"handler", "receipt", "settle", "verify_ref"}, Goto(w, pc),
               pc \in PublisherSteps => run[w].role = "publisher",
               pc = "verify_ref" => run[w].role = "reconciler"
        PROVE  IInv'
    <2>1. /\ run' \in [Workers -> Run] /\ OthersKeep(w)
          /\ run'[w].pc = pc /\ run'[w].role = run[w].role
          /\ run'[w].row = run[w].row /\ run'[w].intent = run[w].intent
      BY <1>1, <1>3, GotoFacts DEF PCs, PublisherSteps, SharedSteps
    <2>2. Bound(w)'
      BY <1>1, <1>3, <2>1 DEF Bound, Mono
    <2>3. RoleOK(w)'
      BY <1>1, <1>3, <2>1 DEF RoleOK, PublisherSteps, ReconcilerSteps, SharedSteps, Run
    <2>4. FilesOK(w)' /\ FoundOK(w)' /\ ~Entitled(w)'
      BY <1>3, <2>1 DEF FilesOK, FoundOK, Entitled
    <2>. QED
      BY <2>1, <2>2, <2>3, <2>4, JournalStep
  <1>. QED
    BY <1>2, <1>3 DEF PublisherSteps

\* The compare-and-set that entitles one publisher to the effects of a row.
LEMMA MarkAttemptingInv ==
    ASSUME IInv, NEW w \in Workers, MarkAttempting(w)
    PROVE  IInv'
  <1>1. /\ run \in [Workers -> Run] /\ run[w] \in Run /\ Bound(w)
        /\ run[w].pc = "mark" /\ run[w].role = "publisher" /\ run[w].row \in Rows
        /\ UNCHANGED <<clock, faults, provider, wire>> /\ clock \in Nat /\ faults \in Nat
    BY DEF IInv, TypeOK, WorkerInv, MarkAttempting, At, RoleOK, Bound, PublisherSteps
  <1>2. CASE SetStatus(w, "prepared", "attempting") /\ Goto(w, "base")
    <2>1. /\ journal' \in [Rows -> Record] /\ Mono
          /\ KeysOK' /\ CompletedHasPullRequest' /\ EvidenceOK'
          /\ journal[run[w].row].status = "prepared"
          /\ journal'[run[w].row].status = "attempting"
      BY <1>1, <1>2, StatusFacts
    <2>2. /\ run' \in [Workers -> Run] /\ OthersKeep(w)
          /\ run'[w].pc = "base" /\ run'[w].role = run[w].role
          /\ run'[w].row = run[w].row /\ run'[w].intent = run[w].intent
      BY <1>1, <1>2, GotoFacts DEF PCs, PublisherSteps
    <2>3. Bound(w)'
      BY <1>1, <2>1, <2>2 DEF Bound, Mono
    <2>4. RoleOK(w)' /\ FilesOK(w)' /\ FoundOK(w)'
      BY <1>1, <2>2 DEF RoleOK, FilesOK, FoundOK, PublisherSteps, ReconcilerSteps, SharedSteps
    <2>5. /\ journal[run'[w].row].status = "prepared"
          /\ journal'[run'[w].row].status \in Started
      BY <2>1, <2>2 DEF Started
    <2>. QED
      BY <1>1, <2>1, <2>2, <2>3, <2>4, <2>5, JournalStep
  <1>3. CASE Goto(w, "handler") /\ UNCHANGED journal
    BY <1>1, <1>3, GotoStep DEF PCs, ClaimSteps, PublisherSteps, ReconcilerSteps
  <1>. QED
    BY <1>2, <1>3 DEF MarkAttempting

\* A journalled intent is the worker's own, so what it found is for the row.
LEMMA FoundIsForRow ==
    ASSUME IInv, NEW w \in Workers,
           run[w].pc \in {"complete", "recover_complete", "reconcile_complete"}
    PROVE  run[w].row \in Rows /\ run[w].found \in Marked(journal[run[w].row].intent)
  BY DEF IInv, WorkerInv, Bound, FoundOK

\* The transactions that complete a row.
LEMMA CompletionsInv ==
    ASSUME IInv, NEW w \in Workers,
           MarkCompleted(w) \/ RecoverComplete(w) \/ MarkCompletedFromReconciliation(w)
    PROVE  IInv'
  <1>1. /\ UNCHANGED <<clock, faults, provider, wire>> /\ clock \in Nat /\ faults \in Nat
        /\ run[w].pc \in {"complete", "recover_complete", "reconcile_complete"}
        /\ run[w] \in Run
    BY DEF IInv, TypeOK, MarkCompleted, RecoverComplete, MarkCompletedFromReconciliation, At
  <1>2. /\ run[w].pc = "complete" => run[w].role = "publisher"
        /\ run[w].pc = "reconcile_complete" => run[w].role = "reconciler"
    BY DEF IInv, WorkerInv, RoleOK, PublisherSteps, ReconcilerSteps
  <1>3. run[w].row \in Rows /\ run[w].found \in Marked(journal[run[w].row].intent)
    BY <1>1, FoundIsForRow
  <1>4. CASE /\ SetCompleted(w, "attempting") \/ SetCompleted(w, "reconciliation_required")
             /\ Finish(w) \/ (Goto(w, "receipt") /\ run[w].role = "publisher")
    <2>1. /\ journal' \in [Rows -> Record] /\ Mono
          /\ KeysOK' /\ CompletedHasPullRequest' /\ EvidenceOK'
      BY <1>1, <1>3, <1>4, CompletedFacts
    <2>. QED
      BY <1>1, <1>4, <2>1, JournalMove
  <1>5. CASE UNCHANGED journal /\ Goto(w, "handler") /\ run[w].pc = "complete"
    BY <1>1, <1>2, <1>5, GotoStep DEF PCs, ClaimSteps, PublisherSteps, ReconcilerSteps
  <1>6. CASE UNCHANGED journal /\ Goto(w, "settle")
    BY <1>1, <1>6, GotoStep DEF PCs, ClaimSteps, PublisherSteps, ReconcilerSteps, SharedSteps
  <1>7. CASE UNCHANGED journal /\ Goto(w, "verify_ref") /\ run[w].pc = "reconcile_complete"
    BY <1>1, <1>2, <1>7, GotoVerifyRef
  <1>8. CASE MarkCompleted(w)
    BY <1>4, <1>5, <1>8 DEF MarkCompleted, At
  <1>9. CASE RecoverComplete(w)
    BY <1>4, <1>6, <1>9 DEF RecoverComplete
  <1>10. CASE MarkCompletedFromReconciliation(w)
    BY <1>4, <1>7, <1>10 DEF MarkCompletedFromReconciliation, At
  <1>. QED
    BY <1>8, <1>9, <1>10

\* The transactions that flag a row.
LEMMA FlagsInv ==
    ASSUME IInv, NEW w \in Workers, RecoverFlag(w) \/ SettleFlag(w)
    PROVE  IInv'
  <1>1. /\ UNCHANGED <<clock, faults, provider, wire>> /\ clock \in Nat /\ faults \in Nat
        /\ run[w].pc \in {"recover_flag", "settle_flag"}
        /\ run[w] \in Run /\ run[w].row \in Rows
        /\ run[w].role \in {"publisher", "reconciler"}
    BY DEF IInv, TypeOK, WorkerInv, Bound, RoleOK, SharedSteps, RecoverFlag, SettleFlag, At
  <1>2. CASE /\ SetStatus(w, "attempting", "reconciliation_required")
             /\ \/ Finish(w) \/ Goto(w, "settle")
                \/ Goto(w, "verify_ref") /\ run[w].role = "reconciler"
    <2>1. /\ journal' \in [Rows -> Record] /\ Mono
          /\ KeysOK' /\ CompletedHasPullRequest' /\ EvidenceOK'
      BY <1>1, <1>2, StatusFacts
    <2>. QED
      BY <1>1, <1>2, <2>1, JournalMove DEF PublisherSteps
  <1>3. CASE UNCHANGED journal /\ Goto(w, "settle")
    BY <1>1, <1>3, GotoStep DEF PCs, ClaimSteps, PublisherSteps, ReconcilerSteps, SharedSteps
  <1>4. CASE UNCHANGED journal /\ Finish(w)
    BY <1>1, <1>4, FinishStep
  <1>. QED
    BY <1>1, <1>2, <1>3, <1>4 DEF RecoverFlag, SettleFlag

\* A new row takes a key that its journal does not hold yet.
LEMMA InsertInv ==
    ASSUME IInv, NEW w \in Workers, Insert(w)
    PROVE  IInv'
  <1> DEFINE r == run[w].row
             i == run[w].intent
             n == [NoRecord EXCEPT !.status = "prepared", !.intent = i, !.digest = run[w].now]
  <1>1. /\ run \in [Workers -> Run] /\ run[w] \in Run /\ run[w].role = "publisher"
        /\ run[w].pc = "insert" /\ r \in Rows /\ i \in Intents
        /\ UNCHANGED <<clock, faults, provider, wire>> /\ clock \in Nat /\ faults \in Nat
        /\ journal \in [Rows -> Record]
    BY DEF IInv, TypeOK, WorkerInv, Insert, At, RoleOK, Bound, PublisherSteps
  <1>2. CASE Finish(w) /\ UNCHANGED journal
    BY <1>1, <1>2, FinishStep
  <1>3. CASE /\ Insertable(r, i) /\ journal' = [journal EXCEPT ![r] = n] /\ Goto(w, "execute")
    <2>1. /\ n \in Record /\ n.status = "prepared" /\ n.intent = i /\ n.outcome = "none"
      BY <1>1 DEF NoRecord, Record, Status, Run
    <2>2. /\ run' \in [Workers -> Run] /\ OthersKeep(w)
          /\ run'[w].pc = "execute" /\ run'[w].role = run[w].role
          /\ run'[w].row = r /\ run'[w].intent = i
      BY <1>1, <1>3, GotoFacts DEF PCs, PublisherSteps
    <2>3. /\ journal[r].status = "absent"
          /\ \A s \in Rows : JournalOf[s] = JournalOf[r] => journal[s].intent # i
      BY <1>3 DEF Insertable
    <2>4. i # NoIntent
      BY <1>1, ConstantsAssumption
    <2> HIDE DEF r, i, n
    <2>5. /\ journal' \in [Rows -> Record] /\ journal'[r] = n
          /\ \A s \in Rows : s # r => journal'[s] = journal[s]
      BY <1>1, <1>3, <2>1
    <2>6. Mono
      BY <1>1, <2>3, <2>5 DEF Mono, Started, provider
    <2>7. KeysOK'
      <3>1. \A s \in Rows : journal'[s].status = "absent" <=> journal'[s].intent = NoIntent
        BY <2>1, <2>4, <2>5 DEF IInv, KeysOK
      <3>2. ASSUME NEW s \in Rows, NEW t \in Rows, JournalOf[s] = JournalOf[t],
                   journal'[s].intent = journal'[t].intent, journal'[s].status # "absent"
            PROVE  s = t
        <4>1. CASE s = r \/ t = r
          BY <2>1, <2>3, <2>5, <3>2, <4>1
        <4>2. CASE s # r /\ t # r
          BY <2>5, <3>2, <4>2 DEF IInv, KeysOK
        <4>. QED
          BY <4>1, <4>2
      <3>. QED
        BY <3>1, <3>2 DEF KeysOK
    <2>8. CompletedHasPullRequest'
      BY <1>1, <2>1, <2>5 DEF IInv, CompletedHasPullRequest, provider
    <2>9. EvidenceOK'
      BY <1>1, <2>1, <2>5 DEF IInv, EvidenceOK, Complete, provider
    <2>10. Bound(w)'
      BY <1>1, <2>1, <2>2, <2>5 DEF Bound, r, i
    <2>11. RoleOK(w)' /\ FilesOK(w)' /\ FoundOK(w)' /\ ~Entitled(w)'
      BY <1>1, <2>2 DEF RoleOK, FilesOK, FoundOK, Entitled,
                        PublisherSteps, ReconcilerSteps, SharedSteps
    <2>. QED
      BY <1>1, <2>2, <2>5, <2>6, <2>7, <2>8, <2>9, <2>10, <2>11, JournalStep
  <1>. QED
    BY <1>2, <1>3 DEF Insert

\* Evidence is stored only as a worker read it, for the row it is bound to.
LEMMA RecordEvidenceInv ==
    ASSUME IInv, NEW w \in Workers, RecordVerifiedFileReconciliation(w)
    PROVE  IInv'
  <1> DEFINE r == run[w].row
             outcome == IF run[w].commit = NoCommit THEN "unverified" ELSE "verified"
             commit == run[w].commit
  <1>1. /\ run[w] \in Run /\ run[w].pc = "evidence" /\ r \in Rows
        /\ run[w].intent = journal[r].intent /\ run[w].intent \in Intents
        /\ UNCHANGED <<clock, faults, provider, wire>> /\ clock \in Nat /\ faults \in Nat
        /\ journal \in [Rows -> Record] /\ Finish(w)
        /\ FilesOK(w)
    BY DEF IInv, TypeOK, WorkerInv, RecordVerifiedFileReconciliation, At, Bound
  <1>2. CASE UNCHANGED journal
    BY <1>1, <1>2, FinishStep
  <1>3. CASE /\ journal[r].status = "reconciliation_required"
             /\ journal' = [journal EXCEPT ![r].outcome = outcome, ![r].commit = commit]
    <2>1. /\ outcome \in {"none", "verified", "unverified"}
          /\ commit \in Trees \cup {NoCommit}
          /\ outcome = "verified" => Complete(journal[r].intent)
      BY <1>1 DEF Run, FilesOK
    <2> HIDE DEF r, outcome, commit
    <2>2. /\ journal' \in [Rows -> Record]
          /\ \A s \in Rows : s # r => journal'[s] = journal[s]
          /\ journal'[r].outcome = outcome /\ journal'[r].status = journal[r].status
          /\ journal'[r].intent = journal[r].intent
      <3> DEFINE x == [journal[r] EXCEPT !.outcome = outcome, !.commit = commit]
      <3>1. journal[r] \in Record
        BY <1>1
      <3>2. x \in Record
        BY <2>1, <3>1, Zenon DEF Record
      <3>3. /\ x.outcome = outcome /\ x.status = journal[r].status
            /\ x.intent = journal[r].intent
        BY <3>1 DEF Record
      <3>4. journal' = [journal EXCEPT ![r] = x]
        BY <1>3
      <3> HIDE DEF x
      <3>. QED
        BY <1>1, <3>2, <3>3, <3>4
    <2>3. \A s \in Rows : /\ journal'[s].status = journal[s].status
                          /\ journal'[s].intent = journal[s].intent
      BY <2>2
    <2>4. Mono
      BY <1>1, <2>3 DEF Mono, provider
    <2>5. KeysOK'
      BY <2>3 DEF IInv, KeysOK
    <2>6. CompletedHasPullRequest'
      BY <1>1, <1>3, <2>2, <2>3 DEF IInv, CompletedHasPullRequest, provider
    <2>7. EvidenceOK'
      BY <1>1, <1>3, <2>1, <2>2 DEF IInv, EvidenceOK, Complete, provider
    <2>. QED
      BY <1>1, <2>2, <2>4, <2>5, <2>6, <2>7, JournalMove
  <1>. QED
    BY <1>2, <1>3 DEF RecordVerifiedFileReconciliation, Row

----------------------------------------------------------------------------
(* Faults and time                                                          *)

\* A crash and the passing of time need no memory of the worker.
LEMMA CrashInv ==
    ASSUME IInv, NEW w \in Workers, Crash(w)
    PROVE  IInv'
  <1>1. Finish(w) /\ clock' \in Nat /\ faults' \in Nat /\ UNCHANGED <<journal, provider, wire>>
    BY DEF Crash, IInv, TypeOK
  <1>. QED
    BY <1>1, FinishStep

\* A statement that raises sends the worker where its callers' except clauses do.
LEMMA JournalFaultInv ==
    ASSUME IInv, NEW w \in Workers, JournalFault(w)
    PROVE  IInv'
  <1>1. /\ clock' \in Nat /\ faults' \in Nat /\ UNCHANGED <<journal, provider, wire>>
        /\ RoleOK(w)
    BY DEF JournalFault, IInv, TypeOK, WorkerInv
  <1>2. CASE Finish(w)
    BY <1>1, <1>2, FinishStep
  <1>3. CASE run[w].pc \in {"mark", "complete"} /\ Goto(w, "handler")
    BY <1>1, <1>3, GotoStep DEF PCs, ClaimSteps, PublisherSteps, ReconcilerSteps, RoleOK
  <1>4. CASE run[w].pc \in {"recover_complete", "recover_flag"} /\ Goto(w, "settle")
    BY <1>1, <1>4, GotoStep DEF PCs, ClaimSteps, PublisherSteps, ReconcilerSteps, SharedSteps
  <1>5. CASE run[w].pc = "reconcile_complete" /\ Goto(w, "verify_ref")
    BY <1>1, <1>5, GotoVerifyRef DEF RoleOK, ReconcilerSteps
  <1>6. \/ Finish(w)
        \/ run[w].pc \in {"mark", "complete"} /\ Goto(w, "handler")
        \/ run[w].pc \in {"recover_complete", "recover_flag"} /\ Goto(w, "settle")
        \/ run[w].pc = "reconcile_complete" /\ Goto(w, "verify_ref")
    BY DEF JournalFault, FaultTarget
  <1>. QED
    BY <1>2, <1>3, <1>4, <1>5, <1>6

----------------------------------------------------------------------------
(* Steps that reach the provider                                            *)

\* A step that leaves the journal alone and adds an effect only where a worker was
\* entitled to it.
LEMMA ProviderStep ==
    ASSUME IInv, TypeOK', UNCHANGED journal, Mono, WireOK',
           \A v \in Workers : Bound(v)' /\ RoleOK(v)' /\ FilesOK(v)' /\ FoundOK(v)',
           \A u \in Workers : Entitled(u)' =>
                /\ Entitled(u)
                /\ run'[u].row = run[u].row /\ run'[u].intent = run[u].intent
                /\ created'[<<run[u].row, run[u].intent>>]
                        + wirePosts'[<<run[u].row, run[u].intent>>] = 0,
           \A x \in PullRequests :
                \/ created'[x] + wirePosts'[x] <= created[x] + wirePosts[x]
                \/ /\ created'[x] + wirePosts'[x] = 1
                   /\ journal[x[1]].intent = x[2]
                   /\ journal[x[1]].status \in Started
                   /\ Complete(x[2])
    PROVE  IInv'
  <1>1. ASSUME NEW v \in Workers PROVE EntitledOK(v)'
    <2> SUFFICES ASSUME Entitled(v)' PROVE EntitledOK(v)'
      BY DEF EntitledOK
    <2>1. Entitled(v) /\ EntitledOK(v)
      BY DEF IInv, WorkerInv
    <2>2. Effects(<<run[v].row, run[v].intent>>)' = 0
      BY DEF Effects
    <2>3. journal'[run'[v].row].status \in Started
      BY <2>1 DEF EntitledOK
    <2>4. \A u \in Workers : Entitled(u)' /\ run'[u].row = run'[v].row => u = v
      BY <2>1 DEF EntitledOK
    <2>. QED
      BY <2>2, <2>3, <2>4 DEF EntitledOK
  <1>2. ASSUME NEW i \in Intents, Complete(i) PROVE Complete(i)'
    BY <1>2 DEF Complete, Mono
  <1>3. EffectsOK'
    <2> SUFFICES ASSUME NEW x \in PullRequests
                 PROVE  /\ created'[x] + wirePosts'[x] <= 1
                        /\ created'[x] + wirePosts'[x] > 0 =>
                                /\ journal'[x[1]].intent = x[2]
                                /\ journal'[x[1]].status \in Started
                                /\ Complete(x[2])'
      BY DEF EffectsOK, Effects
    <2>1. /\ created[x] + wirePosts[x] <= 1
          /\ created[x] + wirePosts[x] > 0 =>
                /\ journal[x[1]].intent = x[2]
                /\ journal[x[1]].status \in Started
                /\ Complete(x[2])
      BY DEF IInv, EffectsOK, Effects
    <2>2. created[x] + wirePosts[x] \in Nat /\ created'[x] + wirePosts'[x] \in Nat
      BY DEF IInv, TypeOK
    <2>3. Complete(x[2]) => Complete(x[2])'
      BY <1>2 DEF PullRequests
    <2>. QED
      BY <2>1, <2>2, <2>3
  <1>4. KeysOK'
    BY DEF IInv, KeysOK
  <1>5. CompletedHasPullRequest'
    BY DEF IInv, CompletedHasPullRequest, Mono
  <1>6. EvidenceOK'
    <2>1. ASSUME NEW r \in Rows, journal[r].outcome = "verified"
          PROVE  /\ journal[r].intent \in Intents /\ Complete(journal[r].intent)
                 /\ journal[r].status # "absent"
      <3>1. /\ Complete(journal[r].intent) /\ journal[r] \in Record
            /\ journal[r].status # "absent"
        BY <2>1 DEF IInv, EvidenceOK, TypeOK
      <3>. QED
        BY <3>1 DEF Record, IInv, KeysOK
    <2>. QED
      BY <1>2, <2>1 DEF EvidenceOK
  <1>. QED
    BY <1>1, <1>3, <1>4, <1>5, <1>6 DEF IInv, WorkerInv

\* A step that only changes the branch, and the wire below it, keeps every effect.
LEMMA BranchStep ==
    ASSUME IInv, TypeOK', UNCHANGED <<journal, created, wirePosts>>, Mono, WireOK',
           \A v \in Workers : Bound(v)' /\ RoleOK(v)' /\ FilesOK(v)' /\ FoundOK(v)',
           \A u \in Workers : Entitled(u)' =>
                /\ Entitled(u)
                /\ run'[u].row = run[u].row /\ run'[u].intent = run[u].intent
    PROVE  IInv'
  <1>1. \A u \in Workers : Entitled(u) =>
                created[<<run[u].row, run[u].intent>>]
                        + wirePosts[<<run[u].row, run[u].intent>>] = 0
    BY DEF IInv, WorkerInv, EntitledOK, Effects
  <1>2. \A x \in PullRequests : created'[x] + wirePosts'[x] <= created[x] + wirePosts[x]
    BY DEF IInv, TypeOK
  <1>. QED
    BY <1>1, <1>2, ProviderStep

\* An entitled worker's row accounts for what it puts on the wire.
LEMMA EntitledRow ==
    ASSUME IInv, NEW w \in Workers, Entitled(w)
    PROVE  /\ run[w].row \in Rows /\ run[w].intent \in Intents
           /\ journal[run[w].row].intent = run[w].intent
           /\ journal[run[w].row].status \in Started
           /\ Effects(<<run[w].row, run[w].intent>>) = 0
  BY DEF IInv, WorkerInv, Bound, EntitledOK, Entitled

\* Nobody waits for the answer of a request that is delivered late or lost.
LEMMA WireInv ==
    ASSUME IInv,
           \/ \E i \in Intents : DeliverRef(i) \/ \E f \in Files : DeliverPut(i, f)
           \/ LoseRequest /\ UNCHANGED wirePosts
    PROVE  IInv'
  <1>1. /\ UNCHANGED <<clock, faults, journal, run, created, wirePosts>>
        /\ wireRefs' \subseteq wireRefs /\ wirePuts' \subseteq wirePuts
    BY DEF DeliverRef, DeliverPut, LoseRequest, provider
  <1>2. /\ branch \in [Intents -> Trees \cup {NoBranch}]
        /\ BaseTree \in Trees /\ NoBranch \notin Trees
    BY ConstantsAssumption DEF IInv, TypeOK, BaseTree, Trees, Content
  <1>3. /\ branch' \in [Intents -> Trees \cup {NoBranch}]
        /\ \A i \in Intents : branch[i] # NoBranch =>
                /\ branch'[i] # NoBranch
                /\ \A f \in Files : branch[i][f] = "new" => branch'[i][f] = "new"
    <2>1. CASE LoseRequest
      BY <1>2, <2>1 DEF LoseRequest, provider
    <2>2. ASSUME NEW i \in Intents, DeliverRef(i) PROVE <1>3!:
      BY <1>2, <2>2 DEF DeliverRef
    <2>3. ASSUME NEW i \in Intents, NEW f \in Files, DeliverPut(i, f) PROVE <1>3!:
      <3>1. CASE ~PutApplies(i, f)
        BY <1>2, <2>3, <3>1 DEF DeliverPut
      <3>2. CASE PutApplies(i, f)
        <4>1. branch[i] \in Trees /\ branch' = [branch EXCEPT ![i][f] = "new"]
          BY <1>2, <2>3, <3>2 DEF DeliverPut, PutApplies, ReadsBranch
        <4>2. /\ branch'[i] \in Trees
              /\ \A g \in Files : branch[i][g] = "new" => branch'[i][g] = "new"
              /\ \A j \in Intents : j # i => branch'[j] = branch[j]
          BY <1>2, <4>1 DEF Trees, Content
        <4>. QED
          BY <1>2, <4>1, <4>2
      <3>. QED
        BY <3>1, <3>2
    <2>. QED
      BY <2>1, <2>2, <2>3
  <1>4. TypeOK'
    BY <1>1, <1>3 DEF IInv, TypeOK
  <1>5. Mono
    BY <1>1, <1>3 DEF Mono
  <1>6. WireOK'
    BY <1>1 DEF IInv, WireOK
  <1>7. \A v \in Workers : Bound(v)' /\ RoleOK(v)' /\ FilesOK(v)' /\ FoundOK(v)'
    BY <1>1, <1>5, OthersInv
  <1>8. \A u \in Workers : Entitled(u)' => Entitled(u)
    BY <1>1 DEF Entitled
  <1>. QED
    BY <1>1, <1>4, <1>5, <1>6, <1>7, <1>8, BranchStep

\* The branch is created for an entitled publisher.
LEMMA CreateRefInv ==
    ASSUME IInv, NEW w \in Workers, CreateRef(w)
    PROVE  IInv'
  <1> DEFINE i == run[w].intent
  <1>1. /\ run \in [Workers -> Run] /\ run[w] \in Run
        /\ run[w].pc = "create_ref" /\ run[w].role = "publisher" /\ Bound(w)
        /\ UNCHANGED <<clock, faults, journal, created, wirePuts, wirePosts>>
        /\ clock \in Nat /\ faults \in Nat /\ wireRefs \subseteq Intents
        /\ branch \in [Intents -> Trees \cup {NoBranch}]
    BY DEF IInv, TypeOK, WorkerInv, CreateRef, At, RoleOK, PublisherSteps
  <1>2. Entitled(w)
    BY <1>1 DEF Entitled
  <1>3. BaseTree \in Trees /\ NoBranch \notin Trees /\ i \in Intents
    BY <1>2, EntitledRow, ConstantsAssumption DEF BaseTree, Trees, Content
  <1>4. CASE /\ ~ReadsBranch(i)
             /\ branch' = [branch EXCEPT ![i] = BaseTree]
             /\ run' = [run EXCEPT ![w].pc = "put", ![w].todo = Files]
             /\ UNCHANGED wireRefs
    <2>1. /\ run' \in [Workers -> Run] /\ OthersKeep(w)
          /\ run'[w].pc = "put" /\ run'[w].role = run[w].role /\ run'[w].todo = Files
          /\ run'[w].row = run[w].row /\ run'[w].intent = run[w].intent
      <3> DEFINE x == [run[w] EXCEPT !.pc = "put", !.todo = Files]
      <3>1. run \in [Workers -> Run] /\ run[w] \in Run /\ "put" \in PCs
        BY <1>1 DEF PCs, PublisherSteps
      <3>2. x \in Run
        BY <3>1, Zenon DEF Run, PCs
      <3>3. /\ x.pc = "put" /\ x.todo = Files
             /\ x.role = run[w].role
             /\ x.row = run[w].row /\ x.intent = run[w].intent
        BY <3>1 DEF Run
      <3>4. run' = [run EXCEPT ![w] = x]
        BY <1>4
      <3> HIDE DEF x
      <3>5. run' \in [Workers -> Run] /\ OthersKeep(w) /\ run'[w] = x
        BY <3>1, <3>2, <3>4, UpdateFacts
      <3>. QED
        BY <3>3, <3>5
    <2>2. branch' \in [Intents -> Trees \cup {NoBranch}] /\ branch'[i] = BaseTree
      BY <1>1, <1>3, <1>4
    <2>3. Mono
      BY <1>1, <1>3, <1>4 DEF Mono, ReadsBranch
    <2>4. TypeOK'
      BY <1>1, <1>4, <2>1, <2>2 DEF IInv, TypeOK
    <2>5. WireOK'
      BY <1>1, <1>4 DEF IInv, WireOK
    <2>6. Bound(w)' /\ RoleOK(w)' /\ FoundOK(w)'
      BY <1>1, <2>1 DEF Bound, RoleOK, FoundOK, PublisherSteps, ReconcilerSteps, SharedSteps
    <2>7. FilesOK(w)'
      BY <1>3, <2>1, <2>2 DEF FilesOK
    <2>8. \A v \in Workers : Bound(v)' /\ RoleOK(v)' /\ FilesOK(v)' /\ FoundOK(v)'
      BY <2>1, <2>3, <2>6, <2>7, OthersInv DEF OthersKeep
    <2>9. \A u \in Workers : Entitled(u)' => /\ Entitled(u) /\ run'[u].row = run[u].row
                                             /\ run'[u].intent = run[u].intent
      BY <1>2, <2>1 DEF Entitled, OthersKeep
    <2>. QED
      BY <1>1, <2>3, <2>4, <2>5, <2>8, <2>9, BranchStep
  <1>5. CASE wireRefs' = wireRefs \cup {i} /\ Goto(w, "verify_ref") /\ UNCHANGED branch
    <2>1. /\ run' \in [Workers -> Run] /\ OthersKeep(w)
          /\ run'[w].pc = "verify_ref" /\ run'[w].role = run[w].role
          /\ run'[w].row = run[w].row /\ run'[w].intent = run[w].intent
      BY <1>1, <1>5, GotoFacts DEF PCs, SharedSteps
    <2>2. Mono
      BY <1>1, <1>5 DEF Mono
    <2>3. TypeOK'
      BY <1>1, <1>3, <1>5, <2>1 DEF IInv, TypeOK
    <2>4. WireOK'
      <3>1. /\ run[w].row \in Rows /\ journal[run[w].row].intent = i
            /\ journal[run[w].row].status \in Started
        BY <1>2, EntitledRow
      <3>2. WireOK
        BY DEF IInv
      <3>3. ASSUME NEW j \in Intents,
                   j \in wireRefs' \/ \E g \in Files : <<j, g>> \in wirePuts'
            PROVE  \/ j = i
                   \/ j \in wireRefs \/ \E g \in Files : <<j, g>> \in wirePuts
        BY <1>1, <1>5, <3>3
      <3> HIDE DEF i
      <3>. QED
        BY <1>1, <3>1, <3>2, <3>3 DEF WireOK
    <2>5. Bound(w)' /\ RoleOK(w)' /\ FoundOK(w)' /\ FilesOK(w)'
      BY <1>1, <2>1 DEF Bound, RoleOK, FoundOK, FilesOK,
                        PublisherSteps, ReconcilerSteps, SharedSteps
    <2>6. \A v \in Workers : Bound(v)' /\ RoleOK(v)' /\ FilesOK(v)' /\ FoundOK(v)'
      BY <2>1, <2>2, <2>5, OthersInv DEF OthersKeep
    <2>7. \A u \in Workers : Entitled(u)' => /\ Entitled(u) /\ run'[u].row = run[u].row
                                             /\ run'[u].intent = run[u].intent
      BY <1>2, <2>1 DEF Entitled, OthersKeep
    <2>. QED
      BY <1>1, <2>2, <2>3, <2>4, <2>6, <2>7, BranchStep
  <1>. QED
    BY <1>4, <1>5 DEF CreateRef

\* The last file written completes the manifest.
LEMMA PutFileInv ==
    ASSUME IInv, NEW w \in Workers, NEW f \in Files, PutFile(w, f)
    PROVE  IInv'
  <1> DEFINE i == run[w].intent
  <1>1. /\ run \in [Workers -> Run] /\ run[w] \in Run /\ f \in run[w].todo
        /\ run[w].pc = "put" /\ run[w].role = "publisher" /\ Bound(w) /\ FilesOK(w)
        /\ UNCHANGED <<clock, faults, journal, created, wireRefs, wirePosts>>
        /\ clock \in Nat /\ faults \in Nat /\ wirePuts \subseteq Intents \X Files
        /\ branch \in [Intents -> Trees \cup {NoBranch}]
    BY DEF IInv, TypeOK, WorkerInv, PutFile, At, RoleOK, PublisherSteps
  <1>2. Entitled(w)
    BY <1>1 DEF Entitled
  <1>3. NoBranch \notin Trees /\ i \in Intents
    BY <1>2, EntitledRow, ConstantsAssumption DEF Trees, Content
  <1>4. CASE /\ PutApplies(i, f)
             /\ branch' = [branch EXCEPT ![i][f] = "new"]
             /\ run' = [run EXCEPT ![w].todo = @ \ {f},
                                   ![w].pc = IF run[w].todo = {f} THEN "list" ELSE "put"]
             /\ UNCHANGED wirePuts
    <2> DEFINE todo == run[w].todo \ {f}
               pc == IF run[w].todo = {f} THEN "list" ELSE "put"
    <2>1. todo \subseteq Files /\ pc \in {"list", "put"} /\ (pc = "list" => todo = {})
          /\ \A g \in Files : g \notin todo /\ g # f => branch[i][g] = "new"
      BY <1>1 DEF Run, FilesOK
    <2>2. run' = [run EXCEPT ![w].todo = todo, ![w].pc = pc]
      BY <1>4
    <2> HIDE DEF todo, pc, i
    <2>3. /\ run' \in [Workers -> Run] /\ OthersKeep(w)
          /\ run'[w].pc = pc /\ run'[w].role = run[w].role /\ run'[w].todo = todo
          /\ run'[w].row = run[w].row /\ run'[w].intent = i
      <3>1. /\ run \in [Workers -> Run] /\ run[w] \in Run /\ todo \subseteq Files
            /\ pc \in {"list", "put"} /\ i = run[w].intent
        BY <1>1, <2>1 DEF i
      <3>. QED
        <4> DEFINE x == [run[w] EXCEPT !.todo = todo, !.pc = pc]
        <4>1. run \in [Workers -> Run] /\ run[w] \in Run /\ pc \in PCs
          BY <3>1 DEF PCs, PublisherSteps
        <4>2. x \in Run
          BY <4>1, <3>1, Zenon DEF Run, PCs
        <4>3. /\ x.pc = pc /\ x.todo = todo
               /\ x.role = run[w].role
               /\ x.row = run[w].row /\ x.intent = run[w].intent
          BY <4>1 DEF Run
        <4>4. run' = [run EXCEPT ![w] = x]
          BY <2>2
        <4> HIDE DEF x
        <4>5. run' \in [Workers -> Run] /\ OthersKeep(w) /\ run'[w] = x
          BY <4>1, <4>2, <4>4, UpdateFacts
        <4>. QED
          BY <3>1, <4>3, <4>5
    <2>4. branch[i] \in Trees
      BY <1>1, <1>3, <1>4 DEF PutApplies, ReadsBranch
    <2>5. /\ branch' \in [Intents -> Trees \cup {NoBranch}] /\ branch'[i] # NoBranch
          /\ branch'[i][f] = "new" /\ \A g \in Files : g # f => branch'[i][g] = branch[i][g]
          /\ \A j \in Intents : j # i => branch'[j] = branch[j]
      <3>1. [branch[i] EXCEPT ![f] = "new"] \in Trees
        BY <2>4 DEF Trees, Content
      <3>2. branch' = [branch EXCEPT ![i] = [branch[i] EXCEPT ![f] = "new"]]
        BY <1>4
      <3>. QED
        BY <1>1, <1>3, <2>4, <3>1, <3>2 DEF Trees
    <2>6. Mono
      BY <1>1, <2>5 DEF Mono
    <2>7. TypeOK'
      BY <1>1, <1>4, <2>3, <2>5 DEF IInv, TypeOK
    <2>8. WireOK'
      BY <1>1, <1>4 DEF IInv, WireOK
    <2>9. Bound(w)' /\ RoleOK(w)' /\ FoundOK(w)'
      BY <1>1, <2>1, <2>3 DEF Bound, RoleOK, FoundOK, i,
                              PublisherSteps, ReconcilerSteps, SharedSteps
    <2>10. FilesOK(w)'
      BY <2>1, <2>3, <2>5 DEF FilesOK, Complete
    <2>11. \A v \in Workers : Bound(v)' /\ RoleOK(v)' /\ FilesOK(v)' /\ FoundOK(v)'
      BY <2>3, <2>6, <2>9, <2>10, OthersInv DEF OthersKeep
    <2>12. \A u \in Workers : Entitled(u)' => /\ Entitled(u) /\ run'[u].row = run[u].row
                                              /\ run'[u].intent = run[u].intent
      BY <1>2, <2>3 DEF Entitled, OthersKeep, i
    <2>. QED
      BY <1>1, <2>6, <2>7, <2>8, <2>11, <2>12, BranchStep
  <1>5. CASE wirePuts' = wirePuts \cup {<<i, f>>} /\ Goto(w, "verify_ref") /\ UNCHANGED branch
    <2>1. /\ run' \in [Workers -> Run] /\ OthersKeep(w)
          /\ run'[w].pc = "verify_ref" /\ run'[w].role = run[w].role
          /\ run'[w].row = run[w].row /\ run'[w].intent = run[w].intent
      BY <1>1, <1>5, GotoFacts DEF PCs, SharedSteps
    <2>2. Mono
      BY <1>1, <1>5 DEF Mono
    <2>3. TypeOK'
      BY <1>1, <1>3, <1>5, <2>1 DEF IInv, TypeOK
    <2>4. WireOK'
      <3>1. /\ run[w].row \in Rows /\ journal[run[w].row].intent = i
            /\ journal[run[w].row].status \in Started
        BY <1>2, EntitledRow
      <3>2. WireOK
        BY DEF IInv
      <3>3. ASSUME NEW j \in Intents,
                   j \in wireRefs' \/ \E g \in Files : <<j, g>> \in wirePuts'
            PROVE  \/ j = i
                   \/ j \in wireRefs \/ \E g \in Files : <<j, g>> \in wirePuts
        BY <1>1, <1>5, <3>3
      <3> HIDE DEF i
      <3>. QED
        BY <1>1, <3>1, <3>2, <3>3 DEF WireOK
    <2>5. Bound(w)' /\ RoleOK(w)' /\ FoundOK(w)' /\ FilesOK(w)'
      BY <1>1, <2>1 DEF Bound, RoleOK, FoundOK, FilesOK,
                        PublisherSteps, ReconcilerSteps, SharedSteps
    <2>6. \A v \in Workers : Bound(v)' /\ RoleOK(v)' /\ FilesOK(v)' /\ FoundOK(v)'
      BY <2>1, <2>2, <2>5, OthersInv DEF OthersKeep
    <2>7. \A u \in Workers : Entitled(u)' => /\ Entitled(u) /\ run'[u].row = run[u].row
                                             /\ run'[u].intent = run[u].intent
      BY <1>2, <2>1 DEF Entitled, OthersKeep
    <2>. QED
      BY <1>1, <2>2, <2>3, <2>4, <2>6, <2>7, BranchStep
  <1>. QED
    BY <1>4, <1>5 DEF PutFile

\* The one post of an entitled publisher uses its entitlement up.
LEMMA PostPullRequestInv ==
    ASSUME IInv, NEW w \in Workers, PostPullRequest(w)
    PROVE  IInv'
  <1> DEFINE a == <<run[w].row, run[w].intent>>
             pc == run'[w].pc
  <1>1. /\ run \in [Workers -> Run] /\ run[w] \in Run
        /\ run[w].pc = "post" /\ run[w].role = "publisher" /\ Bound(w) /\ FilesOK(w)
        /\ UNCHANGED <<clock, faults, journal, branch, wireRefs, wirePuts>>
        /\ created \in [PullRequests -> Nat] /\ wirePosts \in [PullRequests -> Nat]
    BY DEF IInv, TypeOK, WorkerInv, PostPullRequest, At, RoleOK, PublisherSteps
  <1>2. Entitled(w)
    BY <1>1 DEF Entitled
  <1>3. /\ a \in PullRequests /\ a[1] = run[w].row /\ a[2] = run[w].intent
        /\ journal[a[1]].intent = a[2] /\ journal[a[1]].status \in Started
        /\ Complete(a[2]) /\ created[a] + wirePosts[a] = 0
    BY <1>1, <1>2, EntitledRow DEF PullRequests, Effects, FilesOK
  <1>4. created[a] = 0 /\ wirePosts[a] = 0
    BY <1>1, <1>3
  <1>5. /\ run' \in [Workers -> Run] /\ OthersKeep(w)
        /\ run'[w].pc \in {"complete", "handler"} /\ run'[w].role = "publisher"
        /\ run'[w].row = run[w].row /\ run'[w].intent = run[w].intent
        /\ created' \in [PullRequests -> Nat] /\ wirePosts' \in [PullRequests -> Nat]
        /\ created'[a] + wirePosts'[a] = 1
        /\ \A x \in PullRequests : x # a => created'[x] = created[x] /\ wirePosts'[x] = wirePosts[x]
        /\ run'[w].pc = "complete" => run'[w].found = a /\ created'[a] > 0
    <2>1. CASE /\ created' = [created EXCEPT ![a] = @ + 1]
               /\ run' = [run EXCEPT ![w].pc = "complete", ![w].found = a]
               /\ UNCHANGED wirePosts
      <3>1. /\ created' \in [PullRequests -> Nat] /\ created'[a] = 1
            /\ \A x \in PullRequests : x # a => created'[x] = created[x]
        BY <1>1, <1>3, <1>4, <2>1
      <3>2. /\ run' \in [Workers -> Run] /\ OthersKeep(w)
            /\ run'[w].pc = "complete" /\ run'[w].role = "publisher" /\ run'[w].found = a
            /\ run'[w].row = run[w].row /\ run'[w].intent = run[w].intent
        <4> HIDE DEF a
        <4>. QED
          <5> DEFINE x == [run[w] EXCEPT !.pc = "complete", !.found = a]
          <5>1. run \in [Workers -> Run] /\ run[w] \in Run /\ "complete" \in PCs
            BY <1>1 DEF PCs, PublisherSteps
          <5>2. x \in Run
            BY <5>1, <1>3, Zenon DEF Run, PCs
          <5>3. /\ x.pc = "complete" /\ x.found = a
                 /\ x.role = run[w].role
                 /\ x.row = run[w].row /\ x.intent = run[w].intent
            BY <5>1 DEF Run
          <5>4. run' = [run EXCEPT ![w] = x]
            BY <2>1
          <5> HIDE DEF x
          <5>5. run' \in [Workers -> Run] /\ OthersKeep(w) /\ run'[w] = x
            BY <5>1, <5>2, <5>4, UpdateFacts
          <5>. QED
            BY <1>1, <5>3, <5>5
      <3>. QED
        BY <1>1, <1>4, <2>1, <3>1, <3>2
    <2>2. CASE /\ wirePosts' = [wirePosts EXCEPT ![a] = @ + 1]
               /\ Goto(w, "handler")
               /\ UNCHANGED created
      <3>1. /\ wirePosts' \in [PullRequests -> Nat] /\ wirePosts'[a] = 1
            /\ \A x \in PullRequests : x # a => wirePosts'[x] = wirePosts[x]
        BY <1>1, <1>3, <1>4, <2>2
      <3>2. /\ run' \in [Workers -> Run] /\ OthersKeep(w)
            /\ run'[w].pc = "handler" /\ run'[w].role = "publisher"
            /\ run'[w].row = run[w].row /\ run'[w].intent = run[w].intent
        BY <1>1, <2>2, GotoFacts DEF PCs, PublisherSteps
      <3>. QED
        BY <1>1, <1>4, <2>2, <3>1, <3>2
    <2>. QED
      BY <2>1, <2>2 DEF PostPullRequest, Attempt
  <1> HIDE DEF a
  <1>6. Mono
    BY <1>1, <1>4, <1>5 DEF Mono
  <1>7. TypeOK'
    BY <1>1, <1>5 DEF IInv, TypeOK
  <1>8. WireOK'
    BY <1>1 DEF IInv, WireOK
  <1>9. Bound(w)' /\ RoleOK(w)' /\ FilesOK(w)' /\ ~Entitled(w)'
    BY <1>1, <1>5 DEF Bound, RoleOK, FilesOK, Entitled,
                      PublisherSteps, ReconcilerSteps, SharedSteps
  <1>10. FoundOK(w)'
    BY <1>3, <1>5 DEF FoundOK, Marked
  <1>11. \A v \in Workers : Bound(v)' /\ RoleOK(v)' /\ FilesOK(v)' /\ FoundOK(v)'
    BY <1>5, <1>6, <1>9, <1>10, OthersInv DEF OthersKeep
  <1>12. ASSUME NEW u \in Workers, Entitled(u)'
         PROVE  /\ Entitled(u)
                /\ run'[u].row = run[u].row /\ run'[u].intent = run[u].intent
                /\ created'[<<run[u].row, run[u].intent>>]
                        + wirePosts'[<<run[u].row, run[u].intent>>] = 0
    <2>1. u # w /\ run'[u] = run[u] /\ Entitled(u)
      BY <1>5, <1>9, <1>12 DEF OthersKeep, Entitled
    <2>2. run[u].row # run[w].row
      BY <1>2, <2>1 DEF IInv, WorkerInv, EntitledOK
    <2> DEFINE b == <<run[u].row, run[u].intent>>
    <2>3. b \in PullRequests /\ b # a /\ created[b] + wirePosts[b] = 0
      BY <2>1, <2>2, EntitledRow DEF PullRequests, Effects, a
    <2>4. created'[b] = created[b] /\ wirePosts'[b] = wirePosts[b]
      BY <1>5, <2>3
    <2>. QED
      BY <2>1, <2>3, <2>4
  <1>13. ASSUME NEW x \in PullRequests
         PROVE  \/ created'[x] + wirePosts'[x] <= created[x] + wirePosts[x]
                \/ /\ created'[x] + wirePosts'[x] = 1
                   /\ journal[x[1]].intent = x[2]
                   /\ journal[x[1]].status \in Started
                   /\ Complete(x[2])
    <2>1. CASE x = a
      BY <1>3, <1>5, <2>1
    <2>2. CASE x # a
      <3>1. created[x] + wirePosts[x] \in Nat
        BY <1>1
      <3>. QED
        BY <1>5, <2>2, <3>1
    <2>. QED
      BY <2>1, <2>2
  <1>. QED
    BY <1>1, <1>6, <1>7, <1>8, <1>11, <1>12, <1>13, ProviderStep

\* A post that was given up takes effect late, or never.
LEMMA PostOnWireInv ==
    ASSUME IInv,
           \/ \E x \in PullRequests : DeliverPost(x)
           \/ LoseRequest /\ ~UNCHANGED wirePosts
    PROVE  IInv'
  <1>1. PICK x \in PullRequests :
            /\ wirePosts[x] > 0
            /\ wirePosts' = [wirePosts EXCEPT ![x] = @ - 1]
            /\ UNCHANGED created \/ created' = [created EXCEPT ![x] = @ + 1]
    BY DEF DeliverPost, LoseRequest, provider
  <1>2. UNCHANGED <<clock, faults, journal, run, branch, wireRefs, wirePuts>>
    BY DEF DeliverPost, LoseRequest, provider
  <1>3. created \in [PullRequests -> Nat] /\ wirePosts \in [PullRequests -> Nat]
    BY DEF IInv, TypeOK
  <1>4. /\ created' \in [PullRequests -> Nat] /\ wirePosts' \in [PullRequests -> Nat]
        /\ \A y \in PullRequests : y # x => created'[y] = created[y] /\ wirePosts'[y] = wirePosts[y]
        /\ wirePosts'[x] = wirePosts[x] - 1
        /\ created'[x] \in {created[x], created[x] + 1}
    BY <1>1, <1>3
  <1>5. \A y \in PullRequests :
            /\ created'[y] + wirePosts'[y] <= created[y] + wirePosts[y]
            /\ created[y] > 0 => created'[y] > 0
            /\ created[y] + wirePosts[y] = 0 => created'[y] + wirePosts'[y] = 0
    <2> SUFFICES ASSUME NEW y \in PullRequests
                 PROVE  /\ created'[y] + wirePosts'[y] <= created[y] + wirePosts[y]
                        /\ created[y] > 0 => created'[y] > 0
                        /\ created[y] + wirePosts[y] = 0 => created'[y] + wirePosts'[y] = 0
      OBVIOUS
    <2>1. created[y] \in Nat /\ wirePosts[y] \in Nat
      BY <1>3
    <2>2. CASE y = x
      BY <1>1, <1>4, <2>1, <2>2
    <2>3. CASE y # x
      BY <1>4, <2>1, <2>3
    <2>. QED
      BY <2>2, <2>3
  <1>6. TypeOK'
    BY <1>2, <1>4 DEF IInv, TypeOK
  <1>7. Mono
    BY <1>2, <1>5 DEF Mono
  <1>8. WireOK'
    BY <1>2 DEF IInv, WireOK
  <1>9. \A v \in Workers : Bound(v)' /\ RoleOK(v)' /\ FilesOK(v)' /\ FoundOK(v)'
    BY <1>2, <1>7, OthersInv
  <1>10. ASSUME NEW u \in Workers, Entitled(u)'
         PROVE  /\ Entitled(u)
                /\ run'[u].row = run[u].row /\ run'[u].intent = run[u].intent
                /\ created'[<<run[u].row, run[u].intent>>]
                        + wirePosts'[<<run[u].row, run[u].intent>>] = 0
    <2>1. Entitled(u) /\ run' = run
      BY <1>2, <1>10 DEF Entitled
    <2>2. <<run[u].row, run[u].intent>> \in PullRequests
      BY <2>1, EntitledRow DEF PullRequests
    <2>3. created[<<run[u].row, run[u].intent>>] + wirePosts[<<run[u].row, run[u].intent>>] = 0
      BY <2>1, EntitledRow DEF Effects
    <2>. QED
      BY <1>5, <2>1, <2>2, <2>3
  <1>. QED
    BY <1>2, <1>5, <1>6, <1>7, <1>8, <1>9, <1>10, ProviderStep

\* Time concerns no conjunct.
LEMMA TickInv ==
    ASSUME IInv, Tick \/ UNCHANGED vars
    PROVE  IInv'
  <1>1. /\ clock' \in Nat /\ UNCHANGED <<faults, journal, run, branch, created>>
        /\ UNCHANGED <<wireRefs, wirePuts, wirePosts>>
    BY DEF IInv, TypeOK, Tick, vars, provider, wire
  <1>2. TypeOK'
    BY <1>1 DEF IInv, TypeOK
  <1>3. Mono
    BY <1>1 DEF Mono
  <1>4. WireOK'
    BY <1>1 DEF IInv, WireOK
  <1>5. \A v \in Workers : Bound(v)' /\ RoleOK(v)' /\ FilesOK(v)' /\ FoundOK(v)'
    BY <1>1, <1>3, OthersInv
  <1>6. \A u \in Workers : Entitled(u)' => Entitled(u)
    BY <1>1 DEF Entitled
  <1>. QED
    BY <1>1, <1>2, <1>3, <1>4, <1>5, <1>6, BranchStep

----------------------------------------------------------------------------
(* The theorems                                                             *)

\* The initial states satisfy the invariant.
LEMMA InitInv == Init => IInv
  <1> SUFFICES ASSUME Init PROVE IInv
    OBVIOUS
  <1>. USE DEF Init
  <1>1. NoRecord \in Record /\ NoRecord.status = "absent" /\ NoRecord.intent = NoIntent
        /\ NoRecord.outcome = "none"
    BY DEF NoRecord, Record, Status
  <1>2. IdleRun \in Run /\ IdleRun.pc = "idle" /\ IdleRun.role = "none"
    BY <1>1 DEF IdleRun, Run
  <1>3. TypeOK
    BY <1>1, <1>2, ConstantsAssumption DEF TypeOK, Trees, Content
  <1>4. \A w \in Workers : run[w].pc = "idle" /\ run[w].role = "none"
    BY <1>2
  <1>5. WorkerInv
    BY <1>4 DEF WorkerInv, Bound, RoleOK, EntitledOK, Entitled, FilesOK, FoundOK,
                PublisherSteps, ReconcilerSteps, SharedSteps
  <1>6. \A r \in Rows : /\ journal[r].status = "absent" /\ journal[r].intent = NoIntent
                        /\ journal[r].outcome = "none"
    BY <1>1
  <1>7. KeysOK /\ CompletedHasPullRequest /\ EvidenceOK /\ WireOK
    BY <1>6 DEF KeysOK, CompletedHasPullRequest, EvidenceOK, WireOK
  <1>8. EffectsOK
    BY DEF EffectsOK, Effects
  <1>. QED
    BY <1>3, <1>5, <1>7, <1>8 DEF IInv

\* Every step, and every stutter, keeps the invariant.
LEMMA NextInv == IInv /\ [Next]_vars => IInv'
  <1> SUFFICES ASSUME IInv, [Next]_vars PROVE IInv'
    OBVIOUS
  <1>1. ASSUME NEW w \in Workers, Publishing(w) PROVE IInv'
    BY <1>1, StartPublicationInv, PrepareInv, InsertInv, ReadStepsInv, MarkAttemptingInv,
       LookupStepsInv, ReadRefInv, CreateRefInv, CompareFileInv, PutFileInv,
       ListPullRequestsInv, PostPullRequestInv, CompletionsInv
       DEF Publishing
  <1>2. ASSUME NEW w \in Workers, Recovering(w) PROVE IInv'
    BY <1>2, ReadStepsInv, LookupStepsInv, CompletionsInv, FlagsInv, VerifyInv DEF Recovering
  <1>3. ASSUME NEW w \in Workers, Reconciling(w) PROVE IInv'
    BY <1>3, StartReconciliationInv, ReadStepsInv, LookupStepsInv, CompletionsInv,
       RecordEvidenceInv DEF Reconciling
  <1>4. CASE Environment
    BY <1>4, TickInv, CrashInv, JournalFaultInv, WireInv, PostOnWireInv DEF Environment
  <1>5. CASE UNCHANGED vars
    BY <1>5, TickInv
  <1>. QED
    BY <1>1, <1>2, <1>3, <1>4, <1>5 DEF Next

\* The inductive invariant holds of every behaviour of the publication path.
THEOREM Invariance == Spec => []IInv
  BY InitInv, NextInv, PTL DEF Spec

\* Every reachable state of the journal, the workers and the provider is well formed.
THEOREM TypeCorrect == Spec => []TypeOK
  <1>1. IInv => TypeOK
    BY DEF IInv
  <1>. QED
    BY <1>1, Invariance, PTL

\* However many workers share the journals, crash, and see their answers lost, a row
\* has at most one pull request requested for it, and a journal at most one row that
\* published an intent (the compare-and-set of mark_attempting, the UNIQUE key).
THEOREM EffectOnce == Spec => []AtMostOneEffect
  <1>1. IInv => AtMostOneEffect
    <2> SUFFICES ASSUME IInv, NEW x \in PullRequests, NEW y \in PullRequests
                 PROVE  /\ Effects(x) <= 1
                        /\ Effects(x) > 0 /\ Effects(y) > 0 /\ JournalOf[x[1]] = JournalOf[y[1]]
                              /\ (x[1] = y[1] \/ x[2] = y[2])
                           => x = y
      BY DEF AtMostOneEffect
    <2>1. /\ x = <<x[1], x[2]>> /\ y = <<y[1], y[2]>> /\ x[1] \in Rows /\ y[1] \in Rows
      BY DEF PullRequests
    <2>2. /\ Effects(x) <= 1
          /\ Effects(x) > 0 => journal[x[1]].intent = x[2] /\ journal[x[1]].status # "absent"
          /\ Effects(y) > 0 => journal[y[1]].intent = y[2]
      BY DEF IInv, EffectsOK, Started
    <2>3. KeysOK
      BY DEF IInv
    <2>. QED
      BY <2>1, <2>2, <2>3 DEF KeysOK
  <1>. QED
    BY <1>1, Invariance, PTL

\* Nothing reaches the provider before its row is durably marked as attempted.
THEOREM JournalledFirst == Spec => []WriteAhead
  <1>1. IInv => WriteAhead
    <2> SUFFICES ASSUME IInv PROVE WriteAhead
      OBVIOUS
    <2>1. \A x \in PullRequests : Effects(x) > 0 =>
                journal[x[1]].intent = x[2] /\ journal[x[1]].status \in Started
      BY DEF IInv, EffectsOK
    <2>2. ASSUME NEW i \in wireRefs \cup {y[1] : y \in wirePuts}
          PROVE  \E r \in Rows : journal[r].intent = i /\ journal[r].status \in Started
      <3>1. wireRefs \subseteq Intents /\ wirePuts \subseteq Intents \X Files
        BY DEF IInv, TypeOK
      <3>2. i \in Intents /\ (i \in wireRefs \/ \E f \in Files : <<i, f>> \in wirePuts)
        BY <3>1
      <3>. QED
        BY <3>2 DEF IInv, WireOK
    <2>. QED
      BY <2>1, <2>2 DEF WriteAhead
  <1>. QED
    BY <1>1, Invariance, PTL

\* A pull request is only requested for a branch that carries the whole manifest.
THEOREM ManifestFirst == Spec => []ManifestBeforePullRequest
  <1>1. IInv => ManifestBeforePullRequest
    BY DEF IInv, EffectsOK, Complete, ManifestBeforePullRequest
  <1>. QED
    BY <1>1, Invariance, PTL

\* A completed row names an existing pull request of its intent.
THEOREM CompletedIsTrue == Spec => []CompletedHasPullRequest
  <1>1. IInv => CompletedHasPullRequest
    BY DEF IInv
  <1>. QED
    BY <1>1, Invariance, PTL

\* Evidence "verified" is true of the branch from then on.
THEOREM EvidenceIsTrue == Spec => []VerifiedManifestIsOnBranch
  <1>1. IInv => VerifiedManifestIsOnBranch
    BY DEF IInv, EvidenceOK, Complete, VerifiedManifestIsOnBranch
  <1>. QED
    BY <1>1, Invariance, PTL

----------------------------------------------------------------------------
(* What a step may do to the journal, and the refinement                    *)

\* The transactions on one row, whoever runs them.
RowStep(r) ==
    \/ journal[r].status = "absent" /\ journal'[r].status = "prepared"
    \/ /\ journal[r].status = "prepared"
       /\ journal'[r] = [journal[r] EXCEPT !.status = "attempting"]
    \/ /\ journal[r].status = "attempting"
       /\ journal'[r] = [journal[r] EXCEPT !.status = "reconciliation_required"]
    \/ /\ journal[r].status \in {"attempting", "reconciliation_required"}
       /\ \E x \in Marked(journal[r].intent) :
            journal'[r] = [journal[r] EXCEPT !.status = "completed", !.receipt = x]
    \/ /\ journal[r].status = "reconciliation_required"
       /\ \E o \in {"verified", "unverified"}, c \in Trees \cup {NoCommit} :
            journal'[r] = [journal[r] EXCEPT !.outcome = o, !.commit = c]

\* A step changes at most one row, by one such transaction, and then nothing outside
\* the journal; or it makes at most one pull request.
JournalAction ==
    /\ UNCHANGED created
    /\ \E r \in Rows : RowStep(r) /\ \A s \in Rows : s # r => journal'[s] = journal[s]
ProviderAction ==
    /\ UNCHANGED journal
    /\ \/ UNCHANGED created
       \/ \E x \in PullRequests : created' = [created EXCEPT ![x] = @ + 1]

\* The transactions are the only steps that write the journal.
LEMMA StepShape ==
    ASSUME IInv, [Next]_vars
    PROVE  JournalAction \/ ProviderAction
  <1>1. /\ journal \in [Rows -> Record] /\ run \in [Workers -> Run]
        /\ \A w \in Workers : run[w].pc # "idle" => run[w].row \in Rows
    BY DEF IInv, TypeOK, WorkerInv, Bound
  <1>2. ASSUME NEW w \in Workers, Insert(w) PROVE JournalAction \/ ProviderAction
    <2>1. CASE UNCHANGED journal
      BY <1>2, <2>1 DEF Insert, ProviderAction, provider
    <2>2. CASE /\ Insertable(run[w].row, run[w].intent)
               /\ journal' = [journal EXCEPT ![run[w].row] =
                                [NoRecord EXCEPT !.status = "prepared", !.intent = run[w].intent,
                                                 !.digest = run[w].now]]
      <3>1. run[w].row \in Rows /\ UNCHANGED created
        BY <1>1, <1>2 DEF Insert, At, provider
      <3>2. /\ journal[run[w].row].status = "absent" /\ journal'[run[w].row].status = "prepared"
            /\ \A s \in Rows : s # run[w].row => journal'[s] = journal[s]
        BY <1>1, <2>2, <3>1 DEF Insertable, NoRecord
      <3>. QED
        BY <3>1, <3>2 DEF JournalAction, RowStep
    <2>. QED
      BY <1>2, <2>1, <2>2 DEF Insert
  <1>3. ASSUME NEW w \in Workers, run[w].row \in Rows, UNCHANGED created,
               \/ SetStatus(w, "prepared", "attempting")
               \/ SetStatus(w, "attempting", "reconciliation_required")
        PROVE  JournalAction
    <2>1. \/ journal[run[w].row].status = "prepared"
             /\ journal'[run[w].row] = [journal[run[w].row] EXCEPT !.status = "attempting"]
          \/ /\ journal[run[w].row].status = "attempting"
             /\ journal'[run[w].row] = [journal[run[w].row] EXCEPT
                                            !.status = "reconciliation_required"]
      BY <1>1, <1>3 DEF SetStatus, Row
    <2>2. \A s \in Rows : s # run[w].row => journal'[s] = journal[s]
      BY <1>1, <1>3 DEF SetStatus
    <2>. QED
      BY <1>3, <2>1, <2>2 DEF JournalAction, RowStep
  <1>4. ASSUME NEW w \in Workers, UNCHANGED created,
               run[w].pc \in {"complete", "recover_complete", "reconcile_complete"},
               \/ SetCompleted(w, "attempting")
               \/ SetCompleted(w, "reconciliation_required")
        PROVE  JournalAction
    <2>1. run[w].row \in Rows /\ run[w].found \in Marked(journal[run[w].row].intent)
      BY <1>4, FoundIsForRow
    <2>2. /\ journal[run[w].row].status \in {"attempting", "reconciliation_required"}
          /\ journal'[run[w].row] = [journal[run[w].row] EXCEPT !.status = "completed",
                                                                !.receipt = run[w].found]
          /\ \A s \in Rows : s # run[w].row => journal'[s] = journal[s]
      BY <1>1, <1>4, <2>1 DEF SetCompleted, Row
    <2>. QED
      BY <1>4, <2>1, <2>2 DEF JournalAction, RowStep
  <1>5. ASSUME NEW w \in Workers, RecordVerifiedFileReconciliation(w)
        PROVE  JournalAction \/ ProviderAction
    <2>1. CASE UNCHANGED journal
      BY <1>5, <2>1 DEF RecordVerifiedFileReconciliation, ProviderAction, provider
    <2> DEFINE o == IF run[w].commit = NoCommit THEN "unverified" ELSE "verified"
    <2>2. CASE /\ Row(w).status = "reconciliation_required"
               /\ journal' = [journal EXCEPT ![run[w].row].outcome = o,
                                             ![run[w].row].commit = run[w].commit]
      <3>1. /\ run[w].row \in Rows /\ UNCHANGED created
            /\ run[w].commit \in Trees \cup {NoCommit} /\ o \in {"verified", "unverified"}
        BY <1>1, <1>5 DEF RecordVerifiedFileReconciliation, At, provider, Run
      <3> HIDE DEF o
      <3>2. /\ journal[run[w].row].status = "reconciliation_required"
            /\ journal'[run[w].row] = [journal[run[w].row] EXCEPT !.outcome = o,
                                                                  !.commit = run[w].commit]
            /\ \A s \in Rows : s # run[w].row => journal'[s] = journal[s]
        BY <1>1, <2>2, <3>1 DEF Row
      <3>3. RowStep(run[w].row)
        BY <3>1, <3>2 DEF RowStep
      <3>. QED
        BY <3>1, <3>2, <3>3 DEF JournalAction
    <2>. QED
      BY <1>5, <2>1, <2>2 DEF RecordVerifiedFileReconciliation
  <1>6. ASSUME NEW w \in Workers,
               MarkAttempting(w) \/ RecoverFlag(w) \/ SettleFlag(w)
        PROVE  JournalAction \/ ProviderAction
    <2>1. run[w].row \in Rows /\ UNCHANGED created
      BY <1>1, <1>6 DEF MarkAttempting, RecoverFlag, SettleFlag, At, provider
    <2>. QED
      BY <1>3, <1>6, <2>1 DEF MarkAttempting, RecoverFlag, SettleFlag, ProviderAction
  <1>7. ASSUME NEW w \in Workers,
               MarkCompleted(w) \/ RecoverComplete(w) \/ MarkCompletedFromReconciliation(w)
        PROVE  JournalAction \/ ProviderAction
    BY <1>4, <1>7 DEF MarkCompleted, RecoverComplete, MarkCompletedFromReconciliation, At,
                      ProviderAction, provider
  <1>8. ASSUME NEW w \in Workers, Publishing(w) PROVE JournalAction \/ ProviderAction
    <2>1. ASSUME NEW r, NEW i, StartPublication(w, r, i) PROVE ProviderAction
      BY <2>1 DEF StartPublication, ProviderAction, provider
    <2>2. CASE \/ Prepare(w) \/ Execute(w) \/ ReadBaseFiles(w) \/ ReadRef(w)
               \/ CreateRef(w) \/ ListPullRequests(w) \/ HandleFailure(w) \/ ReadReceipt(w)
      BY <2>2 DEF Prepare, Execute, ReadBaseFiles, ReadRef, CreateRef, ListPullRequests,
                  HandleFailure, ReadReceipt, ProviderAction, provider
    <2>3. ASSUME NEW f, CompareFile(w, f) \/ PutFile(w, f) PROVE ProviderAction
      BY <2>3 DEF CompareFile, PutFile, ProviderAction, provider
    <2>4. CASE PostPullRequest(w)
      <3>1. Attempt(w) \in PullRequests
        BY <2>4 DEF IInv, WorkerInv, Bound, PostPullRequest, At, Attempt, PullRequests
      <3>. QED
        BY <2>4, <3>1 DEF PostPullRequest, ProviderAction
    <2>. QED
      BY <1>2, <1>6, <1>7, <1>8, <2>1, <2>2, <2>3, <2>4 DEF Publishing
  <1>9. ASSUME NEW w \in Workers, Recovering(w) PROVE JournalAction \/ ProviderAction
    <2>1. CASE Recover(w) \/ RecoverLookup(w) \/ Settle(w) \/ VerifyRef(w)
      BY <2>1 DEF Recover, RecoverLookup, Settle, VerifyRef, ProviderAction, provider
    <2>2. ASSUME NEW f, VerifyFile(w, f) PROVE ProviderAction
      BY <2>2 DEF VerifyFile, ProviderAction, provider
    <2>. QED
      BY <1>6, <1>7, <1>9, <2>1, <2>2 DEF Recovering
  <1>10. ASSUME NEW w \in Workers, Reconciling(w) PROVE JournalAction \/ ProviderAction
    <2>1. ASSUME NEW r, StartReconciliation(w, r) PROVE ProviderAction
      BY <2>1 DEF StartReconciliation, ProviderAction, provider
    <2>2. CASE RecheckRow(w) \/ OpenReadOnlyChannel(w) \/ Lookup(w)
      BY <2>2 DEF RecheckRow, OpenReadOnlyChannel, Lookup, ProviderAction, provider
    <2>. QED
      BY <1>5, <1>7, <1>10, <2>1, <2>2 DEF Reconciling
  <1>11. CASE Environment
    BY <1>11 DEF Environment, Tick, Crash, JournalFault, DeliverRef, DeliverPut, DeliverPost,
                 LoseRequest, ProviderAction, provider
  <1>12. CASE UNCHANGED vars
    BY <1>12 DEF vars, ProviderAction
  <1>. QED
    BY <1>8, <1>9, <1>10, <1>11, <1>12 DEF Next

\* No step of any worker takes a row back, changes what it is for, or touches a
\* completed row.
THEOREM JournalForward == Spec => JournalOnlyMovesForward
  <1> DEFINE Forward(r) ==
        /\ Rank[journal'[r].status] >= Rank[journal[r].status]
        /\ journal[r].status # "absent" =>
              /\ journal'[r].intent = journal[r].intent
              /\ journal'[r].digest = journal[r].digest
        /\ journal[r].status = "completed" => journal'[r] = journal[r]
  <1>1. ASSUME IInv, [Next]_vars, NEW r \in Rows PROVE Forward(r)
    <2>1. journal[r] \in Record
      BY <1>1 DEF IInv, TypeOK
    <2>2. /\ Rank["absent"] = 0 /\ Rank["prepared"] = 1 /\ Rank["attempting"] = 2
          /\ Rank["reconciliation_required"] = 3 /\ Rank["completed"] = 4
      BY DEF Rank
    <2>3. CASE journal'[r] = journal[r]
      BY <2>1, <2>2, <2>3 DEF Record, Status
    <2>4. CASE RowStep(r)
      <3>1. CASE journal[r].status = "absent" /\ journal'[r].status = "prepared"
        BY <2>2, <3>1
      <3>2. ASSUME NEW new \in {"attempting", "reconciliation_required"},
                   journal[r].status \in {"prepared", "attempting"},
                   new = "attempting" => journal[r].status = "prepared",
                   journal'[r] = [journal[r] EXCEPT !.status = new]
            PROVE  Forward(r)
        <4>1. /\ journal'[r].status = new /\ journal'[r].intent = journal[r].intent
              /\ journal'[r].digest = journal[r].digest
          BY <2>1, <3>2 DEF Record
        <4>. QED
          BY <2>2, <3>2, <4>1
      <3>3. ASSUME journal[r].status \in {"attempting", "reconciliation_required"}, NEW x,
                   journal'[r] = [journal[r] EXCEPT !.status = "completed", !.receipt = x]
            PROVE  Forward(r)
        <4>1. /\ journal'[r].status = "completed" /\ journal'[r].intent = journal[r].intent
              /\ journal'[r].digest = journal[r].digest
          BY <2>1, <3>3 DEF Record
        <4>. QED
          BY <2>2, <3>3, <4>1
      <3>4. ASSUME journal[r].status = "reconciliation_required", NEW o, NEW c,
                   journal'[r] = [journal[r] EXCEPT !.outcome = o, !.commit = c]
            PROVE  Forward(r)
        <4>1. /\ journal'[r].status = journal[r].status
              /\ journal'[r].intent = journal[r].intent
              /\ journal'[r].digest = journal[r].digest
          BY <2>1, <3>4 DEF Record
        <4>. QED
          BY <2>2, <3>4, <4>1
      <3> HIDE DEF Forward
      <3>. QED
        BY <2>4, <3>1, <3>2, <3>3, <3>4 DEF RowStep
    <2>. QED
      BY <1>1, <2>3, <2>4, StepShape DEF JournalAction, ProviderAction
  <1>2. IInv /\ [Next]_vars => [\A r \in Rows : Forward(r)]_vars
    BY <1>1
  <1>. QED
    BY <1>2, Invariance, PTL DEF Spec, JournalOnlyMovesForward

\* The publication path keeps the promise of DurableEffect: an attempt is declared
\* once, with one intent; its pull request is made at most once, and only then; it is
\* reported as published only if a pull request for its intent exists.
THEOREM Refinement == Spec => Implements
  <1> DEFINE declared == [r \in Rows |-> IF journal[r].status \in Started
                                         THEN journal[r].intent ELSE NoIntent]
             confirmed == {r \in Rows : journal[r].status = "completed"}
  <1>1. Init => Promise!AbstractInit
    BY DEF Init, Promise!AbstractInit, NoRecord, Started, PullRequests
  <1>2. IInv /\ IInv' /\ [Next]_vars => [Promise!AbstractNext]_(Promise!abstractVars)
    <2> SUFFICES ASSUME IInv, IInv', [Next]_vars
                 PROVE  [Promise!AbstractNext]_(Promise!abstractVars)
      OBVIOUS
    <2>1. /\ journal \in [Rows -> Record] /\ journal' \in [Rows -> Record]
          /\ created \in [PullRequests -> Nat] /\ created' \in [PullRequests -> Nat]
          /\ wirePosts' \in [PullRequests -> Nat]
      BY DEF IInv, TypeOK
    <2>2. CASE UNCHANGED <<journal, created>>
      BY <2>2 DEF Promise!abstractVars
    <2>3. ASSUME NEW x \in PullRequests, created' = [created EXCEPT ![x] = @ + 1],
                 UNCHANGED journal
          PROVE  Promise!AbstractNext
      <3>1. PICK r \in Rows, i \in Intents : x = <<r, i>>
        BY DEF PullRequests
      <3>2. created'[x] = created[x] + 1 /\ created[x] \in Nat /\ wirePosts'[x] \in Nat
        BY <2>1, <2>3
      <3>3. /\ created'[x] + wirePosts'[x] <= 1
            /\ created'[x] + wirePosts'[x] > 0 =>
                    journal'[r].intent = i /\ journal'[r].status \in Started
        BY <3>1 DEF IInv, EffectsOK, Effects
      <3>4. created[x] = 0 /\ journal[r].intent = i /\ journal[r].status \in Started
        BY <2>3, <3>2, <3>3
      <3>5. Promise!Effect(r, i)
        BY <2>1, <2>3, <3>1, <3>4 DEF Promise!Effect
      <3>. QED
        BY <3>5 DEF Promise!AbstractNext
    <2>4. ASSUME NEW r \in Rows, RowStep(r), UNCHANGED created,
                 \A s \in Rows : s # r => journal'[s] = journal[s]
          PROVE  [Promise!AbstractNext]_(Promise!abstractVars)
      <3>1. journal[r] \in Record /\ journal'[r] \in Record
        BY <2>1
      <3>2. CASE /\ journal[r].status = "prepared"
                 /\ journal'[r] = [journal[r] EXCEPT !.status = "attempting"]
        <4>1. /\ journal'[r].status = "attempting" /\ journal'[r].intent = journal[r].intent
          BY <3>1, <3>2 DEF Record
        <4>2. PICK i \in Intents : i = journal[r].intent
          BY <3>1, <3>2 DEF IInv, KeysOK, Record
        <4>3. declared[r] = NoIntent /\ declared' = [declared EXCEPT ![r] = i]
          BY <2>4, <3>2, <4>1, <4>2 DEF Started
        <4>4. confirmed' = confirmed
          BY <2>4, <3>2, <4>1
        <4>5. Promise!Declare(r, i)
          BY <2>4, <4>3, <4>4 DEF Promise!Declare
        <4>. QED
          BY <4>5 DEF Promise!AbstractNext
      <3>3. CASE /\ journal[r].status \in {"attempting", "reconciliation_required"}
                 /\ \E x \in Marked(journal[r].intent) :
                      journal'[r] = [journal[r] EXCEPT !.status = "completed", !.receipt = x]
        <4>1. PICK x \in Marked(journal[r].intent) :
                  journal'[r] = [journal[r] EXCEPT !.status = "completed", !.receipt = x]
          BY <3>3
        <4>2. /\ journal'[r].status = "completed" /\ journal'[r].intent = journal[r].intent
          BY <3>1, <4>1 DEF Record
        <4>3. PICK i \in Intents : i = journal[r].intent
          BY <3>1, <3>3 DEF IInv, KeysOK, Record
        <4>4. declared' = declared /\ declared[r] = i
          BY <2>4, <3>3, <4>2, <4>3 DEF Started
        <4>5. r \notin confirmed /\ confirmed' = confirmed \cup {r}
          BY <2>4, <3>3, <4>2
        <4>6. \E s \in Rows : created[<<s, i>>] > 0
          BY <4>3 DEF Marked, PullRequests
        <4>7. Promise!Confirm(r, i)
          BY <2>4, <4>4, <4>5, <4>6 DEF Promise!Confirm
        <4>. QED
          BY <4>7 DEF Promise!AbstractNext
      <3>4. CASE /\ journal[r].status \in Started <=> journal'[r].status \in Started
                 /\ journal[r].status \in Started => journal'[r].intent = journal[r].intent
                 /\ journal[r].status = "completed" <=> journal'[r].status = "completed"
        <4>1. declared' = declared /\ confirmed' = confirmed
          BY <2>4, <3>4
        <4>. QED
          BY <2>4, <4>1 DEF Promise!abstractVars
      <3>. QED
        BY <2>4, <3>1, <3>2, <3>3, <3>4 DEF RowStep, Started, Record
    <2>. QED
      BY <2>2, <2>3, <2>4, StepShape DEF JournalAction, ProviderAction
  <1>. QED
    BY <1>1, <1>2, Invariance, PTL DEF Spec, Implements, Promise!AbstractSpec
\* What a step does to the provider: it is none of a worker's business, or a publisher's.
LEMMA ProviderShape ==
    ASSUME TypeOK, [Next]_vars
    PROVE  \/ UNCHANGED <<provider, wire>>
           \/ UNCHANGED run
           \/ \E w \in Workers : /\ run[w].pc \in {"create_ref", "put", "post"}
                                 /\ \A v \in Workers : v # w => run'[v] = run[v]
  <1>0. DOMAIN run = Workers
    BY DEF TypeOK
  <1>1. CASE UNCHANGED vars
    BY <1>1 DEF vars, provider, wire
  <1>2. ASSUME NEW w \in Workers, Publishing(w)
        PROVE  \/ UNCHANGED <<provider, wire>>
               \/ /\ run[w].pc \in {"create_ref", "put", "post"}
                  /\ \A v \in Workers : v # w => run'[v] = run[v]
    <2>1. CASE \E r \in Rows, i \in Intents : StartPublication(w, r, i)
      BY <2>1 DEF StartPublication
    <2>2. CASE Prepare(w) \/ Insert(w) \/ Execute(w) \/ MarkAttempting(w)
      BY <2>2 DEF Prepare, Insert, Execute, MarkAttempting
    <2>3. CASE ReadBaseFiles(w) \/ ReadRef(w) \/ \E f \in Files : CompareFile(w, f)
      BY <2>3 DEF ReadBaseFiles, ReadRef, CompareFile
    <2>4. CASE CreateRef(w)
      BY <1>0, <2>4 DEF CreateRef, At, Goto
    <2>5. ASSUME NEW f \in Files, PutFile(w, f)
          PROVE  /\ run[w].pc \in {"create_ref", "put", "post"}
                 /\ \A v \in Workers : v # w => run'[v] = run[v]
      BY <1>0, <2>5 DEF PutFile, At, Goto
    <2>6. CASE PostPullRequest(w)
      BY <1>0, <2>6 DEF PostPullRequest, At, Goto
    <2>7. CASE ListPullRequests(w) \/ MarkCompleted(w) \/ HandleFailure(w) \/ ReadReceipt(w)
      BY <2>7 DEF ListPullRequests, MarkCompleted, HandleFailure, ReadReceipt
    <2>. QED
      BY <1>2, <2>1, <2>2, <2>3, <2>4, <2>5, <2>6, <2>7 DEF Publishing
  <1>3. ASSUME NEW w \in Workers, Recovering(w)
        PROVE  UNCHANGED <<provider, wire>>
    <2>1. CASE Recover(w) \/ RecoverLookup(w) \/ RecoverComplete(w) \/ RecoverFlag(w)
      BY <2>1 DEF Recover, RecoverLookup, RecoverComplete, RecoverFlag
    <2>2. CASE Settle(w) \/ SettleFlag(w) \/ VerifyRef(w) \/ \E f \in Files : VerifyFile(w, f)
      BY <2>2 DEF Settle, SettleFlag, VerifyRef, VerifyFile
    <2>. QED
      BY <1>3, <2>1, <2>2 DEF Recovering
  <1>4. ASSUME NEW w \in Workers, Reconciling(w)
        PROVE  UNCHANGED <<provider, wire>>
    BY <1>4 DEF Reconciling, StartReconciliation, RecheckRow, OpenReadOnlyChannel, Lookup,
                MarkCompletedFromReconciliation, RecordVerifiedFileReconciliation
  <1>5. CASE Environment
    <2>1. CASE Tick \/ \E w \in Workers : Crash(w) \/ JournalFault(w)
      BY <2>1 DEF Tick, Crash, JournalFault
    <2>2. CASE \/ \E i \in Intents : DeliverRef(i) \/ \E f \in Files : DeliverPut(i, f)
               \/ \E x \in PullRequests : DeliverPost(x)
               \/ LoseRequest
      BY <2>2 DEF DeliverRef, DeliverPut, DeliverPost, LoseRequest
    <2>. QED
      BY <1>5, <2>1, <2>2 DEF Environment
  <1>. QED
    BY <1>1, <1>2, <1>3, <1>4, <1>5 DEF Next

\* A reconciler reads: none of its steps asks anything of the provider, and nothing the
\* provider does changes it.
THEOREM ReconcilerReads == Spec => ReconcilerNeverWrites
  <1>. DEFINE A == \A w \in Workers :
                run[w].role = "reconciler" /\ run'[w] # run[w] => UNCHANGED <<provider, wire>>
  <1>1. IInv /\ [Next]_vars => A
    <2>. SUFFICES ASSUME IInv, [Next]_vars,
                         NEW v \in Workers, run[v].role = "reconciler", run'[v] # run[v]
                  PROVE  UNCHANGED <<provider, wire>>
      OBVIOUS
    <2>1. ASSUME NEW w \in Workers, run[w].pc \in {"create_ref", "put", "post"},
                 \A u \in Workers : u # w => run'[u] = run[u]
          PROVE  FALSE
      <3>1. v = w
        BY <2>1
      <3>2. run[w].role = "publisher"
        BY <2>1 DEF IInv, WorkerInv, RoleOK, PublisherSteps
      <3>. QED
        BY <3>1, <3>2
    <2>. QED
      BY <2>1, ProviderShape DEF IInv
  <1>2. IInv /\ [Next]_vars => [A]_vars
    BY <1>1
  <1>. QED
    BY <1>2, Invariance, PTL DEF Spec, ReconcilerNeverWrites
=============================================================================
