--------------------------- MODULE ExecutionProofs ---------------------------
(***************************************************************************)
(* The executions that share a stage, for any number of commands, any      *)
(* options, pinned files, documents a model may write and changes of the   *)
(* source directories.                                                     *)
(***************************************************************************)
EXTENDS Execution, TLAPS

----------------------------------------------------------------------------
(* What is read is what was pinned                                         *)

\* A REST read ends in the pinned files or in none, whatever its calls returned:
\* the commit names the tree, the tree its entries, an entry its content.
THEOREM RestReadIsPinned ==
    ASSUME NEW a \in RestAnswers
    PROVE  ReadSnapshotContents(a) \in {Base, NoSnapshot}
  <1>. SUFFICES ASSUME ReadSnapshotContents(a) # NoSnapshot
                PROVE  ReadSnapshotContents(a) = Base
    OBVIOUS
  <1>1. /\ ReadSnapshotContents(a) = RestFiles(a)
        /\ CommitClaim(a) /\ CommitObject(a) /\ TreeClaim(a)
        /\ \A e \in a.entries : BlobClaim(e, ContentOf(a.bodies, e.path))
    BY DEF ReadSnapshotContents, RawCommit
  <1>2. a.tree = Listing(Base)
    BY <1>1 DEF CommitClaim, CommitObject, Commit, TreeOid
  <1>3. a.entries = Listing(Base)
    BY <1>1, <1>2 DEF TreeClaim, TreeOid
  <1>4. \A e \in a.entries : ContentOf(a.bodies, e.path) = e.sha
    BY <1>1 DEF BlobClaim, BlobOid
  <1>5. RestFiles(a) = {[path |-> e.path, mode |-> e.mode, content |-> e.sha] : e \in Listing(Base)}
    BY <1>3, <1>4 DEF RestFiles
  <1>6. \A f \in Base : f = [path |-> f.path, mode |-> f.mode, content |-> f.content]
    BY FilesAssumption DEF Trees
  <1>7. {[path |-> e.path, mode |-> e.mode, content |-> e.sha] : e \in Listing(Base)} = Base
    <2>. DEFINE Entry(f) == [path |-> f.path, mode |-> f.mode, sha |-> f.content]
                Read(e) == [path |-> e.path, mode |-> e.mode, content |-> e.sha]
    <2>1. Listing(Base) = {Entry(f) : f \in Base}
      BY DEF Listing, BlobOid
    <2>2. \A f \in Base : Read(Entry(f)) = f
      BY <1>6
    <2>. HIDE DEF Entry, Read
    <2>3. {Read(e) : e \in Listing(Base)} = Base
      BY <2>1, <2>2
    <2>. QED
      BY <2>3 DEF Read
  <1>. QED
    BY <1>1, <1>5, <1>7

\* Nor does an archive end in other files (github_archive_snapshot.py).
LEMMA FetchedIsPinned ==
    ASSUME NEW origin, NEW files \in Fetched(origin)
    PROVE  files \in {Base, NoSnapshot}
  BY RestReadIsPinned DEF Fetched, ReadArchive

\* The digest of a tree tells trees apart.
LEMMA DigestIsInjective ==
    ASSUME NEW files \in Trees \cup {NoSnapshot}, TreeDigest(files) = TreeDigest(Base)
    PROVE  files = Base
  <1>1. \A t \in Trees \cup {NoSnapshot} : TreeDigest(t) = t
    BY FilesAssumption DEF TreeDigest, NoSnapshot
  <1>. QED
    BY <1>1 DEF Trees

----------------------------------------------------------------------------
(* The inductive invariant                                                 *)

SourceTrees == Trees \cup {NoSnapshot}

Steps == DOMAIN After \cup {"permit", "fetch", "start_worker", "check_worker", "call_model", "bind",
                            "save", "unwind", "finish", "close", "exited", "crashed"}

\* Documents and workspaces are members of some set D.
BoxType(D) == [Boxes -> [state : BoxStates, snapshot : D, workspace : D]]
CommandType(D) ==
    [step : Steps, mode : Modes, permit : {"none", "ready", "fresh", "stale", "spent"},
     held : SUBSET Held, open : BOOLEAN, source : SourceTrees, box : BoxType(D),
     worker : WorkerStates, doc : D, result : {"none", "verified", "failed", "declined"}]
Typed(r) == \E D : r \in CommandType(D)

\* The steps from one on, in the order of the code.
Closing == {"unwind", "finish", "close", "exited"}
FromSave == {"save", "insert", "load"}
FromInput == {"input", "verify", "build"} \cup FromSave
FromTests == {"tests", "bind_prepared", "replay_snapshot", "replay_workspace", "replay_run",
              "check_replay", "replay", "close_replay"} \cup FromInput
FromValidate == {"validate", "apply"} \cup FromTests
Working == {"start_worker", "check_worker", "call_model", "cleanup", "validate", "apply"}
FromBind == {"bind"} \cup Working \cup FromTests
FromFetch == {"fetch", "pin", "materialize", "request", "prep_snapshot", "prep_workspace",
              "prep_run"} \cup FromBind
Before == {"paths", "confirm", "journal", "readiness", "permit", "preflight", "runtime",
           "authorize", "fetch", "pin", "materialize", "request", "prep_snapshot",
           "prep_workspace", "prep_run", "bind", "start_worker"}
BeforeReplay == Before \cup Working \cup
                {"tests", "bind_prepared", "replay_snapshot", "replay_workspace", "replay_run"}

\* The boxes that are up are the ones held, one that is copied is being created.
BoxesOK(r) ==
    /\ \A b \in Boxes : r.box[b].state = "up" <=> b \in r.held
    /\ \A b \in Boxes : r.box[b].state = "copied" => r.step \in {CopyWorkspaceStep[b], RunStep[b]}
    /\ r.box["replay"].workspace \in SourceTrees
    /\ r.step \in Before \ {"bind", "start_worker"} => "prep" \notin r.held
    /\ r.step \in BeforeReplay => "replay" \notin r.held
    /\ r.step \in FromBind => "prep" \in r.held
    /\ r.step \in Working => r.box["prep"].snapshot = Base
    /\ r.step = "replay" => r.box["replay"].workspace = Base
    /\ r.step \in FromInput => r.box["replay"].state = "closed"

WorkerOK(r) ==
    /\ r.step \in Before => r.worker = "none"
    /\ r.step \in {"start_worker", "check_worker"} => r.mode.worker = "container"
    /\ r.step = "call_model" => r.mode.worker = "container" \/ r.worker = "none"
    /\ r.step \in FromValidate => r.worker \in {"none", "gone"}

Replayed(contents, rep) == <<contents, Base>> \in rep
PassedInput(contents, staged, pas) ==
    [contents |-> contents, staged |-> staged, files |-> Base] \in pas

\* What StagedIsVerified says of a row, of an artifact that is not saved yet.
ArtifactOK(x, rep, pas) ==
    /\ x.staged.patch = RenderPatch(Base, x.contents)
    /\ Replayed(x.contents, rep)
    /\ PassedInput(x.contents, x.staged, pas)
    /\ x.receipt.signed => HostTrusted(x.receipt)
    /\ ~CredentialShaped(x.contents)

\* What each step knows of the document it works on.
DocOK(r, rep, pas) ==
    /\ r.step \in FromTests \ FromSave =>
           r.doc.prepared.patch = RenderPatch(Base, r.doc.prepared.contents)
    /\ r.step \in {"close_replay"} \cup (FromInput \ FromSave) =>
           Replayed(r.doc.prepared.contents, rep)
    /\ r.step = "verify" => r.doc.input = VerifierInput(r.doc.prepared, Base)
    /\ r.step = "build" =>
           /\ r.doc.answer.input = VerifierInput(r.doc.prepared, Base)
           /\ r.doc.answer.input \in pas
           /\ r.doc.answer.receipt.signed => HostTrusted(r.doc.answer.receipt)
    /\ r.step \in FromSave => ArtifactOK(r.doc.artifact, rep, pas)

\* What a command that says verified may still rely on.
ResultOK(r, st) ==
    /\ r.result # "none" => r.step \in Closing \cup {"crashed"}
    /\ r.result = "verified" =>
           /\ r.step \in Closing
           /\ Row(r.doc.artifact) \in st
           /\ r.permit = "spent"
           /\ r.worker \in {"none", "gone"}
           /\ \A b \in Boxes : r.box[b].state = "closed" \/ b \in r.held
           /\ r.step \in {"close", "exited"} => ~r.open

CommandOK(r, ex, st, rep, pas) ==
    /\ Typed(r)
    /\ r.open => r.mode.journal
    /\ r.step \in FromFetch => ex
    /\ r.step \in FromFetch => r.permit = "spent"
    /\ r.step = "authorize" => ex
    /\ r.step = "exited" => r.held = {}
    /\ BoxesOK(r)
    /\ WorkerOK(r)
    /\ DocOK(r, rep, pas)
    /\ ResultOK(r, st)

UniqueKeys == \A r, s \in stage : r.key = s.key => r = s

EInv ==
    /\ cmd = [c \in Commands |-> cmd[c]]
    /\ \A c \in Commands : cmd[c].mode \in ModeOf[c]
    /\ \A c \in Commands : CommandOK(cmd[c], exists, stage, replayed, passed)
    /\ writer \in Commands \cup {NoCommand}
    /\ writer # NoCommand => cmd[writer].step = "insert"
    /\ stage # {} => exists
    /\ changes \in 0..MaxChanges
    /\ StagedIsVerified
    /\ UniqueKeys

----------------------------------------------------------------------------
(* One command                                                             *)

\* A failure is safe from wherever no box is half made.
LEMMA AbortOK ==
    ASSUME NEW r, Typed(r), r.open => r.mode.journal,
           \A b \in Boxes : r.box[b].state = "up" <=> b \in r.held,
           \A b \in Boxes : r.box[b].state # "copied",
           NEW ex, NEW st, NEW rep, NEW pas
    PROVE  /\ CommandOK(Aborted(r), ex, st, rep, pas)
           /\ Aborted(r).mode = r.mode
           /\ Aborted(r).step = "unwind"
  <1>1. PICK D : r \in CommandType(D)
    BY DEF Typed
  <1>. DEFINE DD == D \cup {NoSnapshot, NoDoc}
  <1>2. [b \in Boxes |-> [NoBox EXCEPT !.state = r.box[b].state]] \in BoxType(DD)
    BY <1>1 DEF CommandType, NoBox, BoxType
  <1>3. Aborted(r) \in CommandType(DD)
    BY <1>1, <1>2 DEF CommandType, Aborted, WorkerStates, SourceTrees, Steps, Held
  <1>4. /\ Aborted(r).step = "unwind" /\ Aborted(r).result = "failed"
        /\ Aborted(r).held = r.held /\ Aborted(r).open = r.open /\ Aborted(r).mode = r.mode
        /\ Aborted(r).worker = "none"
        /\ Aborted(r).box = [b \in Boxes |-> [NoBox EXCEPT !.state = r.box[b].state]]
    BY <1>1 DEF CommandType, Aborted
  <1>5. \A b \in Boxes : Aborted(r).box[b].state = r.box[b].state
    BY <1>4 DEF NoBox
  <1>6. Aborted(r).box["replay"].workspace \in SourceTrees
    BY <1>4 DEF NoBox, Boxes, SourceTrees
  <1>7. BoxesOK(Aborted(r))
    BY <1>4, <1>5, <1>6 DEF BoxesOK, Before, BeforeReplay, FromBind, FromTests, FromInput,
         FromSave, Working
  <1>. QED
    BY <1>3, <1>4, <1>7 DEF CommandOK, Typed, WorkerOK, DocOK, ResultOK, Closing, Before,
         FromFetch, FromBind, FromTests, FromInput, FromSave, FromValidate, Working

Copying == {"prep_workspace", "prep_run", "replay_workspace", "replay_run"}

\* Only while a sandbox is being created is there a box without its container.
LEMMA NotCopying ==
    ASSUME NEW r, NEW ex, NEW st, NEW rep, NEW pas, CommandOK(r, ex, st, rep, pas),
           r.step \notin Copying, NEW b \in Boxes
    PROVE  r.box[b].state # "copied"
  BY DEF CommandOK, BoxesOK, Copying, CopyWorkspaceStep, RunStep, Boxes

----------------------------------------------------------------------------
(* Where each step leads: one lemma for what a command becomes             *)

\* The steps that only lead to the next one.
LEMMA AdvanceOK ==
    ASSUME NEW r, NEW ex, NEW st, NEW rep, NEW pas, CommandOK(r, ex, st, rep, pas),
           r.step \in {"paths", "confirm", "journal", "preflight", "pin", "request", "validate",
                       "tests", "bind_prepared", "insert"}
    PROVE  LET q == [r EXCEPT !.step = After[r.step]]
           IN CommandOK(q, ex, st, rep, pas) /\ q.mode = r.mode
  <1>. DEFINE q == [r EXCEPT !.step = After[r.step]]
  <1>1. PICK D : r \in CommandType(D)
    BY DEF CommandOK, Typed
  <1>2. q \in CommandType(D)
    BY <1>1 DEF CommandType, Steps, After
  <1>3. /\ q.step = After[r.step] /\ q.mode = r.mode /\ q.permit = r.permit /\ q.held = r.held
        /\ q.open = r.open /\ q.source = r.source /\ q.box = r.box /\ q.worker = r.worker
        /\ q.doc = r.doc /\ q.result = r.result
    BY <1>1 DEF CommandType, BoxType, Boxes
  <1>. HIDE DEF q
  <1>4. BoxesOK(q)
    BY <1>1, <1>3 DEF CommandOK, BoxesOK, After, Before, BeforeReplay, FromBind, FromTests,
         FromInput, FromSave, Working, CopyWorkspaceStep, RunStep, Boxes
  <1>5. WorkerOK(q)
    BY <1>3 DEF CommandOK, WorkerOK, After, Before, FromValidate, FromTests, FromInput, FromSave
  <1>6. DocOK(q, rep, pas)
    BY <1>3 DEF CommandOK, DocOK, After, FromTests, FromInput, FromSave
  <1>7. ResultOK(q, st)
    BY <1>1, <1>3 DEF CommandOK, CommandType, ResultOK, Closing, After, Boxes
  <1>8. CommandOK(q, ex, st, rep, pas)
    BY <1>2, <1>3, <1>4, <1>5, <1>6, <1>7 DEF CommandOK, Typed, After, FromFetch, FromBind,
         Working, FromTests, FromInput, FromSave
  <1>. QED
    BY <1>3, <1>8 DEF q

\* The journal is open.
LEMMA OpenJournalOK ==
    ASSUME NEW r, NEW ex, NEW st, NEW rep, NEW pas, CommandOK(r, ex, st, rep, pas),
           r.step = "journal"
    PROVE  LET q == [[r EXCEPT !.step = After[r.step]] EXCEPT !.held = {"journal"}]
           IN CommandOK(q, ex, st, rep, pas) /\ q.mode = r.mode
  <1>. DEFINE q == [[r EXCEPT !.step = After[r.step]] EXCEPT !.held = {"journal"}]
  <1>1. PICK D : r \in CommandType(D)
    BY DEF CommandOK, Typed
  <1>a. After[r.step] = "readiness" /\ "readiness" \in Steps
    BY DEF After, Steps
  <1>2. q \in CommandType(D)
    BY <1>1, <1>a DEF CommandType, Held
  <1>3. /\ q.step = "readiness" /\ q.mode = r.mode /\ q.permit = r.permit /\ q.held = {"journal"}
        /\ q.open = r.open /\ q.source = r.source /\ q.box = r.box /\ q.worker = r.worker
        /\ q.doc = r.doc /\ q.result = r.result
    BY <1>1, <1>a DEF CommandType, BoxType, Boxes
  <1>. HIDE DEF q
  <1>4. BoxesOK(q)
    BY <1>1, <1>3 DEF CommandOK, BoxesOK, After, Before, BeforeReplay, FromBind, FromTests,
         FromInput, FromSave, Working, CopyWorkspaceStep, RunStep, Boxes
  <1>5. WorkerOK(q)
    BY <1>3 DEF CommandOK, WorkerOK, After, Before, FromValidate, FromTests, FromInput, FromSave
  <1>6. DocOK(q, rep, pas)
    BY <1>3 DEF CommandOK, DocOK, After, FromTests, FromInput, FromSave
  <1>7. ResultOK(q, st)
    BY <1>1, <1>3 DEF CommandOK, CommandType, ResultOK, Closing, After, Boxes
  <1>8. CommandOK(q, ex, st, rep, pas)
    BY <1>2, <1>3, <1>4, <1>5, <1>6, <1>7 DEF CommandOK, Typed, After, FromFetch, FromBind,
         Working, FromTests, FromInput, FromSave
  <1>. QED
    BY <1>3, <1>8 DEF q

\* The readiness of GitHub is known.
LEMMA ReadinessOK ==
    ASSUME NEW r, NEW ex, NEW st, NEW rep, NEW pas, CommandOK(r, ex, st, rep, pas),
           r.step = "readiness",
           NEW p \in {"ready", "none"}
    PROVE  LET q == [[r EXCEPT !.step = After[r.step]] EXCEPT !.permit = p]
           IN CommandOK(q, ex, st, rep, pas) /\ q.mode = r.mode
  <1>. DEFINE q == [[r EXCEPT !.step = After[r.step]] EXCEPT !.permit = p]
  <1>1. PICK D : r \in CommandType(D)
    BY DEF CommandOK, Typed
  <1>a. After[r.step] = "permit" /\ "permit" \in Steps
    BY DEF After, Steps
  <1>2. q \in CommandType(D)
    BY <1>1, <1>a DEF CommandType
  <1>3. /\ q.step = "permit" /\ q.mode = r.mode /\ q.permit = p /\ q.held = r.held
        /\ q.open = r.open /\ q.source = r.source /\ q.box = r.box /\ q.worker = r.worker
        /\ q.doc = r.doc /\ q.result = r.result
    BY <1>1, <1>a DEF CommandType, BoxType, Boxes
  <1>. HIDE DEF q
  <1>4. BoxesOK(q)
    BY <1>1, <1>3 DEF CommandOK, BoxesOK, After, Before, BeforeReplay, FromBind, FromTests,
         FromInput, FromSave, Working, CopyWorkspaceStep, RunStep, Boxes
  <1>5. WorkerOK(q)
    BY <1>3 DEF CommandOK, WorkerOK, After, Before, FromValidate, FromTests, FromInput, FromSave
  <1>6. DocOK(q, rep, pas)
    BY <1>3 DEF CommandOK, DocOK, After, FromTests, FromInput, FromSave
  <1>7. ResultOK(q, st)
    BY <1>1, <1>3 DEF CommandOK, CommandType, ResultOK, Closing, After, Boxes
  <1>8. CommandOK(q, ex, st, rep, pas)
    BY <1>2, <1>3, <1>4, <1>5, <1>6, <1>7 DEF CommandOK, Typed, After, FromFetch, FromBind,
         Working, FromTests, FromInput, FromSave
  <1>. QED
    BY <1>3, <1>8 DEF q

\* The permit is issued.
LEMMA IssuePermitOK ==
    ASSUME NEW r, NEW ex, NEW st, NEW rep, NEW pas, CommandOK(r, ex, st, rep, pas),
           r.step = "permit",
           NEW n \in {"preflight", "runtime"}
    PROVE  LET q == [r EXCEPT !.permit = "fresh", !.step = n]
           IN CommandOK(q, ex, st, rep, pas) /\ q.mode = r.mode
  <1>. DEFINE q == [r EXCEPT !.permit = "fresh", !.step = n]
  <1>1. PICK D : r \in CommandType(D)
    BY DEF CommandOK, Typed
  <1>z. n \in Steps
    BY DEF Steps, After
  <1>2. q \in CommandType(D)
    BY <1>1, <1>z, ZenonT(60) DEF CommandType
  <1>3. /\ q.step = n /\ q.mode = r.mode /\ q.permit = "fresh" /\ q.held = r.held
        /\ q.open = r.open /\ q.source = r.source /\ q.box = r.box /\ q.worker = r.worker
        /\ q.doc = r.doc /\ q.result = r.result
    BY <1>1 DEF CommandType, BoxType, Boxes
  <1>. HIDE DEF q
  <1>4. BoxesOK(q)
    BY <1>1, <1>3 DEF CommandOK, BoxesOK, After, Before, BeforeReplay, FromBind, FromTests,
         FromInput, FromSave, Working, CopyWorkspaceStep, RunStep, Boxes
  <1>5. WorkerOK(q)
    BY <1>3 DEF CommandOK, WorkerOK, After, Before, FromValidate, FromTests, FromInput, FromSave
  <1>6. DocOK(q, rep, pas)
    BY <1>3 DEF CommandOK, DocOK, After, FromTests, FromInput, FromSave
  <1>7. ResultOK(q, st)
    BY <1>1, <1>3 DEF CommandOK, CommandType, ResultOK, Closing, After, Boxes
  <1>8. CommandOK(q, ex, st, rep, pas)
    BY <1>2, <1>3, <1>4, <1>5, <1>6, <1>7 DEF CommandOK, Typed, After, FromFetch, FromBind,
         Working, FromTests, FromInput, FromSave
  <1>. QED
    BY <1>3, <1>8 DEF q

\* The permit gets too old before it is spent.
LEMMA PermitAgesOK ==
    ASSUME NEW r, NEW ex, NEW st, NEW rep, NEW pas, CommandOK(r, ex, st, rep, pas),
           r.permit \in {"ready", "fresh"}
    PROVE  LET q == [r EXCEPT !.permit = "stale"]
           IN CommandOK(q, ex, st, rep, pas) /\ q.mode = r.mode
  <1>. DEFINE q == [r EXCEPT !.permit = "stale"]
  <1>1. PICK D : r \in CommandType(D)
    BY DEF CommandOK, Typed
  <1>2. q \in CommandType(D)
    BY <1>1 DEF CommandType, Steps, After
  <1>3. /\ q.step = r.step /\ q.mode = r.mode /\ q.permit = "stale" /\ q.held = r.held
        /\ q.open = r.open /\ q.source = r.source /\ q.box = r.box /\ q.worker = r.worker
        /\ q.doc = r.doc /\ q.result = r.result
    BY <1>1 DEF CommandType, BoxType, Boxes
  <1>. HIDE DEF q
  <1>4. BoxesOK(q)
    BY <1>1, <1>3 DEF CommandOK, BoxesOK, After, Before, BeforeReplay, FromBind, FromTests,
         FromInput, FromSave, Working, CopyWorkspaceStep, RunStep, Boxes
  <1>5. WorkerOK(q)
    BY <1>3 DEF CommandOK, WorkerOK, After, Before, FromValidate, FromTests, FromInput, FromSave
  <1>6. DocOK(q, rep, pas)
    BY <1>3 DEF CommandOK, DocOK, After, FromTests, FromInput, FromSave
  <1>7. ResultOK(q, st)
    BY <1>1, <1>3 DEF CommandOK, CommandType, ResultOK, Closing, After, Boxes
  <1>8. CommandOK(q, ex, st, rep, pas)
    BY <1>2, <1>3, <1>4, <1>5, <1>6, <1>7 DEF CommandOK, Typed, After, FromFetch, FromBind,
         Working, FromTests, FromInput, FromSave
  <1>. QED
    BY <1>3, <1>8 DEF q

\* The stage is open.
LEMMA OpenStageOK ==
    ASSUME NEW r, NEW ex, NEW st, NEW rep, NEW pas, CommandOK(r, ex, st, rep, pas),
           r.step = "runtime",
           ex = TRUE
    PROVE  LET q == [[r EXCEPT !.step = After[r.step]] EXCEPT !.held = @ \cup {"stage"}]
           IN CommandOK(q, ex, st, rep, pas) /\ q.mode = r.mode
  <1>. DEFINE q == [[r EXCEPT !.step = After[r.step]] EXCEPT !.held = @ \cup {"stage"}]
  <1>1. PICK D : r \in CommandType(D)
    BY DEF CommandOK, Typed
  <1>a. After[r.step] = "authorize" /\ "authorize" \in Steps
    BY DEF After, Steps
  <1>2. q \in CommandType(D)
    BY <1>1, <1>a DEF CommandType, Held
  <1>3. /\ q.step = "authorize" /\ q.mode = r.mode /\ q.permit = r.permit
        /\ q.held = r.held \cup {"stage"}
        /\ q.open = r.open /\ q.source = r.source /\ q.box = r.box /\ q.worker = r.worker
        /\ q.doc = r.doc /\ q.result = r.result
    BY <1>1, <1>a DEF CommandType, BoxType, Boxes
  <1>. HIDE DEF q
  <1>4. BoxesOK(q)
    BY <1>1, <1>3 DEF CommandOK, BoxesOK, After, Before, BeforeReplay, FromBind, FromTests,
         FromInput, FromSave, Working, CopyWorkspaceStep, RunStep, Boxes
  <1>5. WorkerOK(q)
    BY <1>3 DEF CommandOK, WorkerOK, After, Before, FromValidate, FromTests, FromInput, FromSave
  <1>6. DocOK(q, rep, pas)
    BY <1>3 DEF CommandOK, DocOK, After, FromTests, FromInput, FromSave
  <1>7. ResultOK(q, st)
    BY <1>1, <1>3 DEF CommandOK, CommandType, ResultOK, Closing, After, Boxes
  <1>8. CommandOK(q, ex, st, rep, pas)
    BY <1>2, <1>3, <1>4, <1>5, <1>6, <1>7 DEF CommandOK, Typed, After, FromFetch, FromBind,
         Working, FromTests, FromInput, FromSave
  <1>. QED
    BY <1>3, <1>8 DEF q

\* The permit is spent.
LEMMA AuthorizeOK ==
    ASSUME NEW r, NEW ex, NEW st, NEW rep, NEW pas, CommandOK(r, ex, st, rep, pas),
           r.step = "authorize"
    PROVE  LET q == [[r EXCEPT !.permit = "spent"] EXCEPT !.step = "fetch"]
           IN CommandOK(q, ex, st, rep, pas) /\ q.mode = r.mode
  <1>. DEFINE q == [[r EXCEPT !.permit = "spent"] EXCEPT !.step = "fetch"]
  <1>1. PICK D : r \in CommandType(D)
    BY DEF CommandOK, Typed
  <1>z. "fetch" \in Steps
    BY DEF Steps, After
  <1>2. q \in CommandType(D)
    BY <1>1, <1>z, ZenonT(60) DEF CommandType
  <1>3. /\ q.step = "fetch" /\ q.mode = r.mode /\ q.permit = "spent" /\ q.held = r.held
        /\ q.open = r.open /\ q.source = r.source /\ q.box = r.box /\ q.worker = r.worker
        /\ q.doc = r.doc /\ q.result = r.result
    BY <1>1 DEF CommandType, BoxType, Boxes
  <1>. HIDE DEF q
  <1>4. BoxesOK(q)
    BY <1>1, <1>3 DEF CommandOK, BoxesOK, After, Before, BeforeReplay, FromBind, FromTests,
         FromInput, FromSave, Working, CopyWorkspaceStep, RunStep, Boxes
  <1>5. WorkerOK(q)
    BY <1>3 DEF CommandOK, WorkerOK, After, Before, FromValidate, FromTests, FromInput, FromSave
  <1>6. DocOK(q, rep, pas)
    BY <1>3 DEF CommandOK, DocOK, After, FromTests, FromInput, FromSave
  <1>7. ResultOK(q, st)
    BY <1>1, <1>3 DEF CommandOK, CommandType, ResultOK, Closing, After, Boxes
  <1>8. CommandOK(q, ex, st, rep, pas)
    BY <1>2, <1>3, <1>4, <1>5, <1>6, <1>7 DEF CommandOK, Typed, After, FromFetch, FromBind,
         Working, FromTests, FromInput, FromSave
  <1>. QED
    BY <1>3, <1>8 DEF q

\* The pinned files, whichever they are, have been read.
LEMMA FetchOK ==
    ASSUME NEW r, NEW ex, NEW st, NEW rep, NEW pas, CommandOK(r, ex, st, rep, pas),
           r.step = "fetch",
           NEW files \in SourceTrees
    PROVE  LET q == [r EXCEPT !.step = "pin", !.source = files]
           IN CommandOK(q, ex, st, rep, pas) /\ q.mode = r.mode
  <1>. DEFINE q == [r EXCEPT !.step = "pin", !.source = files]
  <1>1. PICK D : r \in CommandType(D)
    BY DEF CommandOK, Typed
  <1>2. q \in CommandType(D)
    BY <1>1 DEF CommandType, Steps, After
  <1>3. /\ q.step = "pin" /\ q.mode = r.mode /\ q.permit = r.permit /\ q.held = r.held
        /\ q.open = r.open /\ q.source = files /\ q.box = r.box /\ q.worker = r.worker
        /\ q.doc = r.doc /\ q.result = r.result
    BY <1>1 DEF CommandType, BoxType, Boxes
  <1>. HIDE DEF q
  <1>4. BoxesOK(q)
    BY <1>1, <1>3 DEF CommandOK, BoxesOK, After, Before, BeforeReplay, FromBind, FromTests,
         FromInput, FromSave, Working, CopyWorkspaceStep, RunStep, Boxes
  <1>5. WorkerOK(q)
    BY <1>3 DEF CommandOK, WorkerOK, After, Before, FromValidate, FromTests, FromInput, FromSave
  <1>6. DocOK(q, rep, pas)
    BY <1>3 DEF CommandOK, DocOK, After, FromTests, FromInput, FromSave
  <1>7. ResultOK(q, st)
    BY <1>1, <1>3 DEF CommandOK, CommandType, ResultOK, Closing, After, Boxes
  <1>8. CommandOK(q, ex, st, rep, pas)
    BY <1>2, <1>3, <1>4, <1>5, <1>6, <1>7 DEF CommandOK, Typed, After, FromFetch, FromBind,
         Working, FromTests, FromInput, FromSave
  <1>. QED
    BY <1>3, <1>8 DEF q

\* The files are on disk.
LEMMA MaterializeOK ==
    ASSUME NEW r, NEW ex, NEW st, NEW rep, NEW pas, CommandOK(r, ex, st, rep, pas),
           r.step = "materialize",
           NEW files \in SourceTrees
    PROVE  LET q == [[r EXCEPT !.step = After[r.step]]
                      EXCEPT !.held = @ \cup {"snapshot"}, !.source = files]
           IN CommandOK(q, ex, st, rep, pas) /\ q.mode = r.mode
  <1>. DEFINE q == [[r EXCEPT !.step = After[r.step]]
                     EXCEPT !.held = @ \cup {"snapshot"}, !.source = files]
  <1>1. PICK D : r \in CommandType(D)
    BY DEF CommandOK, Typed
  <1>a. After[r.step] = "request" /\ "request" \in Steps
    BY DEF After, Steps
  <1>2. q \in CommandType(D)
    BY <1>1, <1>a DEF CommandType, Held
  <1>3. /\ q.step = "request" /\ q.mode = r.mode /\ q.permit = r.permit
        /\ q.held = r.held \cup {"snapshot"}
        /\ q.open = r.open /\ q.source = files /\ q.box = r.box /\ q.worker = r.worker
        /\ q.doc = r.doc /\ q.result = r.result
    BY <1>1, <1>a DEF CommandType, BoxType, Boxes
  <1>. HIDE DEF q
  <1>4. BoxesOK(q)
    BY <1>1, <1>3 DEF CommandOK, BoxesOK, After, Before, BeforeReplay, FromBind, FromTests,
         FromInput, FromSave, Working, CopyWorkspaceStep, RunStep, Boxes
  <1>5. WorkerOK(q)
    BY <1>3 DEF CommandOK, WorkerOK, After, Before, FromValidate, FromTests, FromInput, FromSave
  <1>6. DocOK(q, rep, pas)
    BY <1>3 DEF CommandOK, DocOK, After, FromTests, FromInput, FromSave
  <1>7. ResultOK(q, st)
    BY <1>1, <1>3 DEF CommandOK, CommandType, ResultOK, Closing, After, Boxes
  <1>8. CommandOK(q, ex, st, rep, pas)
    BY <1>2, <1>3, <1>4, <1>5, <1>6, <1>7 DEF CommandOK, Typed, After, FromFetch, FromBind,
         Working, FromTests, FromInput, FromSave
  <1>. QED
    BY <1>3, <1>8 DEF q

\* Somebody rewrites them: nothing that is known of a command is about its source.
LEMMA TamperOK ==
    ASSUME NEW r, NEW ex, NEW st, NEW rep, NEW pas, CommandOK(r, ex, st, rep, pas),
           NEW files \in SourceTrees
    PROVE  LET q == [r EXCEPT !.source = files]
           IN CommandOK(q, ex, st, rep, pas) /\ q.mode = r.mode
  <1>. DEFINE q == [r EXCEPT !.source = files]
  <1>1. PICK D : r \in CommandType(D)
    BY DEF CommandOK, Typed
  <1>2. q \in CommandType(D)
    BY <1>1 DEF CommandType, Steps, After
  <1>3. /\ q.step = r.step /\ q.mode = r.mode /\ q.permit = r.permit /\ q.held = r.held
        /\ q.open = r.open /\ q.source = files /\ q.box = r.box /\ q.worker = r.worker
        /\ q.doc = r.doc /\ q.result = r.result
    BY <1>1 DEF CommandType, BoxType, Boxes
  <1>. HIDE DEF q
  <1>4. BoxesOK(q)
    BY <1>1, <1>3 DEF CommandOK, BoxesOK, After, Before, BeforeReplay, FromBind, FromTests,
         FromInput, FromSave, Working, CopyWorkspaceStep, RunStep, Boxes
  <1>5. WorkerOK(q)
    BY <1>3 DEF CommandOK, WorkerOK, After, Before, FromValidate, FromTests, FromInput, FromSave
  <1>6. DocOK(q, rep, pas)
    BY <1>3 DEF CommandOK, DocOK, After, FromTests, FromInput, FromSave
  <1>7. ResultOK(q, st)
    BY <1>1, <1>3 DEF CommandOK, CommandType, ResultOK, Closing, After, Boxes
  <1>8. CommandOK(q, ex, st, rep, pas)
    BY <1>2, <1>3, <1>4, <1>5, <1>6, <1>7 DEF CommandOK, Typed, After, FromFetch, FromBind,
         Working, FromTests, FromInput, FromSave
  <1>. QED
    BY <1>3, <1>8 DEF q

\* The snapshot is copied.
LEMMA CopySnapshotOK ==
    ASSUME NEW r, NEW ex, NEW st, NEW rep, NEW pas, CommandOK(r, ex, st, rep, pas),
           NEW b \in Boxes,
           r.step = CopySnapshotStep[b],
           NEW n, n = CopyWorkspaceStep[b]
    PROVE  LET q == [[r EXCEPT !.step = n]
                      EXCEPT !.box[b].state = "copied", !.box[b].snapshot = r.source]
           IN CommandOK(q, ex, st, rep, pas) /\ q.mode = r.mode
  <1>. DEFINE q == [[r EXCEPT !.step = n]
                     EXCEPT !.box[b].state = "copied", !.box[b].snapshot = r.source]
  <1>1. PICK D : r \in CommandType(D)
    BY DEF CommandOK, Typed
  <1>s. \/ b = "prep" /\ r.step = "prep_snapshot" /\ n = "prep_workspace"
        \/ b = "replay" /\ r.step = "replay_snapshot" /\ n = "replay_workspace"
    BY DEF Boxes, CopySnapshotStep, CopyWorkspaceStep, RunStep, After
  <1>b. [r.box EXCEPT ![b].state = "copied", ![b].snapshot = r.source]
        \in BoxType(D \cup {r.source})
    BY <1>1 DEF CommandType, BoxType, BoxStates
  <1>2. q \in CommandType(D \cup {r.source})
    BY <1>1, <1>b, <1>s DEF CommandType, Steps, After
  <1>3. /\ q.step = n /\ q.mode = r.mode /\ q.permit = r.permit /\ q.held = r.held
        /\ q.open = r.open /\ q.source = r.source /\ q.worker = r.worker /\ q.doc = r.doc
        /\ q.result = r.result
        /\ q.box[b].state = "copied" /\ q.box[b].workspace = r.box[b].workspace
        /\ \A x \in Boxes \ {b} : q.box[x] = r.box[x]
    BY <1>1 DEF CommandType, BoxType, Boxes
  <1>. HIDE DEF q
  <1>4. BoxesOK(q)
    BY <1>1, <1>3, <1>s DEF CommandOK, BoxesOK, After, Before, BeforeReplay, FromBind,
         FromTests, FromInput, FromSave, Working, CopyWorkspaceStep, RunStep, Boxes,
         CopySnapshotStep
  <1>5. WorkerOK(q)
    BY <1>3, <1>s DEF CommandOK, WorkerOK, After, Before, FromValidate, FromTests, FromInput,
         FromSave, CopySnapshotStep
  <1>6. DocOK(q, rep, pas)
    BY <1>3, <1>s DEF CommandOK, DocOK, After, FromTests, FromInput, FromSave, CopySnapshotStep
  <1>7. ResultOK(q, st)
    BY <1>1, <1>3, <1>s DEF CommandOK, CommandType, ResultOK, Closing, After, Boxes,
         CopySnapshotStep
  <1>8. CommandOK(q, ex, st, rep, pas)
    BY <1>2, <1>3, <1>4, <1>5, <1>6, <1>7, <1>s DEF CommandOK, Typed, After, FromFetch,
         FromBind, Working, FromTests, FromInput, FromSave, CopySnapshotStep
  <1>. QED
    BY <1>3, <1>8 DEF q

\* The workspace is copied.
LEMMA CopyWorkspaceOK ==
    ASSUME NEW r, NEW ex, NEW st, NEW rep, NEW pas, CommandOK(r, ex, st, rep, pas),
           NEW b \in Boxes,
           r.step = CopyWorkspaceStep[b],
           NEW n, n = RunStep[b]
    PROVE  LET q == [[r EXCEPT !.step = n] EXCEPT !.box[b].workspace = r.source]
           IN CommandOK(q, ex, st, rep, pas) /\ q.mode = r.mode
  <1>. DEFINE q == [[r EXCEPT !.step = n] EXCEPT !.box[b].workspace = r.source]
  <1>1. PICK D : r \in CommandType(D)
    BY DEF CommandOK, Typed
  <1>s. \/ b = "prep" /\ r.step = "prep_workspace" /\ n = "prep_run"
        \/ b = "replay" /\ r.step = "replay_workspace" /\ n = "replay_run"
    BY DEF Boxes, CopySnapshotStep, CopyWorkspaceStep, RunStep, After
  <1>b. [r.box EXCEPT ![b].workspace = r.source] \in BoxType(D \cup {r.source})
    BY <1>1 DEF CommandType, BoxType, BoxStates
  <1>2. q \in CommandType(D \cup {r.source})
    BY <1>1, <1>b, <1>s DEF CommandType, Steps, After
  <1>3. /\ q.step = n /\ q.mode = r.mode /\ q.permit = r.permit /\ q.held = r.held
        /\ q.open = r.open /\ q.source = r.source /\ q.worker = r.worker /\ q.doc = r.doc
        /\ q.result = r.result
        /\ q.box[b].state = r.box[b].state /\ q.box[b].snapshot = r.box[b].snapshot
        /\ q.box[b].workspace = r.source
        /\ \A x \in Boxes \ {b} : q.box[x] = r.box[x]
        /\ r.source \in SourceTrees
    BY <1>1 DEF CommandType, BoxType, Boxes
  <1>. HIDE DEF q
  <1>4. BoxesOK(q)
    BY <1>1, <1>3, <1>s DEF CommandOK, BoxesOK, After, Before, BeforeReplay, FromBind,
         FromTests, FromInput, FromSave, Working, CopyWorkspaceStep, RunStep, Boxes
  <1>5. WorkerOK(q)
    BY <1>3, <1>s DEF CommandOK, WorkerOK, After, Before, FromValidate, FromTests, FromInput,
         FromSave
  <1>6. DocOK(q, rep, pas)
    BY <1>3, <1>s DEF CommandOK, DocOK, After, FromTests, FromInput, FromSave
  <1>7. ResultOK(q, st)
    BY <1>1, <1>3, <1>s DEF CommandOK, CommandType, ResultOK, Closing, After, Boxes
  <1>8. CommandOK(q, ex, st, rep, pas)
    BY <1>2, <1>3, <1>4, <1>5, <1>6, <1>7, <1>s DEF CommandOK, Typed, After, FromFetch,
         FromBind, Working, FromTests, FromInput, FromSave
  <1>. QED
    BY <1>3, <1>8 DEF q

\* The container runs.
LEMMA RunContainerOK ==
    ASSUME NEW r, NEW ex, NEW st, NEW rep, NEW pas, CommandOK(r, ex, st, rep, pas),
           NEW b \in Boxes,
           r.step = RunStep[b],
           NEW n, n = After[RunStep[b]]
    PROVE  LET q == [[r EXCEPT !.step = n] EXCEPT !.box[b].state = "up", !.held = @ \cup {b}]
           IN CommandOK(q, ex, st, rep, pas) /\ q.mode = r.mode
  <1>. DEFINE q == [[r EXCEPT !.step = n] EXCEPT !.box[b].state = "up", !.held = @ \cup {b}]
  <1>1. PICK D : r \in CommandType(D)
    BY DEF CommandOK, Typed
  <1>s. \/ b = "prep" /\ r.step = "prep_run" /\ n = "bind"
        \/ b = "replay" /\ r.step = "replay_run" /\ n = "check_replay"
    BY DEF Boxes, CopySnapshotStep, CopyWorkspaceStep, RunStep, After
  <1>n. n \in Steps
    BY <1>s DEF Steps, After
  <1>h. r.held \cup {b} \in SUBSET Held
    BY <1>1 DEF CommandType, Held, Boxes
  <1>b. [r.box EXCEPT ![b].state = "up"] \in BoxType(D)
    BY <1>1 DEF CommandType, BoxType, BoxStates
  <1>2. q \in CommandType(D)
    BY <1>1, <1>b, <1>s, <1>n, <1>h DEF CommandType
  <1>3. /\ q.step = n /\ q.mode = r.mode /\ q.permit = r.permit /\ q.held = r.held \cup {b}
        /\ q.open = r.open /\ q.source = r.source /\ q.worker = r.worker /\ q.doc = r.doc
        /\ q.result = r.result
        /\ q.box[b].state = "up" /\ q.box[b].workspace = r.box[b].workspace
        /\ \A x \in Boxes \ {b} : q.box[x] = r.box[x]
    BY <1>1 DEF CommandType, BoxType, Boxes
  <1>. HIDE DEF q
  <1>4. BoxesOK(q)
    BY <1>1, <1>3, <1>s, <1>n, <1>h DEF CommandOK, BoxesOK, After, Before, BeforeReplay,
         FromBind, FromTests, FromInput, FromSave, Working, CopyWorkspaceStep, RunStep, Boxes
  <1>5. WorkerOK(q)
    BY <1>3, <1>s, <1>n, <1>h DEF CommandOK, WorkerOK, After, Before, FromValidate, FromTests,
         FromInput, FromSave
  <1>6. DocOK(q, rep, pas)
    BY <1>3, <1>s, <1>n, <1>h DEF CommandOK, DocOK, After, FromTests, FromInput, FromSave
  <1>7. ResultOK(q, st)
    BY <1>1, <1>3, <1>s, <1>n, <1>h DEF CommandOK, CommandType, ResultOK, Closing, After, Boxes
  <1>8. CommandOK(q, ex, st, rep, pas)
    BY <1>2, <1>3, <1>4, <1>5, <1>6, <1>7, <1>s, <1>n, <1>h DEF CommandOK, Typed, After,
         FromFetch, FromBind, Working, FromTests, FromInput, FromSave
  <1>. QED
    BY <1>3, <1>8 DEF q

\* A sandbox is closed while the command unwinds.
LEMMA ClosedOK ==
    ASSUME NEW r, NEW ex, NEW st, NEW rep, NEW pas, CommandOK(r, ex, st, rep, pas),
           NEW b \in Boxes,
           r.step = "unwind",
           b \in r.held
    PROVE  LET q == [r EXCEPT !.box[b].state = "closed", !.held = @ \ {b}]
           IN CommandOK(q, ex, st, rep, pas) /\ q.mode = r.mode
  <1>. DEFINE q == [r EXCEPT !.box[b].state = "closed", !.held = @ \ {b}]
  <1>1. PICK D : r \in CommandType(D)
    BY DEF CommandOK, Typed
  <1>b. [r.box EXCEPT ![b].state = "closed"] \in BoxType(D)
    BY <1>1 DEF CommandType, BoxType, BoxStates
  <1>2. q \in CommandType(D)
    BY <1>1, <1>b DEF CommandType, Steps, After
  <1>3. /\ q.step = r.step /\ q.mode = r.mode /\ q.permit = r.permit /\ q.held = r.held \ {b}
        /\ q.open = r.open /\ q.source = r.source /\ q.worker = r.worker /\ q.doc = r.doc
        /\ q.result = r.result
        /\ q.box[b].state = "closed" /\ q.box[b].workspace = r.box[b].workspace
        /\ \A x \in Boxes \ {b} : q.box[x] = r.box[x]
    BY <1>1 DEF CommandType, BoxType, Boxes
  <1>. HIDE DEF q
  <1>4. BoxesOK(q)
    BY <1>1, <1>3 DEF CommandOK, BoxesOK, After, Before, BeforeReplay, FromBind, FromTests,
         FromInput, FromSave, Working, CopyWorkspaceStep, RunStep, Boxes
  <1>5. WorkerOK(q)
    BY <1>3 DEF CommandOK, WorkerOK, After, Before, FromValidate, FromTests, FromInput, FromSave
  <1>6. DocOK(q, rep, pas)
    BY <1>3 DEF CommandOK, DocOK, After, FromTests, FromInput, FromSave
  <1>7. ResultOK(q, st)
    BY <1>1, <1>3 DEF CommandOK, CommandType, ResultOK, Closing, After, Boxes
  <1>8. CommandOK(q, ex, st, rep, pas)
    BY <1>2, <1>3, <1>4, <1>5, <1>6, <1>7 DEF CommandOK, Typed, After, FromFetch, FromBind,
         Working, FromTests, FromInput, FromSave
  <1>. QED
    BY <1>3, <1>8 DEF q

\* The sandbox of the replay is closed after its tests.
LEMMA ReplayClosedOK ==
    ASSUME NEW r, NEW ex, NEW st, NEW rep, NEW pas, CommandOK(r, ex, st, rep, pas),
           r.step = "close_replay"
    PROVE  LET q == [[r EXCEPT !.box["replay"].state = "closed", !.held = @ \ {"replay"}]
                      EXCEPT !.step = After[@]]
           IN CommandOK(q, ex, st, rep, pas) /\ q.mode = r.mode
  <1>. DEFINE q == [[r EXCEPT !.box["replay"].state = "closed", !.held = @ \ {"replay"}]
                     EXCEPT !.step = After[@]]
  <1>1. PICK D : r \in CommandType(D)
    BY DEF CommandOK, Typed
  <1>a. After[r.step] = "input" /\ "input" \in Steps
    BY DEF After, Steps
  <1>c. \A b \in Boxes : [r.box[b] EXCEPT !.state = "closed"]
        \in [state : BoxStates, snapshot : D, workspace : D]
    BY <1>1 DEF CommandType, BoxType, BoxStates
  <1>d. r.box \in [Boxes -> [state : BoxStates, snapshot : D, workspace : D]]
    BY <1>1 DEF CommandType, BoxType
  <1>b. [r.box EXCEPT !["replay"].state = "closed"] \in BoxType(D)
    BY <1>c, <1>d DEF BoxType
  <1>2. q \in CommandType(D)
    BY <1>1, <1>b, <1>a DEF CommandType
  <1>3. /\ q.step = "input" /\ q.mode = r.mode /\ q.permit = r.permit
        /\ q.held = r.held \ {"replay"}
        /\ q.open = r.open /\ q.source = r.source /\ q.worker = r.worker /\ q.doc = r.doc
        /\ q.result = r.result
        /\ q.box["replay"].state = "closed" /\ q.box["replay"].workspace = r.box["replay"].workspace
        /\ q.box["prep"] = r.box["prep"]
    BY <1>1, <1>a DEF CommandType, BoxType, Boxes
  <1>. HIDE DEF q
  <1>4. BoxesOK(q)
    BY <1>1, <1>3 DEF CommandOK, BoxesOK, After, Before, BeforeReplay, FromBind, FromTests,
         FromInput, FromSave, Working, CopyWorkspaceStep, RunStep, Boxes
  <1>5. WorkerOK(q)
    BY <1>3 DEF CommandOK, WorkerOK, After, Before, FromValidate, FromTests, FromInput, FromSave
  <1>6. DocOK(q, rep, pas)
    BY <1>3 DEF CommandOK, DocOK, After, FromTests, FromInput, FromSave
  <1>7. ResultOK(q, st)
    BY <1>1, <1>3 DEF CommandOK, CommandType, ResultOK, Closing, After, Boxes
  <1>8. CommandOK(q, ex, st, rep, pas)
    BY <1>2, <1>3, <1>4, <1>5, <1>6, <1>7 DEF CommandOK, Typed, After, FromFetch, FromBind,
         Working, FromTests, FromInput, FromSave
  <1>. QED
    BY <1>3, <1>8 DEF q

\* The copied snapshot is the pinned one.
LEMMA BindSnapshotOK ==
    ASSUME NEW r, NEW ex, NEW st, NEW rep, NEW pas, CommandOK(r, ex, st, rep, pas),
           r.step = "bind",
           r.box["prep"].snapshot = Base,
           NEW n, n = (IF r.mode.worker = "container" THEN "start_worker" ELSE "call_model")
    PROVE  LET q == [r EXCEPT !.step = n]
           IN CommandOK(q, ex, st, rep, pas) /\ q.mode = r.mode
  <1>. DEFINE q == [r EXCEPT !.step = n]
  <1>1. PICK D : r \in CommandType(D)
    BY DEF CommandOK, Typed
  <1>2. q \in CommandType(D)
    BY <1>1 DEF CommandType, Steps, After
  <1>3. /\ q.step = n /\ q.mode = r.mode /\ q.permit = r.permit /\ q.held = r.held
        /\ q.open = r.open /\ q.source = r.source /\ q.box = r.box /\ q.worker = r.worker
        /\ q.doc = r.doc /\ q.result = r.result
    BY <1>1 DEF CommandType, BoxType, Boxes
  <1>. HIDE DEF q
  <1>4. BoxesOK(q)
    BY <1>1, <1>3 DEF CommandOK, BoxesOK, After, Before, BeforeReplay, FromBind, FromTests,
         FromInput, FromSave, Working, CopyWorkspaceStep, RunStep, Boxes
  <1>5. WorkerOK(q)
    BY <1>3 DEF CommandOK, WorkerOK, After, Before, FromValidate, FromTests, FromInput, FromSave
  <1>6. DocOK(q, rep, pas)
    BY <1>3 DEF CommandOK, DocOK, After, FromTests, FromInput, FromSave
  <1>7. ResultOK(q, st)
    BY <1>1, <1>3 DEF CommandOK, CommandType, ResultOK, Closing, After, Boxes
  <1>8. CommandOK(q, ex, st, rep, pas)
    BY <1>2, <1>3, <1>4, <1>5, <1>6, <1>7 DEF CommandOK, Typed, After, FromFetch, FromBind,
         Working, FromTests, FromInput, FromSave
  <1>. QED
    BY <1>3, <1>8 DEF q

\* The worker's container runs.
LEMMA StartWorkerOK ==
    ASSUME NEW r, NEW ex, NEW st, NEW rep, NEW pas, CommandOK(r, ex, st, rep, pas),
           r.step = "start_worker"
    PROVE  LET q == [r EXCEPT !.step = "check_worker", !.worker = "running"]
           IN CommandOK(q, ex, st, rep, pas) /\ q.mode = r.mode
  <1>. DEFINE q == [r EXCEPT !.step = "check_worker", !.worker = "running"]
  <1>1. PICK D : r \in CommandType(D)
    BY DEF CommandOK, Typed
  <1>z. "check_worker" \in Steps /\ "running" \in WorkerStates
    BY DEF Steps, After, WorkerStates
  <1>2. q \in CommandType(D)
    BY <1>1, <1>z, ZenonT(60) DEF CommandType, WorkerStates
  <1>3. /\ q.step = "check_worker" /\ q.mode = r.mode /\ q.permit = r.permit /\ q.held = r.held
        /\ q.open = r.open /\ q.source = r.source /\ q.box = r.box /\ q.worker = "running"
        /\ q.doc = r.doc /\ q.result = r.result
    BY <1>1 DEF CommandType, BoxType, Boxes
  <1>. HIDE DEF q
  <1>4. BoxesOK(q)
    BY <1>1, <1>3 DEF CommandOK, BoxesOK, After, Before, BeforeReplay, FromBind, FromTests,
         FromInput, FromSave, Working, CopyWorkspaceStep, RunStep, Boxes
  <1>5. WorkerOK(q)
    BY <1>3 DEF CommandOK, WorkerOK, After, Before, FromValidate, FromTests, FromInput, FromSave
  <1>6. DocOK(q, rep, pas)
    BY <1>3 DEF CommandOK, DocOK, After, FromTests, FromInput, FromSave
  <1>7. ResultOK(q, st)
    BY <1>1, <1>3 DEF CommandOK, CommandType, ResultOK, Closing, After, Boxes
  <1>8. CommandOK(q, ex, st, rep, pas)
    BY <1>2, <1>3, <1>4, <1>5, <1>6, <1>7 DEF CommandOK, Typed, After, FromFetch, FromBind,
         Working, FromTests, FromInput, FromSave
  <1>. QED
    BY <1>3, <1>8 DEF q

\* The worker's container was asserted, or is cleaned up.
LEMMA CheckWorkerOK ==
    ASSUME NEW r, NEW ex, NEW st, NEW rep, NEW pas, CommandOK(r, ex, st, rep, pas),
           r.step = "check_worker",
           NEW n \in {"call_model", "cleanup"}
    PROVE  LET q == [r EXCEPT !.step = n]
           IN CommandOK(q, ex, st, rep, pas) /\ q.mode = r.mode
  <1>. DEFINE q == [r EXCEPT !.step = n]
  <1>1. PICK D : r \in CommandType(D)
    BY DEF CommandOK, Typed
  <1>2. q \in CommandType(D)
    BY <1>1 DEF CommandType, Steps, After
  <1>3. /\ q.step = n /\ q.mode = r.mode /\ q.permit = r.permit /\ q.held = r.held
        /\ q.open = r.open /\ q.source = r.source /\ q.box = r.box /\ q.worker = r.worker
        /\ q.doc = r.doc /\ q.result = r.result
    BY <1>1 DEF CommandType, BoxType, Boxes
  <1>. HIDE DEF q
  <1>4. BoxesOK(q)
    BY <1>1, <1>3 DEF CommandOK, BoxesOK, After, Before, BeforeReplay, FromBind, FromTests,
         FromInput, FromSave, Working, CopyWorkspaceStep, RunStep, Boxes
  <1>5. WorkerOK(q)
    BY <1>3 DEF CommandOK, WorkerOK, After, Before, FromValidate, FromTests, FromInput, FromSave
  <1>6. DocOK(q, rep, pas)
    BY <1>3 DEF CommandOK, DocOK, After, FromTests, FromInput, FromSave
  <1>7. ResultOK(q, st)
    BY <1>1, <1>3 DEF CommandOK, CommandType, ResultOK, Closing, After, Boxes
  <1>8. CommandOK(q, ex, st, rep, pas)
    BY <1>2, <1>3, <1>4, <1>5, <1>6, <1>7 DEF CommandOK, Typed, After, FromFetch, FromBind,
         Working, FromTests, FromInput, FromSave
  <1>. QED
    BY <1>3, <1>8 DEF q

\* The worker goes on with a document.
Answered(r, n, d) == [r EXCEPT !.step = n, !.doc = d]

\* There is a proposal.
LEMMA ModelAnswersOK ==
    ASSUME NEW r, NEW ex, NEW st, NEW rep, NEW pas, CommandOK(r, ex, st, rep, pas),
           r.step = "call_model",
           NEW n, n = (IF r.mode.worker = "container" THEN "cleanup" ELSE "validate"),
           NEW d
    PROVE  LET q == Answered(r, n, d)
           IN CommandOK(q, ex, st, rep, pas) /\ q.mode = r.mode
  <1>. DEFINE q == Answered(r, n, d)
  <1>1. PICK D : r \in CommandType(D)
    BY DEF CommandOK, Typed
  <1>z. n \in Steps
    BY DEF Steps, After
  <1>b. r.box \in BoxType(D \cup {d})
    BY <1>1 DEF CommandType, BoxType, BoxStates, Answered
  <1>2. q \in CommandType(D \cup {d})
    BY <1>1, <1>z, <1>b, ZenonT(60) DEF CommandType, Answered
  <1>3. /\ q.step = n /\ q.mode = r.mode /\ q.permit = r.permit /\ q.held = r.held
        /\ q.open = r.open /\ q.source = r.source /\ q.box = r.box /\ q.worker = r.worker
        /\ q.doc = d /\ q.result = r.result
    BY <1>1 DEF CommandType, BoxType, Boxes, Answered
  <1>. HIDE DEF q
  <1>4. BoxesOK(q)
    BY <1>1, <1>3 DEF CommandOK, BoxesOK, After, Before, BeforeReplay, FromBind, FromTests,
         FromInput, FromSave, Working, CopyWorkspaceStep, RunStep, Boxes
  <1>5. WorkerOK(q)
    BY <1>3 DEF CommandOK, WorkerOK, After, Before, FromValidate, FromTests, FromInput, FromSave
  <1>6. DocOK(q, rep, pas)
    BY <1>3 DEF CommandOK, DocOK, After, FromTests, FromInput, FromSave
  <1>7. ResultOK(q, st)
    BY <1>1, <1>3 DEF CommandOK, CommandType, ResultOK, Closing, After, Boxes
  <1>8. CommandOK(q, ex, st, rep, pas)
    BY <1>2, <1>3, <1>4, <1>5, <1>6, <1>7 DEF CommandOK, Typed, After, FromFetch, FromBind,
         Working, FromTests, FromInput, FromSave
  <1>. QED
    BY <1>3, <1>8 DEF q

\* The model gave no proposal.
LEMMA ModelFailsOK ==
    ASSUME NEW r, NEW ex, NEW st, NEW rep, NEW pas, CommandOK(r, ex, st, rep, pas),
           r.step = "call_model",
           NEW n, n = (IF r.mode.worker = "container" THEN "cleanup" ELSE "validate")
    PROVE  LET q == [r EXCEPT !.step = n]
           IN CommandOK(q, ex, st, rep, pas) /\ q.mode = r.mode
  <1>. DEFINE q == [r EXCEPT !.step = n]
  <1>1. PICK D : r \in CommandType(D)
    BY DEF CommandOK, Typed
  <1>2. q \in CommandType(D)
    BY <1>1 DEF CommandType, Steps, After
  <1>3. /\ q.step = n /\ q.mode = r.mode /\ q.permit = r.permit /\ q.held = r.held
        /\ q.open = r.open /\ q.source = r.source /\ q.box = r.box /\ q.worker = r.worker
        /\ q.doc = r.doc /\ q.result = r.result
    BY <1>1 DEF CommandType, BoxType, Boxes
  <1>. HIDE DEF q
  <1>4. BoxesOK(q)
    BY <1>1, <1>3 DEF CommandOK, BoxesOK, After, Before, BeforeReplay, FromBind, FromTests,
         FromInput, FromSave, Working, CopyWorkspaceStep, RunStep, Boxes
  <1>5. WorkerOK(q)
    BY <1>3 DEF CommandOK, WorkerOK, After, Before, FromValidate, FromTests, FromInput, FromSave
  <1>6. DocOK(q, rep, pas)
    BY <1>3 DEF CommandOK, DocOK, After, FromTests, FromInput, FromSave
  <1>7. ResultOK(q, st)
    BY <1>1, <1>3 DEF CommandOK, CommandType, ResultOK, Closing, After, Boxes
  <1>8. CommandOK(q, ex, st, rep, pas)
    BY <1>2, <1>3, <1>4, <1>5, <1>6, <1>7 DEF CommandOK, Typed, After, FromFetch, FromBind,
         Working, FromTests, FromInput, FromSave
  <1>. QED
    BY <1>3, <1>8 DEF q

\* It gave none and the call is left without a terminal event.
LEMMA ModelUnknownOK ==
    ASSUME NEW r, NEW ex, NEW st, NEW rep, NEW pas, CommandOK(r, ex, st, rep, pas),
           r.step = "call_model",
           NEW n, n = (IF r.mode.worker = "container" THEN "cleanup" ELSE "validate"),
           r.mode.journal
    PROVE  LET q == [r EXCEPT !.step = n, !.open = TRUE]
           IN CommandOK(q, ex, st, rep, pas) /\ q.mode = r.mode
  <1>. DEFINE q == [r EXCEPT !.step = n, !.open = TRUE]
  <1>1. PICK D : r \in CommandType(D)
    BY DEF CommandOK, Typed
  <1>z. n \in Steps /\ TRUE \in BOOLEAN
    BY DEF Steps, After
  <1>2. q \in CommandType(D)
    BY <1>1, <1>z, ZenonT(60) DEF CommandType
  <1>3. /\ q.step = n /\ q.mode = r.mode /\ q.permit = r.permit /\ q.held = r.held
        /\ q.open = TRUE /\ q.source = r.source /\ q.box = r.box /\ q.worker = r.worker
        /\ q.doc = r.doc /\ q.result = r.result
    BY <1>1 DEF CommandType, BoxType, Boxes
  <1>. HIDE DEF q
  <1>4. BoxesOK(q)
    BY <1>1, <1>3 DEF CommandOK, BoxesOK, After, Before, BeforeReplay, FromBind, FromTests,
         FromInput, FromSave, Working, CopyWorkspaceStep, RunStep, Boxes
  <1>5. WorkerOK(q)
    BY <1>3 DEF CommandOK, WorkerOK, After, Before, FromValidate, FromTests, FromInput, FromSave
  <1>6. DocOK(q, rep, pas)
    BY <1>3 DEF CommandOK, DocOK, After, FromTests, FromInput, FromSave
  <1>7. ResultOK(q, st)
    BY <1>1, <1>3 DEF CommandOK, CommandType, ResultOK, Closing, After, Boxes
  <1>8. CommandOK(q, ex, st, rep, pas)
    BY <1>2, <1>3, <1>4, <1>5, <1>6, <1>7 DEF CommandOK, Typed, After, FromFetch, FromBind,
         Working, FromTests, FromInput, FromSave
  <1>. QED
    BY <1>3, <1>8 DEF q

\* The worker's container is gone.
LEMMA CleanUpOK ==
    ASSUME NEW r, NEW ex, NEW st, NEW rep, NEW pas, CommandOK(r, ex, st, rep, pas),
           r.step = "cleanup"
    PROVE  LET q == [[r EXCEPT !.step = After[r.step]] EXCEPT !.worker = "gone"]
           IN CommandOK(q, ex, st, rep, pas) /\ q.mode = r.mode
  <1>. DEFINE q == [[r EXCEPT !.step = After[r.step]] EXCEPT !.worker = "gone"]
  <1>1. PICK D : r \in CommandType(D)
    BY DEF CommandOK, Typed
  <1>a. After[r.step] = "validate" /\ "validate" \in Steps
    BY DEF After, Steps
  <1>2. q \in CommandType(D)
    BY <1>1, <1>a DEF CommandType, WorkerStates
  <1>3. /\ q.step = "validate" /\ q.mode = r.mode /\ q.permit = r.permit /\ q.held = r.held
        /\ q.open = r.open /\ q.source = r.source /\ q.box = r.box /\ q.worker = "gone"
        /\ q.doc = r.doc /\ q.result = r.result
    BY <1>1, <1>a DEF CommandType, BoxType, Boxes
  <1>. HIDE DEF q
  <1>4. BoxesOK(q)
    BY <1>1, <1>3 DEF CommandOK, BoxesOK, After, Before, BeforeReplay, FromBind, FromTests,
         FromInput, FromSave, Working, CopyWorkspaceStep, RunStep, Boxes
  <1>5. WorkerOK(q)
    BY <1>3 DEF CommandOK, WorkerOK, After, Before, FromValidate, FromTests, FromInput, FromSave
  <1>6. DocOK(q, rep, pas)
    BY <1>3 DEF CommandOK, DocOK, After, FromTests, FromInput, FromSave
  <1>7. ResultOK(q, st)
    BY <1>1, <1>3 DEF CommandOK, CommandType, ResultOK, Closing, After, Boxes
  <1>8. CommandOK(q, ex, st, rep, pas)
    BY <1>2, <1>3, <1>4, <1>5, <1>6, <1>7 DEF CommandOK, Typed, After, FromFetch, FromBind,
         Working, FromTests, FromInput, FromSave
  <1>. QED
    BY <1>3, <1>8 DEF q

\* The change is applied in the sandbox.
Applied(r, w, d) ==
    [[r EXCEPT !.step = After[r.step]] EXCEPT !.box["prep"].workspace = w, !.doc = d]

\* The patch is made from the copied snapshot, which is the pinned one.
LEMMA ApplyOK ==
    ASSUME NEW r, NEW ex, NEW st, NEW rep, NEW pas, CommandOK(r, ex, st, rep, pas),
           r.step = "apply",
           NEW d, d.prepared.patch = RenderPatch(Base, d.prepared.contents),
           NEW w
    PROVE  LET q == Applied(r, w, d)
           IN CommandOK(q, ex, st, rep, pas) /\ q.mode = r.mode
  <1>. DEFINE q == Applied(r, w, d)
  <1>1. PICK D : r \in CommandType(D)
    BY DEF CommandOK, Typed
  <1>a. After[r.step] = "tests" /\ "tests" \in Steps
    BY DEF After, Steps
  <1>c. \A b \in Boxes : [r.box[b] EXCEPT !.workspace = w]
        \in [state : BoxStates, snapshot : D \cup {d, w}, workspace : D \cup {d, w}]
    BY <1>1 DEF CommandType, BoxType, BoxStates
  <1>d. r.box \in [Boxes -> [state : BoxStates, snapshot : D \cup {d, w}, workspace : D \cup {d, w}]]
    BY <1>1 DEF CommandType, BoxType
  <1>b. [r.box EXCEPT !["prep"].workspace = w] \in BoxType(D \cup {d, w})
    BY <1>c, <1>d DEF BoxType
  <1>2. q \in CommandType(D \cup {d, w})
    BY <1>1, <1>b, <1>a DEF CommandType, Applied
  <1>3. /\ q.step = "tests" /\ q.mode = r.mode /\ q.permit = r.permit /\ q.held = r.held
        /\ q.open = r.open /\ q.source = r.source /\ q.worker = r.worker /\ q.doc = d
        /\ q.result = r.result
        /\ q.box["prep"].state = r.box["prep"].state
        /\ q.box["replay"] = r.box["replay"]
    BY <1>1, <1>a DEF CommandType, BoxType, Boxes, Applied
  <1>. HIDE DEF q
  <1>4. BoxesOK(q)
    BY <1>1, <1>3 DEF CommandOK, BoxesOK, After, Before, BeforeReplay, FromBind, FromTests,
         FromInput, FromSave, Working, CopyWorkspaceStep, RunStep, Boxes
  <1>5. WorkerOK(q)
    BY <1>3 DEF CommandOK, WorkerOK, After, Before, FromValidate, FromTests, FromInput, FromSave
  <1>6. DocOK(q, rep, pas)
    BY <1>3 DEF CommandOK, DocOK, After, FromTests, FromInput, FromSave
  <1>7. ResultOK(q, st)
    BY <1>1, <1>3 DEF CommandOK, CommandType, ResultOK, Closing, After, Boxes
  <1>8. CommandOK(q, ex, st, rep, pas)
    BY <1>2, <1>3, <1>4, <1>5, <1>6, <1>7 DEF CommandOK, Typed, After, FromFetch, FromBind,
         Working, FromTests, FromInput, FromSave
  <1>. QED
    BY <1>3, <1>8 DEF q

\* _run_snapshot_verifier_replay compared the copy that the tests run in.
LEMMA CheckReplayOK ==
    ASSUME NEW r, NEW ex, NEW st, NEW rep, NEW pas, CommandOK(r, ex, st, rep, pas),
           r.step = "check_replay",
           r.box["replay"].workspace = Base
    PROVE  LET q == [r EXCEPT !.step = After[r.step]]
           IN CommandOK(q, ex, st, rep, pas) /\ q.mode = r.mode
  <1>. DEFINE q == [r EXCEPT !.step = After[r.step]]
  <1>1. PICK D : r \in CommandType(D)
    BY DEF CommandOK, Typed
  <1>a. After[r.step] = "replay" /\ "replay" \in Steps
    BY DEF After, Steps
  <1>2. q \in CommandType(D)
    BY <1>1, <1>a DEF CommandType
  <1>3. /\ q.step = "replay" /\ q.mode = r.mode /\ q.permit = r.permit /\ q.held = r.held
        /\ q.open = r.open /\ q.source = r.source /\ q.box = r.box /\ q.worker = r.worker
        /\ q.doc = r.doc /\ q.result = r.result
    BY <1>1, <1>a DEF CommandType, BoxType, Boxes
  <1>. HIDE DEF q
  <1>4. BoxesOK(q)
    BY <1>1, <1>3 DEF CommandOK, BoxesOK, After, Before, BeforeReplay, FromBind, FromTests,
         FromInput, FromSave, Working, CopyWorkspaceStep, RunStep, Boxes
  <1>5. WorkerOK(q)
    BY <1>3 DEF CommandOK, WorkerOK, After, Before, FromValidate, FromTests, FromInput, FromSave
  <1>6. DocOK(q, rep, pas)
    BY <1>3 DEF CommandOK, DocOK, After, FromTests, FromInput, FromSave
  <1>7. ResultOK(q, st)
    BY <1>1, <1>3 DEF CommandOK, CommandType, ResultOK, Closing, After, Boxes
  <1>8. CommandOK(q, ex, st, rep, pas)
    BY <1>2, <1>3, <1>4, <1>5, <1>6, <1>7 DEF CommandOK, Typed, After, FromFetch, FromBind,
         Working, FromTests, FromInput, FromSave
  <1>. QED
    BY <1>3, <1>8 DEF q

\* The tests passed in the copy.
LEMMA ReplayOK ==
    ASSUME NEW r, NEW ex, NEW st, NEW rep, NEW pas, CommandOK(r, ex, st, rep, pas),
           r.step = "replay",
           <<r.doc.prepared.contents, r.box["replay"].workspace>> \in rep
    PROVE  LET q == [r EXCEPT !.step = After[r.step]]
           IN CommandOK(q, ex, st, rep, pas) /\ q.mode = r.mode
  <1>. DEFINE q == [r EXCEPT !.step = After[r.step]]
  <1>1. PICK D : r \in CommandType(D)
    BY DEF CommandOK, Typed
  <1>a. After[r.step] = "close_replay" /\ "close_replay" \in Steps
    BY DEF After, Steps
  <1>2. q \in CommandType(D)
    BY <1>1, <1>a DEF CommandType
  <1>3. /\ q.step = "close_replay" /\ q.mode = r.mode /\ q.permit = r.permit /\ q.held = r.held
        /\ q.open = r.open /\ q.source = r.source /\ q.box = r.box /\ q.worker = r.worker
        /\ q.doc = r.doc /\ q.result = r.result
    BY <1>1, <1>a DEF CommandType, BoxType, Boxes
  <1>. HIDE DEF q
  <1>4. BoxesOK(q)
    BY <1>1, <1>3 DEF CommandOK, BoxesOK, After, Before, BeforeReplay, FromBind, FromTests,
         FromInput, FromSave, Working, CopyWorkspaceStep, RunStep, Boxes, Replayed
  <1>5. WorkerOK(q)
    BY <1>3 DEF CommandOK, WorkerOK, After, Before, FromValidate, FromTests, FromInput,
         FromSave, Replayed, BoxesOK
  <1>6. DocOK(q, rep, pas)
    BY <1>3 DEF CommandOK, DocOK, After, FromTests, FromInput, FromSave, Replayed, BoxesOK
  <1>7. ResultOK(q, st)
    BY <1>1, <1>3 DEF CommandOK, CommandType, ResultOK, Closing, After, Boxes, Replayed, BoxesOK
  <1>8. CommandOK(q, ex, st, rep, pas)
    BY <1>2, <1>3, <1>4, <1>5, <1>6, <1>7 DEF CommandOK, Typed, After, FromFetch, FromBind,
         Working, FromTests, FromInput, FromSave, Replayed, BoxesOK
  <1>. QED
    BY <1>3, <1>8 DEF q

\* The verifier's input is about the pinned files.
LEMMA InputOK ==
    ASSUME NEW r, NEW ex, NEW st, NEW rep, NEW pas, CommandOK(r, ex, st, rep, pas),
           r.step = "input",
           NEW d, d.prepared = r.doc.prepared,
           d.input = VerifierInput(d.prepared, Base)
    PROVE  LET q == [[r EXCEPT !.step = After[r.step]] EXCEPT !.source = NoSnapshot, !.doc = d]
           IN CommandOK(q, ex, st, rep, pas) /\ q.mode = r.mode
  <1>. DEFINE q == [[r EXCEPT !.step = After[r.step]] EXCEPT !.source = NoSnapshot, !.doc = d]
  <1>1. PICK D : r \in CommandType(D)
    BY DEF CommandOK, Typed
  <1>a. After[r.step] = "verify" /\ "verify" \in Steps
    BY DEF After, Steps
  <1>b. r.box \in BoxType(D \cup {d})
    BY <1>1 DEF CommandType, BoxType, BoxStates
  <1>2. q \in CommandType(D \cup {d})
    BY <1>1, <1>b, <1>a DEF CommandType, SourceTrees
  <1>3. /\ q.step = "verify" /\ q.mode = r.mode /\ q.permit = r.permit /\ q.held = r.held
        /\ q.open = r.open /\ q.source = NoSnapshot /\ q.box = r.box /\ q.worker = r.worker
        /\ q.doc = d /\ q.result = r.result
    BY <1>1, <1>a DEF CommandType, BoxType, Boxes
  <1>. HIDE DEF q
  <1>4. BoxesOK(q)
    BY <1>1, <1>3 DEF CommandOK, BoxesOK, After, Before, BeforeReplay, FromBind, FromTests,
         FromInput, FromSave, Working, CopyWorkspaceStep, RunStep, Boxes
  <1>5. WorkerOK(q)
    BY <1>3 DEF CommandOK, WorkerOK, After, Before, FromValidate, FromTests, FromInput, FromSave
  <1>6. DocOK(q, rep, pas)
    BY <1>3 DEF CommandOK, DocOK, After, FromTests, FromInput, FromSave
  <1>7. ResultOK(q, st)
    BY <1>1, <1>3 DEF CommandOK, CommandType, ResultOK, Closing, After, Boxes
  <1>8. CommandOK(q, ex, st, rep, pas)
    BY <1>2, <1>3, <1>4, <1>5, <1>6, <1>7 DEF CommandOK, Typed, After, FromFetch, FromBind,
         Working, FromTests, FromInput, FromSave
  <1>. QED
    BY <1>3, <1>8 DEF q

\* The answer is about the input and passes it.
LEMMA VerifyOK ==
    ASSUME NEW r, NEW ex, NEW st, NEW rep, NEW pas, CommandOK(r, ex, st, rep, pas),
           r.step = "verify",
           NEW d, d.prepared = r.doc.prepared,
           Accepted(d.answer, r.doc.input), d.answer.input \in pas
    PROVE  LET q == [[r EXCEPT !.step = After[r.step]] EXCEPT !.doc = d]
           IN CommandOK(q, ex, st, rep, pas) /\ q.mode = r.mode
  <1>. DEFINE q == [[r EXCEPT !.step = After[r.step]] EXCEPT !.doc = d]
  <1>1. PICK D : r \in CommandType(D)
    BY DEF CommandOK, Typed
  <1>a. After[r.step] = "build" /\ "build" \in Steps
    BY DEF After, Steps
  <1>b. r.box \in BoxType(D \cup {d})
    BY <1>1 DEF CommandType, BoxType, BoxStates
  <1>2. q \in CommandType(D \cup {d})
    BY <1>1, <1>b, <1>a DEF CommandType
  <1>3. /\ q.step = "build" /\ q.mode = r.mode /\ q.permit = r.permit /\ q.held = r.held
        /\ q.open = r.open /\ q.source = r.source /\ q.box = r.box /\ q.worker = r.worker
        /\ q.doc = d /\ q.result = r.result
    BY <1>1, <1>a DEF CommandType, BoxType, Boxes
  <1>. HIDE DEF q
  <1>4. BoxesOK(q)
    BY <1>1, <1>3 DEF CommandOK, BoxesOK, After, Before, BeforeReplay, FromBind, FromTests,
         FromInput, FromSave, Working, CopyWorkspaceStep, RunStep, Boxes, Accepted, BoundResult
  <1>5. WorkerOK(q)
    BY <1>3 DEF CommandOK, WorkerOK, After, Before, FromValidate, FromTests, FromInput,
         FromSave, Accepted, BoundResult
  <1>6. DocOK(q, rep, pas)
    BY <1>3 DEF CommandOK, DocOK, After, FromTests, FromInput, FromSave, Accepted, BoundResult
  <1>7. ResultOK(q, st)
    BY <1>1, <1>3 DEF CommandOK, CommandType, ResultOK, Closing, After, Boxes, Accepted,
         BoundResult
  <1>8. CommandOK(q, ex, st, rep, pas)
    BY <1>2, <1>3, <1>4, <1>5, <1>6, <1>7 DEF CommandOK, Typed, After, FromFetch, FromBind,
         Working, FromTests, FromInput, FromSave, Accepted, BoundResult
  <1>. QED
    BY <1>3, <1>8 DEF q

\* The artifact says of itself what a row must say.
LEMMA BuildOK ==
    ASSUME NEW r, NEW ex, NEW st, NEW rep, NEW pas, CommandOK(r, ex, st, rep, pas),
           r.step = "build",
           NEW d, ArtifactOK(d.artifact, rep, pas)
    PROVE  LET q == [[r EXCEPT !.step = After[r.step]] EXCEPT !.doc = d]
           IN CommandOK(q, ex, st, rep, pas) /\ q.mode = r.mode
  <1>. DEFINE q == [[r EXCEPT !.step = After[r.step]] EXCEPT !.doc = d]
  <1>1. PICK D : r \in CommandType(D)
    BY DEF CommandOK, Typed
  <1>a. After[r.step] = "save" /\ "save" \in Steps
    BY DEF After, Steps
  <1>b. r.box \in BoxType(D \cup {d})
    BY <1>1 DEF CommandType, BoxType, BoxStates
  <1>2. q \in CommandType(D \cup {d})
    BY <1>1, <1>b, <1>a DEF CommandType
  <1>3. /\ q.step = "save" /\ q.mode = r.mode /\ q.permit = r.permit /\ q.held = r.held
        /\ q.open = r.open /\ q.source = r.source /\ q.box = r.box /\ q.worker = r.worker
        /\ q.doc = d /\ q.result = r.result
    BY <1>1, <1>a DEF CommandType, BoxType, Boxes
  <1>. HIDE DEF q
  <1>4. BoxesOK(q)
    BY <1>1, <1>3 DEF CommandOK, BoxesOK, After, Before, BeforeReplay, FromBind, FromTests,
         FromInput, FromSave, Working, CopyWorkspaceStep, RunStep, Boxes
  <1>5. WorkerOK(q)
    BY <1>3 DEF CommandOK, WorkerOK, After, Before, FromValidate, FromTests, FromInput, FromSave
  <1>6. DocOK(q, rep, pas)
    BY <1>3 DEF CommandOK, DocOK, After, FromTests, FromInput, FromSave
  <1>7. ResultOK(q, st)
    BY <1>1, <1>3 DEF CommandOK, CommandType, ResultOK, Closing, After, Boxes
  <1>8. CommandOK(q, ex, st, rep, pas)
    BY <1>2, <1>3, <1>4, <1>5, <1>6, <1>7 DEF CommandOK, Typed, After, FromFetch, FromBind,
         Working, FromTests, FromInput, FromSave
  <1>. QED
    BY <1>3, <1>8 DEF q

\* The stored row was looked for.
LEMMA SaveOK ==
    ASSUME NEW r, NEW ex, NEW st, NEW rep, NEW pas, CommandOK(r, ex, st, rep, pas),
           r.step = "save",
           NEW n \in {"insert", "load"}
    PROVE  LET q == [r EXCEPT !.step = n]
           IN CommandOK(q, ex, st, rep, pas) /\ q.mode = r.mode
  <1>. DEFINE q == [r EXCEPT !.step = n]
  <1>1. PICK D : r \in CommandType(D)
    BY DEF CommandOK, Typed
  <1>2. q \in CommandType(D)
    BY <1>1 DEF CommandType, Steps, After
  <1>3. /\ q.step = n /\ q.mode = r.mode /\ q.permit = r.permit /\ q.held = r.held
        /\ q.open = r.open /\ q.source = r.source /\ q.box = r.box /\ q.worker = r.worker
        /\ q.doc = r.doc /\ q.result = r.result
    BY <1>1 DEF CommandType, BoxType, Boxes
  <1>. HIDE DEF q
  <1>4. BoxesOK(q)
    BY <1>1, <1>3 DEF CommandOK, BoxesOK, After, Before, BeforeReplay, FromBind, FromTests,
         FromInput, FromSave, Working, CopyWorkspaceStep, RunStep, Boxes
  <1>5. WorkerOK(q)
    BY <1>3 DEF CommandOK, WorkerOK, After, Before, FromValidate, FromTests, FromInput, FromSave
  <1>6. DocOK(q, rep, pas)
    BY <1>3 DEF CommandOK, DocOK, After, FromTests, FromInput, FromSave
  <1>7. ResultOK(q, st)
    BY <1>1, <1>3 DEF CommandOK, CommandType, ResultOK, Closing, After, Boxes
  <1>8. CommandOK(q, ex, st, rep, pas)
    BY <1>2, <1>3, <1>4, <1>5, <1>6, <1>7 DEF CommandOK, Typed, After, FromFetch, FromBind,
         Working, FromTests, FromInput, FromSave
  <1>. QED
    BY <1>3, <1>8 DEF q

\* The row was found: the result is verified.
LEMMA LoadOK ==
    ASSUME NEW r, NEW ex, NEW st, NEW rep, NEW pas, CommandOK(r, ex, st, rep, pas),
           r.step = "load",
           Row(r.doc.artifact) \in st
    PROVE  LET q == [[r EXCEPT !.step = After[r.step]] EXCEPT !.result = "verified",
               !.box = [b \in Boxes |-> [NoBox EXCEPT !.state = r.box[b].state]]]
           IN CommandOK(q, ex, st, rep, pas) /\ q.mode = r.mode
  <1>. DEFINE q == [[r EXCEPT !.step = After[r.step]] EXCEPT !.result = "verified",
               !.box = [b \in Boxes |-> [NoBox EXCEPT !.state = r.box[b].state]]]
  <1>1. PICK D : r \in CommandType(D)
    BY DEF CommandOK, Typed
  <1>a. After[r.step] = "unwind" /\ "unwind" \in Steps
    BY DEF After, Steps
  <1>b. [b \in Boxes |-> [NoBox EXCEPT !.state = r.box[b].state]]
        \in BoxType(D \cup {NoSnapshot})
    BY <1>1 DEF CommandType, BoxType, BoxStates, NoBox
  <1>2. q \in CommandType(D \cup {NoSnapshot})
    BY <1>1, <1>b, <1>a DEF CommandType
  <1>3. /\ q.step = "unwind" /\ q.mode = r.mode /\ q.permit = r.permit /\ q.held = r.held
        /\ q.open = r.open /\ q.source = r.source /\ q.worker = r.worker /\ q.doc = r.doc
        /\ q.result = "verified"
        /\ \A b \in Boxes : q.box[b].state = r.box[b].state
        /\ q.box["replay"].workspace = NoSnapshot
    BY <1>1, <1>a DEF CommandType, BoxType, Boxes, NoBox
  <1>. HIDE DEF q
  <1>4. BoxesOK(q)
    BY <1>1, <1>3 DEF CommandOK, BoxesOK, After, Before, BeforeReplay, FromBind, FromTests,
         FromInput, FromSave, Working, CopyWorkspaceStep, RunStep, Boxes, SourceTrees
  <1>5. WorkerOK(q)
    BY <1>3 DEF CommandOK, WorkerOK, After, Before, FromValidate, FromTests, FromInput,
         FromSave, SourceTrees
  <1>6. DocOK(q, rep, pas)
    BY <1>3 DEF CommandOK, DocOK, After, FromTests, FromInput, FromSave, SourceTrees
  <1>7. ResultOK(q, st)
    <2>1. \A b \in Boxes : q.box[b].state = "closed" \/ b \in q.held
      BY <1>3 DEF CommandOK, BoxesOK, Boxes, FromBind, FromTests, FromInput, FromSave
    <2>2. q.worker \in {"none", "gone"}
      BY <1>3 DEF CommandOK, WorkerOK, FromValidate, FromTests, FromInput, FromSave
    <2>3. q.permit = "spent"
      BY <1>3 DEF CommandOK, FromFetch, FromBind, FromTests, FromInput, FromSave
    <2>. QED
      BY <1>3, <2>1, <2>2, <2>3 DEF ResultOK, Closing
  <1>8. CommandOK(q, ex, st, rep, pas)
    BY <1>2, <1>3, <1>4, <1>5, <1>6, <1>7 DEF CommandOK, Typed, After, FromFetch, FromBind,
         Working, FromTests, FromInput, FromSave, SourceTrees
  <1>. QED
    BY <1>3, <1>8 DEF q

\* The snapshot is closed.
LEMMA CloseSnapshotOK ==
    ASSUME NEW r, NEW ex, NEW st, NEW rep, NEW pas, CommandOK(r, ex, st, rep, pas),
           r.step = "unwind"
    PROVE  LET q == [r EXCEPT !.held = @ \ {"snapshot"}]
           IN CommandOK(q, ex, st, rep, pas) /\ q.mode = r.mode
  <1>. DEFINE q == [r EXCEPT !.held = @ \ {"snapshot"}]
  <1>1. PICK D : r \in CommandType(D)
    BY DEF CommandOK, Typed
  <1>2. q \in CommandType(D)
    BY <1>1 DEF CommandType, Steps, After
  <1>3. /\ q.step = r.step /\ q.mode = r.mode /\ q.permit = r.permit
        /\ q.held = r.held \ {"snapshot"}
        /\ q.open = r.open /\ q.source = r.source /\ q.box = r.box /\ q.worker = r.worker
        /\ q.doc = r.doc /\ q.result = r.result
    BY <1>1 DEF CommandType, BoxType, Boxes
  <1>. HIDE DEF q
  <1>4. BoxesOK(q)
    BY <1>1, <1>3 DEF CommandOK, BoxesOK, After, Before, BeforeReplay, FromBind, FromTests,
         FromInput, FromSave, Working, CopyWorkspaceStep, RunStep, Boxes
  <1>5. WorkerOK(q)
    BY <1>3 DEF CommandOK, WorkerOK, After, Before, FromValidate, FromTests, FromInput,
         FromSave, Boxes
  <1>6. DocOK(q, rep, pas)
    BY <1>3 DEF CommandOK, DocOK, After, FromTests, FromInput, FromSave, Boxes
  <1>7. ResultOK(q, st)
    BY <1>1, <1>3 DEF CommandOK, CommandType, ResultOK, Closing, After, Boxes
  <1>8. CommandOK(q, ex, st, rep, pas)
    BY <1>2, <1>3, <1>4, <1>5, <1>6, <1>7 DEF CommandOK, Typed, After, FromFetch, FromBind,
         Working, FromTests, FromInput, FromSave, Boxes
  <1>. QED
    BY <1>3, <1>8 DEF q

\* The evidence was read.
LEMMA EvidenceOK ==
    ASSUME NEW r, NEW ex, NEW st, NEW rep, NEW pas, CommandOK(r, ex, st, rep, pas),
           r.step = "unwind"
    PROVE  LET q == [r EXCEPT !.step = "finish"]
           IN CommandOK(q, ex, st, rep, pas) /\ q.mode = r.mode
  <1>. DEFINE q == [r EXCEPT !.step = "finish"]
  <1>1. PICK D : r \in CommandType(D)
    BY DEF CommandOK, Typed
  <1>2. q \in CommandType(D)
    BY <1>1 DEF CommandType, Steps, After
  <1>3. /\ q.step = "finish" /\ q.mode = r.mode /\ q.permit = r.permit /\ q.held = r.held
        /\ q.open = r.open /\ q.source = r.source /\ q.box = r.box /\ q.worker = r.worker
        /\ q.doc = r.doc /\ q.result = r.result
    BY <1>1 DEF CommandType, BoxType, Boxes
  <1>. HIDE DEF q
  <1>4. BoxesOK(q)
    BY <1>1, <1>3 DEF CommandOK, BoxesOK, After, Before, BeforeReplay, FromBind, FromTests,
         FromInput, FromSave, Working, CopyWorkspaceStep, RunStep, Boxes
  <1>5. WorkerOK(q)
    BY <1>3 DEF CommandOK, WorkerOK, After, Before, FromValidate, FromTests, FromInput, FromSave
  <1>6. DocOK(q, rep, pas)
    BY <1>3 DEF CommandOK, DocOK, After, FromTests, FromInput, FromSave
  <1>7. ResultOK(q, st)
    BY <1>1, <1>3 DEF CommandOK, CommandType, ResultOK, Closing, After, Boxes
  <1>8. CommandOK(q, ex, st, rep, pas)
    BY <1>2, <1>3, <1>4, <1>5, <1>6, <1>7 DEF CommandOK, Typed, After, FromFetch, FromBind,
         Working, FromTests, FromInput, FromSave
  <1>. QED
    BY <1>3, <1>8 DEF q

\* Every call has its terminal event.
LEMMA FinishOK ==
    ASSUME NEW r, NEW ex, NEW st, NEW rep, NEW pas, CommandOK(r, ex, st, rep, pas),
           r.step = "finish",
           ~(r.mode.journal /\ r.open)
    PROVE  LET q == [r EXCEPT !.step = "close"]
           IN CommandOK(q, ex, st, rep, pas) /\ q.mode = r.mode
  <1>. DEFINE q == [r EXCEPT !.step = "close"]
  <1>1. PICK D : r \in CommandType(D)
    BY DEF CommandOK, Typed
  <1>2. q \in CommandType(D)
    BY <1>1 DEF CommandType, Steps, After
  <1>3. /\ q.step = "close" /\ q.mode = r.mode /\ q.permit = r.permit /\ q.held = r.held
        /\ q.open = r.open /\ q.source = r.source /\ q.box = r.box /\ q.worker = r.worker
        /\ q.doc = r.doc /\ q.result = r.result
    BY <1>1 DEF CommandType, BoxType, Boxes
  <1>. HIDE DEF q
  <1>4. BoxesOK(q)
    BY <1>1, <1>3 DEF CommandOK, BoxesOK, After, Before, BeforeReplay, FromBind, FromTests,
         FromInput, FromSave, Working, CopyWorkspaceStep, RunStep, Boxes
  <1>5. WorkerOK(q)
    BY <1>3 DEF CommandOK, WorkerOK, After, Before, FromValidate, FromTests, FromInput, FromSave
  <1>6. DocOK(q, rep, pas)
    BY <1>3 DEF CommandOK, DocOK, After, FromTests, FromInput, FromSave
  <1>7. ResultOK(q, st)
    BY <1>1, <1>3 DEF CommandOK, CommandType, ResultOK, Closing, After, Boxes
  <1>8. CommandOK(q, ex, st, rep, pas)
    BY <1>2, <1>3, <1>4, <1>5, <1>6, <1>7 DEF CommandOK, Typed, After, FromFetch, FromBind,
         Working, FromTests, FromInput, FromSave
  <1>. QED
    BY <1>3, <1>8 DEF q

\* The stage or the journal is closed.
LEMMA CloseStoreOK ==
    ASSUME NEW r, NEW ex, NEW st, NEW rep, NEW pas, CommandOK(r, ex, st, rep, pas),
           r.step = "close",
           NEW s \in {"stage", "journal"}
    PROVE  LET q == [r EXCEPT !.held = @ \ {s}]
           IN CommandOK(q, ex, st, rep, pas) /\ q.mode = r.mode
  <1>. DEFINE q == [r EXCEPT !.held = @ \ {s}]
  <1>1. PICK D : r \in CommandType(D)
    BY DEF CommandOK, Typed
  <1>2. q \in CommandType(D)
    BY <1>1 DEF CommandType, Steps, After
  <1>3. /\ q.step = r.step /\ q.mode = r.mode /\ q.permit = r.permit /\ q.held = r.held \ {s}
        /\ q.open = r.open /\ q.source = r.source /\ q.box = r.box /\ q.worker = r.worker
        /\ q.doc = r.doc /\ q.result = r.result
    BY <1>1 DEF CommandType, BoxType, Boxes
  <1>. HIDE DEF q
  <1>4. BoxesOK(q)
    BY <1>1, <1>3 DEF CommandOK, BoxesOK, After, Before, BeforeReplay, FromBind, FromTests,
         FromInput, FromSave, Working, CopyWorkspaceStep, RunStep, Boxes
  <1>5. WorkerOK(q)
    BY <1>3 DEF CommandOK, WorkerOK, After, Before, FromValidate, FromTests, FromInput,
         FromSave, Boxes
  <1>6. DocOK(q, rep, pas)
    BY <1>3 DEF CommandOK, DocOK, After, FromTests, FromInput, FromSave, Boxes
  <1>7. ResultOK(q, st)
    BY <1>1, <1>3 DEF CommandOK, CommandType, ResultOK, Closing, After, Boxes
  <1>8. CommandOK(q, ex, st, rep, pas)
    BY <1>2, <1>3, <1>4, <1>5, <1>6, <1>7 DEF CommandOK, Typed, After, FromFetch, FromBind,
         Working, FromTests, FromInput, FromSave, Boxes
  <1>. QED
    BY <1>3, <1>8 DEF q

\* The process ends.
LEMMA ExitOK ==
    ASSUME NEW r, NEW ex, NEW st, NEW rep, NEW pas, CommandOK(r, ex, st, rep, pas),
           r.step = "close",
           r.held = {}
    PROVE  LET q == [r EXCEPT !.step = "exited"]
           IN CommandOK(q, ex, st, rep, pas) /\ q.mode = r.mode
  <1>. DEFINE q == [r EXCEPT !.step = "exited"]
  <1>1. PICK D : r \in CommandType(D)
    BY DEF CommandOK, Typed
  <1>2. q \in CommandType(D)
    BY <1>1 DEF CommandType, Steps, After
  <1>3. /\ q.step = "exited" /\ q.mode = r.mode /\ q.permit = r.permit /\ q.held = r.held
        /\ q.open = r.open /\ q.source = r.source /\ q.box = r.box /\ q.worker = r.worker
        /\ q.doc = r.doc /\ q.result = r.result
    BY <1>1 DEF CommandType, BoxType, Boxes
  <1>. HIDE DEF q
  <1>4. BoxesOK(q)
    BY <1>1, <1>3 DEF CommandOK, BoxesOK, After, Before, BeforeReplay, FromBind, FromTests,
         FromInput, FromSave, Working, CopyWorkspaceStep, RunStep, Boxes
  <1>5. WorkerOK(q)
    BY <1>3 DEF CommandOK, WorkerOK, After, Before, FromValidate, FromTests, FromInput, FromSave
  <1>6. DocOK(q, rep, pas)
    BY <1>3 DEF CommandOK, DocOK, After, FromTests, FromInput, FromSave
  <1>7. ResultOK(q, st)
    BY <1>1, <1>3 DEF CommandOK, CommandType, ResultOK, Closing, After, Boxes
  <1>8. CommandOK(q, ex, st, rep, pas)
    BY <1>2, <1>3, <1>4, <1>5, <1>6, <1>7 DEF CommandOK, Typed, After, FromFetch, FromBind,
         Working, FromTests, FromInput, FromSave
  <1>. QED
    BY <1>3, <1>8 DEF q

\* An error while releasing replaces a good result.
LEMMA FailedOK ==
    ASSUME NEW r, NEW ex, NEW st, NEW rep, NEW pas, CommandOK(r, ex, st, rep, pas),
           r.step \in {"unwind", "finish", "close"}
    PROVE  LET q == Failed(r)
           IN CommandOK(q, ex, st, rep, pas) /\ q.mode = r.mode
  <1>. DEFINE q == Failed(r)
  <1>1. PICK D : r \in CommandType(D)
    BY DEF CommandOK, Typed
  <1>z. (IF r.result = "verified" THEN "failed" ELSE r.result)
          \in {"none", "verified", "failed", "declined"}
    BY <1>1 DEF CommandType
  <1>b. r.box \in BoxType(D \cup {NoDoc})
    BY <1>1 DEF CommandType, BoxType, BoxStates, Failed
  <1>2. q \in CommandType(D \cup {NoDoc})
    BY <1>1, <1>z, <1>b, ZenonT(60) DEF CommandType, Failed
  <1>3. /\ q.step = r.step /\ q.mode = r.mode /\ q.permit = r.permit /\ q.held = r.held
        /\ q.open = r.open /\ q.source = r.source /\ q.box = r.box /\ q.worker = r.worker
        /\ q.doc = NoDoc
        /\ q.result # "verified"
        /\ q.result # "none" => r.result # "none"
    BY <1>1 DEF CommandType, BoxType, Boxes, Failed
  <1>. HIDE DEF q
  <1>4. BoxesOK(q)
    BY <1>1, <1>3 DEF CommandOK, BoxesOK, After, Before, BeforeReplay, FromBind, FromTests,
         FromInput, FromSave, Working, CopyWorkspaceStep, RunStep, Boxes
  <1>5. WorkerOK(q)
    BY <1>3 DEF CommandOK, WorkerOK, After, Before, FromValidate, FromTests, FromInput, FromSave
  <1>6. DocOK(q, rep, pas)
    BY <1>3 DEF CommandOK, DocOK, After, FromTests, FromInput, FromSave
  <1>7. ResultOK(q, st)
    BY <1>1, <1>3 DEF CommandOK, CommandType, ResultOK, Closing, After, Boxes
  <1>8. CommandOK(q, ex, st, rep, pas)
    BY <1>2, <1>3, <1>4, <1>5, <1>6, <1>7 DEF CommandOK, Typed, After, FromFetch, FromBind,
         Working, FromTests, FromInput, FromSave
  <1>. QED
    BY <1>3, <1>8 DEF q


\* The process is killed.
LEMMA CrashOK ==
    ASSUME NEW r, NEW ex, NEW st, NEW rep, NEW pas, CommandOK(r, ex, st, rep, pas)
    PROVE  LET q == [Aborted(r) EXCEPT !.step = "crashed", !.held = {}, !.open = FALSE,
                       !.box = [b \in Boxes |-> NoBox]]
           IN CommandOK(q, ex, st, rep, pas) /\ q.mode = r.mode
  <1>. DEFINE q == [Aborted(r) EXCEPT !.step = "crashed", !.held = {}, !.open = FALSE,
                      !.box = [b \in Boxes |-> NoBox]]
  <1>1. PICK D : r \in CommandType(D)
    BY DEF CommandOK, Typed
  <1>2. [b \in Boxes |-> NoBox] \in BoxType(D \cup {NoSnapshot, NoDoc})
    BY DEF NoBox, BoxType, BoxStates
  <1>3. q \in CommandType(D \cup {NoSnapshot, NoDoc})
    BY <1>1, <1>2 DEF CommandType, Aborted, WorkerStates, SourceTrees, Steps, Held
  <1>4. /\ q.step = "crashed" /\ q.mode = r.mode /\ q.held = {} /\ q.open = FALSE
        /\ q.box = [b \in Boxes |-> NoBox] /\ q.worker = "none" /\ q.result = "failed"
    BY <1>1 DEF CommandType, Aborted
  <1>. QED
    BY <1>3, <1>4 DEF CommandOK, Typed, BoxesOK, WorkerOK, DocOK, ResultOK, NoBox, Boxes,
         SourceTrees, Closing, Before, BeforeReplay, FromFetch, FromBind, FromTests,
         FromInput, FromSave, FromValidate, Working

\* A call is left without a terminal event, a proposal is declined: nothing of a
\* failed command depends on that.
LEMMA UnwindsOK ==
    ASSUME NEW r, NEW ex, NEW st, NEW rep, NEW pas, CommandOK(r, ex, st, rep, pas),
           r.step \in {"unwind", "close"}, r.result # "verified"
    PROVE  /\ r.mode.journal =>
                LET q == [r EXCEPT !.open = TRUE]
                IN CommandOK(q, ex, st, rep, pas) /\ q.mode = r.mode
           /\ LET q == [r EXCEPT !.result = "declined"]
              IN CommandOK(q, ex, st, rep, pas) /\ q.mode = r.mode
  <1>1. PICK D : r \in CommandType(D)
    BY DEF CommandOK, Typed
  <1>2. /\ [r EXCEPT !.open = TRUE] \in CommandType(D)
        /\ [r EXCEPT !.result = "declined"] \in CommandType(D)
    BY <1>1 DEF CommandType
  <1>3. ASSUME NEW q, q \in CommandType(D), q.step = r.step, q.mode = r.mode, q.permit = r.permit,
               q.held = r.held, q.box = r.box, q.worker = r.worker, q.doc = r.doc,
               q.open => r.mode.journal, q.result # "verified"
        PROVE  CommandOK(q, ex, st, rep, pas)
    <2>1. BoxesOK(q) /\ WorkerOK(q) /\ DocOK(q, rep, pas)
      BY <1>3 DEF CommandOK, BoxesOK, WorkerOK, DocOK
    <2>. QED
      BY <1>3, <2>1 DEF CommandOK, Typed, ResultOK, Closing
  <1>4. ASSUME r.mode.journal
        PROVE  LET q == [r EXCEPT !.open = TRUE]
               IN CommandOK(q, ex, st, rep, pas) /\ q.mode = r.mode
    BY <1>1, <1>2, <1>3, <1>4 DEF CommandType
  <1>5. LET q == [r EXCEPT !.result = "declined"]
        IN CommandOK(q, ex, st, rep, pas) /\ q.mode = r.mode
    BY <1>1, <1>2, <1>3 DEF CommandType, CommandOK
  <1>. QED
    BY <1>4, <1>5

\* What a command relies on only grows.
LEMMA StillOK ==
    ASSUME NEW r, NEW ex, NEW st, NEW rep, NEW pas, CommandOK(r, ex, st, rep, pas),
           NEW ex2, NEW st2, NEW rep2, NEW pas2,
           ex => ex2, st \subseteq st2, rep \subseteq rep2, pas \subseteq pas2
    PROVE  CommandOK(r, ex2, st2, rep2, pas2)
  <1>1. DocOK(r, rep2, pas2)
    BY DEF CommandOK, DocOK, ArtifactOK, Replayed, PassedInput
  <1>2. ResultOK(r, st2)
    BY DEF CommandOK, ResultOK
  <1>. QED
    BY <1>1, <1>2 DEF CommandOK

----------------------------------------------------------------------------
(* One step of a command, seen by the others                               *)

\* A step that changes one command, and lets the shared state grow, keeps the
\* invariant when the command it leaves behind is as it must be.
LEMMA BecomesInv ==
    ASSUME EInv, NEW c \in Commands, NEW q, Becomes(c, q), q.mode = cmd[c].mode,
           CommandOK(q, exists', stage', replayed', passed'),
           exists => exists', stage \subseteq stage', replayed \subseteq replayed',
           passed \subseteq passed', stage' # {} => exists', changes' \in 0..MaxChanges,
           writer' \in {writer, c, NoCommand}, writer' = c => q.step = "insert",
           StagedIsVerified', UniqueKeys'
    PROVE  EInv'
  <1>1. cmd' = [cmd EXCEPT ![c] = q] /\ cmd' = [d \in Commands |-> cmd'[d]]
    BY DEF Becomes, EInv
  <1>2. cmd'[c] = q /\ \A d \in Commands \ {c} : cmd'[d] = cmd[d]
    BY <1>1 DEF EInv
  <1>3. \A d \in Commands : cmd'[d].mode \in ModeOf[d]
    BY <1>2 DEF EInv
  <1>4. ASSUME NEW d \in Commands
        PROVE  CommandOK(cmd'[d], exists', stage', replayed', passed')
    <2>1. CASE d = c
      BY <1>2, <2>1
    <2>2. CASE d # c
      <3>1. CommandOK(cmd[d], exists, stage, replayed, passed)
        BY DEF EInv
      <3>. QED
        BY <1>2, <2>2, <3>1, StillOK
    <2>. QED
      BY <2>1, <2>2
  <1>5. /\ writer' \in Commands \cup {NoCommand}
        /\ writer' # NoCommand => cmd'[writer'].step = "insert"
    BY <1>2 DEF EInv
  <1>. QED
    BY <1>1, <1>3, <1>4, <1>5 DEF EInv

\* Most steps touch nothing but the command.
LEMMA QuietInv ==
    ASSUME EInv, NEW c \in Commands, NEW q, Becomes(c, q), q.mode = cmd[c].mode,
           CommandOK(q, exists, stage, replayed, passed),
           cmd[c].step = "insert" => q.step = "insert", UNCHANGED shared
    PROVE  EInv'
  <1>1. /\ exists' = exists /\ stage' = stage /\ replayed' = replayed
        /\ passed' = passed /\ writer' = writer /\ changes' = changes
    BY DEF shared
  <1>2. StagedIsVerified' /\ UniqueKeys'
    BY <1>1 DEF EInv, StagedIsVerified, UniqueKeys
  <1>3. writer' = c => q.step = "insert"
    BY <1>1, ConstantsAssumption DEF EInv
  <1>4. CommandOK(q, exists', stage', replayed', passed')
    BY <1>1
  <1>. QED
    BY <1>1, <1>2, <1>3, <1>4, BecomesInv DEF EInv

Plain(r) == r.step \notin Copying \cup {"insert"}

\* A command can fail anywhere but in the middle of a copy.
LEMMA AbortedOK ==
    ASSUME NEW r, NEW ex, NEW st, NEW rep, NEW pas, CommandOK(r, ex, st, rep, pas),
           r.step \notin Copying
    PROVE  /\ CommandOK(Aborted(r), ex, st, rep, pas)
           /\ Aborted(r).mode = r.mode /\ Aborted(r).step = "unwind"
           /\ r.mode.journal =>
                LET q == [Aborted(r) EXCEPT !.open = TRUE]
                IN CommandOK(q, ex, st, rep, pas) /\ q.mode = r.mode
           /\ LET q == [Aborted(r) EXCEPT !.result = "declined"]
              IN CommandOK(q, ex, st, rep, pas) /\ q.mode = r.mode
  <1>1. \A b \in Boxes : r.box[b].state # "copied"
    BY NotCopying
  <1>2. /\ CommandOK(Aborted(r), ex, st, rep, pas)
        /\ Aborted(r).mode = r.mode /\ Aborted(r).step = "unwind"
    BY <1>1, AbortOK DEF CommandOK, BoxesOK
  <1>3. Aborted(r).result # "verified"
    BY DEF Aborted, CommandOK, Typed, CommandType
  <1>. QED
    BY <1>2, <1>3, UnwindsOK

\* A call that raises keeps it.
LEMMA RaisesInv ==
    ASSUME EInv, NEW c \in Commands, Raises(c), Plain(cmd[c]), UNCHANGED shared
    PROVE  EInv'
  <1>1. CommandOK(cmd[c], exists, stage, replayed, passed)
    BY DEF EInv
  <1>. QED
    BY <1>1, AbortedOK, QuietInv DEF Raises, Plain

\* So does a call, however it ends (run_controlled_step).
LEMMA CallInv ==
    ASSUME EInv, NEW c \in Commands, NEW q, Call(c, q), q.mode = cmd[c].mode,
           CommandOK(q, exists, stage, replayed, passed), q.step \notin Copying,
           Plain(cmd[c]), UNCHANGED shared
    PROVE  EInv'
  <1>1. CASE Becomes(c, q)
    BY <1>1, QuietInv DEF Plain
  <1>2. CASE Becomes(c, Aborted(cmd[c]))
    BY <1>2, RaisesInv DEF Raises
  <1>3. CASE cmd[c].mode.journal /\ Becomes(c, [Aborted(q) EXCEPT !.open = TRUE])
    BY <1>3, AbortedOK, QuietInv DEF Plain
  <1>. QED
    BY <1>1, <1>2, <1>3 DEF Call

----------------------------------------------------------------------------
(* The actions                                                             *)

\* Calls that change nothing but the step.
LEMMA AdvanceInv ==
    ASSUME EInv, NEW c \in Commands, UNCHANGED shared,
           cmd[c].step \in {"paths", "confirm", "journal", "preflight", "pin", "request",
                            "validate", "tests", "bind_prepared"},
           Call(c, Advanced(c)) \/ Becomes(c, Advanced(c)) \/ Raises(c)
    PROVE  EInv'
  <1>1. CommandOK(cmd[c], exists, stage, replayed, passed)
    BY DEF EInv
  <1>2. CommandOK(Advanced(c), exists, stage, replayed, passed) /\ Advanced(c).mode = cmd[c].mode
    BY <1>1, AdvanceOK DEF Advanced
  <1>3. Advanced(c).step \notin Copying \/ cmd[c].step = "request"
    BY <1>1 DEF Advanced, CommandOK, Typed, CommandType, After, Copying
  <1>4. Plain(cmd[c])
    BY DEF Plain, Copying
  <1>5. Advanced(c).step \notin Copying
    BY <1>1 DEF Advanced, CommandOK, Typed, CommandType, After, Copying
  <1>. QED
    BY <1>2, <1>4, <1>5, CallInv, QuietInv, RaisesInv DEF Plain

\* The actions from the options to the runtime.
LEMMA StartInv ==
    ASSUME EInv, NEW c \in Commands,
           \/ CheckPaths(c) \/ Confirm(c) \/ OpenJournal(c) \/ Readiness(c) \/ IssuePermit(c)
           \/ Preflight(c) \/ PermitAges(c) \/ Authorize(c)
    PROVE  EInv'
  <1>. DEFINE r == cmd[c]
              OK(q) == CommandOK(q, exists, stage, replayed, passed) /\ q.mode = r.mode
  <1>1. CommandOK(r, exists, stage, replayed, passed)
    BY DEF EInv
  <1>2. PICK D : r \in CommandType(D)
    BY <1>1 DEF CommandOK, Typed
  <1>3. CASE CheckPaths(c)
    BY <1>3, AdvanceInv DEF CheckPaths, At
  <1>4. CASE Confirm(c)
    BY <1>4, AdvanceInv DEF Confirm, At
  <1>5. CASE OpenJournal(c)
    <2>. DEFINE q == [Advanced(c) EXCEPT !.held = {"journal"}]
    <2>1. OK(q)
      BY <1>1, <1>5, OpenJournalOK DEF OpenJournal, At, Advanced
    <2>. QED
      BY <1>5, <2>1, AdvanceInv, QuietInv DEF OpenJournal, At
  <1>6. CASE Readiness(c)
    <2>1. PICK p \in {"ready", "none"} : Call(c, [Advanced(c) EXCEPT !.permit = p])
      BY <1>6 DEF Readiness
    <2>. DEFINE q == [Advanced(c) EXCEPT !.permit = p]
    <2>2. OK(q)
      BY <1>1, <1>6, ReadinessOK DEF Readiness, At, Advanced
    <2>3. r.step = "readiness" /\ After[r.step] = "permit" /\ Plain(r)
      BY <1>6 DEF Readiness, At, After, Plain, Copying
    <2>4. q.step = "permit"
      BY <1>2, <2>3 DEF CommandType, Advanced
    <2>. QED
      BY <1>6, <2>1, <2>2, <2>3, <2>4, CallInv DEF Readiness, Copying
  <1>7. CASE IssuePermit(c)
    <2>. DEFINE n == IF r.mode.card.model = "local" THEN "preflight" ELSE "runtime"
                q == [r EXCEPT !.permit = "fresh", !.step = n]
    <2>1. n \in {"preflight", "runtime"} /\ Plain(r)
      BY <1>7 DEF IssuePermit, At, Plain, Copying
    <2>2. OK(q)
      BY <1>1, <1>7, <2>1, IssuePermitOK DEF IssuePermit, At
    <2>3. q.step \notin Copying
      BY <1>2, <2>1 DEF CommandType, Copying
    <2>. QED
      BY <1>7, <2>1, <2>2, <2>3, CallInv, RaisesInv DEF IssuePermit
  <1>8. CASE Preflight(c)
    BY <1>8, AdvanceInv DEF Preflight, At
  <1>9. CASE PermitAges(c)
    <2>1. OK([r EXCEPT !.permit = "stale"])
      BY <1>1, <1>9, PermitAgesOK DEF PermitAges
    <2>2. [r EXCEPT !.permit = "stale"].step = r.step
      BY <1>2 DEF CommandType
    <2>. QED
      BY <1>9, <2>1, <2>2, QuietInv DEF PermitAges
  <1>10. CASE Authorize(c)
    <2>. DEFINE s == [r EXCEPT !.permit = "spent"]
                q == [s EXCEPT !.step = "fetch"]
    <2>1. OK(q) /\ q.step = "fetch" /\ Plain(r)
      BY <1>1, <1>2, <1>10, AuthorizeOK DEF Authorize, At, CommandType, Plain, Copying
    <2>2. CASE Call(c, q)
      BY <1>10, <2>1, <2>2, CallInv DEF Authorize, Copying
    <2>3. CASE Becomes(c, Aborted(s))
      <3>1. s \in CommandType(D) /\ s.open = r.open /\ s.mode = r.mode /\ s.box = r.box
             /\ s.held = r.held
        BY <1>2 DEF CommandType
      <3>2. \A b \in Boxes : r.box[b].state # "copied"
        BY <1>1, <2>1, NotCopying DEF Plain
      <3>3. Typed(s) /\ (s.open => s.mode.journal)
        BY <1>1, <3>1 DEF Typed, CommandOK
      <3>4. \A b \in Boxes : (s.box[b].state = "up" <=> b \in s.held) /\ s.box[b].state # "copied"
        BY <1>1, <3>1, <3>2 DEF CommandOK, BoxesOK
      <3>5. OK(Aborted(s)) /\ Aborted(s).step = "unwind"
        BY <3>1, <3>3, <3>4, AbortOK
      <3>. QED
        BY <1>10, <2>3, <3>5, QuietInv DEF Authorize, At
    <2>. QED
      BY <1>10, <2>2, <2>3 DEF Authorize
  <1>. QED
    BY <1>3, <1>4, <1>5, <1>6, <1>7, <1>8, <1>9, <1>10

\* The stage is opened: its file exists from then on.
LEMMA OpenStageInv ==
    ASSUME EInv, NEW c \in Commands, OpenStage(c)
    PROVE  EInv'
  <1>. DEFINE r == cmd[c]
              q == [Advanced(c) EXCEPT !.held = @ \cup {"stage"}]
  <1>1. CommandOK(r, exists, stage, replayed, passed)
    BY DEF EInv
  <1>2. /\ r.step = "runtime"
        /\ stage' = stage /\ writer' = writer /\ replayed' = replayed
        /\ passed' = passed /\ changes' = changes
    BY DEF OpenStage, At
  <1>a. exists => exists'
    <2>1. exists' = TRUE \/ exists' = exists
      BY DEF OpenStage
    <2>. QED
      BY <2>1
  <1>3. CommandOK(r, exists', stage', replayed', passed')
    BY <1>1, <1>2, <1>a, StillOK
  <1>4. StagedIsVerified' /\ UniqueKeys'
    BY <1>2 DEF EInv, StagedIsVerified, UniqueKeys
  <1>b. stage' # {} => exists'
    BY <1>2, <1>a DEF EInv
  <1>c. changes' \in 0..MaxChanges /\ writer' \in {writer, c, NoCommand}
    BY <1>2 DEF EInv
  <1>5. writer' # c
    BY <1>2, ConstantsAssumption DEF EInv
  <1>6. CASE Becomes(c, q) /\ exists' = TRUE
    <2>1. \A ex, st, rep, pas : ex = TRUE /\ CommandOK(r, ex, st, rep, pas) =>
             CommandOK(q, ex, st, rep, pas) /\ q.mode = r.mode
      BY <1>2, OpenStageOK DEF Advanced
    <2>. HIDE DEF q
    <2>2. CommandOK(q, exists', stage', replayed', passed') /\ q.mode = r.mode
      BY <1>3, <1>6, <2>1
    <2>. QED
      BY <1>2, <1>a, <1>b, <1>c, <1>4, <1>5, <1>6, <2>2, BecomesInv
  <1>7. CASE Raises(c) /\ exists' \in {exists, TRUE}
    <2>1. CommandOK(Aborted(r), exists', stage', replayed', passed') /\ Aborted(r).mode = r.mode
      BY <1>2, <1>3, AbortedOK DEF Copying
    <2>. QED
      BY <1>2, <1>a, <1>b, <1>c, <1>4, <1>5, <1>7, <2>1, BecomesInv DEF Raises
  <1>. QED
    BY <1>6, <1>7 DEF OpenStage

\* The actions about the snapshot, and what others do to its directory.
LEMMA SnapshotInv ==
    ASSUME EInv, NEW c \in Commands,
           Fetch(c) \/ PinDecision(c) \/ Materialize(c) \/ BuildRequest(c) \/ Tamper(c)
    PROVE  EInv'
  <1>. DEFINE r == cmd[c]
              OK(q) == CommandOK(q, exists, stage, replayed, passed) /\ q.mode = r.mode
  <1>1. CommandOK(r, exists, stage, replayed, passed)
    BY DEF EInv
  <1>2. PICK D : r \in CommandType(D)
    BY <1>1 DEF CommandOK, Typed
  <1>3. CASE Fetch(c)
    <2>1. PICK files \in Fetched(r.mode.card.origin) :
             \/ Call(c, [r EXCEPT !.step = "pin", !.source = files])
             \/ Raises(c)
      BY <1>3 DEF Fetch
    <2>. DEFINE q == [r EXCEPT !.step = "pin", !.source = files]
    <2>2. files \in SourceTrees
      BY FetchedIsPinned DEF SourceTrees, Trees
    <2>3. OK(q) /\ q.step = "pin" /\ Plain(r)
      BY <1>1, <1>2, <1>3, <2>2, FetchOK DEF Fetch, At, CommandType, Plain, Copying
    <2>. QED
      BY <1>3, <2>1, <2>3, CallInv, RaisesInv DEF Fetch, Copying
  <1>4. CASE PinDecision(c)
    BY <1>4, AdvanceInv DEF PinDecision, At
  <1>5. CASE Materialize(c)
    <2>1. PICK files \in Trees :
             \/ Call(c, [Advanced(c) EXCEPT !.held = @ \cup {"snapshot"}, !.source = files])
             \/ Raises(c)
      BY <1>5 DEF Materialize
    <2>. DEFINE q == [Advanced(c) EXCEPT !.held = @ \cup {"snapshot"}, !.source = files]
    <2>2. OK(q)
      BY <1>1, <1>5, MaterializeOK DEF Materialize, At, Advanced, SourceTrees
    <2>a. r.step = "materialize"
      BY <1>5 DEF Materialize, At
    <2>3. After[r.step] = "request" /\ Plain(r)
      BY <2>a DEF After, Plain, Copying
    <2>4. q.step = "request"
      BY <1>2, <2>3 DEF CommandType, Advanced
    <2>. QED
      BY <1>5, <2>1, <2>2, <2>3, <2>4, CallInv, RaisesInv DEF Materialize, Copying
  <1>6. CASE BuildRequest(c)
    BY <1>6, AdvanceInv DEF BuildRequest, At
  <1>7. CASE Tamper(c)
    <2>1. PICK t \in Trees : Becomes(c, [r EXCEPT !.source = t])
      BY <1>7 DEF Tamper
    <2>. DEFINE q == [r EXCEPT !.source = t]
    <2>2. OK(q) /\ q.step = r.step
      BY <1>1, <1>2, TamperOK DEF SourceTrees, CommandType
    <2>3. /\ exists' = exists /\ stage' = stage /\ replayed' = replayed /\ passed' = passed
          /\ writer' = writer /\ changes' \in 0..MaxChanges
      BY <1>7, ConstantsAssumption DEF Tamper, EInv
    <2>4. StagedIsVerified' /\ UniqueKeys'
      BY <2>3 DEF EInv, StagedIsVerified, UniqueKeys
    <2>5. writer' = c => q.step = "insert"
      BY <2>2, <2>3, ConstantsAssumption DEF EInv
    <2>6. CommandOK(q, exists', stage', replayed', passed')
      BY <2>2, <2>3
    <2>. QED
      BY <2>1, <2>2, <2>3, <2>4, <2>5, <2>6, BecomesInv DEF EInv
  <1>. QED
    BY <1>3, <1>4, <1>5, <1>6, <1>7

\* A sandbox that is not created, or that is let go.
Uncreating(r, b, s) == [r EXCEPT !.box[b].state = s]
Releasing(r, b, s) == [r EXCEPT !.box[b].state = s, !.held = @ \ {b}]

\* A call without a terminal event.
Unended(r) == [r EXCEPT !.open = TRUE]

\* A sandbox that could not be created leaves nothing half made.
LEMMA UncreatedOK ==
    ASSUME NEW r, NEW ex, NEW st, NEW rep, NEW pas, CommandOK(r, ex, st, rep, pas),
           NEW b \in Boxes, r.step \in {CopyWorkspaceStep[b], RunStep[b]},
           NEW s \in {"none", "closed", "left"}
    PROVE  /\ CommandOK(Aborted(Uncreating(r, b, s)), ex, st, rep, pas)
           /\ Aborted(Uncreating(r, b, s)).mode = r.mode
           /\ Aborted(Uncreating(r, b, s)).step = "unwind"
           /\ r.mode.journal =>
                /\ CommandOK(Unended(Aborted(Uncreating(r, b, s))), ex, st, rep, pas)
                /\ Unended(Aborted(Uncreating(r, b, s))).mode = r.mode
  <1>. DEFINE x == Uncreating(r, b, s)
  <1>1. PICK D : r \in CommandType(D)
    BY DEF CommandOK, Typed
  <1>2. [r.box EXCEPT ![b].state = s] \in BoxType(D)
    BY <1>1 DEF CommandType, BoxType, BoxStates
  <1>3. x \in CommandType(D)
    BY <1>1, <1>2 DEF CommandType, Uncreating
  <1>4. /\ x.open = r.open /\ x.mode = r.mode /\ x.held = r.held
        /\ x.box[b].state = s /\ \A d \in Boxes \ {b} : x.box[d] = r.box[d]
    BY <1>1 DEF CommandType, BoxType, Boxes, Uncreating
  <1>5. \/ b = "prep" /\ r.step \in {"prep_workspace", "prep_run"}
        \/ b = "replay" /\ r.step \in {"replay_workspace", "replay_run"}
    BY DEF Boxes, CopyWorkspaceStep, RunStep
  <1>6. b \notin r.held
    BY <1>5 DEF CommandOK, BoxesOK, Before, BeforeReplay
  <1>7. \A d \in Boxes : (x.box[d].state = "up" <=> d \in x.held) /\ x.box[d].state # "copied"
    BY <1>4, <1>5, <1>6 DEF CommandOK, BoxesOK, Boxes, CopyWorkspaceStep, RunStep
  <1>8. Typed(x) /\ (x.open => x.mode.journal)
    BY <1>3, <1>4 DEF Typed, CommandOK
  <1>. HIDE DEF x
  <1>9. /\ CommandOK(Aborted(x), ex, st, rep, pas)
        /\ Aborted(x).mode = r.mode /\ Aborted(x).step = "unwind"
    BY <1>4, <1>7, <1>8, AbortOK
  <1>10. Aborted(x).result = "failed"
    BY <1>3 DEF Aborted, CommandType
  <1>. QED
    BY <1>9, <1>10, UnwindsOK DEF x, Unended

\* Nor does one whose close raised, or could not be recorded.
LEMMA ClosedBadlyOK ==
    ASSUME NEW r, NEW ex, NEW st, NEW rep, NEW pas, CommandOK(r, ex, st, rep, pas),
           NEW b \in Boxes, r.step \in {"unwind", "close_replay"}, NEW s \in {"closed", "left"}
    PROVE  /\ CommandOK(Aborted(Releasing(r, b, s)), ex, st, rep, pas)
           /\ Aborted(Releasing(r, b, s)).mode = r.mode
           /\ Aborted(Releasing(r, b, s)).step = "unwind"
           /\ r.mode.journal =>
                /\ CommandOK(Unended(Aborted(Releasing(r, b, s))), ex, st, rep, pas)
                /\ Unended(Aborted(Releasing(r, b, s))).mode = r.mode
  <1>. DEFINE x == Releasing(r, b, s)
  <1>1. PICK D : r \in CommandType(D)
    BY DEF CommandOK, Typed
  <1>2. [r.box EXCEPT ![b].state = s] \in BoxType(D)
    BY <1>1 DEF CommandType, BoxType, BoxStates
  <1>3. x \in CommandType(D)
    BY <1>1, <1>2 DEF CommandType, Releasing
  <1>4. /\ x.open = r.open /\ x.mode = r.mode /\ x.held = r.held \ {b}
        /\ x.box[b].state = s /\ \A d \in Boxes \ {b} : x.box[d] = r.box[d]
    BY <1>1 DEF CommandType, BoxType, Boxes, Releasing
  <1>5. \A d \in Boxes : r.box[d].state # "copied"
    BY NotCopying DEF Copying
  <1>6. \A d \in Boxes : (x.box[d].state = "up" <=> d \in x.held) /\ x.box[d].state # "copied"
    BY <1>4, <1>5 DEF CommandOK, BoxesOK
  <1>7. Typed(x) /\ (x.open => x.mode.journal)
    BY <1>3, <1>4 DEF Typed, CommandOK
  <1>. HIDE DEF x
  <1>8. /\ CommandOK(Aborted(x), ex, st, rep, pas)
        /\ Aborted(x).mode = r.mode /\ Aborted(x).step = "unwind"
    BY <1>4, <1>6, <1>7, AbortOK
  <1>9. Aborted(x).result = "failed"
    BY <1>3 DEF Aborted, CommandType
  <1>. QED
    BY <1>8, <1>9, UnwindsOK DEF x, Unended

\* The actions of DockerSandboxBackend.
LEMMA SandboxInv ==
    ASSUME EInv, NEW c \in Commands, NEW b \in Boxes,
           CopySnapshot(c, b) \/ CopyWorkspace(c, b) \/ RunContainer(c, b) \/ CloseSandbox(c, b)
    PROVE  EInv'
  <1>. DEFINE r == cmd[c]
              OK(q) == CommandOK(q, exists, stage, replayed, passed) /\ q.mode = r.mode
  <1>1. CommandOK(r, exists, stage, replayed, passed)
    BY DEF EInv
  <1>2. PICK D : r \in CommandType(D)
    BY <1>1 DEF CommandOK, Typed
  <1>3. CASE CopySnapshot(c, b)
    <2>1. r.step = CopySnapshotStep[b] /\ UNCHANGED shared
      BY <1>3 DEF CopySnapshot, At
    <2>2. After[r.step] = CopyWorkspaceStep[b] /\ Plain(r)
      BY <2>1 DEF After, CopySnapshotStep, CopyWorkspaceStep, Boxes, Plain, Copying
    <2>. DEFINE q == [Advanced(c) EXCEPT !.box[b].state = "copied", !.box[b].snapshot = r.source]
    <2>3. OK(q)
      <3>1. \A n : n = CopyWorkspaceStep[b] =>
               LET x == [[r EXCEPT !.step = n] EXCEPT !.box[b].state = "copied",
                           !.box[b].snapshot = r.source]
               IN CommandOK(x, exists, stage, replayed, passed)
        BY <1>1, <2>1, CopySnapshotOK
      <3>2. q.mode = r.mode
        BY <1>2 DEF CommandType, Advanced
      <3>. QED
        BY <2>2, <3>1, <3>2 DEF Advanced
    <2>. QED
      BY <1>3, <2>1, <2>2, <2>3, QuietInv, RaisesInv DEF CopySnapshot, Plain
  <1>4. CASE CopyWorkspace(c, b)
    <2>1. r.step = CopyWorkspaceStep[b] /\ UNCHANGED shared
      BY <1>4 DEF CopyWorkspace, At
    <2>2. After[r.step] = RunStep[b] /\ r.step # "insert"
      BY <2>1 DEF After, RunStep, CopyWorkspaceStep, Boxes
    <2>. DEFINE q == [Advanced(c) EXCEPT !.box[b].workspace = r.source]
    <2>3. OK(q)
      <3>1. \A n : n = RunStep[b] =>
               LET x == [[r EXCEPT !.step = n] EXCEPT !.box[b].workspace = r.source]
               IN CommandOK(x, exists, stage, replayed, passed)
        BY <1>1, <2>1, CopyWorkspaceOK
      <3>2. q.mode = r.mode
        BY <1>2 DEF CommandType, Advanced
      <3>. QED
        BY <2>2, <3>1, <3>2 DEF Advanced
    <2>4. ASSUME NEW s \in {"none", "left"}
          PROVE  /\ OK(Aborted(Uncreating(r, b, s)))
                 /\ r.mode.journal => OK(Unended(Aborted(Uncreating(r, b, s))))
      BY <1>1, <2>1, UncreatedOK
    <2>. QED
      BY <1>4, <2>1, <2>2, <2>3, <2>4, QuietInv
         DEF CopyWorkspace, CreateFails, Uncreated, Uncreating, Unended
  <1>5. CASE RunContainer(c, b)
    <2>1. r.step = RunStep[b] /\ UNCHANGED shared
      BY <1>5 DEF RunContainer, At
    <2>2. r.step # "insert"
      BY <2>1 DEF RunStep, Boxes
    <2>. DEFINE q == [Advanced(c) EXCEPT !.box[b].state = "up", !.held = @ \cup {b}]
    <2>3. OK(q)
      <3>1. \A n : n = After[RunStep[b]] =>
               LET x == [[r EXCEPT !.step = n] EXCEPT !.box[b].state = "up", !.held = @ \cup {b}]
               IN CommandOK(x, exists, stage, replayed, passed)
        BY <1>1, <2>1, RunContainerOK
      <3>2. q.mode = r.mode
        BY <1>2 DEF CommandType, Advanced
      <3>. QED
        BY <2>1, <3>1, <3>2 DEF Advanced
    <2>4. ASSUME NEW s \in {"none", "left"}
          PROVE  /\ OK(Aborted(Uncreating(r, b, s)))
                 /\ r.mode.journal => OK(Unended(Aborted(Uncreating(r, b, s))))
      BY <1>1, <2>1, UncreatedOK
    <2>5. r.mode.journal => OK(Unended(Aborted(Uncreating(r, b, "closed"))))
      BY <1>1, <2>1, UncreatedOK
    <2>. QED
      BY <1>5, <2>1, <2>2, <2>3, <2>4, <2>5, QuietInv
         DEF RunContainer, CreateFails, Uncreated, Uncreating, Unended
  <1>6. CASE CloseSandbox(c, b)
    <2>1. /\ b \in r.held /\ UNCHANGED shared
          /\ r.step = "unwind" \/ (r.step = "close_replay" /\ b = "replay")
      BY <1>6 DEF CloseSandbox, At
    <2>2. r.step # "insert"
      BY <2>1
    <2>3. ASSUME NEW s \in {"closed", "left"}
          PROVE  /\ OK(Aborted(Releasing(r, b, s)))
                 /\ r.mode.journal => OK(Unended(Aborted(Releasing(r, b, s))))
      BY <1>1, <2>1, ClosedBadlyOK
    <2>4. r.step = "unwind" => OK(Closed(c, b, "closed"))
      BY <1>1, <2>1, ClosedOK DEF Closed
    <2>5. r.step = "close_replay" => OK([Closed(c, b, "closed") EXCEPT !.step = After[@]])
      BY <1>1, <2>1, ReplayClosedOK DEF Closed
    <2>6. PICK s \in {"closed", "left"} :
             \/ s = "closed" /\ At(c, "unwind") /\ Becomes(c, Closed(c, b, "closed"))
             \/ s = "closed" /\ ~At(c, "unwind")
                  /\ Becomes(c, [Closed(c, b, "closed") EXCEPT !.step = After[@]])
             \/ Becomes(c, Aborted(Closed(c, b, s)))
             \/ r.mode.journal /\ Becomes(c, [Aborted(Closed(c, b, s)) EXCEPT !.open = TRUE])
      BY <1>6 DEF CloseSandbox
    <2>. QED
      BY <2>1, <2>2, <2>3, <2>4, <2>5, <2>6, QuietInv DEF At, Closed, Releasing, Unended
  <1>. QED
    BY <1>3, <1>4, <1>5, <1>6

\* The binding of the copied snapshot and the actions of the worker.
LEMMA WorkerInv ==
    ASSUME EInv, NEW c \in Commands,
           \/ BindSnapshot(c) \/ StartWorker(c) \/ CheckWorker(c) \/ CallModel(c)
           \/ CleanUpWorker(c) \/ ValidateProposal(c)
    PROVE  EInv'
  <1>. DEFINE r == cmd[c]
              OK(q) == CommandOK(q, exists, stage, replayed, passed) /\ q.mode = r.mode
  <1>1. CommandOK(r, exists, stage, replayed, passed)
    BY DEF EInv
  <1>2. PICK D : r \in CommandType(D)
    BY <1>1 DEF CommandOK, Typed
  <1>3. CASE BindSnapshot(c)
    <2>. DEFINE n == IF r.mode.worker = "container" THEN "start_worker" ELSE "call_model"
                q == [r EXCEPT !.step = n]
    <2>1. r.step = "bind" /\ UNCHANGED shared
      BY <1>3 DEF BindSnapshot, At
    <2>2. CASE r.box["prep"].snapshot = Base
      <3>1. \A m : m = n => OK([r EXCEPT !.step = m])
        BY <1>1, <2>1, <2>2, BindSnapshotOK
      <3>2. OK(q)
        BY <3>1
      <3>3. q.step \notin Copying /\ Plain(r)
        BY <1>2, <2>1 DEF CommandType, Copying, Plain
      <3>. QED
        BY <1>3, <2>1, <3>2, <3>3, CallInv, RaisesInv DEF BindSnapshot
    <2>3. CASE r.box["prep"].snapshot # Base
      BY <1>3, <2>1, <2>3, RaisesInv DEF BindSnapshot, Plain, Copying
    <2>. QED
      BY <2>2, <2>3
  <1>4. CASE StartWorker(c)
    <2>1. OK([r EXCEPT !.step = "check_worker", !.worker = "running"]) /\ Plain(r)
      BY <1>1, <1>4, StartWorkerOK DEF StartWorker, At, Plain, Copying
    <2>. QED
      BY <1>4, <2>1, QuietInv, RaisesInv DEF StartWorker, At
  <1>5. CASE CheckWorker(c)
    <2>1. PICK n \in {"call_model", "cleanup"} : Becomes(c, [r EXCEPT !.step = n])
      BY <1>5 DEF CheckWorker
    <2>2. r.step = "check_worker" /\ UNCHANGED shared
      BY <1>5 DEF CheckWorker, At
    <2>3. OK([r EXCEPT !.step = n])
      BY <1>1, <2>2, CheckWorkerOK
    <2>. QED
      BY <2>1, <2>2, <2>3, QuietInv
  <1>6. CASE CallModel(c)
    <2>. DEFINE n == IF r.mode.worker = "container" THEN "cleanup" ELSE "validate"
    <2>1. r.step = "call_model" /\ UNCHANGED shared
      BY <1>6 DEF CallModel, At
    <2>2. \A m, d : m = n => OK(Answered(r, m, d))
      BY <1>1, <2>1, ModelAnswersOK
    <2>3. \A m : m = n => OK([r EXCEPT !.step = m])
      BY <1>1, <2>1, ModelFailsOK
    <2>4. \A m : m = n /\ r.mode.journal => OK([r EXCEPT !.step = m, !.open = TRUE])
      BY <1>1, <2>1, ModelUnknownOK
    <2>5. \/ \E p : Becomes(c, [r EXCEPT !.step = n, !.doc = [proposal |-> p]])
          \/ Becomes(c, [r EXCEPT !.step = n])
          \/ r.mode.journal /\ Becomes(c, [r EXCEPT !.step = n, !.open = TRUE])
      BY <1>6 DEF CallModel
    <2>. HIDE DEF n
    <2>6. /\ \A d : OK(Answered(r, n, d))
          /\ OK([r EXCEPT !.step = n])
          /\ r.mode.journal => OK([r EXCEPT !.step = n, !.open = TRUE])
      BY <2>2, <2>3, <2>4
    <2>. QED
      BY <2>1, <2>5, <2>6, QuietInv DEF Answered
  <1>7. CASE CleanUpWorker(c)
    <2>. DEFINE q == [Advanced(c) EXCEPT !.worker = "gone"]
                s == [r EXCEPT !.worker = "unconfirmed"]
    <2>1. r.step = "cleanup" /\ After[r.step] = "validate" /\ Plain(r) /\ UNCHANGED shared
      BY <1>7 DEF CleanUpWorker, At, After, Plain, Copying
    <2>2. OK(q) /\ q.step = "validate"
      BY <1>1, <1>2, <2>1, CleanUpOK DEF Advanced, CommandType
    <2>3. s \in CommandType(D) /\ s.open = r.open /\ s.mode = r.mode /\ s.box = r.box
          /\ s.held = r.held
      BY <1>2 DEF CommandType, WorkerStates
    <2>4. Typed(s) /\ (s.open => s.mode.journal)
      BY <1>1, <2>3 DEF Typed, CommandOK
    <2>5. \A b \in Boxes : (s.box[b].state = "up" <=> b \in s.held) /\ s.box[b].state # "copied"
      BY <1>1, <2>1, <2>3, NotCopying DEF CommandOK, BoxesOK, Plain
    <2>6. OK(Aborted(s))
      BY <2>3, <2>4, <2>5, AbortOK
    <2>. QED
      BY <1>7, <2>1, <2>2, <2>6, CallInv, QuietInv DEF CleanUpWorker, Copying
  <1>8. CASE ValidateProposal(c)
    <2>1. r.step = "validate" /\ Plain(r) /\ UNCHANGED shared
      BY <1>8 DEF ValidateProposal, At, Plain, Copying
    <2>2. LET q == [Aborted(r) EXCEPT !.result = "declined"] IN OK(q)
      BY <1>1, <2>1, AbortedOK DEF Plain
    <2>. QED
      BY <1>8, <2>1, <2>2, AdvanceInv, QuietInv DEF ValidateProposal
  <1>. QED
    BY <1>3, <1>4, <1>5, <1>6, <1>7, <1>8

\* The change is prepared, tested and replayed.
LEMMA PreparationInv ==
    ASSUME EInv, NEW c \in Commands,
           ApplyProposal(c) \/ RunTests(c) \/ BindPrepared(c) \/ CheckReplay(c)
    PROVE  EInv'
  <1>. DEFINE r == cmd[c]
              OK(q) == CommandOK(q, exists, stage, replayed, passed) /\ q.mode = r.mode
  <1>1. CommandOK(r, exists, stage, replayed, passed)
    BY DEF EInv
  <1>2. PICK D : r \in CommandType(D)
    BY <1>1 DEF CommandOK, Typed
  <1>3. CASE ApplyProposal(c)
    <2>. DEFINE p == r.doc.proposal
                x == r.doc.proposal.changes
                q == [Advanced(c) EXCEPT !.box["prep"].workspace = Rewritten(@, x),
                        !.doc = [proposal |-> p, prepared |-> Prepared(r.mode.card, Base, x)]]
    <2>1. r.step = "apply" /\ After[r.step] = "tests" /\ Plain(r) /\ UNCHANGED shared
      BY <1>3 DEF ApplyProposal, At, After, Plain, Copying
    <2>2. r.box["prep"].snapshot = Base
      BY <1>1, <2>1 DEF CommandOK, BoxesOK, Working
    <2>3. OK(q)
      <3>. DEFINE d == [proposal |-> p, prepared |-> Prepared(r.mode.card, Base, x)]
                  w == Rewritten(Advanced(c).box["prep"].workspace, x)
      <3>1. d.prepared.patch = RenderPatch(Base, d.prepared.contents)
        BY DEF Prepared
      <3>. HIDE DEF d, w
      <3>2. \A v, e : e.prepared.patch = RenderPatch(Base, e.prepared.contents) => OK(Applied(r, v, e))
        BY <1>1, <2>1, ApplyOK
      <3>3. OK(Applied(r, w, d))
        BY <3>1, <3>2
      <3>. QED
        BY <3>3 DEF Advanced, Applied, d, w
    <2>4. q.step = "tests"
      BY <1>2, <2>1 DEF Advanced, CommandType
    <2>5. Call(c, q) \/ Raises(c)
      BY <1>3, <2>2 DEF ApplyProposal
    <2>. QED
      BY <2>1, <2>3, <2>4, <2>5, CallInv, RaisesInv DEF Copying
  <1>4. CASE RunTests(c)
    BY <1>4, AdvanceInv DEF RunTests, ControlledStep, At
  <1>5. CASE BindPrepared(c)
    BY <1>5, AdvanceInv DEF BindPrepared, ControlledStep, At
  <1>6. CASE CheckReplay(c)
    <2>1. r.step = "check_replay" /\ Plain(r) /\ UNCHANGED shared
      BY <1>6 DEF CheckReplay, At, Plain, Copying
    <2>2. CASE TreeDigest(r.box["replay"].workspace) = TreeDigest(Base)
      <3>1. r.box["replay"].workspace \in Trees \cup {NoSnapshot}
        BY <1>1 DEF CommandOK, BoxesOK, SourceTrees
      <3>2. r.box["replay"].workspace = Base
        BY <2>2, <3>1, DigestIsInjective
      <3>3. OK(Advanced(c))
        BY <1>1, <2>1, <3>2, CheckReplayOK DEF Advanced
      <3>. QED
        BY <1>6, <2>1, <3>3, QuietInv, RaisesInv DEF CheckReplay
    <2>3. CASE TreeDigest(r.box["replay"].workspace) # TreeDigest(Base)
      BY <1>6, <2>1, <2>3, RaisesInv DEF CheckReplay
    <2>. QED
      BY <2>2, <2>3
  <1>. QED
    BY <1>3, <1>4, <1>5, <1>6

\* What is remembered of replays and verdicts only grows.
LEMMA HistoryInv ==
    ASSUME EInv, NEW c \in Commands, NEW q, Becomes(c, q), q.mode = cmd[c].mode,
           CommandOK(q, exists, stage, replayed', passed'),
           replayed \subseteq replayed', passed \subseteq passed', cmd[c].step # "insert",
           UNCHANGED <<exists, stage, writer, changes>>
    PROVE  EInv'
  <1>1. /\ exists' = exists /\ stage' = stage /\ writer' = writer /\ changes' = changes
    OBVIOUS
  <1>2. StagedIsVerified' /\ UniqueKeys'
    BY <1>1 DEF EInv, StagedIsVerified, UniqueKeys
  <1>3. writer' # c
    BY <1>1, ConstantsAssumption DEF EInv
  <1>4. CommandOK(q, exists', stage', replayed', passed')
    BY <1>1
  <1>. QED
    BY <1>1, <1>2, <1>3, <1>4, BecomesInv DEF EInv

\* A call that a history variable remembers.
LEMMA CallHistoryInv ==
    ASSUME EInv, NEW c \in Commands, NEW q, Call(c, q), q.mode = cmd[c].mode,
           CommandOK(q, exists, stage, replayed', passed'), q.step \notin Copying,
           replayed \subseteq replayed', passed \subseteq passed', Plain(cmd[c]),
           UNCHANGED <<exists, stage, writer, changes>>
    PROVE  EInv'
  <1>. DEFINE r == cmd[c]
              OK(x) == CommandOK(x, exists, stage, replayed', passed') /\ x.mode = r.mode
  <1>1. CommandOK(r, exists, stage, replayed', passed')
    BY StillOK DEF EInv
  <1>2. CASE Becomes(c, q)
    BY <1>2, HistoryInv DEF Plain
  <1>3. CASE Becomes(c, Aborted(r))
    <2>1. OK(Aborted(r))
      BY <1>1, AbortedOK DEF Plain
    <2>. QED
      BY <1>3, <2>1, HistoryInv DEF Plain
  <1>4. CASE r.mode.journal /\ Becomes(c, [Aborted(q) EXCEPT !.open = TRUE])
    <2>1. LET x == [Aborted(q) EXCEPT !.open = TRUE] IN OK(x)
      BY <1>4, AbortedOK
    <2>. QED
      BY <1>4, <2>1, HistoryInv DEF Plain
  <1>. QED
    BY <1>2, <1>3, <1>4 DEF Call

\* The replay's tests, and the memory of those that passed.
LEMMA RunReplayInv ==
    ASSUME EInv, NEW c \in Commands, RunReplay(c)
    PROVE  EInv'
  <1>. DEFINE r == cmd[c]
              row == <<r.doc.prepared.contents, r.box["replay"].workspace>>
  <1>1. CommandOK(r, exists, stage, replayed, passed)
    BY DEF EInv
  <1>2. /\ r.step = "replay" /\ Plain(r) /\ passed' = passed
        /\ UNCHANGED <<exists, stage, writer, changes>>
    BY DEF RunReplay, At, Plain, Copying
  <1>3. CASE Becomes(c, Advanced(c)) /\ replayed' = replayed \cup {row}
    <2>1. CommandOK(r, exists, stage, replayed', passed')
      BY <1>1, <1>2, <1>3, StillOK
    <2>2. row \in replayed'
      BY <1>3
    <2>3. CommandOK(Advanced(c), exists, stage, replayed', passed') /\ Advanced(c).mode = r.mode
      BY <1>2, <2>1, <2>2, ReplayOK DEF Advanced
    <2>. QED
      BY <1>2, <1>3, <2>3, HistoryInv
  <1>4. CASE Call(c, Aborted(r)) /\ UNCHANGED replayed
    <2>1. /\ CommandOK(Aborted(r), exists, stage, replayed, passed)
          /\ Aborted(r).mode = r.mode /\ Aborted(r).step \notin Copying
      BY <1>1, <1>2, AbortedOK DEF Plain, Copying
    <2>2. UNCHANGED shared
      BY <1>2, <1>4 DEF shared
    <2>. QED
      BY <1>2, <1>4, <2>1, <2>2, CallInv
  <1>. QED
    BY <1>3, <1>4 DEF RunReplay

\* The verifier's input, made of the source directory that is read once more.
LEMMA BuildInputInv ==
    ASSUME EInv, NEW c \in Commands, BuildInput(c)
    PROVE  EInv'
  <1>. DEFINE r == cmd[c]
              d == r.doc
              q == [Advanced(c) EXCEPT !.source = NoSnapshot,
                      !.doc = [prepared |-> d.prepared, input |-> VerifierInput(d.prepared, Base)]]
  <1>1. CommandOK(r, exists, stage, replayed, passed)
    BY DEF EInv
  <1>2. r.step = "input" /\ UNCHANGED shared /\ Plain(r)
    BY DEF BuildInput, At, Plain, Copying
  <1>3. CASE InputHolds(d.prepared, d.proposal, r.source)
    <2>1. r.source \in Trees \cup {NoSnapshot}
      BY <1>1 DEF CommandOK, Typed, CommandType, SourceTrees
    <2>2. r.source = Base
      BY <1>3, <2>1, DigestIsInjective DEF InputHolds, SnapshotRead
    <2>3. CommandOK(q, exists, stage, replayed, passed) /\ q.mode = r.mode
      <3>. DEFINE y == [prepared |-> d.prepared, input |-> VerifierInput(d.prepared, Base)]
      <3>1. y.prepared = d.prepared /\ y.input = VerifierInput(y.prepared, Base)
        OBVIOUS
      <3>. HIDE DEF y
      <3>2. LET n == [[r EXCEPT !.step = After[r.step]] EXCEPT !.source = NoSnapshot, !.doc = y]
            IN CommandOK(n, exists, stage, replayed, passed)
        BY <1>1, <1>2, <3>1, InputOK
      <3>3. q.mode = r.mode
        BY <1>1 DEF CommandOK, Typed, CommandType, Advanced
      <3>. QED
        BY <3>2, <3>3 DEF Advanced, y
    <2>4. Becomes(c, q)
      BY <1>3, <2>2 DEF BuildInput
    <2>. QED
      BY <1>2, <2>3, <2>4, QuietInv
  <1>4. CASE ~InputHolds(d.prepared, d.proposal, r.source)
    BY <1>2, <1>4, RaisesInv DEF BuildInput
  <1>. QED
    BY <1>3, <1>4

\* The verifier's answer, and the memory of those that passed.
LEMMA VerifyInv ==
    ASSUME EInv, NEW c \in Commands, Verify(c)
    PROVE  EInv'
  <1>. DEFINE r == cmd[c]
              d == r.doc
              Judged(a) == [Advanced(c) EXCEPT !.doc = [prepared |-> d.prepared, answer |-> a]]
  <1>1. CommandOK(r, exists, stage, replayed, passed)
    BY DEF EInv
  <1>2. PICK D : r \in CommandType(D)
    BY <1>1 DEF CommandOK, Typed
  <1>3. /\ r.step = "verify" /\ After[r.step] = "build" /\ Plain(r)
        /\ replayed' = replayed /\ UNCHANGED <<exists, stage, writer, changes>>
    BY DEF Verify, At, After, Plain, Copying
  <1>4. CASE Raises(c) /\ UNCHANGED passed
    BY <1>3, <1>4, RaisesInv DEF shared
  <1>5. ASSUME NEW a,
               passed' = IF a.verdict = "pass" THEN passed \cup ({a.input} \ {NoInput}) ELSE passed,
               IF Accepted(a, d.input) THEN Call(c, Judged(a)) ELSE Raises(c)
        PROVE  EInv'
    <2>1. passed \subseteq passed'
      BY <1>5
    <2>2. CommandOK(r, exists, stage, replayed', passed')
      BY <1>1, <1>3, <2>1, StillOK
    <2>3. CASE ~Accepted(a, d.input)
      <3>1. CommandOK(Aborted(r), exists, stage, replayed', passed') /\ Aborted(r).mode = r.mode
        BY <1>3, <2>2, AbortedOK DEF Plain
      <3>. QED
        BY <1>3, <1>5, <2>1, <2>3, <3>1, HistoryInv DEF Raises
    <2>4. CASE Accepted(a, d.input)
      <3>1. a.input = VerifierInput(d.prepared, Base) /\ a.verdict = "pass"
        BY <1>1, <1>3, <2>4 DEF CommandOK, DocOK, Accepted, BoundResult
      <3>2. DOMAIN VerifierInput(d.prepared, Base) # DOMAIN NoInput
        BY DEF VerifierInput, NoInput
      <3>3. a.input # NoInput
        BY <3>1, <3>2
      <3>4. a.input \in passed'
        BY <1>5, <3>1, <3>3
      <3>5. CommandOK(Judged(a), exists, stage, replayed', passed') /\ Judged(a).mode = r.mode
        <4>. DEFINE y == [prepared |-> d.prepared, answer |-> a]
        <4>1. /\ y.prepared = d.prepared /\ Accepted(y.answer, d.input)
              /\ y.answer.input \in passed'
          BY <2>4, <3>4
        <4>. HIDE DEF y
        <4>2. LET n == [[r EXCEPT !.step = After[r.step]] EXCEPT !.doc = y]
              IN CommandOK(n, exists, stage, replayed', passed')
          BY <1>3, <2>2, <4>1, VerifyOK
        <4>3. Judged(a).mode = r.mode
          BY <1>2 DEF CommandType, Advanced
        <4>. QED
          BY <4>2, <4>3 DEF Advanced, y
      <3>6. Judged(a).step = "build"
        BY <1>2, <1>3 DEF Advanced, CommandType
      <3>. QED
        BY <1>3, <1>5, <2>1, <2>4, <3>5, <3>6, CallHistoryInv DEF Copying
    <2>. QED
      BY <2>3, <2>4
  <1>. QED
    BY <1>4, <1>5 DEF Verify

\* What build_staged_artifact makes says of itself what a row must say.
LEMMA BuildArtifactInv ==
    ASSUME EInv, NEW c \in Commands, BuildArtifact(c)
    PROVE  EInv'
  <1>. DEFINE r == cmd[c]
              d == r.doc
              x == BuildStagedArtifact(Base, d.prepared, d.answer)
              q == [Advanced(c) EXCEPT !.doc = [artifact |-> x]]
  <1>1. CommandOK(r, exists, stage, replayed, passed)
    BY DEF EInv
  <1>2. r.step = "build" /\ Plain(r) /\ UNCHANGED shared
    BY DEF BuildArtifact, At, Plain, Copying
  <1>3. CASE CanonicalArtifact(x)
    <2>1. /\ x.contents = d.prepared.contents /\ x.receipt = d.answer.receipt
          /\ x.staged = StagedChange(d.prepared) /\ x.staged.patch = d.prepared.patch
      BY DEF BuildStagedArtifact, StagedChange
    <2>2. /\ d.prepared.patch = RenderPatch(Base, d.prepared.contents)
          /\ Replayed(d.prepared.contents, replayed)
          /\ VerifierInput(d.prepared, Base) \in passed
          /\ d.answer.receipt.signed => HostTrusted(d.answer.receipt)
      BY <1>1, <1>2 DEF CommandOK, DocOK, FromTests, FromInput, FromSave
    <2>3. PassedInput(x.contents, x.staged, passed)
      BY <2>1, <2>2 DEF PassedInput, VerifierInput
    <2>4. ~CredentialShaped(x.contents)
      BY <1>3 DEF CanonicalArtifact, CanonicalContents
    <2>. HIDE DEF x
    <2>5. ArtifactOK(x, replayed, passed)
      BY <2>1, <2>2, <2>3, <2>4 DEF ArtifactOK
    <2>6. CommandOK(q, exists, stage, replayed, passed) /\ q.mode = r.mode
      <3>. DEFINE y == [artifact |-> x]
      <3>1. ArtifactOK(y.artifact, replayed, passed)
        BY <2>5
      <3>. HIDE DEF y
      <3>2. LET n == [[r EXCEPT !.step = After[r.step]] EXCEPT !.doc = y]
            IN CommandOK(n, exists, stage, replayed, passed)
        BY <1>1, <1>2, <3>1, BuildOK
      <3>3. q.mode = r.mode
        BY <1>1 DEF CommandOK, Typed, CommandType, Advanced
      <3>. QED
        BY <3>2, <3>3 DEF Advanced, y
    <2>7. Becomes(c, q) \/ Raises(c)
      BY DEF BuildArtifact, x
    <2>. QED
      BY <1>2, <2>6, <2>7, QuietInv, RaisesInv
  <1>4. CASE ~CanonicalArtifact(x)
    BY <1>2, <1>4, RaisesInv DEF BuildArtifact
  <1>. QED
    BY <1>3, <1>4

\* save() takes the lock, finds the row it would write, or raises.
LEMMA SaveBeginInv ==
    ASSUME EInv, NEW c \in Commands, SaveBegin(c)
    PROVE  EInv'
  <1>. DEFINE r == cmd[c]
              q(n) == [r EXCEPT !.step = n]
  <1>1. CommandOK(r, exists, stage, replayed, passed)
    BY DEF EInv
  <1>2. PICK D : r \in CommandType(D)
    BY <1>1 DEF CommandOK, Typed
  <1>3. /\ r.step = "save" /\ Plain(r)
        /\ exists' = exists /\ stage' = stage /\ replayed' = replayed
        /\ passed' = passed /\ changes' = changes
    BY DEF SaveBegin, At, Plain, Copying
  <1>4. ASSUME NEW n \in {"insert", "load"}
        PROVE  /\ CommandOK(q(n), exists, stage, replayed, passed)
               /\ q(n).mode = r.mode /\ q(n).step = n
    <2>1. CommandOK(q(n), exists, stage, replayed, passed)
      BY <1>1, <1>3, SaveOK
    <2>. QED
      BY <1>2, <2>1 DEF CommandType
  <1>5. CASE Becomes(c, q("insert")) /\ writer' = c
    <2>1. StagedIsVerified' /\ UniqueKeys'
      BY <1>3 DEF EInv, StagedIsVerified, UniqueKeys
    <2>2. /\ CommandOK(q("insert"), exists', stage', replayed', passed')
          /\ q("insert").mode = r.mode /\ q("insert").step = "insert"
      BY <1>3, <1>4
    <2>. HIDE DEF q
    <2>. QED
      BY <1>3, <1>5, <2>1, <2>2, BecomesInv DEF EInv
  <1>6. CASE Call(c, q("load")) /\ writer' = writer
    <2>1. UNCHANGED shared
      BY <1>3, <1>6 DEF shared
    <2>. HIDE DEF q
    <2>. QED
      BY <1>3, <1>4, <1>6, <2>1, CallInv DEF Copying
  <1>7. CASE Raises(c) /\ writer' = writer
    BY <1>3, <1>7, RaisesInv DEF shared
  <1>. QED
    BY <1>5, <1>6, <1>7 DEF SaveBegin

\* INSERT and COMMIT: what becomes a row has been through everything.
LEMMA SaveInsertInv ==
    ASSUME EInv, NEW c \in Commands, SaveInsert(c)
    PROVE  EInv'
  <1>. DEFINE r == cmd[c]
              x == r.doc.artifact
  <1>1. CommandOK(r, exists, stage, replayed, passed)
    BY DEF EInv
  <1>2. /\ r.step = "insert" /\ r.step \notin Copying /\ writer' = NoCommand
        /\ exists' = exists /\ replayed' = replayed
        /\ passed' = passed /\ changes' = changes
    BY DEF SaveInsert, At, Copying
  <1>3. NoCommand # c
    BY ConstantsAssumption
  <1>4. CASE Raises(c) /\ UNCHANGED stage
    <2>1. StagedIsVerified' /\ UniqueKeys'
      BY <1>2, <1>4 DEF EInv, StagedIsVerified, UniqueKeys
    <2>2. CommandOK(Aborted(r), exists', stage', replayed', passed') /\ Aborted(r).mode = r.mode
      BY <1>1, <1>2, <1>4, AbortedOK
    <2>. QED
      BY <1>2, <1>3, <1>4, <2>1, <2>2, BecomesInv DEF EInv, Raises
  <1>5. CASE /\ Stored(c) = {}
             /\ stage' = stage \cup {RowOf(c)}
             /\ \/ Becomes(c, Advanced(c))
                \/ r.mode.journal /\ Becomes(c, [Aborted(r) EXCEPT !.open = TRUE])
    <2>1. ArtifactOK(x, replayed, passed)
      BY <1>1, <1>2 DEF CommandOK, DocOK, FromSave
    <2>2. RowOf(c) = [key |-> x.staged, artifact |-> x]
      BY DEF RowOf, Row
    <2>3. StagedIsVerified'
      <3>1. ASSUME NEW s \in stage
            PROVE  /\ s.key.patch = RenderPatch(Base, s.artifact.contents)
                   /\ <<s.artifact.contents, Base>> \in replayed
                   /\ [contents |-> s.artifact.contents, staged |-> s.key, files |-> Base] \in passed
                   /\ s.artifact.receipt.signed => HostTrusted(s.artifact.receipt)
                   /\ ~CredentialShaped(s.artifact.contents)
        BY DEF EInv, StagedIsVerified
      <3>2. LET s == RowOf(c)
            IN  /\ s.key.patch = RenderPatch(Base, s.artifact.contents)
                /\ <<s.artifact.contents, Base>> \in replayed
                /\ [contents |-> s.artifact.contents, staged |-> s.key, files |-> Base] \in passed
                /\ s.artifact.receipt.signed => HostTrusted(s.artifact.receipt)
                /\ ~CredentialShaped(s.artifact.contents)
        BY <2>1, <2>2 DEF ArtifactOK, Replayed, PassedInput
      <3>. QED
        BY <1>2, <1>5, <3>1, <3>2 DEF StagedIsVerified
    <2>4. UniqueKeys'
      BY <1>5 DEF EInv, UniqueKeys, Stored
    <2>5. exists
      BY <1>1, <1>2 DEF CommandOK, FromFetch, FromBind, FromTests, FromInput, FromSave
    <2>6. CommandOK(r, exists', stage', replayed', passed') /\ stage \subseteq stage'
      BY <1>1, <1>2, <1>5, StillOK
    <2>7. ASSUME NEW q, Becomes(c, q), q.mode = r.mode,
                 CommandOK(q, exists', stage', replayed', passed')
          PROVE  EInv'
      BY <1>2, <1>3, <2>3, <2>4, <2>5, <2>6, <2>7, BecomesInv DEF EInv
    <2>8. CASE Becomes(c, Advanced(c))
      <3>1. CommandOK(Advanced(c), exists', stage', replayed', passed') /\ Advanced(c).mode = r.mode
        BY <1>2, <2>6, AdvanceOK DEF Advanced
      <3>. QED
        BY <2>7, <2>8, <3>1
    <2>9. CASE r.mode.journal /\ Becomes(c, [Aborted(r) EXCEPT !.open = TRUE])
      <3>1. LET q == [Aborted(r) EXCEPT !.open = TRUE]
            IN CommandOK(q, exists', stage', replayed', passed') /\ q.mode = r.mode
        BY <1>2, <2>6, <2>9, AbortedOK
      <3>. QED
        BY <2>7, <2>9, <3>1
    <2>. QED
      BY <1>5, <2>8, <2>9
  <1>. QED
    BY <1>4, <1>5 DEF SaveInsert

\* load(): the row is the one that was saved.
LEMMA LoadInv ==
    ASSUME EInv, NEW c \in Commands, Load(c)
    PROVE  EInv'
  <1>. DEFINE r == cmd[c]
              q == [Advanced(c) EXCEPT !.result = "verified",
                      !.box = [b \in Boxes |-> [NoBox EXCEPT !.state = r.box[b].state]]]
  <1>1. CommandOK(r, exists, stage, replayed, passed)
    BY DEF EInv
  <1>2. PICK D : r \in CommandType(D)
    BY <1>1 DEF CommandOK, Typed
  <1>3. r.step = "load" /\ After[r.step] = "unwind" /\ Plain(r) /\ UNCHANGED shared
    BY DEF Load, At, After, Plain, Copying
  <1>4. CASE Stored(c) = {RowOf(c)}
    <2>1. Row(r.doc.artifact) \in stage
      BY <1>4 DEF Stored, RowOf
    <2>2. CommandOK(q, exists, stage, replayed, passed)
      BY <1>1, <1>3, <2>1, LoadOK DEF Advanced
    <2>3. q.mode = r.mode /\ q.step = "unwind"
      BY <1>2, <1>3 DEF CommandType, Advanced
    <2>. QED
      BY <1>3, <1>4, <2>2, <2>3, CallInv DEF Load, Copying
  <1>5. CASE Stored(c) # {RowOf(c)}
    BY <1>3, <1>5, RaisesInv DEF Load
  <1>. QED
    BY <1>4, <1>5

\* The command lets go of what it holds and ends.
LEMMA ReleaseInv ==
    ASSUME EInv, NEW c \in Commands,
           \/ CloseSnapshot(c) \/ Evidence(c) \/ Finish(c)
           \/ (\E s \in {"stage", "journal"} : CloseStore(c, s)) \/ Exit(c)
    PROVE  EInv'
  <1>. DEFINE r == cmd[c]
              OK(q) == CommandOK(q, exists, stage, replayed, passed) /\ q.mode = r.mode
  <1>1. CommandOK(r, exists, stage, replayed, passed)
    BY DEF EInv
  <1>2. PICK D : r \in CommandType(D)
    BY <1>1 DEF CommandOK, Typed
  <1>3. ASSUME NEW q, OK(q), q.step \in {"unwind", "finish", "close"}, r.step # "insert",
               Becomes(c, q) \/ Becomes(c, Failed(q)), UNCHANGED shared
        PROVE  EInv'
    <2>1. OK(Failed(q))
      BY <1>3, FailedOK
    <2>. QED
      BY <1>3, <2>1, QuietInv
  <1>4. CASE CloseSnapshot(c)
    <2>. DEFINE q == [r EXCEPT !.held = @ \ {"snapshot"}]
    <2>1. r.step = "unwind" /\ UNCHANGED shared /\ (Becomes(c, q) \/ Becomes(c, Failed(q)))
      BY <1>4 DEF CloseSnapshot, At
    <2>2. CommandOK(q, exists, stage, replayed, passed)
      BY <1>1, <2>1, CloseSnapshotOK
    <2>3. q.mode = r.mode /\ q.step = "unwind"
      BY <1>2, <2>1 DEF CommandType
    <2>. QED
      BY <1>3, <2>1, <2>2, <2>3
  <1>5. CASE Evidence(c)
    <2>. DEFINE q == [r EXCEPT !.step = "finish"]
    <2>1. r.step = "unwind" /\ UNCHANGED shared /\ (Becomes(c, q) \/ Becomes(c, Failed(q)))
      BY <1>5 DEF Evidence, At
    <2>2. CommandOK(q, exists, stage, replayed, passed)
      BY <1>1, <2>1, EvidenceOK
    <2>3. q.mode = r.mode /\ q.step = "finish"
      BY <1>2 DEF CommandType
    <2>. QED
      BY <1>3, <2>1, <2>2, <2>3
  <1>6. CASE Finish(c)
    <2>. DEFINE q == [r EXCEPT !.step = "close"]
    <2>1. r.step = "finish" /\ UNCHANGED shared
      BY <1>6 DEF Finish, At
    <2>2. q.mode = r.mode /\ q.step = "close"
      BY <1>2 DEF CommandType
    <2>3. CASE ~(r.mode.journal /\ r.open) /\ Becomes(c, q)
      <3>1. CommandOK(q, exists, stage, replayed, passed)
        BY <1>1, <2>1, <2>3, FinishOK
      <3>. QED
        BY <1>3, <2>1, <2>2, <2>3, <3>1
    <2>4. CASE r.mode.journal /\ Becomes(c, [Failed(q) EXCEPT !.open = TRUE])
      <3>1. CommandOK(Failed(r), exists, stage, replayed, passed)
        BY <1>1, <2>1, FailedOK
      <3>. DEFINE p == [Failed(q) EXCEPT !.open = TRUE]
      <3>2. p \in CommandType(D \cup {NoDoc})
        <4>1. r.box \in BoxType(D \cup {NoDoc})
          BY <1>2 DEF CommandType, BoxType
        <4>. QED
          BY <1>2, <4>1 DEF CommandType, Failed, Steps
      <3>3. /\ p.step = "close" /\ p.mode = r.mode /\ p.held = r.held /\ p.permit = r.permit
            /\ p.box = r.box /\ p.worker = r.worker /\ p.result # "verified"
        BY <1>2 DEF CommandType, Failed
      <3>4. BoxesOK(p)
        BY <1>1, <2>1, <3>3 DEF CommandOK, BoxesOK, Before, BeforeReplay, FromBind, FromTests,
             FromInput, FromSave, Working, CopyWorkspaceStep, RunStep, Boxes
      <3>5. CommandOK(p, exists, stage, replayed, passed)
        BY <2>4, <3>2, <3>3, <3>4 DEF CommandOK, Typed, WorkerOK, DocOK, ResultOK, Closing,
             Before, BeforeReplay, FromFetch, FromBind, FromTests, FromInput, FromSave,
             FromValidate, Working
      <3>. QED
        BY <2>1, <2>4, <3>3, <3>5, QuietInv
    <2>. QED
      BY <1>6, <2>3, <2>4 DEF Finish
  <1>7. ASSUME NEW s \in {"stage", "journal"}, CloseStore(c, s)
        PROVE  EInv'
    <2>. DEFINE q == [r EXCEPT !.held = @ \ {s}]
    <2>1. r.step = "close" /\ UNCHANGED shared /\ (Becomes(c, q) \/ Becomes(c, Failed(q)))
      BY <1>7 DEF CloseStore, At
    <2>2. CommandOK(q, exists, stage, replayed, passed)
      BY <1>1, <2>1, CloseStoreOK
    <2>3. q.mode = r.mode /\ q.step = "close"
      BY <1>2, <2>1 DEF CommandType
    <2>. QED
      BY <1>3, <2>1, <2>2, <2>3
  <1>8. CASE Exit(c)
    <2>1. r.step = "close" /\ r.held = {} /\ UNCHANGED shared
      BY <1>8 DEF Exit, At
    <2>2. CommandOK([r EXCEPT !.step = "exited"], exists, stage, replayed, passed)
      BY <1>1, <2>1, ExitOK
    <2>3. [r EXCEPT !.step = "exited"].mode = r.mode
      BY <1>2 DEF CommandType
    <2>. QED
      BY <1>8, <2>1, <2>2, <2>3, QuietInv DEF Exit
  <1>. QED
    BY <1>4, <1>5, <1>6, <1>7, <1>8

\* A killed process loses its transaction, not what is stored.
LEMMA CrashInv ==
    ASSUME EInv, NEW c \in Commands, Crash(c)
    PROVE  EInv'
  <1>. DEFINE r == cmd[c]
              q == [Aborted(r) EXCEPT !.step = "crashed", !.held = {}, !.open = FALSE,
                      !.box = [b \in Boxes |-> NoBox]]
  <1>1. CommandOK(r, exists, stage, replayed, passed)
    BY DEF EInv
  <1>2. CommandOK(q, exists, stage, replayed, passed) /\ q.mode = r.mode
    BY <1>1, CrashOK
  <1>3. /\ exists' = exists /\ stage' = stage /\ replayed' = replayed
        /\ passed' = passed /\ changes' = changes /\ Becomes(c, q)
        /\ writer' = IF writer = c THEN NoCommand ELSE writer
    BY DEF Crash
  <1>4. StagedIsVerified' /\ UniqueKeys'
    BY <1>3 DEF EInv, StagedIsVerified, UniqueKeys
  <1>5. writer' # c /\ writer' \in {writer, c, NoCommand}
    BY <1>3, ConstantsAssumption
  <1>6. CommandOK(q, exists', stage', replayed', passed')
    BY <1>2, <1>3
  <1>. HIDE DEF q
  <1>. QED
    BY <1>2, <1>3, <1>4, <1>5, <1>6, BecomesInv DEF EInv

\* Every step keeps the invariant.
LEMMA NextInv == EInv /\ [Next]_vars => EInv'
  <1>. SUFFICES ASSUME EInv, [Next]_vars PROVE EInv'
    OBVIOUS
  <1>1. CASE UNCHANGED vars
    BY <1>1 DEF vars, EInv, StagedIsVerified, UniqueKeys
  <1>2. ASSUME NEW c \in Commands,
               \/ CheckPaths(c) \/ Confirm(c) \/ OpenJournal(c) \/ Readiness(c) \/ IssuePermit(c)
               \/ Preflight(c) \/ PermitAges(c) \/ OpenStage(c) \/ Authorize(c)
        PROVE  EInv'
    BY <1>2, StartInv, OpenStageInv
  <1>3. ASSUME NEW c \in Commands,
               Fetch(c) \/ PinDecision(c) \/ Materialize(c) \/ BuildRequest(c) \/ Tamper(c)
        PROVE  EInv'
    BY <1>3, SnapshotInv
  <1>4. ASSUME NEW c \in Commands, NEW b \in Boxes,
               CopySnapshot(c, b) \/ CopyWorkspace(c, b) \/ RunContainer(c, b) \/ CloseSandbox(c, b)
        PROVE  EInv'
    BY <1>4, SandboxInv
  <1>5. ASSUME NEW c \in Commands,
               \/ BindSnapshot(c) \/ StartWorker(c) \/ CheckWorker(c) \/ CallModel(c)
               \/ CleanUpWorker(c) \/ ValidateProposal(c)
        PROVE  EInv'
    BY <1>5, WorkerInv
  <1>6. ASSUME NEW c \in Commands,
               \/ ApplyProposal(c) \/ RunTests(c) \/ BindPrepared(c) \/ CheckReplay(c)
               \/ RunReplay(c)
        PROVE  EInv'
    BY <1>6, PreparationInv, RunReplayInv
  <1>7. ASSUME NEW c \in Commands,
               BuildInput(c) \/ Verify(c) \/ BuildArtifact(c) \/ Save(c) \/ Load(c)
        PROVE  EInv'
    BY <1>7, BuildInputInv, VerifyInv, BuildArtifactInv, SaveBeginInv, SaveInsertInv, LoadInv
       DEF Save
  <1>8. ASSUME NEW c \in Commands,
               \/ CloseSnapshot(c) \/ Evidence(c) \/ Finish(c)
               \/ (\E s \in {"stage", "journal"} : CloseStore(c, s)) \/ Exit(c) \/ Crash(c)
        PROVE  EInv'
    BY <1>8, ReleaseInv, CrashInv
  <1>. QED
    BY <1>1, <1>2, <1>3, <1>4, <1>5, <1>6, <1>7, <1>8 DEF Next

\* It holds before anything has run.
LEMMA InitInv == Init => EInv
  <1>. SUFFICES ASSUME Init PROVE EInv
    OBVIOUS
  <1>1. ASSUME NEW c \in Commands
        PROVE  CommandOK(cmd[c], exists, stage, replayed, passed)
    <2>1. PICK m \in Modes : cmd[c] = Idle(m)
      BY ConstantsAssumption DEF Init
    <2>2. Idle(m) \in CommandType({NoSnapshot, NoDoc})
      BY DEF Idle, CommandType, BoxType, NoBox, BoxStates, WorkerStates, SourceTrees, Steps,
           After, Held
    <2>3. Typed(Idle(m))
      BY <2>2 DEF Typed
    <2>. QED
      BY <2>1, <2>3 DEF CommandOK, BoxesOK, WorkerOK, DocOK, ResultOK, Idle, Boxes, NoBox,
           SourceTrees, BeforeReplay, Before, FromFetch, FromBind, FromTests, FromInput,
           FromSave, FromValidate, Working, Closing
  <1>2. /\ cmd = [c \in Commands |-> cmd[c]]
        /\ \A c \in Commands : cmd[c].mode \in ModeOf[c]
        /\ stage = {} /\ writer = NoCommand /\ changes = 0
    BY DEF Init
  <1>. QED
    BY <1>1, <1>2, ConstantsAssumption DEF EInv, StagedIsVerified, UniqueKeys

\* Only the INSERT changes the stage, and it adds a row.
LEMMA StageGrows == [Next]_vars => stage \subseteq stage'
  <1>. SUFFICES ASSUME [Next]_vars PROVE stage \subseteq stage'
    OBVIOUS
  <1>1. CASE UNCHANGED vars
    BY <1>1 DEF vars
  <1>2. ASSUME NEW c \in Commands,
               \/ CheckPaths(c) \/ Confirm(c) \/ OpenJournal(c) \/ Readiness(c) \/ IssuePermit(c)
               \/ Preflight(c) \/ PermitAges(c) \/ OpenStage(c) \/ Authorize(c)
        PROVE  stage' = stage
    BY <1>2 DEF shared, CheckPaths, Confirm, OpenJournal, Readiness, IssuePermit, Preflight,
         PermitAges, OpenStage, Authorize
  <1>3. ASSUME NEW c \in Commands,
               Fetch(c) \/ PinDecision(c) \/ Materialize(c) \/ BuildRequest(c) \/ Tamper(c)
        PROVE  stage' = stage
    BY <1>3 DEF shared, Fetch, PinDecision, Materialize, BuildRequest, Tamper
  <1>4. ASSUME NEW c \in Commands, NEW b \in Boxes,
               CopySnapshot(c, b) \/ CopyWorkspace(c, b) \/ RunContainer(c, b) \/ CloseSandbox(c, b)
        PROVE  stage' = stage
    BY <1>4 DEF shared, CopySnapshot, CopyWorkspace, RunContainer, CloseSandbox
  <1>5. ASSUME NEW c \in Commands,
               \/ BindSnapshot(c) \/ StartWorker(c) \/ CheckWorker(c) \/ CallModel(c)
               \/ CleanUpWorker(c) \/ ValidateProposal(c)
        PROVE  stage' = stage
    BY <1>5 DEF shared, BindSnapshot, StartWorker, CheckWorker, CallModel, CleanUpWorker,
         ValidateProposal
  <1>6. ASSUME NEW c \in Commands,
               \/ ApplyProposal(c) \/ RunTests(c) \/ BindPrepared(c) \/ CheckReplay(c)
               \/ RunReplay(c)
        PROVE  stage' = stage
    BY <1>6 DEF shared, ApplyProposal, RunTests, BindPrepared, ControlledStep, CheckReplay,
         RunReplay
  <1>7. ASSUME NEW c \in Commands,
               BuildInput(c) \/ Verify(c) \/ BuildArtifact(c) \/ SaveBegin(c) \/ Load(c)
        PROVE  stage' = stage
    BY <1>7 DEF shared, BuildInput, Verify, BuildArtifact, SaveBegin, Load
  <1>8. ASSUME NEW c \in Commands, SaveInsert(c)
        PROVE  stage \subseteq stage'
    BY <1>8 DEF SaveInsert
  <1>9. ASSUME NEW c \in Commands,
               \/ CloseSnapshot(c) \/ Evidence(c) \/ Finish(c)
               \/ (\E s \in {"stage", "journal"} : CloseStore(c, s)) \/ Exit(c) \/ Crash(c)
        PROVE  stage' = stage
    BY <1>9 DEF shared, CloseSnapshot, Evidence, Finish, CloseStore, Exit, Crash
  <1>. QED
    BY <1>1, <1>2, <1>3, <1>4, <1>5, <1>6, <1>7, <1>8, <1>9 DEF Next, Save

----------------------------------------------------------------------------
(* Theorems                                                                *)

\* The invariant holds of every execution, for any number of commands that share
\* the stage.
THEOREM ExecutionInvariance == Spec => []EInv
  <1>. QED
    BY InitInv, NextInv, PTL DEF Spec

\* Every command is where the code can be and holds the sandboxes that run for it
\* (executor.py, DockerSandboxBackend).
THEOREM ExecutionTypeOK == Spec => []TypeOK
  <1>1. EInv => TypeOK
    <2>. SUFFICES ASSUME EInv PROVE TypeOK
      OBVIOUS
    <2>1. ASSUME NEW c \in Commands
          PROVE  /\ Typed(cmd[c])
                 /\ \A b \in cmd[c].held \cap Boxes : cmd[c].box[b].state = "up"
      BY DEF EInv, CommandOK, BoxesOK
    <2>2. ASSUME NEW c \in Commands
          PROVE  /\ cmd[c].step \in Steps
                 /\ cmd[c].permit \in {"none", "ready", "fresh", "stale", "spent"}
                 /\ cmd[c].held \subseteq Held
                 /\ cmd[c].open \in BOOLEAN
                 /\ cmd[c].source \in Trees \cup {NoSnapshot}
                 /\ \A b \in Boxes : cmd[c].box[b].state \in BoxStates
                 /\ cmd[c].worker \in WorkerStates
                 /\ cmd[c].result \in {"none", "verified", "failed", "declined"}
      BY <2>1 DEF Typed, CommandType, BoxType, SourceTrees
    <2>. QED
      BY <2>1, <2>2 DEF TypeOK, EInv, Steps
  <1>. QED
    BY <1>1, ExecutionInvariance, PTL

\* A row of the stage is about the pinned files, was replayed on them and passed
\* the verifier, whatever happened to the directories in the meantime and
\* whatever GitHub, the model and the verifier answered (executor.py, save).
THEOREM StagedRowsAreVerified == Spec => []StagedIsVerified
  <1>1. EInv => StagedIsVerified
    BY DEF EInv
  <1>. QED
    BY <1>1, ExecutionInvariance, PTL

\* Exit code 0 is the truth: nothing that was read, spent, journaled or started
\* contradicts it (worker_cli.py, finish_agent_invocation).
THEOREM ExitCodesAreTrue == Spec => []VerifiedExitIsTrue
  <1>1. EInv => VerifiedExitIsTrue
    <2>. SUFFICES ASSUME EInv, NEW c \in Commands, At(c, "exited"), cmd[c].result = "verified"
                  PROVE  /\ RowOf(c) \in stage
                         /\ cmd[c].permit = "spent"
                         /\ ~cmd[c].open
                         /\ cmd[c].worker \in {"none", "gone"}
                         /\ \A b \in Boxes : cmd[c].box[b].state = "closed"
      BY DEF VerifiedExitIsTrue
    <2>1. CommandOK(cmd[c], exists, stage, replayed, passed) /\ cmd[c].step = "exited"
      BY DEF EInv, At
    <2>2. cmd[c].held = {} /\ ResultOK(cmd[c], stage)
      BY <2>1 DEF CommandOK
    <2>. QED
      BY <2>1, <2>2 DEF ResultOK, RowOf
  <1>. QED
    BY <1>1, ExecutionInvariance, PTL

\* A command that ends by itself has closed every sandbox it started, whatever
\* the journal and close() raised on the way (observer_runtime.py).
THEOREM EndedCommandsLeaveNothing == Spec => []SandboxesAreClosed
  <1>1. EInv => SandboxesAreClosed
    <2>. SUFFICES ASSUME EInv, NEW c \in Commands, At(c, "exited"), NEW b \in Boxes
                  PROVE  cmd[c].box[b].state \notin {"copied", "up"}
      BY DEF SandboxesAreClosed
    <2>1. CommandOK(cmd[c], exists, stage, replayed, passed) /\ cmd[c].step = "exited"
      BY DEF EInv, At
    <2>2. cmd[c].box[b].state # "copied"
      BY <2>1, NotCopying DEF Copying
    <2>3. cmd[c].box[b].state # "up"
      BY <2>1 DEF CommandOK, BoxesOK
    <2>. QED
      BY <2>2, <2>3
  <1>. QED
    BY <1>1, ExecutionInvariance, PTL

\* A staged row is never replaced, removed or joined by a rival, for any number
\* of commands that save at once (durable_stage.py, save).
THEOREM StagedRowsAreKept == Spec => StageNeverReplaced
  <1>1. EInv /\ EInv' /\ [Next]_vars =>
          [/\ stage \subseteq stage'
           /\ \A r, s \in stage' : r.key = s.key => r = s]_stage
    BY StageGrows DEF EInv, UniqueKeys
  <1>. QED
    BY <1>1, ExecutionInvariance, PTL DEF Spec, StageNeverReplaced
=============================================================================
