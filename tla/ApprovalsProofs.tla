---------------------------- MODULE ApprovalsProofs ----------------------------
(***************************************************************************)
(* The copies that are made for a review, and what an approval is worth:   *)
(* for any stages, copiers, commands, profiles, enrollments and times.     *)
(***************************************************************************)
EXTENDS Approvals, TLAPS

----------------------------------------------------------------------------
(* The inductive invariant of the copies                                   *)

Mains == [rows : SUBSET Stages, whole : BOOLEAN]
Snapshots == {NoFile} \cup [exists : BOOLEAN, of : Mains]
Pairs == [main : Snapshots, wal : Snapshots]
CopierRecords ==
    [pc : Int, kind : {"snapshot", "evidence"}, stage : Stages \cup {"none"},
     since : SUBSET Stages, noted : Pairs, taken : Pairs, made : SUBSET Stages]

\* How the database file moves: it is never again what it was before a checkpoint.
Before(m, n) ==
    /\ m.rows \subseteq n.rows
    /\ m.rows = n.rows => m.whole \/ ~n.whole

\* The log belongs to its writer, what is not through is still in it, and what is
\* committed was.
DatabaseOK ==
    /\ main \in Mains
    /\ wal \in [exists : BOOLEAN, rows : SUBSET Stages]
    /\ writing => wal.exists
    /\ ~wal.exists => wal.rows = {}
    /\ ~main.whole => ~(wal.rows \subseteq main.rows)
    /\ history \subseteq SUBSET Stages
    /\ Committed \in history

\* The rows of the files as they were noted, and what a copy may hold.
NotedRows(k) ==
    IF k.noted.wal = NoFile THEN k.noted.main.of.rows
    ELSE Recovered(k.noted.main.of, k.noted.wal.of)
Faithful(k, rows, h) == rows \in h /\ k.since \subseteq rows

\* The database file was noted as it was, and cannot come back to that once it moved.
MainNoted(k, m) == k.noted.main # NoFile /\ Before(k.noted.main.of, m)

\* When the files are first checked, nothing was committed since they were noted.
SnapshotOK(k, m, h) ==
    /\ k.pc >= 2 => MainNoted(k, m)
    /\ k.pc = 3 => (m = k.noted.main.of => Faithful(k, NotedRows(k), h))
    /\ k.pc >= 4 => Faithful(k, NotedRows(k), h) /\ k.taken.main = k.noted.main
    /\ k.pc >= 5 => k.taken.wal = k.noted.wal
    /\ k.pc >= 8 => Faithful(k, k.made, h) /\ k.stage \in k.made

EvidenceOK(k, m, h) ==
    /\ k.taken.wal = NoFile
    /\ k.pc >= 2 => k.noted.wal = NoFile
    /\ k.pc >= 4 => MainNoted(k, m)
    /\ k.pc >= 5 => k.taken.main = k.noted.main
    /\ k.pc >= 6 => k.made = k.noted.main.of.rows /\ k.stage \in k.made
    /\ k.pc = 7 => (m = k.noted.main.of => Faithful(k, k.made, h))
    /\ k.pc >= 8 => Faithful(k, k.made, h)

CopierOK(k, m, h, committed) ==
    /\ k \in CopierRecords /\ (k.pc = 0 => k = Copier)
    /\ k.pc >= 1 => k.since \subseteq committed
    /\ k.kind = "snapshot" => SnapshotOK(k, m, h)
    /\ k.kind = "evidence" => EvidenceOK(k, m, h)

CInv ==
    /\ DatabaseOK
    /\ copier \in [Copiers -> CopierRecords]
    /\ \A c \in Copiers : CopierOK(copier[c], main, history, Committed)
    /\ CopyIsFaithful

----------------------------------------------------------------------------
(* The inductive invariant of the approvals                                *)

\* The file still names the approver.
RequestOK ==
    request # None =>
        /\ DOMAIN request = {"intent", "approval", "review"}
        /\ DOMAIN request.approval = {"id", "approver", "policy", "repository", "stage", "intent",
                                      "at", "expires"}
        /\ request.approval.approver = Approver

\* What an approver is shown is one stage, with its intent and its provenance.
Shown(r) ==
    /\ r.review = r.approval.stage /\ r.review = r.intent.of.stage
    /\ r.approval.intent = r.intent
    /\ r.intent.of.source = SourceOf[r.review]
    /\ RequiresProvenance(PublicationSeed(r.review)) => r.approval.at \in ProvenIn[r.review]

ReviewedOK ==
    /\ signer # None => Shown(signer)
    /\ \A v \in reviewed : Shown(v.request) /\ v.at < v.request.approval.expires
    /\ \A s \in signed : \E v \in reviewed : v.request.approval = s.approval

\* What a command has verified, at the moment it began, stays true.
HasEnrollment(k) ==
    \E e \in Enrollments :
        /\ e.signer \in Authorities /\ e.key = Key /\ e.profile = k.verified.profile.name
        /\ k.moment < e.expires

VerifiedOK(k) ==
    LET v == k.verified
        a == v.signed.approval
    IN  /\ a.intent = v.intent /\ a.at <= k.moment /\ k.moment < a.expires
        /\ k.kind # "mock" => HasEnrollment(k)
        /\ k.kind # "mock" \/ v.profile.keys[Approver] = Key =>
               \E w \in reviewed : w.request.approval = a

CommandRecord(k) == k = [pc |-> k.pc, kind |-> k.kind, moment |-> k.moment, verified |-> k.verified]

CommandsOK ==
    /\ command = [k \in Commands |-> command[k]]
    /\ \A k \in Commands :
           /\ CommandRecord(command[k])
           /\ command[k].pc \in {"loaded", "ready"} => VerifiedOK(command[k])

\* A command confirms once, and its record is completed when its mock has run.
ConfirmationRecord(c) == c = [by |-> c.by, of |-> c.of, status |-> c.status, receipt |-> c.receipt]

ConfirmationsOK ==
    /\ \A c \in confirmations :
           /\ ConfirmationRecord(c) /\ c.by \in Commands
           /\ command[c.by].pc \in {"confirmed", "ran", "done"}
           /\ command[c.by].pc \in {"confirmed", "ran"} => c.of = command[c.by].verified
    /\ \A k \in Commands : command[k].pc = "ran" =>
           \E p \in published : p.by = k /\ p.kind = "typed" /\ p.of = command[k].verified

AInv ==
    /\ RequestOK /\ ReviewedOK /\ CommandsOK /\ ConfirmationsOK
    /\ PublishedWasApproved /\ ConfirmationIsTrue

----------------------------------------------------------------------------
(* The programs, step by step                                              *)

\* A program that is put together of two parts.
Join(s, t) == s \o t

Joins(r, S, s, t) ==
    /\ r \in Seq(S) /\ Len(r) = Len(s) + Len(t)
    /\ \A i \in 1..Len(s) + Len(t) : r[i] = IF i <= Len(s) THEN s[i] ELSE t[i - Len(s)]

\* The steps of the two parts follow each other.
LEMMA Joined ==
    ASSUME NEW S, NEW s \in Seq(S), NEW t \in Seq(S)
    PROVE  Joins(Join(s, t), S, s, t)
  BY DEF Join, Joins

\* What snapshot_wal_stage does, in order.
LEMMA SnapshotSteps ==
    /\ Len(Program["snapshot"]) = 12 /\ DOMAIN Program["snapshot"] = 1..12
    /\ Program["snapshot"][1] = Read("main") /\ Program["snapshot"][2] = Read("wal")
    /\ Program["snapshot"][3] = Copy("main") /\ Program["snapshot"][4] = Copy("wal")
    /\ Program["snapshot"][5] = Check("main") /\ Program["snapshot"][6] = Check("wal")
    /\ Program["snapshot"][7] = Restore
    /\ Program["snapshot"][8] = Check("main") /\ Program["snapshot"][9] = Check("wal")
    /\ Program["snapshot"][10] = Publish
    /\ Program["snapshot"][11] = Check("main") /\ Program["snapshot"][12] = Check("wal")
  <1>. DEFINE S == {Read("main"), Read("wal"), Copy("main"), Copy("wal"), Check("main"),
                    Check("wal"), Restore, Publish}
              C == <<Copy("main"), Copy("wal")>>
              P == Join(Manifest, C)
              Q == Join(P, SourceManifest)
              B == <<Restore>>
              R == Join(Q, B)
              T == Join(R, SourceManifest)
              L == <<Publish>>
              U == Join(T, L)
              V == Join(U, SourceManifest)
  <1>1. /\ Manifest \in Seq(S) /\ Len(Manifest) = 2
        /\ Manifest[1] = Read("main") /\ Manifest[2] = Read("wal")
    BY DEF Manifest
  <1>2. /\ SourceManifest \in Seq(S) /\ Len(SourceManifest) = 2
        /\ SourceManifest[1] = Check("main") /\ SourceManifest[2] = Check("wal")
    BY DEF SourceManifest
  <1>3. /\ C \in Seq(S) /\ Len(C) = 2 /\ C[1] = Copy("main") /\ C[2] = Copy("wal")
        /\ B \in Seq(S) /\ Len(B) = 1 /\ B[1] = Restore
        /\ L \in Seq(S) /\ Len(L) = 1 /\ L[1] = Publish
    OBVIOUS
  <1>10. Program["snapshot"] = V
    BY DEF Program, Snapshot, Join
  <1>. HIDE DEF S, C, B, L, P, Q, R, T, U, V
  <1>4. /\ P \in Seq(S) /\ Len(P) = 4
        /\ P[1] = Manifest[1] /\ P[2] = Manifest[2] /\ P[3] = C[1] /\ P[4] = C[2]
    <2>1. Joins(P, S, Manifest, C)
      BY <1>1, <1>3, Joined DEF P
    <2>. QED
      BY <1>1, <1>3, <2>1 DEF Joins
  <1>5. /\ Q \in Seq(S) /\ Len(Q) = 6 /\ \A i \in 1..4 : Q[i] = P[i]
        /\ Q[5] = SourceManifest[1] /\ Q[6] = SourceManifest[2]
    <2>1. Joins(Q, S, P, SourceManifest)
      BY <1>2, <1>4, Joined DEF Q
    <2>. QED
      BY <1>2, <1>4, <2>1 DEF Joins
  <1>6. /\ R \in Seq(S) /\ Len(R) = 7 /\ \A i \in 1..6 : R[i] = Q[i]
        /\ R[7] = B[1]
    <2>1. Joins(R, S, Q, B)
      BY <1>3, <1>5, Joined DEF R
    <2>. QED
      BY <1>3, <1>5, <2>1 DEF Joins
  <1>7. /\ T \in Seq(S) /\ Len(T) = 9 /\ \A i \in 1..7 : T[i] = R[i]
        /\ T[8] = SourceManifest[1] /\ T[9] = SourceManifest[2]
    <2>1. Joins(T, S, R, SourceManifest)
      BY <1>2, <1>6, Joined DEF T
    <2>. QED
      BY <1>2, <1>6, <2>1 DEF Joins
  <1>8. /\ U \in Seq(S) /\ Len(U) = 10 /\ \A i \in 1..9 : U[i] = T[i]
        /\ U[10] = L[1]
    <2>1. Joins(U, S, T, L)
      BY <1>3, <1>7, Joined DEF U
    <2>. QED
      BY <1>3, <1>7, <2>1 DEF Joins
  <1>9. /\ Len(V) = 12 /\ DOMAIN V = 1..12 /\ \A i \in 1..10 : V[i] = U[i]
        /\ V[11] = SourceManifest[1] /\ V[12] = SourceManifest[2]
    <2>1. Joins(V, S, U, SourceManifest)
      BY <1>2, <1>8, Joined DEF V
    <2>. QED
      BY <1>2, <1>8, <2>1 DEF Joins
  <1>11. V[1] = Manifest[1] /\ V[2] = Manifest[2] /\ V[3] = C[1] /\ V[4] = C[2]
    BY <1>4, <1>5, <1>6, <1>7, <1>8, <1>9
  <1>12. V[5] = SourceManifest[1] /\ V[6] = SourceManifest[2] /\ V[7] = B[1]
    BY <1>5, <1>6, <1>7, <1>8, <1>9
  <1>13. V[8] = SourceManifest[1] /\ V[9] = SourceManifest[2] /\ V[10] = L[1]
    BY <1>7, <1>8, <1>9
  <1>14. V[11] = SourceManifest[1] /\ V[12] = SourceManifest[2]
    BY <1>9
  <1>. QED
    BY <1>1, <1>2, <1>3, <1>9, <1>10, <1>11, <1>12, <1>13, <1>14

\* What copy_staged_evidence does, in order.
LEMMA EvidenceSteps ==
    /\ Len(Program["evidence"]) = 10 /\ DOMAIN Program["evidence"] = 1..10
    /\ Program["evidence"][1] = Read("wal") /\ Program["evidence"][2] = Load
    /\ Program["evidence"][3] = Read("main") /\ Program["evidence"][4] = Copy("main")
    /\ Program["evidence"][5] = Restore
    /\ Program["evidence"][6] = Check("wal") /\ Program["evidence"][7] = Check("main")
    /\ Program["evidence"][8] = Publish
    /\ Program["evidence"][9] = Check("wal") /\ Program["evidence"][10] = Check("main")
  BY DEF Program, CopyEvidence

\* The kinds of a program, and where it is while it runs.
LEMMA StepIs ==
    ASSUME NEW c \in Copiers, copier \in [Copiers -> CopierRecords], Running(c)
    PROVE  /\ copier[c].kind = "snapshot" => copier[c].pc \in 1..12
           /\ copier[c].kind = "evidence" => copier[c].pc \in 1..10
  BY SnapshotSteps, EvidenceSteps DEF Running, CopierRecords

----------------------------------------------------------------------------
(* The writer                                                              *)

\* A database file that goes on does not come back.
LEMMA BeforeTransitive ==
    ASSUME NEW l \in Mains, NEW m \in Mains, NEW n \in Mains, Before(l, m), Before(m, n)
    PROVE  Before(l, n) /\ (n = l => m = l)
  <1>1. l.rows = n.rows => l.rows = m.rows
    BY DEF Before
  <1>2. Before(l, n)
    BY <1>1 DEF Before, Mains
  <1>3. ASSUME n = l
        PROVE  m = l
    <2>1. m.rows = l.rows
      BY <1>1, <1>3
    <2>2. m.whole = l.whole
      BY <1>3, <2>1 DEF Before, Mains
    <2>. QED
      BY <2>1, <2>2 DEF Mains
  <1>. QED
    BY <1>2, <1>3

\* What a copier knows outlasts what the writer does.
LEMMA KnowledgeStays ==
    ASSUME NEW k, NEW m \in Mains, NEW n \in Mains, NEW h, NEW g, NEW s, NEW t,
           CopierOK(k, m, h, s), Before(m, n), h \subseteq g, s \subseteq t
    PROVE  CopierOK(k, n, g, t)
  <1>1. k \in CopierRecords /\ (k.pc >= 1 => k.since \subseteq t)
    BY DEF CopierOK
  <1>2. ASSUME MainNoted(k, m)
        PROVE  MainNoted(k, n) /\ (n = k.noted.main.of => m = k.noted.main.of)
    <2>1. k.noted.main \in Snapshots
      BY <1>1 DEF CopierRecords, Pairs
    <2>2. k.noted.main.of \in Mains
      BY <1>2, <2>1 DEF MainNoted, Snapshots
    <2>. QED
      BY <1>2, <2>2, BeforeTransitive DEF MainNoted
  <1>3. \A rows : Faithful(k, rows, h) => Faithful(k, rows, g)
    BY DEF Faithful
  <1>4. k.kind = "snapshot" => SnapshotOK(k, n, g)
    BY <1>1, <1>2, <1>3 DEF CopierOK, SnapshotOK, CopierRecords
  <1>5. k.kind = "evidence" => EvidenceOK(k, n, g)
    BY <1>1, <1>2, <1>3 DEF CopierOK, EvidenceOK, CopierRecords
  <1>. QED
    BY <1>1, <1>4, <1>5 DEF CopierOK

\* A step of the writer: it may commit, and the database file goes on.
WriterStep ==
    /\ DatabaseOK'
    /\ Before(main, main') /\ Committed \subseteq Committed' /\ history \subseteq history'
    /\ UNCHANGED <<copier, copies>>

\* Opening, saving, checkpointing and closing keep the database in order.
LEMMA WriterSteps ==
    ASSUME DatabaseOK,
           OpenWriter \/ Checkpoint \/ CloseWriter \/ \E s \in Stages : SaveStage(s)
    PROVE  WriterStep
  <1>. USE DEF DatabaseOK, Mains, Committed, Recovered, Before, WriterStep
  <1>1. CASE OpenWriter
    BY <1>1 DEF OpenWriter
  <1>2. CASE Checkpoint
    <2>1. CASE main.whole /\ main' = [main EXCEPT !.whole = FALSE] /\ ~(wal.rows \subseteq main.rows)
      BY <1>2, <2>1 DEF Checkpoint
    <2>2. CASE ~main.whole /\ main' = [rows |-> Committed, whole |-> TRUE]
      <3>1. main'.rows = main.rows \cup wal.rows /\ main' \in Mains
        BY <2>2
      <3>2. main'.rows # main.rows
        BY <2>2, <3>1
      <3>3. Committed' = Committed
        BY <1>2, <3>1 DEF Checkpoint
      <3>. QED
        BY <1>2, <2>2, <3>1, <3>2, <3>3 DEF Checkpoint
    <2>. QED
      BY <1>2, <2>1, <2>2 DEF Checkpoint
  <1>3. CASE CloseWriter
    <2>1. CASE wal' = wal
      BY <1>3, <2>1 DEF CloseWriter
    <2>2. CASE wal' = NoWal /\ main.whole /\ wal.rows \subseteq main.rows
      BY <1>3, <2>2 DEF CloseWriter, NoWal
    <2>. QED
      BY <1>3, <2>1, <2>2 DEF CloseWriter
  <1>4. ASSUME NEW s \in Stages, SaveStage(s)
        PROVE  WriterStep
    <2>1. main' = main /\ writing' = writing /\ copier' = copier /\ copies' = copies /\ writing
      BY <1>4 DEF SaveStage
    <2>2. wal' = [wal EXCEPT !.rows = wal'.rows] /\ wal'.exists = wal.exists
      BY <1>4 DEF SaveStage
    <2>3. main.rows \cup wal'.rows = Committed \cup {s}
      BY <1>4 DEF SaveStage
    <2>4. wal'.rows \subseteq Stages
      BY <1>4 DEF SaveStage
    <2>5. history' = history \cup {Committed \cup {s}}
      BY <1>4 DEF SaveStage
    <2>6. ~main.whole => ~(wal'.rows \subseteq main.rows)
      BY <1>4 DEF SaveStage
    <2>7. Committed' = Committed \cup {s}
      BY <2>1, <2>3
    <2>8. wal' \in [exists : BOOLEAN, rows : SUBSET Stages]
      BY <2>2, <2>4
    <2>. QED
      BY <2>1, <2>2, <2>5, <2>6, <2>7, <2>8
  <1>. QED
    BY <1>1, <1>2, <1>3, <1>4

----------------------------------------------------------------------------
(* The copiers                                                             *)

\* What is left of a copier after a step.
Gone(k) == IF k.pc = Len(Program[k.kind]) THEN Ended ELSE [k EXCEPT !.pc = @ + 1]

\* A copier that moved to x.
Moved(c, x) == copier' = [copier EXCEPT ![c] = x] /\ CopierOK(x, main, history, Committed)

\* A copier that gave up or is through knows nothing.
LEMMA EndedKnows ==
    \A m, h, s : CopierOK(Ended, m, h, s)
  <1>1. Ended = [pc |-> -1, kind |-> "snapshot", stage |-> "none", since |-> {},
                 noted |-> [main |-> NoFile, wal |-> NoFile],
                 taken |-> [main |-> NoFile, wal |-> NoFile], made |-> {}]
    BY DEF Ended, Copier
  <1>2. [main |-> NoFile, wal |-> NoFile] \in Pairs
    BY DEF Pairs, Snapshots
  <1>3. Ended \in CopierRecords
    BY <1>1, <1>2 DEF CopierRecords
  <1>. QED
    BY <1>1, <1>3 DEF CopierOK, SnapshotOK

\* A file is what was noted of it, or may be noted.
LEMMA FileIs ==
    ASSUME DatabaseOK
    PROVE  /\ File("main") = [exists |-> TRUE, of |-> main] /\ File("main") # NoFile
           /\ File("main") \in Snapshots /\ File("main").of = main
           /\ File("wal") \in Snapshots
           /\ File("wal") = NoFile => wal.rows = {}
           /\ File("wal") # NoFile => File("wal").of.rows = wal.rows
  <1>1. File("main") = [exists |-> TRUE, of |-> main]
    BY DEF File
  <1>2. File("main").exists = TRUE /\ NoFile.exists = FALSE
    BY <1>1 DEF NoFile
  <1>3. File("main") # NoFile /\ File("main").of = main
    BY <1>1, <1>2
  <1>4. File("main") \in Snapshots
    <2>1. main \in Mains
      BY DEF DatabaseOK
    <2>2. File("main") \in [exists : BOOLEAN, of : Mains]
      <3>1. \A m \in Mains : [exists |-> TRUE, of |-> m] \in [exists : BOOLEAN, of : Mains]
        OBVIOUS
      <3>. QED
        BY <1>1, <2>1, <3>1
    <2>. QED
      BY <2>2 DEF Snapshots
  <1>5. CASE wal.exists
    <2>1. File("wal") = [exists |-> TRUE, of |-> [rows |-> wal.rows, whole |-> TRUE]]
      BY <1>5 DEF File
    <2>2. File("wal").exists = TRUE /\ File("wal").of.rows = wal.rows
      BY <2>1
    <2>3. [rows |-> wal.rows, whole |-> TRUE] \in Mains
      BY DEF DatabaseOK, Mains
    <2>4. File("wal") \in [exists : BOOLEAN, of : Mains]
      <3>1. \A m \in Mains : [exists |-> TRUE, of |-> m] \in [exists : BOOLEAN, of : Mains]
        OBVIOUS
      <3>. QED
        BY <2>1, <2>3, <3>1
    <2>. QED
      BY <1>1, <1>2, <1>3, <1>4, <2>2, <2>4 DEF Snapshots
  <1>6. CASE ~wal.exists
    BY <1>1, <1>3, <1>4, <1>6 DEF File, DatabaseOK, Snapshots
  <1>. QED
    BY <1>5, <1>6

\* The next step of a copier, and the fields it leaves.
LEMMA GoneIs ==
    ASSUME NEW k \in CopierRecords, k.pc # Len(Program[k.kind])
    PROVE  /\ Gone(k) \in CopierRecords /\ Gone(k).pc = k.pc + 1 /\ Gone(k).kind = k.kind
           /\ Gone(k).stage = k.stage /\ Gone(k).since = k.since /\ Gone(k).noted = k.noted
           /\ Gone(k).taken = k.taken /\ Gone(k).made = k.made
  BY DEF Gone, CopierRecords

\* A new copy starts from what is committed.
LEMMA StartMoves ==
    ASSUME CInv, NEW c \in Copiers, StartCopy(c)
    PROVE  \E x : Moved(c, x)
  <1>1. PICK kind \in DOMAIN Program, s \in Stages :
            copier' = [copier EXCEPT ![c] = [@ EXCEPT !.pc = 1, !.kind = kind, !.stage = s,
                                                      !.since = Committed]]
    BY DEF StartCopy
  <1>. DEFINE x == [copier[c] EXCEPT !.pc = 1, !.kind = kind, !.stage = s, !.since = Committed]
  <1>2. copier[c] = Copier
    BY DEF CInv, StartCopy, CopierOK
  <1>3. kind \in {"snapshot", "evidence"}
    BY DEF Program
  <1>4. Committed \subseteq Stages
    BY DEF CInv, DatabaseOK, Committed, Recovered, Mains
  <1>5. x = [pc |-> 1, kind |-> kind, stage |-> s, since |-> Committed,
             noted |-> [main |-> NoFile, wal |-> NoFile],
             taken |-> [main |-> NoFile, wal |-> NoFile], made |-> {}]
    <2>1. x = [Copier EXCEPT !.pc = 1, !.kind = kind, !.stage = s, !.since = Committed]
      BY <1>2
    <2>. HIDE DEF x
    <2>. QED
      BY <2>1 DEF Copier
  <1>. HIDE DEF x
  <1>6. [main |-> NoFile, wal |-> NoFile] \in Pairs
    BY DEF Pairs, Snapshots
  <1>7. x \in CopierRecords
    BY <1>3, <1>4, <1>5, <1>6 DEF CopierRecords
  <1>8. CopierOK(x, main, history, Committed)
    BY <1>5, <1>7 DEF CopierOK, SnapshotOK, EvidenceOK
  <1>. QED
    BY <1>1, <1>8 DEF Moved, x

\* How long a program is.
LEMMA LastStep ==
    ASSUME NEW k, k.kind \in {"snapshot", "evidence"}
    PROVE  Len(Program[k.kind]) = IF k.kind = "snapshot" THEN 12 ELSE 10
  <1>1. CASE k.kind = "snapshot"
    <2>1. Program[k.kind] = Program["snapshot"]
      BY <1>1
    <2>. QED
      BY <1>1, <2>1, SnapshotSteps
  <1>2. CASE k.kind = "evidence"
    <2>1. Program[k.kind] = Program["evidence"]
      BY <1>2
    <2>. QED
      BY <1>2, <2>1, EvidenceSteps
  <1>. QED
    BY <1>1, <1>2

\* Which steps a copier is at when it does what.
LEMMA AtStep ==
    ASSUME CInv, NEW c \in Copiers, Running(c)
    PROVE  /\ copier[c] \in CopierRecords /\ CopierOK(copier[c], main, history, Committed)
           /\ copier[c].pc # -1 /\ copier[c].pc # 0
           /\ copier[c].kind = "snapshot" =>
                  /\ Step(c).do = "note" => \/ copier[c].pc = 1 /\ Step(c).file = "main"
                                            \/ copier[c].pc = 2 /\ Step(c).file = "wal"
                  /\ Step(c).do = "copy" => \/ copier[c].pc = 3 /\ Step(c).file = "main"
                                            \/ copier[c].pc = 4 /\ Step(c).file = "wal"
                  /\ Step(c).do = "check" => copier[c].pc \in {5, 6, 8, 9, 11, 12}
                  /\ Step(c).do = "restore" => copier[c].pc = 7
                  /\ Step(c).do = "link" => copier[c].pc = 10
                  /\ Step(c).do # "load" /\ Len(Program[copier[c].kind]) = 12
           /\ copier[c].kind = "evidence" =>
                  /\ Step(c).do = "note" => \/ copier[c].pc = 1 /\ Step(c).file = "wal"
                                            \/ copier[c].pc = 3 /\ Step(c).file = "main"
                  /\ Step(c).do = "load" => copier[c].pc = 2
                  /\ Step(c).do = "copy" => copier[c].pc = 4 /\ Step(c).file = "main"
                  /\ Step(c).do = "restore" => copier[c].pc = 5
                  /\ Step(c).do = "check" => \/ copier[c].pc \in {6, 9} /\ Step(c).file = "wal"
                                             \/ copier[c].pc \in {7, 10} /\ Step(c).file = "main"
                  /\ Step(c).do = "link" => copier[c].pc = 8
                  /\ Len(Program[copier[c].kind]) = 10
  <1>1. copier[c] \in CopierRecords /\ CopierOK(copier[c], main, history, Committed)
    BY DEF CInv
  <1>2. /\ copier[c].kind = "snapshot" => copier[c].pc \in 1..12
        /\ copier[c].kind = "evidence" => copier[c].pc \in 1..10
    BY StepIs DEF CInv
  <1>3. copier[c].kind \in {"snapshot", "evidence"}
    BY <1>1 DEF CopierRecords
  <1>. USE DEF Read, Copy, Check, Restore, Publish, Load
  <1>4. CASE copier[c].kind = "snapshot"
    BY <1>1, <1>2, <1>4, SnapshotSteps DEF Step
  <1>5. CASE copier[c].kind = "evidence"
    BY <1>1, <1>2, <1>5, EvidenceSteps DEF Step
  <1>. QED
    BY <1>3, <1>4, <1>5

\* What is written into one of the two fields of a pair of files.
WithFile(p, f, v) == [p EXCEPT ![f] = v]

\* The other field stays.
LEMMA PairIs ==
    ASSUME NEW p \in Pairs, NEW v \in Snapshots
    PROVE  /\ \A f \in {"main", "wal"} : WithFile(p, f, v) \in Pairs
           /\ WithFile(p, "main", v).main = v /\ WithFile(p, "main", v).wal = p.wal
           /\ WithFile(p, "wal", v).wal = v /\ WithFile(p, "wal", v).main = p.main
  <1>1. WithFile(p, "main", v).main = v /\ WithFile(p, "main", v).wal = p.wal
    BY DEF Pairs, WithFile
  <1>2. WithFile(p, "wal", v).wal = v /\ WithFile(p, "wal", v).main = p.main
    BY DEF Pairs, WithFile
  <1>3. WithFile(p, "main", v) \in Pairs
    BY DEF Pairs, WithFile
  <1>4. WithFile(p, "wal", v) \in Pairs
    BY DEF Pairs, WithFile
  <1>. QED
    BY <1>1, <1>2, <1>3, <1>4

\* Noting a file: between the two notes of a snapshot the file does not move unseen.
LEMMA NoteMoves ==
    ASSUME CInv, NEW c \in Copiers, NoteFile(c)
    PROVE  \E x : Moved(c, x)
  <1>. DEFINE k == copier[c]
              f == Step(c).file
              j == [k EXCEPT !.noted[f] = File(f)]
  <1>1. /\ k \in CopierRecords /\ CopierOK(k, main, history, Committed)
        /\ \/ k.kind = "snapshot" /\ k.pc = 1 /\ f = "main"
           \/ k.kind = "snapshot" /\ k.pc = 2 /\ f = "wal"
           \/ k.kind = "evidence" /\ k.pc = 1 /\ f = "wal"
           \/ k.kind = "evidence" /\ k.pc = 3 /\ f = "main"
    BY AtStep DEF NoteFile, CopierRecords
  <1>4. k.pc # Len(Program[k.kind])
    BY <1>1, LastStep
  <1>2. CASE GivesUp(c)
    BY <1>2, EndedKnows DEF GivesUp, Moved
  <1>3. CASE Goes(c, j) /\ (k.kind = "evidence" /\ f = "wal" => File(f) = NoFile)
    <2>1. copier' = [copier EXCEPT ![c] = Gone(j)]
      BY <1>3 DEF Goes, Gone
    <2>2. f \in {"main", "wal"} /\ File(f) \in Snapshots /\ k.noted \in Pairs
      BY <1>1, FileIs DEF CInv, CopierRecords
    <2>3. WithFile(k.noted, f, File(f)) \in Pairs
      BY <2>2, PairIs
    <2>4. /\ j \in CopierRecords /\ j.pc = k.pc /\ j.kind = k.kind /\ j.stage = k.stage
          /\ j.since = k.since /\ j.taken = k.taken /\ j.made = k.made
          /\ j.noted = WithFile(k.noted, f, File(f))
      BY <1>1, <2>3 DEF CopierRecords, WithFile
    <2>. HIDE DEF j
    <2>. DEFINE y == Gone(j)
    <2>5. /\ y \in CopierRecords /\ y.pc = k.pc + 1 /\ y.kind = k.kind /\ y.stage = k.stage
          /\ y.since = k.since /\ y.taken = k.taken /\ y.made = k.made
          /\ y.noted = WithFile(k.noted, f, File(f))
      <3>1. j.pc # Len(Program[j.kind])
        BY <1>4, <2>4
      <3>. QED
        BY <2>4, <3>1, GoneIs
    <2>. HIDE DEF y
    <2>6. main \in Mains /\ Before(main, main) /\ Committed \in history
      BY DEF CInv, DatabaseOK, Before, Mains
    <2>7. k.since \subseteq Committed
      BY <1>1 DEF CopierOK
    <2>8. ASSUME k.kind = "snapshot", k.pc = 1, f = "main"
          PROVE  CopierOK(y, main, history, Committed)
      <3>1. y.noted.main = File("main")
        BY <2>2, <2>5, <2>8, PairIs
      <3>2. MainNoted(y, main)
        BY <2>6, <3>1, FileIs DEF MainNoted, CInv
      <3>. QED
        BY <2>5, <2>7, <2>8, <3>2 DEF CopierOK, SnapshotOK
    <2>9. ASSUME k.kind = "snapshot", k.pc = 2, f = "wal"
          PROVE  CopierOK(y, main, history, Committed)
      <3>1. y.noted.wal = File("wal") /\ y.noted.main = k.noted.main
        BY <2>2, <2>5, <2>9, PairIs
      <3>2. MainNoted(y, main)
        BY <1>1, <2>9, <3>1 DEF MainNoted, CopierOK, SnapshotOK
      <3>3. ASSUME main = y.noted.main.of
            PROVE  NotedRows(y) = Committed
        BY <3>1, <3>3, FileIs DEF NotedRows, Committed, Recovered, CInv
      <3>4. main = y.noted.main.of => Faithful(y, NotedRows(y), history)
        BY <2>5, <2>6, <2>7, <3>3 DEF Faithful
      <3>. QED
        BY <2>5, <2>7, <2>9, <3>2, <3>4 DEF CopierOK, SnapshotOK
    <2>10. ASSUME k.kind = "evidence", k.pc = 1, f = "wal"
          PROVE  CopierOK(y, main, history, Committed)
      <3>1. y.noted.wal = NoFile /\ y.taken.wal = NoFile
        BY <1>1, <1>3, <2>2, <2>5, <2>10, PairIs DEF CopierOK, EvidenceOK
      <3>. QED
        BY <2>5, <2>7, <2>10, <3>1 DEF CopierOK, EvidenceOK
    <2>11. ASSUME k.kind = "evidence", k.pc = 3, f = "main"
          PROVE  CopierOK(y, main, history, Committed)
      <3>1. y.noted.main = File("main") /\ y.noted.wal = k.noted.wal
        BY <2>2, <2>5, <2>11, PairIs
      <3>2. y.noted.wal = NoFile /\ y.taken.wal = NoFile
        BY <1>1, <2>5, <2>11, <3>1 DEF CopierOK, EvidenceOK
      <3>3. MainNoted(y, main)
        BY <2>6, <3>1, FileIs DEF MainNoted, CInv
      <3>. QED
        BY <2>5, <2>7, <2>11, <3>2, <3>3 DEF CopierOK, EvidenceOK
    <2>. QED
      BY <1>1, <2>1, <2>8, <2>9, <2>10, <2>11 DEF Moved, y
  <1>. QED
    BY <1>2, <1>3 DEF NoteFile

\* Loading the source changes nothing a copier knows.
LEMMA LoadMoves ==
    ASSUME CInv, NEW c \in Copiers, LoadSource(c)
    PROVE  \E x : Moved(c, x)
  <1>. DEFINE k == copier[c]
              y == Gone(k)
  <1>1. /\ k \in CopierRecords /\ CopierOK(k, main, history, Committed)
        /\ k.kind = "evidence" /\ k.pc = 2
    BY AtStep DEF LoadSource, CopierRecords
  <1>2. k.pc # Len(Program[k.kind])
    <2>1. Program[k.kind] = Program["evidence"]
      BY <1>1
    <2>. QED
      BY <1>1, <2>1, EvidenceSteps
  <1>3. CASE GivesUp(c)
    BY <1>3, EndedKnows DEF GivesUp, Moved
  <1>4. CASE Goes(c, k)
    <2>1. copier' = [copier EXCEPT ![c] = y]
      BY <1>4 DEF Goes, Gone
    <2>2. /\ y \in CopierRecords /\ y.pc = k.pc + 1 /\ y.kind = k.kind /\ y.since = k.since
          /\ y.taken = k.taken /\ y.noted = k.noted
      BY <1>1, <1>2, GoneIs
    <2>. HIDE DEF y
    <2>3. CopierOK(y, main, history, Committed)
      BY <1>1, <2>2 DEF CopierOK, EvidenceOK
    <2>. QED
      BY <2>1, <2>3 DEF Moved, y
  <1>. QED
    BY <1>3, <1>4 DEF LoadSource

\* Copying a file: what is copied is what was noted.
LEMMA CopyMoves ==
    ASSUME CInv, NEW c \in Copiers, CopyFile(c)
    PROVE  \E x : Moved(c, x)
  <1>. DEFINE k == copier[c]
              f == Step(c).file
              j == [k EXCEPT !.taken[f] = File(f)]
  <1>1. /\ k \in CopierRecords /\ CopierOK(k, main, history, Committed)
        /\ \/ k.kind = "snapshot" /\ k.pc = 3 /\ f = "main"
           \/ k.kind = "snapshot" /\ k.pc = 4 /\ f = "wal"
           \/ k.kind = "evidence" /\ k.pc = 4 /\ f = "main"
    BY AtStep DEF CopyFile, CopierRecords
  <1>2. k.pc # Len(Program[k.kind])
    BY <1>1, LastStep
  <1>3. CASE GivesUp(c)
    BY <1>3, EndedKnows DEF GivesUp, Moved
  <1>4. CASE Goes(c, j) /\ File(f) = k.noted[f]
    <2>1. copier' = [copier EXCEPT ![c] = Gone(j)]
      BY <1>4 DEF Goes, Gone
    <2>2. f \in {"main", "wal"} /\ File(f) \in Snapshots /\ k.taken \in Pairs
      BY <1>1, FileIs DEF CInv, CopierRecords
    <2>3. WithFile(k.taken, f, File(f)) \in Pairs
      BY <2>2, PairIs
    <2>4. /\ j \in CopierRecords /\ j.pc = k.pc /\ j.kind = k.kind /\ j.stage = k.stage
          /\ j.since = k.since /\ j.noted = k.noted /\ j.made = k.made
          /\ j.taken = WithFile(k.taken, f, File(f))
      BY <1>1, <2>3 DEF CopierRecords, WithFile
    <2>. HIDE DEF j
    <2>. DEFINE y == Gone(j)
    <2>5. /\ y \in CopierRecords /\ y.pc = k.pc + 1 /\ y.kind = k.kind /\ y.stage = k.stage
          /\ y.since = k.since /\ y.noted = k.noted /\ y.made = k.made
          /\ y.taken = WithFile(k.taken, f, File(f))
      <3>1. j.pc # Len(Program[j.kind])
        BY <1>2, <2>4
      <3>. QED
        BY <2>4, <3>1, GoneIs
    <2>. HIDE DEF y
    <2>6. NotedRows(y) = NotedRows(k)
      BY <2>5 DEF NotedRows
    <2>7. f = "main" => k.noted.main = File("main") /\ main = k.noted.main.of
      BY <1>4, FileIs DEF CInv
    <2>8. ASSUME k.kind = "snapshot", k.pc = 3, f = "main"
          PROVE  CopierOK(y, main, history, Committed)
      <3>1. y.taken.main = k.noted.main
        BY <2>2, <2>5, <2>7, <2>8, PairIs
      <3>2. Faithful(k, NotedRows(k), history) /\ MainNoted(k, main)
        BY <1>1, <2>7, <2>8 DEF CopierOK, SnapshotOK
      <3>3. Faithful(y, NotedRows(y), history) /\ MainNoted(y, main)
        BY <2>5, <2>6, <3>2 DEF Faithful, MainNoted
      <3>. QED
        BY <1>1, <2>5, <2>8, <3>1, <3>3 DEF CopierOK, SnapshotOK
    <2>9. ASSUME k.kind = "snapshot", k.pc = 4, f = "wal"
          PROVE  CopierOK(y, main, history, Committed)
      <3>1. y.taken.wal = k.noted.wal /\ y.taken.main = k.taken.main
        BY <1>4, <2>2, <2>5, <2>9, PairIs
      <3>2. Faithful(k, NotedRows(k), history) /\ MainNoted(k, main) /\ k.taken.main = k.noted.main
        BY <1>1, <2>9 DEF CopierOK, SnapshotOK
      <3>3. Faithful(y, NotedRows(y), history) /\ MainNoted(y, main)
        BY <2>5, <2>6, <3>2 DEF Faithful, MainNoted
      <3>. QED
        BY <1>1, <2>5, <2>9, <3>1, <3>2, <3>3 DEF CopierOK, SnapshotOK
    <2>10. ASSUME k.kind = "evidence", k.pc = 4, f = "main"
           PROVE  CopierOK(y, main, history, Committed)
      <3>1. y.taken.main = k.noted.main /\ y.taken.wal = k.taken.wal
        BY <2>2, <2>5, <2>7, <2>10, PairIs
      <3>2. k.noted.wal = NoFile /\ MainNoted(k, main) /\ k.taken.wal = NoFile
        BY <1>1, <2>10 DEF CopierOK, EvidenceOK
      <3>3. MainNoted(y, main)
        BY <2>5, <3>2 DEF MainNoted
      <3>. QED
        BY <1>1, <2>5, <2>10, <3>1, <3>2, <3>3 DEF CopierOK, EvidenceOK
    <2>. QED
      BY <1>1, <2>1, <2>8, <2>9, <2>10 DEF Moved, y
  <1>. QED
    BY <1>3, <1>4 DEF CopyFile

\* Checking a file: a copy of evidence is made of what is committed when there is no
\* log and the database file has not moved.
LEMMA CheckMoves ==
    ASSUME CInv, NEW c \in Copiers, CheckFile(c)
    PROVE  \E x : Moved(c, x)
  <1>. DEFINE k == copier[c]
              f == Step(c).file
              y == Gone(k)
  <1>1. /\ k \in CopierRecords /\ CopierOK(k, main, history, Committed)
        /\ k.kind \in {"snapshot", "evidence"}
        /\ k.kind = "snapshot" => k.pc \in {5, 6, 8, 9, 11, 12}
        /\ k.kind = "evidence" => \/ k.pc \in {6, 9} /\ f = "wal"
                                  \/ k.pc \in {7, 10} /\ f = "main"
    BY AtStep DEF CheckFile, CopierRecords
  <1>2. CASE GivesUp(c)
    BY <1>2, EndedKnows DEF GivesUp, Moved
  <1>3. CASE Goes(c, k) /\ File(f) = k.noted[f]
    <2>1. copier' = [copier EXCEPT ![c] = y]
      BY <1>3 DEF Goes, Gone
    <2>2. CASE k.pc = Len(Program[k.kind])
      <3>1. y = Ended
        BY <2>2 DEF Gone
      <3>. QED
        BY <2>1, <3>1, EndedKnows DEF Moved
    <2>3. CASE k.pc # Len(Program[k.kind])
      <3>1. /\ y \in CopierRecords /\ y.pc = k.pc + 1 /\ y.kind = k.kind /\ y.stage = k.stage
            /\ y.since = k.since /\ y.noted = k.noted /\ y.taken = k.taken /\ y.made = k.made
        BY <1>1, <2>3, GoneIs
      <3>. HIDE DEF y
      <3>2. /\ NotedRows(y) = NotedRows(k) /\ (MainNoted(k, main) => MainNoted(y, main))
            /\ \A rows : Faithful(k, rows, history) => Faithful(y, rows, history)
        BY <3>1 DEF NotedRows, MainNoted, Faithful
      <3>3. ASSUME k.kind = "snapshot"
            PROVE  CopierOK(y, main, history, Committed)
        <4>1. SnapshotOK(k, main, history)
          BY <1>1, <3>3 DEF CopierOK
        <4>2. k.pc \in {5, 6} \cup {8, 9, 11, 12}
          BY <1>1, <3>3
        <4>3. SnapshotOK(y, main, history)
          BY <3>1, <3>2, <4>1, <4>2 DEF SnapshotOK
        <4>. QED
          BY <1>1, <3>1, <3>3, <4>2, <4>3 DEF CopierOK
      <3>4. ASSUME k.kind = "evidence"
            PROVE  CopierOK(y, main, history, Committed)
        <4>1. EvidenceOK(k, main, history) /\ k.since \subseteq Committed
          BY <1>1, <3>4 DEF CopierOK
        <4>2. \/ k.pc \in {6, 9} /\ f = "wal"
              \/ k.pc \in {7, 10} /\ f = "main"
          BY <1>1, <3>4
        <4>3. ASSUME k.pc = 6, main = k.noted.main.of
              PROVE  Faithful(k, k.made, history)
          <5>1. wal.rows = {}
            BY <1>3, <4>1, <4>2, <4>3, FileIs DEF EvidenceOK, CInv
          <5>2. k.made = main.rows
            BY <4>1, <4>3 DEF EvidenceOK
          <5>3. Committed = k.made
            BY <5>1, <5>2 DEF Committed, Recovered
          <5>. QED
            BY <4>1, <5>3 DEF Faithful, CInv, DatabaseOK
        <4>4. ASSUME k.pc = 7
              PROVE  Faithful(k, k.made, history)
          BY <1>3, <4>1, <4>2, <4>4, FileIs DEF EvidenceOK, CInv
        <4>5. EvidenceOK(y, main, history)
          BY <3>1, <3>2, <4>1, <4>2, <4>3, <4>4 DEF EvidenceOK
        <4>. QED
          BY <3>1, <3>4, <4>1, <4>2, <4>5 DEF CopierOK
      <3>. QED
        BY <1>1, <2>1, <3>3, <3>4 DEF Moved, y
    <2>. QED
      BY <2>2, <2>3
  <1>. QED
    BY <1>2, <1>3 DEF CheckFile

\* Restoring a copy: what is made is what the two copied files hold.
LEMMA RestoreMoves ==
    ASSUME CInv, NEW c \in Copiers, RestoreCopy(c)
    PROVE  \E x : Moved(c, x)
  <1>. DEFINE k == copier[c]
              j == [k EXCEPT !.made = Restored(k).rows]
  <1>1. /\ k \in CopierRecords /\ CopierOK(k, main, history, Committed)
        /\ k.kind \in {"snapshot", "evidence"}
        /\ k.kind = "snapshot" => k.pc = 7
        /\ k.kind = "evidence" => k.pc = 5
    BY AtStep DEF RestoreCopy, CopierRecords
  <1>2. k.pc # Len(Program[k.kind])
    <2>1. Len(Program[k.kind]) = IF k.kind = "snapshot" THEN 12 ELSE 10
      BY <1>1, LastStep
    <2>. QED
      BY <1>1, <2>1
  <1>3. CASE GivesUp(c)
    BY <1>3, EndedKnows DEF GivesUp, Moved
  <1>4. CASE Goes(c, j) /\ Stored(Restored(k), NoWal, k.stage)
    <2>1. copier' = [copier EXCEPT ![c] = Gone(j)]
      BY <1>4 DEF Goes, Gone
    <2>2. k.stage \in Restored(k).rows
      BY <1>4 DEF Stored
    <2>3. ASSUME k.kind = "snapshot"
          PROVE  Restored(k).rows = NotedRows(k) /\ Faithful(k, NotedRows(k), history)
      <3>1. k.taken.main = k.noted.main /\ k.taken.wal = k.noted.wal
            /\ Faithful(k, NotedRows(k), history)
        BY <1>1, <2>3 DEF CopierOK, SnapshotOK
      <3>. QED
        BY <3>1 DEF Restored, NotedRows
    <2>4. ASSUME k.kind = "evidence"
          PROVE  Restored(k).rows = k.noted.main.of.rows
      <3>1. k.taken.main = k.noted.main /\ k.taken.wal = NoFile
        BY <1>1, <2>4 DEF CopierOK, EvidenceOK
      <3>. QED
        BY <3>1 DEF Restored
    <2>5. Restored(k).rows \in SUBSET Stages
      <3>1. k.kind = "snapshot" => NotedRows(k) \in SUBSET Stages
        BY <2>3 DEF Faithful, CInv, DatabaseOK
      <3>2. k.noted.main \in Snapshots /\ (k.kind = "evidence" => k.noted.main # NoFile)
        BY <1>1 DEF CopierRecords, Pairs, CopierOK, EvidenceOK, MainNoted
      <3>3. k.kind = "evidence" => k.noted.main.of \in Mains
        BY <3>2 DEF Snapshots
      <3>. QED
        BY <1>1, <2>3, <2>4, <3>1, <3>3 DEF Mains
    <2>6. /\ j \in CopierRecords /\ j.pc = k.pc /\ j.kind = k.kind /\ j.stage = k.stage
          /\ j.since = k.since /\ j.noted = k.noted /\ j.taken = k.taken
          /\ j.made = Restored(k).rows
      BY <1>1, <2>5 DEF CopierRecords
    <2>. HIDE DEF j
    <2>. DEFINE y == Gone(j)
    <2>7. /\ y \in CopierRecords /\ y.pc = k.pc + 1 /\ y.kind = k.kind /\ y.stage = k.stage
          /\ y.since = k.since /\ y.noted = k.noted /\ y.taken = k.taken
          /\ y.made = Restored(k).rows
      <3>1. j.pc # Len(Program[j.kind])
        BY <1>2, <2>6
      <3>. QED
        BY <2>6, <3>1, GoneIs
    <2>. HIDE DEF y
    <2>8. /\ NotedRows(y) = NotedRows(k) /\ (MainNoted(k, main) => MainNoted(y, main))
          /\ \A rows : Faithful(k, rows, history) => Faithful(y, rows, history)
      BY <2>7 DEF NotedRows, MainNoted, Faithful
    <2>9. ASSUME k.kind = "snapshot"
          PROVE  CopierOK(y, main, history, Committed)
      <3>1. SnapshotOK(k, main, history) /\ k.pc = 7 /\ k.since \subseteq Committed
        BY <1>1, <2>9 DEF CopierOK
      <3>2. Faithful(y, y.made, history) /\ y.stage \in y.made
        BY <2>2, <2>3, <2>7, <2>8, <2>9
      <3>3. SnapshotOK(y, main, history)
        BY <2>7, <2>8, <3>1, <3>2 DEF SnapshotOK
      <3>. QED
        BY <2>7, <2>9, <3>1, <3>3 DEF CopierOK
    <2>10. ASSUME k.kind = "evidence"
           PROVE  CopierOK(y, main, history, Committed)
      <3>1. EvidenceOK(k, main, history) /\ k.pc = 5 /\ k.since \subseteq Committed
        BY <1>1, <2>10 DEF CopierOK
      <3>2. y.made = y.noted.main.of.rows /\ y.stage \in y.made
        BY <2>2, <2>4, <2>7, <2>10
      <3>3. EvidenceOK(y, main, history)
        BY <2>7, <2>8, <3>1, <3>2 DEF EvidenceOK
      <3>. QED
        BY <2>7, <2>10, <3>1, <3>3 DEF CopierOK
    <2>. QED
      BY <1>1, <2>1, <2>9, <2>10 DEF Moved, y
  <1>. QED
    BY <1>3, <1>4 DEF RestoreCopy

\* Linking: what appears at the destination is what was made.
LEMMA LinkMoves ==
    ASSUME CInv, NEW c \in Copiers, Link(c)
    PROVE  (\E x : Moved(c, x)) /\ CopyIsFaithful'
  <1>. DEFINE k == copier[c]
              y == Gone(k)
  <1>1. /\ k \in CopierRecords /\ CopierOK(k, main, history, Committed)
        /\ k.kind \in {"snapshot", "evidence"}
        /\ k.kind = "snapshot" => k.pc = 10
        /\ k.kind = "evidence" => k.pc = 8
    BY AtStep DEF Link, CopierRecords
  <1>2. k.pc # Len(Program[k.kind])
    <2>1. Len(Program[k.kind]) = IF k.kind = "snapshot" THEN 12 ELSE 10
      BY <1>1, LastStep
    <2>. QED
      BY <1>1, <2>1
  <1>3. copier' = [copier EXCEPT ![c] = y]
    BY DEF Link, Goes, Gone
  <1>4. Faithful(k, k.made, history) /\ k.stage \in k.made
    BY <1>1 DEF CopierOK, SnapshotOK, EvidenceOK
  <1>5. /\ y \in CopierRecords /\ y.pc = k.pc + 1 /\ y.kind = k.kind /\ y.stage = k.stage
        /\ y.since = k.since /\ y.noted = k.noted /\ y.taken = k.taken /\ y.made = k.made
    BY <1>1, <1>2, GoneIs
  <1>. HIDE DEF y
  <1>6. /\ NotedRows(y) = NotedRows(k) /\ (MainNoted(k, main) => MainNoted(y, main))
        /\ \A rows : Faithful(k, rows, history) => Faithful(y, rows, history)
    BY <1>5 DEF NotedRows, MainNoted, Faithful
  <1>7. ASSUME k.kind = "snapshot"
        PROVE  CopierOK(y, main, history, Committed)
    <2>1. SnapshotOK(k, main, history) /\ k.pc = 10 /\ k.since \subseteq Committed
      BY <1>1, <1>7 DEF CopierOK
    <2>2. SnapshotOK(y, main, history)
      BY <1>5, <1>6, <2>1 DEF SnapshotOK
    <2>. QED
      BY <1>5, <1>7, <2>1, <2>2 DEF CopierOK
  <1>8. ASSUME k.kind = "evidence"
        PROVE  CopierOK(y, main, history, Committed)
    <2>1. EvidenceOK(k, main, history) /\ k.pc = 8 /\ k.since \subseteq Committed
      BY <1>1, <1>8 DEF CopierOK
    <2>2. EvidenceOK(y, main, history)
      BY <1>5, <1>6, <2>1 DEF EvidenceOK
    <2>. QED
      BY <1>5, <1>8, <2>1, <2>2 DEF CopierOK
  <1>9. CopyIsFaithful'
    <2>1. copies' = copies \cup {[rows |-> k.made, stage |-> k.stage, since |-> k.since]}
          /\ history' = history
      BY DEF Link
    <2>. QED
      BY <1>4, <2>1 DEF CInv, CopyIsFaithful, Faithful
  <1>. QED
    BY <1>1, <1>3, <1>7, <1>8, <1>9 DEF Moved, y

----------------------------------------------------------------------------
(* The copies are faithful                                                 *)

LEMMA CopyInitial == CopyInit => CInv
  <1>. SUFFICES ASSUME CopyInit
                PROVE  CInv
    OBVIOUS
  <1>1. DatabaseOK
    BY CopyAssumption DEF CopyInit, NoWal, DatabaseOK, Mains, Committed, Recovered
  <1>2. Copier \in CopierRecords
    <2>1. [main |-> NoFile, wal |-> NoFile] \in Pairs
      BY DEF Pairs, Snapshots
    <2>. QED
      BY <2>1 DEF Copier, CopierRecords
  <1>3. ASSUME NEW c \in Copiers
        PROVE  CopierOK(copier[c], main, history, Committed)
    <2>1. copier[c] = Copier
      BY DEF CopyInit
    <2>2. Copier.pc = 0 /\ Copier.kind = "snapshot"
      BY DEF Copier
    <2>. QED
      BY <1>2, <2>1, <2>2 DEF CopierOK, SnapshotOK
  <1>. QED
    BY <1>1, <1>2, <1>3 DEF CopyInit, CInv, CopyIsFaithful

\* The invariant holds of the next state too.
LEMMA CopyStep ==
    ASSUME CInv, CopyNext
    PROVE  CInv'
  <1>1. CASE OpenWriter \/ Checkpoint \/ CloseWriter \/ \E s \in Stages : SaveStage(s)
    <2>1. WriterStep
      BY <1>1, WriterSteps DEF CInv
    <2>2. main \in Mains /\ main' \in Mains
      BY <2>1 DEF WriterStep, CInv, DatabaseOK
    <2>3. ASSUME NEW c \in Copiers
          PROVE  CopierOK(copier'[c], main', history', Committed')
      <3>1. CopierOK(copier[c], main, history, Committed)
        BY DEF CInv
      <3>2. CopierOK(copier[c], main', history', Committed')
        BY <2>1, <2>2, <3>1, KnowledgeStays DEF WriterStep
      <3>. QED
        BY <2>1, <3>2 DEF WriterStep
    <2>4. CopyIsFaithful'
      BY <2>1 DEF WriterStep, CInv, CopyIsFaithful
    <2>. QED
      BY <2>1, <2>3, <2>4 DEF CInv, WriterStep
  <1>2. ASSUME NEW c \in Copiers,
               \/ StartCopy(c) \/ NoteFile(c) \/ LoadSource(c) \/ CopyFile(c)
               \/ CheckFile(c) \/ RestoreCopy(c) \/ Link(c)
        PROVE  CInv'
    <2>1. UNCHANGED <<main, wal, writing, history>> /\ (Link(c) \/ copies' = copies)
      BY <1>2 DEF StartCopy, NoteFile, LoadSource, CopyFile, CheckFile, RestoreCopy, Link
    <2>2. PICK x : Moved(c, x)
      BY <1>2, StartMoves, NoteMoves, LoadMoves, CopyMoves, CheckMoves, RestoreMoves, LinkMoves
    <2>3. DatabaseOK' /\ Committed' = Committed
      BY <2>1 DEF CInv, DatabaseOK, Committed
    <2>4. x \in CopierRecords
      BY <2>2 DEF Moved, CopierOK
    <2>5. copier' \in [Copiers -> CopierRecords]
      BY <2>2, <2>4 DEF Moved, CInv
    <2>6. ASSUME NEW b \in Copiers
          PROVE  CopierOK(copier'[b], main', history', Committed')
      <3>1. copier'[b] = IF b = c THEN x ELSE copier[b]
        BY <2>2 DEF Moved, CInv
      <3>2. CopierOK(copier'[b], main, history, Committed)
        BY <2>2, <3>1 DEF Moved, CInv
      <3>. QED
        BY <2>1, <2>3, <3>2
    <2>7. CopyIsFaithful'
      BY <2>1, LinkMoves DEF CInv, CopyIsFaithful
    <2>. QED
      BY <2>3, <2>5, <2>6, <2>7 DEF CInv
  <1>. QED
    BY <1>1, <1>2 DEF CopyNext

\* Nothing else touches a database, a copier or a destination.
LEMMA CopyStutter ==
    ASSUME CInv, UNCHANGED copyVars
    PROVE  CInv'
  BY DEF CInv, copyVars, DatabaseOK, Committed, CopyIsFaithful

\* Whatever requests, approvals and commands do meanwhile, the copies are in order.
THEOREM CopyInvariance == Spec => []CInv
  <1>1. Init => CInv
    BY CopyInitial DEF Init
  <1>2. CInv /\ [Next]_allVars => CInv'
    <2>. SUFFICES ASSUME CInv, [Next]_allVars
                  PROVE  CInv'
      OBVIOUS
    <2>1. CopyNext \/ UNCHANGED copyVars
      BY DEF Next, allVars, Prepare, Edit, Review, Sign, Decline, Tick, Begin, LoadApproval,
             Reload, OpenAndPublish, End, ConfirmTyped, RunTyped, CompleteMock
    <2>. QED
      BY <2>1, CopyStep, CopyStutter
  <1>. QED
    BY <1>1, <1>2, PTL DEF Spec

\* Whatever the writer did while it was copied, a destination file holds the rows that were
\* committed at one moment of the copying, the asked stage among them.
THEOREM CopyIsFaithfulHolds == Spec => []CopyIsFaithful
  <1>1. CInv => CopyIsFaithful
    BY DEF CInv
  <1>. QED
    BY <1>1, CopyInvariance, PTL

----------------------------------------------------------------------------
(* The request and its review                                              *)

\* A request that was built for a stage shows that stage, and its provenance held.
LEMMA BuiltIsShown ==
    ASSUME NEW s \in Stages, NEW target, NEW f, NEW t, NEW keys, BuildHolds(s, target, keys, t)
    PROVE  Shown(BuildRequest(s, target, f, t))
  <1>. DEFINE r == BuildRequest(s, target, f, t)
              i == EngineIntent(s, target, f, t + TTL)
  <1>1. r.review = s /\ r.intent = i /\ r.approval = UnsignedApproval(i, f, t)
    BY DEF BuildRequest
  <1>2. i.of = Intent(BindSeed(PublicationSeed(s), target), f.head)
    BY DEF EngineIntent
  <1>3. i.of.stage = s /\ i.of.source = target.source
    BY <1>2 DEF Intent, BindSeed, PublicationSeed
  <1>4. /\ r.approval.stage = i.of.stage /\ r.approval.intent = i /\ r.approval.at = t
    BY <1>1 DEF UnsignedApproval
  <1>5. target.source = SourceOf[s] /\ (RequiresProvenance(PublicationSeed(s)) => t \in ProvenIn[s])
    BY DEF BuildHolds, BindHolds, PublicationSeed, ProvenanceHolds
  <1>. HIDE DEF r, i
  <1>6. Shown(r)
    BY <1>1, <1>3, <1>4, <1>5 DEF Shown
  <1>. QED
    BY <1>6 DEF r

\* What the request and its review look like after each of their steps.
LEMMA RequestSteps ==
    ASSUME RequestOK, ReviewedOK, Prepare \/ Edit \/ Review \/ Sign \/ Decline
    PROVE  /\ RequestOK' /\ ReviewedOK' /\ reviewed \subseteq reviewed'
           /\ UNCHANGED <<command, confirmations, published>>
  <1>1. CASE Prepare
    <2>1. PICK s \in Stages, target \in Targets, f \in Forms : request' = BuildRequest(s, target, f, now)
      BY <1>1 DEF Prepare
    <2>2. RequestOK'
      <3>1. f.approver = Approver
        BY DEF Forms
      <3>. QED
        BY <2>1, <3>1 DEF RequestOK, BuildRequest, UnsignedApproval
    <2>. QED
      BY <1>1, <2>2 DEF Prepare, ReviewedOK
  <1>2. CASE Edit
    <2>1. request # None /\ UNCHANGED <<signer, signed, reviewed, command, confirmations, published>>
      BY <1>2 DEF Edit
    <2>2. /\ DOMAIN request = {"intent", "approval", "review"}
          /\ DOMAIN request.approval = {"id", "approver", "policy", "repository", "stage",
                                        "intent", "at", "expires"}
          /\ request.approval.approver = Approver
      BY <2>1 DEF RequestOK
    <2>3. ASSUME NEW s \in Stages, request' = [request EXCEPT !.review = s]
          PROVE  RequestOK'
      BY <2>2, <2>3 DEF RequestOK
    <2>4. ASSUME NEW s \in Stages, request' = [request EXCEPT !.approval.stage = s]
          PROVE  RequestOK'
      <3>1. request'.approval = [request.approval EXCEPT !.stage = s]
        BY <2>2, <2>4
      <3>2. DOMAIN request' = DOMAIN request
        BY <2>4
      <3>. QED
        BY <2>2, <3>1, <3>2 DEF RequestOK
    <2>5. ASSUME request' = [request EXCEPT !.approval.expires = MaxTime + TTL,
                                            !.intent.expires = MaxTime + TTL]
          PROVE  RequestOK'
      <3>1. request'.approval = [request.approval EXCEPT !.expires = MaxTime + TTL]
        BY <2>2, <2>5
      <3>2. DOMAIN request' = DOMAIN request
        BY <2>5
      <3>. QED
        BY <2>2, <3>1, <3>2 DEF RequestOK
    <2>. QED
      BY <1>2, <2>1, <2>3, <2>4, <2>5 DEF Edit, ReviewedOK
  <1>3. CASE Review
    <2>1. PICK s \in Stages, target \in Targets, keys \in BOOLEAN :
              /\ RebuildHolds(request, s, target, keys)
              /\ signer' = BuildRequest(s, target, Fields(request), request.approval.at)
      BY <1>3 DEF Review
    <2>2. Shown(signer')
      BY <2>1, BuiltIsShown DEF RebuildHolds
    <2>. QED
      BY <1>3, <2>2 DEF Review, ReviewedOK, RequestOK
  <1>4. CASE Sign
    <2>1. Shown(signer) /\ now < signer.approval.expires
      BY <1>4 DEF Sign, ReviewedOK, Unexpired
    <2>2. /\ signed' = signed \cup {[approval |-> signer.approval, key |-> Key]}
          /\ reviewed' = reviewed \cup {[request |-> signer, at |-> now]}
          /\ signer' = None /\ UNCHANGED <<request, command, confirmations, published>>
      BY <1>4 DEF Sign
    <2>3. \A v \in reviewed' : Shown(v.request) /\ v.at < v.request.approval.expires
      BY <2>1, <2>2 DEF ReviewedOK
    <2>4. \A s \in signed' : \E v \in reviewed' : v.request.approval = s.approval
      <3>. SUFFICES ASSUME NEW s \in signed'
                    PROVE  \E v \in reviewed' : v.request.approval = s.approval
        OBVIOUS
      <3>1. CASE s \in signed
        BY <2>2, <3>1 DEF ReviewedOK
      <3>2. CASE s = [approval |-> signer.approval, key |-> Key]
        <4>. DEFINE w == [request |-> signer, at |-> now]
        <4>1. w \in reviewed' /\ w.request.approval = s.approval
          BY <2>2, <3>2
        <4>. QED
          BY <4>1
      <3>. QED
        BY <2>2, <3>1, <3>2
    <2>. QED
      BY <2>2, <2>3, <2>4 DEF ReviewedOK, RequestOK
  <1>5. CASE Decline
    BY <1>5 DEF Decline, ReviewedOK, RequestOK
  <1>. QED
    BY <1>1, <1>2, <1>3, <1>4, <1>5

----------------------------------------------------------------------------
(* The commands                                                            *)

\* What verification returns: an approval that is in force, and that the approver gave
\* where the key that signed is the approver's.
LEMMA VerifiedIs ==
    ASSUME RequestOK, ReviewedOK, request # None, NEW k, NEW moment, NEW enrolled \in BOOLEAN,
           k.verified \in Verified(moment, enrolled), k.moment = moment,
           k.kind # "mock" => enrolled
    PROVE  VerifiedOK(k)
  <1>. DEFINE v == k.verified
  <1>1. /\ v.signed \in signed \cup {Forged}
        /\ enrolled => \E e \in Enrollments :
               EnrollmentHolds(e, v.profile, request.approval.approver, Authorities, moment)
        /\ EnvelopeHolds(v.signed, request)
        /\ Decide(v.profile, ActuatorRequest(v.intent.of), v.signed, v.stage, v.intent, moment)
    BY DEF Verified
  <1>2. v.signed.approval.approver = Approver
    BY <1>1 DEF EnvelopeHolds, RequestOK
  <1>3. /\ v.signed.approval.intent = v.intent
        /\ v.signed.approval.at <= moment /\ moment < v.signed.approval.expires
        /\ v.signed.key = v.profile.keys[Approver]
    BY <1>1, <1>2 DEF Decide, ApprovalHolds
  <1>4. enrolled => HasEnrollment(k) /\ v.profile.keys[Approver] = Key
    <2>. SUFFICES ASSUME enrolled
                  PROVE  HasEnrollment(k) /\ v.profile.keys[Approver] = Key
      OBVIOUS
    <2>1. PICK e \in Enrollments :
              EnrollmentHolds(e, v.profile, request.approval.approver, Authorities, moment)
      BY <1>1
    <2>2. request.approval.approver = Approver
      BY DEF RequestOK
    <2>3. /\ e.signer \in Authorities /\ e.approver = Approver /\ e.profile = v.profile.name
          /\ moment < e.expires /\ v.profile.keys[Approver] = e.key
      BY <2>1, <2>2 DEF EnrollmentHolds, WindowHolds
    <2>4. e.key = Key
      BY <2>3, ApprovalsAssumption
    <2>. QED
      BY <2>3, <2>4 DEF HasEnrollment
  <1>5. v.profile.keys[Approver] = Key => v.signed \in signed
    BY <1>1, <1>3, ApprovalsAssumption DEF Forged
  <1>6. v.profile.keys[Approver] = Key => \E w \in reviewed : w.request.approval = v.signed.approval
    BY <1>5 DEF ReviewedOK
  <1>. QED
    BY <1>3, <1>4, <1>6 DEF VerifiedOK

\* One command moves: the others keep what they verified.
LEMMA OneCommand ==
    ASSUME CommandsOK, NEW k \in Commands, NEW x, CommandRecord(x),
           command' = [command EXCEPT ![k] = x], reviewed' = reviewed,
           x.pc \in {"loaded", "ready"} => VerifiedOK(x)
    PROVE  CommandsOK' /\ command'[k] = x /\ \A j \in Commands : j # k => command'[j] = command[j]
  <1>1. DOMAIN command = Commands
    BY DEF CommandsOK
  <1>2. \A j \in Commands : command'[j] = IF j = k THEN x ELSE command[j]
    BY <1>1
  <1>3. command' = [j \in Commands |-> command'[j]]
    BY <1>1
  <1>4. \A y : VerifiedOK(y) => VerifiedOK(y)'
    BY DEF VerifiedOK, HasEnrollment
  <1>. QED
    BY <1>2, <1>3, <1>4 DEF CommandsOK, CommandRecord

\* No confirmation is by a command that has not begun to confirm, and those of a command
\* that ended stay what they are.
LEMMA OneConfirmation ==
    ASSUME ConfirmationsOK, CommandsOK, NEW k \in Commands, NEW x, CommandRecord(x),
           command' = [command EXCEPT ![k] = x], confirmations' = confirmations,
           published \subseteq published',
           \/ command[k].pc \in {"idle", "begun", "loaded"} /\ x.pc \notin {"confirmed", "ran"}
           \/ x.pc = "done"
    PROVE  ConfirmationsOK'
  <1>1. DOMAIN command = Commands
    BY DEF CommandsOK
  <1>2. \A j \in Commands : command'[j] = IF j = k THEN x ELSE command[j]
    BY <1>1
  <1>3. ASSUME NEW c \in confirmations
        PROVE  /\ ConfirmationRecord(c) /\ c.by \in Commands
               /\ command'[c.by].pc \in {"confirmed", "ran", "done"}
               /\ command'[c.by].pc \in {"confirmed", "ran"} => c.of = command'[c.by].verified
    BY <1>2 DEF ConfirmationsOK
  <1>4. ASSUME NEW j \in Commands, command'[j].pc = "ran"
        PROVE  \E p \in published' : p.by = j /\ p.kind = "typed" /\ p.of = command'[j].verified
    BY <1>2, <1>4 DEF ConfirmationsOK
  <1>. QED
    BY <1>3, <1>4 DEF ConfirmationsOK, ConfirmationRecord

\* What is written into a command.
HasVerified(c, p, v) == [c EXCEPT !.pc = p, !.verified = v]
HasBegun(c, i, m) == [c EXCEPT !.pc = "begun", !.kind = i, !.moment = m]

\* The rest of the command stays.
LEMMA Written ==
    ASSUME NEW c, CommandRecord(c), NEW p, NEW v, NEW i, NEW m
    PROVE  /\ LET x == HasVerified(c, p, v)
              IN  /\ CommandRecord(x) /\ x.pc = p /\ x.kind = c.kind /\ x.moment = c.moment
                  /\ x.verified = v
           /\ LET x == HasBegun(c, i, m)
              IN  CommandRecord(x) /\ x.pc = "begun"
  <1>. DEFINE R == [pc : {c.pc, p, "begun"}, kind : {c.kind, i}, moment : {c.moment, m},
                    verified : {c.verified, v}]
              x == [c EXCEPT !.pc = p, !.verified = v]
              y == [c EXCEPT !.pc = "begun", !.kind = i, !.moment = m]
  <1>1. c \in R
    BY DEF CommandRecord
  <1>2. x.pc = p /\ x.kind = c.kind /\ x.moment = c.moment /\ x.verified = v /\ y.pc = "begun"
    BY <1>1
  <1>3. x \in R
    BY <1>1
  <1>4. y \in R
    BY <1>1
  <1>5. ASSUME NEW r \in R
        PROVE  CommandRecord(r)
    BY <1>5 DEF CommandRecord
  <1>6. CommandRecord(x) /\ CommandRecord(y)
    BY <1>3, <1>4, <1>5
  <1>. QED
    BY <1>2, <1>6 DEF HasVerified, HasBegun

\* What holds of a command and its confirmations also holds when it moves.
LEMMA CommandMoves ==
    ASSUME AInv, NEW k \in Commands, NEW x, CommandRecord(x),
           command' = [command EXCEPT ![k] = x],
           UNCHANGED <<request, signer, signed, reviewed, confirmations, published>>,
           x.pc \in {"loaded", "ready"} => VerifiedOK(x),
           \/ command[k].pc \in {"idle", "begun", "loaded"} /\ x.pc \notin {"confirmed", "ran"}
           \/ x.pc = "done"
    PROVE  AInv'
  <1>1. RequestOK' /\ ReviewedOK' /\ PublishedWasApproved' /\ ConfirmationIsTrue'
    BY DEF AInv, RequestOK, ReviewedOK, PublishedWasApproved, ConfirmationIsTrue
  <1>2. CommandsOK'
    BY OneCommand DEF AInv
  <1>3. ConfirmationsOK'
    BY OneConfirmation DEF AInv
  <1>. QED
    BY <1>1, <1>2, <1>3 DEF AInv

\* A command begins, verifies, verifies again, or ends.
LEMMA VerifyingSteps ==
    ASSUME AInv, NEW k \in Commands, Begin(k) \/ LoadApproval(k) \/ Reload(k) \/ End(k)
    PROVE  AInv'
  <1>1. CommandRecord(command[k]) /\ DOMAIN command = Commands
    BY DEF AInv, CommandsOK
  <1>2. CASE Begin(k)
    <2>1. PICK kind \in Kinds :
              command' = [command EXCEPT ![k] = [@ EXCEPT !.pc = "begun", !.kind = kind, !.moment = now]]
      BY <1>2 DEF Begin
    <2>. DEFINE x == HasBegun(command[k], kind, now)
    <2>2. CommandRecord(x) /\ x.pc = "begun"
      BY <1>1, Written
    <2>3. command' = [command EXCEPT ![k] = x]
      BY <2>1 DEF HasBegun
    <2>. HIDE DEF x
    <2>. QED
      BY <1>2, <2>2, <2>3, CommandMoves DEF Begin
  <1>3. CASE LoadApproval(k)
    <2>. DEFINE e == command[k].kind # "mock"
                pc == IF command[k].kind = "mock" THEN "ready" ELSE "loaded"
    <2>1. PICK v \in Verified(command[k].moment, e) :
              command' = [command EXCEPT ![k].pc = pc, ![k].verified = v]
      BY <1>3 DEF LoadApproval
    <2>. DEFINE x == HasVerified(command[k], pc, v)
    <2>2. /\ CommandRecord(x) /\ x.pc = pc /\ x.verified = v
          /\ x.moment = command[k].moment /\ x.kind = command[k].kind
      BY <1>1, Written
    <2>3. command' = [command EXCEPT ![k] = x]
      BY <1>1, <2>1 DEF HasVerified
    <2>4. request # None /\ e \in BOOLEAN
      BY <1>3 DEF LoadApproval
    <2>. HIDE DEF x
    <2>5. VerifiedOK(x)
      BY <2>1, <2>2, <2>4, VerifiedIs DEF AInv
    <2>. QED
      BY <1>3, <2>2, <2>3, <2>5, CommandMoves DEF LoadApproval
  <1>4. CASE Reload(k)
    <2>1. PICK v \in Verified(command[k].moment, TRUE) :
              command' = [command EXCEPT ![k].pc = "ready", ![k].verified = v]
      BY <1>4 DEF Reload
    <2>. DEFINE x == HasVerified(command[k], "ready", v)
    <2>2. /\ CommandRecord(x) /\ x.pc = "ready" /\ x.verified = v
          /\ x.moment = command[k].moment /\ x.kind = command[k].kind
      BY <1>1, Written
    <2>3. command' = [command EXCEPT ![k] = x]
      BY <1>1, <2>1 DEF HasVerified
    <2>4. request # None
      BY <1>4 DEF Reload
    <2>. HIDE DEF x
    <2>5. VerifiedOK(x)
      BY <2>1, <2>2, <2>4, VerifiedIs DEF AInv
    <2>. QED
      BY <1>4, <2>2, <2>3, <2>5, CommandMoves DEF Reload
  <1>5. CASE End(k)
    <2>. DEFINE x == [Idle EXCEPT !.pc = "done"]
    <2>1. CommandRecord(x) /\ x.pc = "done"
      BY DEF CommandRecord, Idle
    <2>2. command' = [command EXCEPT ![k] = x]
      BY <1>5 DEF End
    <2>. HIDE DEF x
    <2>. QED
      BY <1>5, <2>1, <2>2, CommandMoves DEF End
  <1>. QED
    BY <1>2, <1>3, <1>4, <1>5

\* What is published on a signed approval is what was verified.
LEMMA PublishingStep ==
    ASSUME AInv, NEW k \in Commands, OpenAndPublish(k)
    PROVE  AInv'
  <1>. DEFINE c == command[k]
              p == [by |-> k, kind |-> c.kind, of |-> c.verified.intent.of, moment |-> c.moment,
                    profile |-> c.verified.profile]
              x == [Idle EXCEPT !.pc = "done"]
  <1>1. /\ published' = published \cup {p} /\ command' = [command EXCEPT ![k] = x]
        /\ c.pc = "ready"
        /\ UNCHANGED <<request, signer, signed, reviewed, confirmations>>
    BY DEF OpenAndPublish
  <1>2. VerifiedOK(c)
    BY <1>1 DEF AInv, CommandsOK
  <1>3. CommandRecord(x) /\ x.pc = "done"
    BY DEF CommandRecord, Idle
  <1>4. /\ p.kind = c.kind /\ p.of = c.verified.intent.of /\ p.moment = c.moment
        /\ p.profile = c.verified.profile
    OBVIOUS
  <1>. HIDE DEF x, p
  <1>5. CommandsOK' /\ ConfirmationsOK'
    BY <1>1, <1>3, OneCommand, OneConfirmation DEF AInv
  <1>6. RequestOK' /\ ReviewedOK' /\ ConfirmationIsTrue'
    BY <1>1 DEF AInv, RequestOK, ReviewedOK, ConfirmationIsTrue
  <1>7. ASSUME p.kind \in {"github", "enrolled"} \/ Ours(p)
        PROVE  \E v \in reviewed :
                  LET a == v.request.approval
                  IN /\ v.request.review = p.of.stage /\ v.request.intent.of = p.of
                     /\ v.at < a.expires
                     /\ a.at <= p.moment /\ p.moment < a.expires
                     /\ p.of.source = SourceOf[p.of.stage]
                     /\ RequiresProvenance(PublicationSeed(p.of.stage)) => a.at \in ProvenIn[p.of.stage]
                     /\ p.kind # "mock" => \E e \in Enrollments :
                            e.signer \in Authorities /\ e.key = Key /\ e.profile = p.profile.name
                                /\ p.moment < e.expires
    <2>1. c.kind # "mock" \/ c.verified.profile.keys[Approver] = Key
      BY <1>4, <1>7 DEF Ours
    <2>2. PICK w \in reviewed : w.request.approval = c.verified.signed.approval
      BY <1>2, <2>1 DEF VerifiedOK
    <2>3. Shown(w.request) /\ w.at < w.request.approval.expires
      BY DEF AInv, ReviewedOK
    <2>4. /\ w.request.approval.intent = c.verified.intent
          /\ w.request.approval.at <= c.moment /\ c.moment < w.request.approval.expires
      BY <1>2, <2>2 DEF VerifiedOK
    <2>5. w.request.intent = c.verified.intent
      BY <2>3, <2>4 DEF Shown
    <2>6. /\ w.request.review = p.of.stage /\ w.request.intent.of = p.of
          /\ p.of.source = SourceOf[p.of.stage]
          /\ RequiresProvenance(PublicationSeed(p.of.stage)) =>
                 w.request.approval.at \in ProvenIn[p.of.stage]
      BY <1>4, <2>3, <2>5 DEF Shown
    <2>7. p.kind # "mock" => \E e \in Enrollments :
              e.signer \in Authorities /\ e.key = Key /\ e.profile = p.profile.name
                  /\ p.moment < e.expires
      BY <1>2, <1>4 DEF VerifiedOK, HasEnrollment
    <2>. QED
      BY <1>4, <2>3, <2>4, <2>6, <2>7
  <1>8. PublishedWasApproved'
    BY <1>1, <1>7 DEF AInv, PublishedWasApproved, Ours
  <1>. QED
    BY <1>5, <1>6, <1>8 DEF AInv

----------------------------------------------------------------------------
(* The typed digest                                                        *)

\* A confirmation is made, the mock is run, and the record is completed.
LEMMA TypedSteps ==
    ASSUME AInv, NEW k \in Commands, ConfirmTyped(k) \/ RunTyped(k) \/ CompleteMock(k)
    PROVE  AInv'
  <1>1. CommandRecord(command[k]) /\ DOMAIN command = Commands
    BY DEF AInv, CommandsOK
  <1>2. CASE ConfirmTyped(k)
    <2>1. PICK of :
              /\ confirmations' = confirmations \cup {Confirmation(k, of)}
              /\ command' = [command EXCEPT ![k] = [pc |-> "confirmed", kind |-> "typed",
                                                    moment |-> now, verified |-> of]]
      BY <1>2 DEF ConfirmTyped
    <2>. DEFINE x == [pc |-> "confirmed", kind |-> "typed", moment |-> now, verified |-> of]
                d == Confirmation(k, of)
    <2>2. CommandRecord(x) /\ x.pc = "confirmed" /\ x.verified = of
      BY DEF CommandRecord
    <2>3. ConfirmationRecord(d) /\ d.by = k /\ d.of = of /\ d.status = "confirmed"
      BY DEF Confirmation, ConfirmationRecord
    <2>4. /\ command' = [command EXCEPT ![k] = x] /\ confirmations' = confirmations \cup {d}
          /\ command[k].pc = "idle" /\ UNCHANGED <<request, signer, signed, reviewed, published>>
      BY <1>2, <2>1 DEF ConfirmTyped
    <2>. HIDE DEF x, d
    <2>5. CommandsOK' /\ command'[k] = x /\ \A j \in Commands : j # k => command'[j] = command[j]
      BY <2>2, <2>4, OneCommand DEF AInv
    <2>6. ASSUME NEW c \in confirmations'
          PROVE  /\ ConfirmationRecord(c) /\ c.by \in Commands
                 /\ command'[c.by].pc \in {"confirmed", "ran", "done"}
                 /\ command'[c.by].pc \in {"confirmed", "ran"} => c.of = command'[c.by].verified
      <3>1. CASE c = d
        BY <2>2, <2>3, <2>5, <3>1
      <3>2. CASE c \in confirmations
        BY <2>4, <2>5, <3>2 DEF AInv, ConfirmationsOK
      <3>. QED
        BY <2>4, <3>1, <3>2
    <2>7. ConfirmationsOK'
      <3>1. ASSUME NEW j \in Commands, command'[j].pc = "ran"
            PROVE  \E p \in published' : p.by = j /\ p.kind = "typed" /\ p.of = command'[j].verified
        BY <2>2, <2>4, <2>5, <3>1 DEF AInv, ConfirmationsOK
      <3>. QED
        BY <2>6, <3>1 DEF ConfirmationsOK, ConfirmationRecord
    <2>8. ConfirmationIsTrue'
      BY <2>3, <2>4 DEF AInv, ConfirmationIsTrue
    <2>. QED
      BY <2>4, <2>5, <2>7, <2>8
         DEF AInv, RequestOK, ReviewedOK, PublishedWasApproved
  <1>3. CASE RunTyped(k)
    <2>. DEFINE p == [by |-> k, kind |-> "typed", of |-> command[k].verified,
                      moment |-> command[k].moment, profile |-> None]
                x == HasVerified(command[k], "ran", command[k].verified)
    <2>1. /\ published' = published \cup {p} /\ command' = [command EXCEPT ![k].pc = "ran"]
          /\ command[k].pc = "confirmed"
          /\ UNCHANGED <<request, signer, signed, reviewed, confirmations>>
      BY <1>3 DEF RunTyped
    <2>2. CommandRecord(x) /\ x.pc = "ran" /\ x.verified = command[k].verified
      BY <1>1, Written
    <2>3. command' = [command EXCEPT ![k] = x]
      <3>1. [command[k] EXCEPT !.pc = "ran"] = x
        <4>1. \A c : CommandRecord(c) =>
                  [c EXCEPT !.pc = "ran"] = HasVerified(c, "ran", c.verified)
          BY DEF CommandRecord, HasVerified
        <4>. QED
          BY <1>1, <4>1
      <3>. QED
        BY <2>1, <3>1
    <2>4. p.by = k /\ p.kind = "typed" /\ p.of = command[k].verified
      OBVIOUS
    <2>. HIDE DEF x, p
    <2>5. CommandsOK' /\ command'[k] = x /\ \A j \in Commands : j # k => command'[j] = command[j]
      BY <2>1, <2>2, <2>3, OneCommand DEF AInv
    <2>6. ASSUME NEW c \in confirmations'
          PROVE  /\ ConfirmationRecord(c) /\ c.by \in Commands
                 /\ command'[c.by].pc \in {"confirmed", "ran", "done"}
                 /\ command'[c.by].pc \in {"confirmed", "ran"} => c.of = command'[c.by].verified
      BY <2>1, <2>2, <2>5 DEF AInv, ConfirmationsOK
    <2>7. ASSUME NEW j \in Commands, command'[j].pc = "ran"
          PROVE  \E q \in published' : q.by = j /\ q.kind = "typed" /\ q.of = command'[j].verified
      <3>1. CASE j = k
        BY <2>1, <2>2, <2>4, <2>5, <3>1
      <3>2. CASE j # k
        BY <2>1, <2>5, <2>7, <3>2 DEF AInv, ConfirmationsOK
      <3>. QED
        BY <3>1, <3>2
    <2>8. ConfirmationsOK'
      BY <2>6, <2>7 DEF ConfirmationsOK, ConfirmationRecord
    <2>9. PublishedWasApproved'
      <3>1. ~(p.kind \in {"github", "enrolled"} \/ Ours(p))
        BY <2>4 DEF Ours
      <3>. QED
        BY <2>1, <3>1 DEF AInv, PublishedWasApproved, Ours
    <2>10. ConfirmationIsTrue'
      BY <2>1 DEF AInv, ConfirmationIsTrue
    <2>. QED
      BY <2>1, <2>5, <2>8, <2>9, <2>10 DEF AInv, RequestOK, ReviewedOK
  <1>4. CASE CompleteMock(k)
    <2>. DEFINE x == [Idle EXCEPT !.pc = "done"]
                Done(c) == IF c.by = k /\ c.status = "confirmed"
                           THEN [c EXCEPT !.status = "mock_completed", !.receipt = 1] ELSE c
    <2>1. /\ confirmations' = {Done(c) : c \in confirmations}
          /\ command' = [command EXCEPT ![k] = x] /\ command[k].pc = "ran"
          /\ UNCHANGED <<request, signer, signed, reviewed, published>>
      BY <1>4 DEF CompleteMock, Completed
    <2>2. CommandRecord(x) /\ x.pc = "done"
      BY DEF CommandRecord, Idle
    <2>3. ASSUME NEW c \in confirmations
          PROVE  /\ ConfirmationRecord(Done(c)) /\ Done(c).by = c.by /\ Done(c).of = c.of
                 /\ Done(c).status = "mock_completed" => c.status = "mock_completed" \/ c.by = k
      <3>1. ConfirmationRecord(c)
        BY DEF AInv, ConfirmationsOK
      <3>2. [c EXCEPT !.status = "mock_completed", !.receipt = 1] \in
                [by : {c.by}, of : {c.of}, status : {c.status, "mock_completed"},
                 receipt : {c.receipt, 1}]
        BY <3>1 DEF ConfirmationRecord
      <3>. QED
        BY <3>1, <3>2 DEF ConfirmationRecord
    <2>. HIDE DEF x, Done
    <2>4. CommandsOK' /\ command'[k] = x /\ \A j \in Commands : j # k => command'[j] = command[j]
      BY <2>1, <2>2, OneCommand DEF AInv
    <2>5. ASSUME NEW c \in confirmations
          PROVE  /\ c.by \in Commands /\ command'[c.by].pc \in {"confirmed", "ran", "done"}
                 /\ command'[c.by].pc \in {"confirmed", "ran"} => c.of = command'[c.by].verified
      BY <2>1, <2>2, <2>4 DEF AInv, ConfirmationsOK
    <2>6. ASSUME NEW d \in confirmations'
          PROVE  /\ ConfirmationRecord(d) /\ d.by \in Commands
                 /\ command'[d.by].pc \in {"confirmed", "ran", "done"}
                 /\ command'[d.by].pc \in {"confirmed", "ran"} => d.of = command'[d.by].verified
      <3>1. PICK c \in confirmations : d = Done(c)
        BY <2>1
      <3>. QED
        BY <2>3, <2>5, <3>1
    <2>7. ASSUME NEW j \in Commands, command'[j].pc = "ran"
          PROVE  \E q \in published' : q.by = j /\ q.kind = "typed" /\ q.of = command'[j].verified
      BY <2>1, <2>2, <2>4, <2>7 DEF AInv, ConfirmationsOK
    <2>8. ConfirmationsOK'
      BY <2>6, <2>7 DEF ConfirmationsOK, ConfirmationRecord
    <2>9. ASSUME NEW d \in confirmations', d.status = "mock_completed"
          PROVE  \E q \in published' : q.by = d.by /\ q.kind = "typed" /\ q.of = d.of
      <3>1. PICK c \in confirmations : d = Done(c)
        BY <2>1
      <3>2. CASE c.status = "mock_completed"
        BY <2>1, <2>3, <3>1, <3>2 DEF AInv, ConfirmationIsTrue
      <3>3. CASE c.by = k
        <4>1. c.of = command[k].verified
          BY <2>1, <3>3 DEF AInv, ConfirmationsOK
        <4>2. \E q \in published : q.by = k /\ q.kind = "typed" /\ q.of = command[k].verified
          BY <2>1 DEF AInv, ConfirmationsOK
        <4>. QED
          BY <2>1, <2>3, <3>1, <3>3, <4>1, <4>2
      <3>. QED
        BY <2>3, <2>9, <3>1, <3>2, <3>3
    <2>10. ConfirmationIsTrue'
      BY <2>9 DEF ConfirmationIsTrue
    <2>. QED
      BY <2>1, <2>4, <2>8, <2>10 DEF AInv, RequestOK, ReviewedOK, PublishedWasApproved
  <1>. QED
    BY <1>2, <1>3, <1>4

----------------------------------------------------------------------------
(* What went through a channel was approved                                *)

\* Whatever is copied meanwhile, the approvals and the commands are in order.
THEOREM ApprovalInvariance == Spec => []AInv
  <1>1. Init => AInv
    <2>. SUFFICES ASSUME Init
                  PROVE  AInv
      OBVIOUS
    <2>1. CommandsOK
      <3>1. CommandRecord(Idle) /\ Idle.pc = "idle"
        BY DEF CommandRecord, Idle
      <3>2. \A k \in Commands : command[k] = Idle
        BY DEF Init
      <3>. QED
        BY <3>1, <3>2 DEF CommandsOK, Init
    <2>2. ConfirmationsOK
      BY DEF Init, ConfirmationsOK, Idle
    <2>. QED
      BY <2>1, <2>2
         DEF Init, AInv, RequestOK, ReviewedOK, PublishedWasApproved, ConfirmationIsTrue
  <1>2. AInv /\ [Next]_allVars => AInv'
    <2>. SUFFICES ASSUME AInv, [Next]_allVars
                  PROVE  AInv'
      OBVIOUS
    <2>1. CASE UNCHANGED approvalVars \/ Tick
      <3>1. UNCHANGED <<request, signer, signed, reviewed, command, confirmations, published>>
        BY <2>1 DEF approvalVars, Tick
      <3>2. RequestOK' /\ ReviewedOK'
        BY <3>1 DEF AInv, RequestOK, ReviewedOK
      <3>3. CommandsOK'
        <4>1. \A k : VerifiedOK(k) => VerifiedOK(k)'
          BY <3>1 DEF VerifiedOK, HasEnrollment
        <4>. QED
          BY <3>1, <4>1 DEF AInv, CommandsOK
      <3>4. ConfirmationsOK'
        BY <3>1 DEF AInv, ConfirmationsOK
      <3>5. PublishedWasApproved' /\ ConfirmationIsTrue'
        BY <3>1 DEF AInv, PublishedWasApproved, ConfirmationIsTrue
      <3>. QED
        BY <3>2, <3>3, <3>4, <3>5 DEF AInv
    <2>2. CASE Prepare \/ Edit \/ Review \/ Sign \/ Decline
      <3>1. /\ RequestOK' /\ ReviewedOK' /\ reviewed \subseteq reviewed'
            /\ UNCHANGED <<command, confirmations, published>>
        BY <2>2, RequestSteps DEF AInv
      <3>2. CommandsOK'
        <4>1. \A k : VerifiedOK(k) => VerifiedOK(k)'
          BY <3>1 DEF VerifiedOK, HasEnrollment
        <4>. QED
          BY <3>1, <4>1 DEF AInv, CommandsOK
      <3>3. PublishedWasApproved'
        BY <3>1 DEF AInv, PublishedWasApproved
      <3>. QED
        BY <3>1, <3>2, <3>3 DEF AInv, ConfirmationsOK, ConfirmationIsTrue
    <2>3. ASSUME NEW k \in Commands,
                 \/ Begin(k) \/ LoadApproval(k) \/ Reload(k) \/ OpenAndPublish(k) \/ End(k)
                 \/ ConfirmTyped(k) \/ RunTyped(k) \/ CompleteMock(k)
          PROVE  AInv'
      BY <2>3, VerifyingSteps, PublishingStep, TypedSteps
    <2>. QED
      BY <2>1, <2>2, <2>3 DEF Next, allVars
  <1>. QED
    BY <1>1, <1>2, PTL DEF Spec

\* What went through a channel on a signed approval was shown to the approver as that stage
\* with that intent, and confirmed while the request held, whatever files were replaced
\* between the reads and whatever anybody else signed.
THEOREM PublishedWasApprovedHolds == Spec => []PublishedWasApproved
  <1>1. AInv => PublishedWasApproved
    BY DEF AInv
  <1>. QED
    BY <1>1, ApprovalInvariance, PTL

\* A confirmation record that says mock_completed tells of a mock publication of the very
\* intent whose digest was typed, wherever a command was cut off.
THEOREM ConfirmationIsTrueHolds == Spec => []ConfirmationIsTrue
  <1>1. AInv => ConfirmationIsTrue
    BY DEF AInv
  <1>. QED
    BY <1>1, ApprovalInvariance, PTL
=============================================================================
