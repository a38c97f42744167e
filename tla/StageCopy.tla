------------------------------ MODULE StageCopy -------------------------------
(***************************************************************************)
(* A stage database in WAL mode (durable_stage.py), its writer, and the    *)
(* two commands that copy it for a review: stage_copy.py, which wants a    *)
(* database without sidecars, and wal_stage_snapshot.py, which copies the  *)
(* sidecars too.  Neither opens the source for writing or takes a lock, so *)
(* the writer may run between any two of their reads.                      *)
(***************************************************************************)
EXTENDS Integers, Sequences

CONSTANTS
    Stages,
    Copiers,
    Initial     \* stages in the database at first

ASSUME CopyAssumption == Initial \subseteq Stages

VARIABLES
    main,       \* the database file: its rows, and whether a checkpoint is through
    wal,        \* the sidecars: whether they exist, and the rows of the log
    writing,    \* a connection that writes is open
    history,    \* every set of rows that was committed
    copier,     \* [Copiers -> state of a copy command]
    copies      \* destination files

copyVars == <<main, wal, writing, history, copier, copies>>

----------------------------------------------------------------------------
(* The database                                                            *)

NoWal == [exists |-> FALSE, rows |-> {}]

\* What SQLite reads from a database file and its log.
Recovered(m, w) == m.rows \cup w.rows
Committed == Recovered(main, wal)

\* SQLiteStagedArtifactStore(path): a log appears, or the one left by a crash is used.
OpenWriter ==
    /\ ~writing
    /\ writing' = TRUE
    /\ wal' = [wal EXCEPT !.exists = TRUE]
    /\ UNCHANGED <<main, history, copier, copies>>

\* save: a row is committed in the log, which starts over when all of it is in
\* the database file.
SaveStage(s) ==
    /\ writing /\ s \notin Committed
    /\ wal' = [wal EXCEPT !.rows = IF main.whole /\ @ \subseteq main.rows THEN {s} ELSE @ \cup {s}]
    /\ history' = history \cup {Committed \cup {s}}
    /\ UNCHANGED <<main, writing, copier, copies>>

\* SQLite writes the log into the database file, page by page.
Checkpoint ==
    /\ writing
    /\ \/ /\ main.whole /\ ~(wal.rows \subseteq main.rows)
          /\ main' = [main EXCEPT !.whole = FALSE]
       \/ /\ ~main.whole
          /\ main' = [rows |-> Committed, whole |-> TRUE]
    /\ UNCHANGED <<wal, writing, history, copier, copies>>

\* The last connection removes the log; a process that dies leaves it.
CloseWriter ==
    /\ writing
    /\ writing' = FALSE
    /\ wal' \in {wal} \cup IF main.whole /\ wal.rows \subseteq main.rows THEN {NoWal} ELSE {}
    /\ UNCHANGED <<main, history, copier, copies>>

\* SQLiteStagedArtifactStore(path, read_only=True).load: no sidecars, and a row
\* that is what its digests say.
Stored(m, w, s) == ~w.exists /\ m.whole /\ s \in m.rows

----------------------------------------------------------------------------
(* Copying                                                                 *)

Read(file) == [do |-> "note", file |-> file]
Copy(file) == [do |-> "copy", file |-> file]
Check(file) == [do |-> "check", file |-> file]
Restore == [do |-> "restore", file |-> "main"]
Publish == [do |-> "link", file |-> "main"]
Load == [do |-> "load", file |-> "main"]

\* _source_manifest
Manifest == <<Read("main"), Read("wal")>>
SourceManifest == <<Check("main"), Check("wal")>>

\* Mutant: each file is noted and copied in its turn, and nothing ties the two together.
SnapshotInTurn ==
    <<Read("main"), Copy("main"), Check("main"), Read("wal"), Copy("wal"), Check("wal"), Restore,
      Publish>>

\* snapshot_wal_stage
Snapshot ==
    Manifest \o <<Copy("main"), Copy("wal")>> \o SourceManifest \o <<Restore>>
        \o SourceManifest \o <<Publish>> \o SourceManifest

\* copy_staged_evidence
CopyEvidence ==
    <<Read("wal"), Load, Read("main"), Copy("main"), Restore, Check("wal"), Check("main"), Publish,
      Check("wal"), Check("main")>>

Program == [snapshot |-> Snapshot, evidence |-> CopyEvidence]

NoFile == [exists |-> FALSE]
File(name) ==
    IF name = "main" THEN [exists |-> TRUE, of |-> main]
    ELSE IF wal.exists THEN [exists |-> TRUE, of |-> [rows |-> wal.rows, whole |-> TRUE]] ELSE NoFile

Copier == [pc |-> 0, kind |-> "snapshot", stage |-> "none", since |-> {},
           noted |-> [main |-> NoFile, wal |-> NoFile],
           taken |-> [main |-> NoFile, wal |-> NoFile], made |-> {}]

\* A new destination for one stage; __init__ of both programs checks its paths.
StartCopy(c) ==
    /\ copier[c].pc = 0
    /\ \E kind \in DOMAIN Program, s \in Stages :
           copier' = [copier EXCEPT ![c] = [@ EXCEPT !.pc = 1, !.kind = kind, !.stage = s,
                                                     !.since = Committed]]
    /\ UNCHANGED <<main, wal, writing, history, copies>>

Step(c) == Program[copier[c].kind][copier[c].pc]
Running(c) == copier[c].pc \in DOMAIN Program[copier[c].kind]

\* A copy that goes on to its end, and one that gives up: what is linked stays.
Ended == [Copier EXCEPT !.pc = -1]
Goes(c, k) ==
    copier' = [copier EXCEPT ![c] = IF k.pc = Len(Program[k.kind]) THEN Ended ELSE [k EXCEPT !.pc = @ + 1]]
GivesUp(c) == copier' = [copier EXCEPT ![c] = Ended]

\* _file_digest, _has_sqlite_sidecars: the copy of evidence wants no log.
NoteFile(c) ==
    /\ Running(c) /\ Step(c).do = "note"
    /\ LET f == Step(c).file
       IN IF copier[c].kind = "evidence" /\ f = "wal" /\ File(f) # NoFile THEN GivesUp(c)
          ELSE Goes(c, [copier[c] EXCEPT !.noted[f] = File(f)])
    /\ UNCHANGED <<main, wal, writing, history, copies>>

LoadSource(c) ==
    /\ Running(c) /\ Step(c).do = "load"
    /\ IF Stored(main, wal, copier[c].stage) THEN Goes(c, copier[c]) ELSE GivesUp(c)
    /\ UNCHANGED <<main, wal, writing, history, copies>>

\* _copy_exact, shutil.copyfile: the copy has the digest that was noted.
CopyFile(c) ==
    /\ Running(c) /\ Step(c).do = "copy"
    /\ LET f == Step(c).file
       IN IF File(f) = copier[c].noted[f] THEN Goes(c, [copier[c] EXCEPT !.taken[f] = File(f)])
          ELSE GivesUp(c)
    /\ UNCHANGED <<main, wal, writing, history, copies>>

\* The source is as it was noted.
CheckFile(c) ==
    /\ Running(c) /\ Step(c).do = "check"
    /\ IF File(Step(c).file) = copier[c].noted[Step(c).file] THEN Goes(c, copier[c]) ELSE GivesUp(c)
    /\ UNCHANGED <<main, wal, writing, history, copies>>

\* sqlite3 backup of the copied files, the integrity check and the load of the stage.
\* A copy of evidence has no integrity check of its own: the model gives up a little
\* earlier on a half-written file, which the checks of the source after it refuse.
Restored(k) ==
    IF k.taken.wal = NoFile THEN k.taken.main.of
    ELSE [rows |-> Recovered(k.taken.main.of, k.taken.wal.of), whole |-> TRUE]

RestoreCopy(c) ==
    /\ Running(c) /\ Step(c).do = "restore"
    /\ IF Stored(Restored(copier[c]), NoWal, copier[c].stage)
       THEN Goes(c, [copier[c] EXCEPT !.made = Restored(copier[c]).rows])
       ELSE GivesUp(c)
    /\ UNCHANGED <<main, wal, writing, history, copies>>

\* os.link to a destination that must not exist
Link(c) ==
    /\ Running(c) /\ Step(c).do = "link"
    /\ copies' = copies \cup {[rows |-> copier[c].made, stage |-> copier[c].stage,
                               since |-> copier[c].since]}
    /\ Goes(c, copier[c])
    /\ UNCHANGED <<main, wal, writing, history>>

CopyInit ==
    /\ main = [rows |-> Initial, whole |-> TRUE]
    /\ wal = NoWal
    /\ writing = FALSE
    /\ history = {Initial}
    /\ copier = [c \in Copiers |-> Copier]
    /\ copies = {}

CopyNext ==
    \/ OpenWriter \/ Checkpoint \/ CloseWriter
    \/ \E s \in Stages : SaveStage(s)
    \/ \E c \in Copiers :
           \/ StartCopy(c) \/ NoteFile(c) \/ LoadSource(c) \/ CopyFile(c)
           \/ CheckFile(c) \/ RestoreCopy(c) \/ Link(c)

----------------------------------------------------------------------------
(* Property                                                                *)

\* Whatever the writer did meanwhile, a destination file holds, for good, all the
\* rows that were committed at one moment of the copying, the asked stage among
\* them, also when a check after the link fails and the command reports an error.
CopyIsFaithful ==
    \A d \in copies : d.rows \in history /\ d.since \subseteq d.rows /\ d.stage \in d.rows
=============================================================================
