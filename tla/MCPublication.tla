--------------------------- MODULE MCPublication ---------------------------
(* Instances of Publication for TLC.                                         *)
EXTENDS Publication, TLC

CONSTANTS r1, r2, r3, i1, i2, j1, j2, w1, w2

\* One journal, one row, one intent.
OneJournal == [r \in Rows |-> j1]
OneIntent == [r \in Rows |-> {i1}]

\* Two rows share a journal; a third has the same process in another journal file.
ManyJournals == [r \in Rows |-> IF r = r3 THEN j2 ELSE j1]

\* An earlier run or another author left anything on it.
AnyBranch == Trees \cup {NoBranch}

\* Workers are interchangeable in the safety runs.
WorkerSymmetry == Permutations(Workers)
=============================================================================
