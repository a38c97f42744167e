--------------------------- MODULE MCBatchLedger ---------------------------
(* Instances of BatchLedger for TLC.                                         *)
EXTENDS BatchLedger, TLC

CONSTANTS r1, r2, d1, d2

\* The next attempt of the schedule, and it after the first one.
SomeSelections == {<<2>>, <<1, 2>>}

\* Bound: only r1 may come with a changed payload builder.
OneBuilder == run[r2].digest # d2

OneSelection == {<<1>>}
=============================================================================
