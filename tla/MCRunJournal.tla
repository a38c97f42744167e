---------------------------- MODULE MCRunJournal ----------------------------
(* Instances of RunJournal for TLC.                                          *)
EXTENDS RunJournal, TLC

CONSTANTS c1, c2

\* An execution command, and one that also publishes to the local mock.
MCWork == c1 :> {"worker", "mock"} @@ c2 :> {"mock", "dispatch"}

RunSymmetry == Permutations(Runs)
=============================================================================
