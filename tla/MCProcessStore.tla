--------------------------- MODULE MCProcessStore ---------------------------
(* Instances of ProcessStore for TLC.                                        *)
EXTENDS ProcessStore, TLC

CONSTANTS c1, c2

\* A caller presents everything, or all but a passed verification.
SomeEvidence == {Flags, Flags \ {"verification_passed"}}

\* Bound: two clients race in the first transitions; one goes on alone from there.
RaceEarly ==
    \A p \in Processes : rows[p].version > 6 =>
        audits[p] = 0 /\ \E c \in Clients : \A d \in Clients \ {c} : call[d].step = "idle"

\* Bound: a passed verification is withheld only where it is asked for.
WithheldAtVerifying ==
    \A e \in events : e.previous \notin {"none", "verifying"} => e.evidence = Flags

ClientSymmetry == Permutations({c1, c2})
=============================================================================
