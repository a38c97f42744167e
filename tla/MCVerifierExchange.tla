-------------------------- MODULE MCVerifierExchange --------------------------
EXTENDS VerifierExchange

CONSTANTS c1, c2, s1, s2

Place(h) == [profile |-> "pinned", worker |-> "worker", host |-> h]
MCExpected == Place("verifier")
MCDeployments == {Place("verifier"), Place("elsewhere"), Place("worker")}

\* One candidate in the profile, one that changes another file.
Candidate(paths) == [tree |-> "pinned", declared |-> paths, changed |-> paths, replayed |-> TRUE]
MCInputs == {Candidate({"routes"}), Candidate({"main"})}

MCModeOf == [c \in Clients |->
    IF c = c1 THEN {[transport |-> "name", trust |-> "decided"]}
    ELSE {[transport |-> "name", trust |-> "enrolled"], [transport |-> "child", trust |-> "none"]}]

MCChildren == [c \in Clients |-> s2]
MCAhead == [s \in Instances |-> IF s = s1 THEN 1 ELSE 0]
=============================================================================
