------------------------------ MODULE MCApprovals ------------------------------
EXTENDS Approvals

MCOriginOf == [s \in Stages |-> IF s = "s1" THEN "local_git_commit" ELSE "github_rest_api_claim"]
MCSourceOf == [s \in Stages |-> "repo"]
MCProvenIn == [s \in Stages |-> {0}]

Target == [source |-> "repo", provider |-> "github:1"]
MCTargets == {Target}
MCHeads == {[branch |-> "agent/a", base |-> "main"]}

Profile(name, key) ==
    [name |-> name, policy |-> "v1", target |-> Target, repositories |-> {Target.provider},
     actuators |-> {Actuator}, approvers |-> {Approver}, keys |-> [a \in {Approver} |-> key]]

\* The approver's profile, and one that somebody else wrote.
MCProfiles == {Profile("ours", Key), Profile("theirs", "another")}

Enrolled(profile, key, by) ==
    [approver |-> Approver, key |-> key, profile |-> profile, repository |-> Target.provider,
     issued |-> 0, expires |-> 2, signer |-> by]
MCEnrollments == {Enrolled("ours", Key, "authority"), Enrolled("theirs", "another", "nobody")}

\* Copying never looks at a request or a command, and these only ask whether a
\* stage is readable: they begin once the files are at rest, there is no log and no
\* more than two stages were saved.  A copy adds nothing to read then.
CopiesFirst ==
    \/ /\ ~writing /\ wal = NoWal /\ \A c \in Copiers : copier[c] = Ended
       /\ copies = {} /\ main.rows \subseteq {"s1", "s2"}
    \/ <<now, request, signed>> = <<0, None, {}>> /\ \A k \in Commands : command[k] = Idle
=============================================================================
