\* An approver, a stage database that is written and copied, and commands.
CONSTANTS
    Stages = {"s1", "s2", "s3", "s4"}
    Copiers = {"c"}
    Initial = {"s1"}
    OriginOf <- MCOriginOf
    SourceOf <- MCSourceOf
    ProvenIn <- MCProvenIn
    Targets <- MCTargets
    Heads <- MCHeads
    Profiles <- MCProfiles
    Enrollments <- MCEnrollments
    Key = "alice"
    TTL = 2
    MaxWindow = 2
    Skew = 1
    Commands = {"k"}
    Approver = "alice"
    Policies = {"v1"}
    Authorities = {"authority"}
    MaxSigned = 2
    MaxTime = 2
SPECIFICATION Spec
INVARIANTS CopyIsFaithful PublishedWasApproved ConfirmationIsTrue
CONSTRAINT CopiesFirst
CHECK_DEADLOCK FALSE
