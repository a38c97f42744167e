\* A service on a host whose clock is ahead and one that is the child of a client.
CONSTANTS
    c1 = c1
    c2 = c2
    s1 = s1
    s2 = s2
    Instances = {s1, s2}
    Clients = {c1, c2}
    Children <- MCChildren
    ModeOf <- MCModeOf
    Ahead <- MCAhead
    Expected <- MCExpected
    Deployments <- MCDeployments
    Authority = Authority
    Rogue = Rogue
    EnrollmentLives = {2, 3}
    DecisionLives = {2}
    MaxLife = 2
    Skew = 1
    Inputs <- MCInputs
    MaxAge = 1
    Callers = 1
    MaxTime = 2
    MaxRecords = 1
SPECIFICATION Spec
INVARIANTS AcceptedIsGenuine TrustedIsCurrent
PROPERTY CallEnds
CHECK_DEADLOCK FALSE
