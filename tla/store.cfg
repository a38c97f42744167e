\* Two clients drive one process.
SPECIFICATION Spec
CONSTANTS
    c1 = c1  c2 = c2
    Clients = {c1, c2}
    Processes = {p1}
    Evidence <- SomeEvidence
    MaxVersion = 11
    MaxAudits = 1
CONSTRAINTS RaceEarly WithheldAtVerifying
SYMMETRY ClientSymmetry
INVARIANTS
    TypeOK
    HistoryIsChain
    AppliedWasVerified
    ExecutedWasAllowed
PROPERTIES
    StoreOnlyMovesForward
    Implements
