\* A command line that was declined removes the ledger another one has resumed.
SPECIFICATION Spec
CONSTANTS
    r1 = r1  r2 = r2  d1 = d1  d2 = d2
    Runners = {r1, r2}
    N = 1
    F = 1
    Selections <- OneSelection
    Digests = {d1}
    MaxLedgers = 1
CHECK_DEADLOCK FALSE
INVARIANTS
    EvidenceIsKept
