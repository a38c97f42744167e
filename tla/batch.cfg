\* Two command lines create, extend, resume and spend one ledger.
SPECIFICATION FairSpec
CONSTANTS
    r1 = r1  r2 = r2  d1 = d1  d2 = d2
    Runners = {r1, r2}
    N = 2
    F = 1
    Selections <- SomeSelections
    Digests = {d1, d2}
    MaxLedgers = 1
CONSTRAINT OneBuilder
CHECK_DEADLOCK FALSE
INVARIANTS
    TypeOK
    CalledOnce
    ClaimedLedgerIsValid
    OrderIsKept
    ReportIsTrue
PROPERTIES
    EvidenceOnlyGrows
    Implements
    BatchEnds
