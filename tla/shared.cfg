\* Two workers share one row of one journal.
SPECIFICATION Spec
CONSTANTS
    w1 = w1  w2 = w2  r1 = r1  r2 = r2  r3 = r3  i1 = i1  i2 = i2  j1 = j1  j2 = j2
    Workers = {w1, w2}
    Publishers = {w1, w2}
    Reconcilers = {w1, w2}
    Rows = {r1}
    Journals = {j1}
    JournalOf <- OneJournal
    Intents = {i1}
    Intended <- OneIntent
    Files = {fa, fb}
    InitialBranches <- AnyBranch
    ApprovalExpiry = 2
    MaxClock = 1
    MaxFaults = 1
    NoIntent = NoIntent
    NoPullRequest = NoPullRequest
    NoCommit = NoCommit
    NoBranch = NoBranch
    NoRow = NoRow
SYMMETRY WorkerSymmetry
INVARIANTS
    TypeOK
    WriteAhead
    ManifestBeforePullRequest
    CompletedHasPullRequest
    VerifiedManifestIsOnBranch
PROPERTIES
    JournalOnlyMovesForward
    ReconcilerNeverWrites
    Implements
