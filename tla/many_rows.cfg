\* Two rows of one journal and one of another publish the same intent; one crash.
SPECIFICATION Spec
CONSTANTS
    w1 = w1  w2 = w2  r1 = r1  r2 = r2  r3 = r3  i1 = i1  i2 = i2  j1 = j1  j2 = j2
    Workers = {w1, w2}
    Publishers = {w1, w2}
    Reconcilers = {}
    Rows = {r1, r2, r3}
    Journals = {j1, j2}
    JournalOf <- ManyJournals
    Intents = {i1}
    Intended <- OneIntent
    Files = {fa}
    InitialBranches <- AnyBranch
    ApprovalExpiry = 1
    MaxClock = 0
    MaxFaults = 1
    NoIntent = NoIntent
    NoPullRequest = NoPullRequest
    NoCommit = NoCommit
    NoBranch = NoBranch
    NoRow = NoRow
SYMMETRY WorkerSymmetry
INVARIANTS
    AtMostOneEffect
