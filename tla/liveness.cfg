\* A publisher and an operator who reconciles.
SPECIFICATION FairSpec
CONSTANTS
    w1 = w1  w2 = w2  r1 = r1  r2 = r2  r3 = r3  i1 = i1  i2 = i2  j1 = j1  j2 = j2
    Workers = {w1, w2}
    Publishers = {w1}
    Reconcilers = {w1, w2}
    Rows = {r1}
    Journals = {j1}
    JournalOf <- OneJournal
    Intents = {i1}
    Intended <- OneIntent
    Files = {fa}
    InitialBranches <- AnyBranch
    ApprovalExpiry = 1
    MaxClock = 0
    MaxFaults = 1
    NoIntent = NoIntent
    NoPullRequest = NoPullRequest
    NoCommit = NoCommit
    NoBranch = NoBranch
    NoRow = NoRow
PROPERTIES
    AttemptIsResolved
    PublishedIsRecorded
