\* Two commands open one stage.  Base and Other differ in the declared file.
CONSTANTS
    c1 = c1
    c2 = c2
    Commands = {c1, c2}
    NoCommand = NoCommand
    ModeOf <- MCModeOf
    MaxChanges = 2
    Base <- MCBase
    Other <- MCOther
    Ancestors <- MCAncestors
    SafePaths = {"routes", "main"}
    Secrets = {"secret"}
    Oversized = {"huge"}
    Declared = {"routes"}
    ChangeSets <- MCChangeSets
SPECIFICATION Spec
INVARIANTS TypeOK StagedIsVerified VerifiedExitIsTrue SandboxesAreClosed
PROPERTY StageNeverReplaced
CHECK_DEADLOCK FALSE
