\* Two processes start, resume and publish one run or two.
SPECIFICATION Spec
CONSTANTS
    Clients = {c1, c2}
    Runs = {r1, r2}
    c1 = c1
    c2 = c2
    Work <- MCWork
    MaxWork = 1
    MaxInvocations = 2
    MaxFaults = 1
    NoRun = NoRun
CHECK_DEADLOCK FALSE
SYMMETRY RunSymmetry
INVARIANTS
    TypeOK
    EffectsAreJournaled
    CalledAtMostOnce
PROPERTIES
    UncertaintyIsFinal
