SPECIFICATION Spec
CONSTANTS
    Half = 4
    CountMax = 3
    Stable = 2
INVARIANT
    AutoRestarts
PROPERTY
    JournalKept
