SPECIFICATION Spec
CONSTANTS
    DebounceSteps = 2
    HoldSteps = 4
    SkipSteps = 3
INVARIANTS
    KeyMeant
    OneActPerPress
    LightSleepKept
PROPERTIES
    HoldRestarts
