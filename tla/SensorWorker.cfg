SPECIFICATION Spec
CONSTANTS
    ErrorLimit = 2
    CalSamples = 2
    Warmup = 2
    Capacity = 2
    MaxTime = 4
    MaxFaults = 1
INVARIANT WhatIsTold
PROPERTIES SkipIsFinal FifoSpec
CHECK_DEADLOCK FALSE
