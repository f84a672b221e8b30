SPECIFICATION GpsSpec
CONSTANTS
    Bauds <- ThreeBauds
    Work = 2
    Factory = 1
    Intervals = {1, 2}
    Default = 1
    Epochs = 2
    Room = 1
    Faults = 2
    Changes = 2
INVARIANTS
    Configured
PROPERTIES
    PairsAdvance
    GpsRecovers
CHECK_DEADLOCK FALSE
