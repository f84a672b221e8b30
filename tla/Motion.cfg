SPECIFICATION MotionSpec
CONSTANTS
    Altitudes = {0, 1, 2, 3}
    Nowhere = Nowhere
    Range = 2
    GpsConfirm = 2
    StationaryConfirm = 3
    Off = 4
INVARIANTS
    StationaryMeant
    OffExactly
