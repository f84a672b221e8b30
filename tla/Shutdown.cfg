SPECIFICATION FairSpec
CONSTANTS
    Prefs = {p1, p2}
    Restored = p1
    Outdated = FALSE
    \* slices of the workers with one write command, and all of them with none
    Normal = {{"audio", "sensor"}, {"audio", "console"}}
    Failed = {{"audio", "sensor", "console", "ble", "gps"}}
    BleInit = {"on"}
    MaxLoad = 3
\* the device stays in SAFE_STOP
CHECK_DEADLOCK FALSE
INVARIANTS
    SessionFlagsTrue
    SoundComesLast
    PreferencesKept
    SleepIsSafe
PROPERTIES
    ShutdownEnds
    SessionsEnd
