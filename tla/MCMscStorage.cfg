SPECIFICATION Spec
CONSTANTS
    config_task = config_task
    Apps <- SomeApps
    MaxFaults = 1
\* the system may stop for good: a stop can delete the TinyUSB task with a mutex
CHECK_DEADLOCK FALSE
INVARIANTS
    MediumGuarded
    WriteKept
    OwnershipTrue
