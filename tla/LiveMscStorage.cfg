SPECIFICATION FairSpec
CONSTANTS
    config_task = config_task
    Apps <- NoApps
    MaxFaults = 0
\* the system may stop for good: a stop can delete the TinyUSB task with a mutex
CHECK_DEADLOCK FALSE
PROPERTIES
    WriteDrains
    DetachReturns
