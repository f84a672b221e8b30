SPECIFICATION ParametersSpec
CONSTANTS
    Shared <- MCShared
    Own <- MCOwn
    Limits <- MCLimits
    Default <- MCDefault
    NumberDefault <- MCNumberDefault
    DefaultNumbers = {1, 3}
    StartupCollections <- MCStartupCollections
    Nothing = Nothing
    Refused = Refused
INVARIANTS ReadsBack SetIsTold PowerReaches
PROPERTY OnlyAsked
