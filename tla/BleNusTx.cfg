SPECIFICATION FairSpec
CONSTANTS
    Tokens = 2
    MaxFragments = 2
    MaxPairs = 2
INVARIANTS
    NoSplice
    PairKept
PROPERTY
    StreamGoesOn
