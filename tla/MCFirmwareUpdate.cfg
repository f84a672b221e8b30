SPECIFICATION FairSpec
CONSTANTS
    Img0 = Img0
    Img1 = Img1
    Img2 = Img2
    BadSig = BadSig
    OtherProduct = OtherProduct
    NoImage = NoImage
    Garbage = Garbage
    Genuine <- MCGenuine3
    Unsigned <- MCUnsigned
    Foreign <- MCForeign
    FactoryImage = Img0
    MaxFaults = 2
    MaxHostWrites = 2
INVARIANTS
    UpdateSound
    TrialHasEvidence
    HostOwnsQuietMedium
PROPERTIES
    PackageKept
    AtomicUpdateSpec
    TrialDecided
