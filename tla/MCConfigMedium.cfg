SPECIFICATION Spec
CONSTANTS
    Shared <- MCShared
    Own <- MCOwn
    Limits <- MCLimits
    Default <- MCDefault
    NumberDefault <- MCNumberDefault
    DefaultNumbers = {1, 2}
    SettingTexts <- MCSettingTexts
    Offsets = {"a", "b"}
    Files <- MCFiles
    Docs <- MCDocs
    None = None
    Bad = Bad
    Refused = Bad
INVARIANT UsedIsSaved
PROPERTY KeptWhole
