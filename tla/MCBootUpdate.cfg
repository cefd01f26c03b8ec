CONSTANTS
    ImageTop = 1022
    PAGE_LEN = 1024
    MAX_CHUNK = 252
    PacketLen = 32
    SetupLen = 8
    OtherWrites <- MCOtherWrites
    MaxKills = 2
    MaxDataKills = 1
    MaxCuts = 1
    MaxBad = 1
    MaxDeclines = 1
    MaxOthers = 1
SPECIFICATION FairSpec
INVARIANT TypeOK
INVARIANT OnlyPowerLossBricks
INVARIANT AppIsKept
INVARIANT StaysInPage0
PROPERTY UpdateCompletes
