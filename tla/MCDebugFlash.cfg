CONSTANTS
    Unit = 8
    ChunkLen = 12
    LastPage = 2
    Retries = 1
    Bits = {1, 2}
    Files <- MCFiles
    Contents <- MCContents
SPECIFICATION FairSpec
INVARIANT TypeOK
INVARIANT OkMeansWritten
INVARIANT FailsForAReason
PROPERTY StaysInItsArea
PROPERTY OnlyItsUnits
PROPERTY RefusedIsHarmless
PROPERTY Ends
