CONSTANTS
    Unit = 8
    ChunkLen = 12
    LastPage = 2
    Retries = 1
    Bits = {1, 2}
    Files <- CrossingFiles
    Contents <- MCContents
SPECIFICATION Spec
INVARIANT OkMeansWritten
