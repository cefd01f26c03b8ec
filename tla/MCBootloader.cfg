CONSTANTS
    Addresses <- MCAddresses
    File <- MCFile
    PAGE_SIZE = 512
    FLASH_PAGES = 3
    MAX_CHUNK = 252
    PacketLen = 32
    SetupLen = 8
    Stale <- MCStale
    MaxKills = 2
    MaxDataKills = 2
    MaxResets = 1
    MaxCuts = 1
    MaxJumps = 1
SPECIFICATION FairSpec
INVARIANT TypeOK
INVARIANT FinishedIsImage
INVARIANT FinishedIsFile
INVARIANT BootloaderIntact
PROPERTY RetrySucceeds
CHECK_DEADLOCK FALSE
