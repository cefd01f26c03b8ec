CONSTANTS
    Addresses <- MCAddressesDeaf
    File <- MCFileDeaf
    PAGE_SIZE = 512
    FLASH_PAGES = 3
    MAX_CHUNK = 252
    PacketLen = 32
    SetupLen = 8
    Stale <- MCStale
    MaxKills = 0
    MaxDataKills = 1
    MaxResets = 0
    MaxCuts = 0
    MaxJumps = 0
SPECIFICATION FairSpec
PROPERTY KeepsListening
