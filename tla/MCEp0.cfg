CONSTANTS
    Get <- MCGet
    GetLen <- MCGetLen
    PacketLen = 32
    MaxAbandoned = 2
SPECIFICATION FairSpec
INVARIANT TypeOK
INVARIANT KeyOkMeansAcked
INVARIANT SuccessMeansDone
INVARIANT KeysAreAsked
PROPERTY NoSpontaneousReset
PROPERTY AnswersAgain
