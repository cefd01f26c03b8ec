CONSTANTS
    KeyReports <- OneKey
    MaxRounds = 2
    RetransCnt = 0
    MaxKeys = 3
    MaxTests = 0
    MaxTxRestarts = 1
    MaxRxRestarts = 1
SPECIFICATION Spec
INVARIANT TypeOK
INVARIANT InOrder
INVARIANT NothingAcceptedIsLost
PROPERTY ImplementsStream
