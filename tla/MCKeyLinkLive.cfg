CONSTANTS
    KeyReports <- OneKey
    MaxRounds = 2
    RetransCnt = 0
    MaxKeys = 2
    MaxTests = 1
    MaxTxRestarts = 0
    MaxRxRestarts = 0
SPECIFICATION FairSpec
PROPERTY RetransmissionsRecognised
PROPERTY DeliveredIsShown
PROPERTY RxListensAgain
