CONSTANTS
    zeros = zeros
    p1 = p1
    p2 = p2
    Frame <- MCFrame
    EmptyFrame = zeros
    Checksum <- MCFrame
    Crc <- MCCrc
    MaxRounds = 2
    RetransCnt = 1
SPECIFICATION RadioFairSpec
INVARIANT RadioTypeOK
INVARIANT AckedWasHeard
PROPERTY RxListensAgain
PROPERTY SendReturns
