CONSTANTS
    none = none
    down = down
    up = up
    other = other
    Report <- MCReport
    NoKeys = none
SPECIFICATION HidFairSpec
INVARIANT HidTypeOK
PROPERTY ImplementsQueue
PROPERTY WaitingReportMoves
