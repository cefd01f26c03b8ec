SPECIFICATION Spec
CONSTANTS
    Low = "low"
    High = "high"
    Byte = {"low", "high"}
    MaxWait = 2
    NoRequest = NoRequest
    Request <- MCRequest
INVARIANTS
    NoContention
PROPERTIES
    ImplementsCommands
CHECK_DEADLOCK FALSE
