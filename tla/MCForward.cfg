SPECIFICATION Spec
CONSTANTS
    Keys = {"a", "esc", "ctrl", "alt"}
    KEY_MAP = {"a", "esc"}
    MODIFIER_KEYS = {"ctrl", "alt"}
    EXIT_COMBO = {"ctrl", "alt", "esc"}
    BufferLen = 2
    MaxStrokes = 5
    MaxRuns = 2
    MaxRestarts = 1
INVARIANTS
    StaysDownForAReason
CHECK_DEADLOCK FALSE
