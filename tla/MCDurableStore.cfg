SPECIFICATION Spec
CONSTANTS
    Outcomes = {a, b}
    Callers = {"shard", "recorder"}
    Faults = {"rename", "reopen", "damage"}
    MaxOutcomes = 4
    MaxBoots = 3
INVARIANTS TypeOK FilesReadBack
PROPERTY Promise
CHECK_DEADLOCK FALSE
