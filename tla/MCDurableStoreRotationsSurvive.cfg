SPECIFICATION Spec
CONSTANTS
    Outcomes = {a, b}
    Callers = {"shard", "recorder"}
    Faults = {"rename"}
    MaxOutcomes = 3
    MaxBoots = 3
INVARIANT RotationsSurvive
CHECK_DEADLOCK FALSE
