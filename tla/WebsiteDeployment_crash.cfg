SPECIFICATION Spec
CONSTANTS
    Request = {r1}
    Version = {v1, v2}
    Baseline = baseline
    MaxSelections = 3
    MaxOperations = 3
    MaxLosses = 0
CHECK_DEADLOCK FALSE
INVARIANT ServedIsRecorded
