SPECIFICATION Spec
CONSTANTS
    User = {u1}
    None = none
    Stage = {"new", "won"}
    Task = {t1}
    Form = {f1}
    MaxDue = 1
    LedgerLimit = 1
CHECK_DEADLOCK FALSE
PROPERTY EditorLeavesTrashAlone
