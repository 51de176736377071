SPECIFICATION RecordsSpec
CONSTANTS
    User = {u1, u2}
    None = none
    Stage = {"new", "won"}
    Task = {t1, t2}
    Form = {f1, f2}
    MaxDue = 2
    LedgerLimit = 1
    Work = {w1, w2}
    Deal = {d1}
    Account = {a1, a2}
    Founder = a1
    Team = {g1}
SYMMETRY Interchangeable
CHECK_DEADLOCK FALSE
INVARIANT AppliedOnce
PROPERTIES
    FollowUpFollowsTasks
    TrashPausesTasks
    CustomerIsKept
    NoWorkLeftBehind
    HandoverMovesWork
    EditorsAreCurrent
