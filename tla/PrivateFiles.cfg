SPECIFICATION LiveSpec
CONSTANTS
    Upload = {u1, u2, u3}
    Cleaner = {c1}
    Sweeper = {s1}
    MaxFaults = 1
    Stored = {u3}
    None = None
CHECK_DEADLOCK FALSE
INVARIANTS
    FilesAgree
PROPERTIES
    PurgedIsGone
    FilesAreRemoved
