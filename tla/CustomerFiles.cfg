SPECIFICATION FilesSpec
CONSTANTS
    Worker = {w1, w2}
    Reader = {r1, r2}
    MaxClaims = 3
    Batch = {b1, b2}
    Records = 2
    Company = {k1, k2, k3}
    NoCompany = none
CHECK_DEADLOCK FALSE
INVARIANTS
    OnlyNewestIsKept
    ImportsAreTrue
PROPERTIES
    ClaimIsExclusive
    ExportEnds
