SPECIFICATION SiteSpec
CONSTANTS
    Request = {r1, r2}
    Version = {v1, v2}
    Baseline = baseline
    MaxSelections = 3
    MaxOperations = 4
    MaxLosses = 1
    MaxFaults = 2
    Article = {a1, a2}
    Identity = {i1}
    NoIdentity = none
    Author = {u1, u2}
    Language = {en, ar}
    Original = en
    Story = {s1}
    Text = {t1}
    Build = {b1, b2}
    NoBuild = nobuild
    Preview = {p1, p2, p3}
    Slug = {n1}
    Image = {m1}
    Digest = {d1, d2}
    Nothing = nothing
CHECK_DEADLOCK FALSE
INVARIANTS
    ReceiptsAgree
    OneArticlePerIdentity
    CandidateIsReviewed
    BuiltIsWhole
PROPERTIES
    PointerMovesAsRecorded
    OperationEnds
    SavesAreSound
