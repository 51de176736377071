SPECIFICATION Spec
CONSTANTS
    Worker = {w1}
    Reader = {r1}
    MaxClaims = 2
CHECK_DEADLOCK FALSE
PROPERTY CancellationIsAuthoritative
