SPECIFICATION InquiriesSpec
CONSTANTS
    Worker = {w1, w2, w3}
    Family = {"meta", "whatsapp"}
    MaxAttempts = 3
    MaxClaims = 4
    Sender = {m1, m2, m3}
    MaxSends = 4
    Request = {r1, r2}
    EventId = {e1}
    Content = {c1, c2}
    Address = {x1}
    Unknown = unknown
    Window = 1
    RateWindow = 1
    RateLimit = 1
    MaxClock = 2
    MaxInquiries = 2
CHECK_DEADLOCK FALSE
INVARIANTS
    OneLead
    OneCopy
    FailureIsTrue
    NoInquiryTwice
PROPERTIES
    OwnerDecides
    EventEnds
    MessageSettles
