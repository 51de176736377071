SPECIFICATION Spec
CONSTANTS
    Worker = {w1, w2}
    Provider = "google"
    MaxAttempts = 2
    MaxGeneration = 2
SYMMETRY Workers
CHECK_DEADLOCK FALSE
INVARIANTS
    AtMostOneUpload
    RetriesAreSafe
    SummaryIsTrue
PROPERTIES
    FactsAreFinal
    IsDeliverySlot
