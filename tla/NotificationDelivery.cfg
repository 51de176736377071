SPECIFICATION LiveSpec
CONSTANTS
    Queued = {TRUE, FALSE}
    Worker = {w1, w2}
    MaxInitial = 2
    MaxReminders = 1
    Channel = {"ready", "closed"}
    MaxFaults = 1
CHECK_DEADLOCK FALSE
INVARIANTS
    NoMailTwice
    SummaryIsTrue
PROPERTIES
    TableNeverRejects
    IsDeliverySlot
    InitialNotForgotten
