SPECIFICATION LiveSpec
CONSTANTS
    Worker = {w1}
    MaxAttempts = 2
    MaxFaults = 1
    MaxGeneration = 2
CHECK_DEADLOCK FALSE
PROPERTIES
    ReceiptReachesSummary
    NoEventForgotten
