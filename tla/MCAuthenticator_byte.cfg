\* An identifier with the byte 0xFF.
SPECIFICATION FairSpec
CONSTANTS
    Requests <- Full
    RequestSize = 3
    BufferSize = 3
    Slots = 1
    Erased = FALSE
    Base = 2
    Timeout = 2
    Presses = TRUE
    MaxCuts = 0
    Torn = Torn
    NoApp = NoApp
PROPERTIES
    EveryRequestIsAnswered
