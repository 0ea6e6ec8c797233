\* Four requests of three apps in two slots, a counter that overflows and a
\* power cut: framing, timer, answers and store.
SPECIFICATION FairSpec
CONSTANTS
    Requests <- Again
    RequestSize = 3
    BufferSize = 3
    Slots = 2
    Erased = FALSE
    Base = 2
    Timeout = 1
    Presses = TRUE
    MaxCuts = 1
    Torn = Torn
    NoApp = NoApp
INVARIANTS
    RequestsAreServedOnce
    WaitIsBounded
    StoreIsRight
PROPERTIES
    EveryRequestIsAnswered
