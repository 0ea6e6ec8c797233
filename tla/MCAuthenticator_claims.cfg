\* What README.md says of the consent, the LED and the store, for a fresh EEPROM.
\* TLC stops at the first that fails: leave one of the three in to see each fail.
SPECIFICATION Spec
CONSTANTS
    Requests <- One
    RequestSize = 3
    BufferSize = 3
    Slots = 2
    Erased = TRUE
    Base = 3
    Timeout = 4
    Presses = TRUE
    MaxCuts = 0
    Torn = Torn
    NoApp = NoApp
INVARIANTS
    LedOffOutsideWait
    FullMeansFull
PROPERTIES
    RefusedAfterTimeout
