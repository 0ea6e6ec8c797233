\* Seven minutes with a peer that restarts once: overlapping handlers.
SPECIFICATION Spec
CONSTANTS
    Peer <- Peers
    AddrOf <- Addresses
    MaxRestarts = 1
    Horizon = 7
    NoEntry = NoEntry
    NoKey = NoKey
INVARIANTS
    ExpiresAfterHello
    KeysWerePublished
PROPERTIES
    SettledKeyIsForever
