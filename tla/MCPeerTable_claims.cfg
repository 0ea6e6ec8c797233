\* What main.go says of its fields, for a peer that restarts. TLC stops at the
\* first that fails: leave one of the three in to see each of them fail.
SPECIFICATION Spec
CONSTANTS
    Peer <- Peers
    AddrOf <- Addresses
    MaxRestarts = 1
    Horizon = 7
    NoEntry = NoEntry
    NoKey = NoKey
INVARIANTS
    AssociatedMeansExchanged
    CurrentHelloIsNotRefused
PROPERTIES
    OfflineMeansInactive
