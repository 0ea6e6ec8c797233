\* Two peers click on each other; the one that clicks twice asks the relay in a way
\* it understands.  A peer whose key was not registered stays where it is.
SPECIFICATION FairSpec
CONSTANTS
    a = a  b = b
    Peer = {a, b}
    Server = Server
    Exports = {b}
    Clicks <- MCClicks
    NameSizes <- MCNames
    IpSize = 4
    Conforming = {b}
    Nothing = Nothing
    Garbage = Garbage
INVARIANTS
    RequestsAreUnderstood
PROPERTIES
    TargetsOpenTheWay
CHECK_DEADLOCK FALSE
