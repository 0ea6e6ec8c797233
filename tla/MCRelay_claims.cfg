\* Two peers that run the program: their requests are not relayed.
SPECIFICATION FairSpec
CONSTANTS
    a = a  b = b
    Peer = {a, b}
    Server = Server
    Exports = {b}
    Clicks <- MCClicks
    NameSizes <- MCNames
    IpSize = 4
    Conforming = {}
    Nothing = Nothing
    Garbage = Garbage
PROPERTIES
    TraversalOpensTheWay
CHECK_DEADLOCK FALSE
