\* Depth three and two tokens: the recursion may wedge.
SPECIFICATION FairSpec
CONSTANTS
    r = r  b = b  c = c  s = s  short = short
    noChan = noChan  noReply = noReply  noId = noId
    NoChan = noChan
    NoReply = noReply
    NoId = noId
    Node <- TreeNodes
    Roots = {r}
    Kids <- TreeKids
    Kind <- TreeKind
    Path <- TreePath
    Hash <- TreeHash
    Data <- MCData
    Short = short
    Writable = {"f", "g"}
    Limit = 2
    Id = {1, 2}
    Chan <- TreeNodes
    Buffered = {}
    Reply <- MCReply
    IdChoices <- TreeIds
    PeerAnswers = {"datum", "nodatum", "short"}
CHECK_DEADLOCK FALSE
INVARIANTS
    LeaksAreHarmless
    TokensAreDepth
PROPERTIES
    ReturnsOrWedges
    TransferSpec
