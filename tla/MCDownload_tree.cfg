\* One session; distinct identifiers; every loss, delay and duplication, and
\* a peer that may lack a datum, forge one or send one without a hash.
SPECIFICATION FairSpec
CONSTANTS
    r = r  b = b  c = c  d = d  s = s  r2 = r2  c2 = c2
    junk = junk  short = short  noChan = noChan  noReply = noReply  noId = noId
    i1 = i1  i2 = i2
    NoId = noId
    NoChan = noChan
    NoReply = noReply
    Junk = junk
    Short = short
    Node <- TreeNodes
    Roots = {r}
    Kids <- TreeKids
    Kind <- TreeKind
    Path <- TreePath
    Hash <- TreeHash
    Data <- MCData
    Writable = {"f", "g"}
    Limit = 1
    MaxRetries = 2
    Id <- FreshChan
    Chan <- FreshChan
    Buffered <- FreshChan
    Reply <- MCReply
    IdChoices <- FreshIds
    PeerAnswers <- TreeAnswers
INVARIANTS
    SlotsMatchHolders
    WaitersAreRegistered
    ChunksAreInOrder
    CleanSessionIsComplete
PROPERTIES
    EveryCallReturns
    TransferSpec
