\* Two concurrent sessions on the same tree, with only two identifiers to
\* draw from (any two requests may collide).
SPECIFICATION Spec
CONSTANTS
    r = r  b = b  c = c  d = d  s = s  r2 = r2  c2 = c2
    junk = junk  short = short  noChan = noChan  noReply = noReply  noId = noId
    i1 = i1  i2 = i2
    NoId = noId
    NoChan = noChan
    NoReply = noReply
    Junk = junk
    Short = short
    Node <- TwinNodes
    Roots = {r, r2}
    Kids <- TwinKids
    Kind <- TwinKind
    Path <- TwinPath
    Hash <- TwinHash
    Data <- MCData
    Writable = {"f"}
    Limit = 2
    MaxRetries = 1
    Id = {i1, i2}
    Chan <- FreshChan
    Buffered <- FreshChan
    Reply <- MCReply
    IdChoices <- CollidingIds
    PeerAnswers <- TwinAnswers
INVARIANTS
    NoStaleEntry
    FilesAreInOrder
SYMMETRY IdSymmetry
