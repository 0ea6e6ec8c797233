\* Two clicks whose Hellos and whose RootRequests draw the same identifier.
SPECIFICATION FairSpec
CONSTANTS
    d1 = d1  d2 = d2  i1 = i1  i2 = i2
    NoChan = NoChan
    NoReply = NoReply
    NoId = NoId
    Routine = {d1, d2}
    Id = {i1, i2}
    IdChoices <- TwinIds
    Chan <- Chans
    Buffered = {}
    Reply <- MCReply
    HelloReplyType = 130
    PeerRefuses = TRUE
INVARIANTS
    RepliesMatchTheirStage
    NothingIsLeftBehind
PROPERTIES
    EveryClickEnds
