\* The reply types of client.go.
SPECIFICATION FairSpec
CONSTANTS
    d1 = d1  d2 = d2  i1 = i1  i2 = i2
    NoChan = NoChan
    NoReply = NoReply
    NoId = NoId
    Routine = {d1}
    Id <- Chans
    IdChoices <- FreshIds
    Chan <- Chans
    Buffered = {}
    Reply <- MCReply
    HelloReplyType = 129
    PeerRefuses = FALSE
INVARIANTS
    HelloReplyIsNoRefusal
