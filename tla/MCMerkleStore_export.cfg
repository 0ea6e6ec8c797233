\* The sizes of the code, files at every boundary.
SPECIFICATION FairSpec
CONSTANTS
    Listings <- MCListings
    Unreadable = Unreadable
    ChunkSize = 1024
    MaxData = 1024
    Fanout = 31
    HashSize = 32
    EntrySize = 64
INVARIANTS
    NodesAreClosed
    FailsOnlyOnLimits
    TreeKeepsPartialFragments
PROPERTIES
    ExportEnds
