\* Files of more than a fragment.
SPECIFICATION FairSpec
CONSTANTS
    Listings <- PhotoListings
    Unreadable = Unreadable
    ChunkSize = 1024
    MaxData = 1024
    Fanout = 31
    HashSize = 32
    EntrySize = 64
INVARIANTS
    TreeRestoresFile
