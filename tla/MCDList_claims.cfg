\* What dlist.h says of a split in the middle and of find_first; TLC stops at
\* the first one violated.
SPECIFICATION Spec
CONSTANTS
    N = 4
    Value <- MCValue
    Key <- MCKey
    Mapped <- MCMapped
INVARIANTS
    SplitReturns
    FindFirstReturnsNode
