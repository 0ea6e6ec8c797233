\* Four nodes, two lists, three values of which two compare equal.
SPECIFICATION Spec
CONSTANTS
    N = 4
    Value <- MCValue
    Key <- MCKey
    Mapped <- MCMapped
INVARIANTS
    HeapIsSound
    OperationsKeepTheirContract
