\* What the sources say of themselves; TLC stops at the first one violated.
SPECIFICATION Spec
INVARIANTS
    DivisionReturns
    TD1InverseIsInverse
    TD1CoefficientsInOrder
    TD1RemaindersSolve
    FileIsTheMessage
