\* The bounds are in the module: every family of programs on small arguments.
SPECIFICATION Spec
INVARIANTS
    ArithmeticIsExact
    SolversAreRight
    PrimesPass
    DecryptionUndoesEncryption
    FieldLibrariesAgree
    CryptanalysisIsRight
    ProgramsRunAsWritten
