CONSTANTS
    Artifact = {a1, a2}
    Place = {p1}
    Caller = {c1, c2}
    Main = main
    None = None
SPECIFICATION Spec
SYMMETRY Interchangeable
INVARIANTS
    OriginalIsKept
    RecordedIsWhole
    DeletionCanFinish
    DeletedIsGone
PROPERTIES
    RecoverySettles
