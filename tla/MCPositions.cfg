SPECIFICATION Spec
SYMMETRY FileSymmetry
CONSTANTS
    Files = {f1, f2}
    Bytes = {"x", "blank", "CR", "LF", "L2", "L4", "C"}
    NotRead = NotRead
    Wrap = 64
    MaxLen = 5
    MaxRead = 4
INVARIANTS
    LinesKept
    InBounds
    Adjoint
    EditIsPrefix
    CachedLines
    ShownWhereFound
CHECK_DEADLOCK FALSE
