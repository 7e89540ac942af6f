SPECIFICATION Spec
CONSTANTS
    Files = {1, 2, 3}
    Outside = 9
    Texts = {"empty", "lib", "use", "full", "less", "error"}
    Empty = "empty"
    Closed = Closed
    Scopes = {"a", "b", "c", "d"}
    Subs = {"x"}
    NoSub = NoSub
    Items <- MCItems
    Disk <- MCDisk
    None = None
    NotRead = NotRead
    MaxRuns = 3
    MaxUpdates = 3
INVARIANTS
    ReferenceSound
    ListsOnce
    Tolerant
    ReferencesFound
    MeaningFromText
CHECK_DEADLOCK FALSE
