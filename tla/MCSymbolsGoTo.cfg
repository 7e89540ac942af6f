SPECIFICATION Spec
CONSTANTS
    Files = {1, 2, 3}
    Outside = 9
    Texts = {"empty", "lib", "use"}
    Empty = "empty"
    Closed = Closed
    Scopes = {"a", "b", "c", "d"}
    Subs = {"x"}
    NoSub = NoSub
    Items <- MCItems
    Disk <- MCDisk
    None = None
    NotRead = NotRead
    MaxRuns = 2
    MaxUpdates = 3
INVARIANT
    GoToReferences
CHECK_DEADLOCK FALSE
