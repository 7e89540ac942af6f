SPECIFICATION FairSpec
CONSTANTS
    Files = {1, 2, 3}
    Outside = 9
    Texts <- MCTexts
    Empty = {}
    Closed = Closed
    Includes <- MCIncludes
    Disk <- MCDisk
    NotRead = NotRead
    None = None
    MaxRuns = 2
    MaxUpdates = 3
INVARIANTS
    TypeOK
    GraphsAcyclic
    QueueCoversDocs
    RunCoversDocs
    RootsOnly
PROPERTIES
    SnapshotStable
    RunEnds
CHECK_DEADLOCK FALSE
