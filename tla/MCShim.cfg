SPECIFICATION FairSpec
CONSTANTS
    BufSize = 2
    MaxBytes = 4
INVARIANTS
    TypeOK
    UpInOrder
    DownInOrder
PROPERTY
    Ends
CHECK_DEADLOCK FALSE
