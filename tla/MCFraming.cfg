SPECIFICATION FairSpec
CONSTANTS
    Writers = {1, 2}
    Messages = {"short", "client"}
    Size <- MCSize
    Extra = {"client"}
    Capacity = 3
    MaxSent = 3
INVARIANTS
    FailsWithReason
    HeaderWhereExpected
PROPERTIES
    Implements
    Delivered
CHECK_DEADLOCK FALSE
