SPECIFICATION Spec
CONSTANTS
    Files = {1, 3}
    Libs = {2}
    Outside = 9
    good = good
    bad = bad
    lib = lib
    m1 = m1
    m2 = m2
    Msgs = {m1}
    Texts <- MCTextsSmall
    Empty = good
    Closed = Closed
    Needs <- MCNeedsAll
    Report <- MCReport
    Jobs = {1, 2}
    NoJob = 0
    MaxMsgs = 4
INVARIANTS
    NoAbort
CHECK_DEADLOCK FALSE
