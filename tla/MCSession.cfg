SPECIFICATION FairSpec
CONSTANTS
    Files = {1, 3}
    Libs = {2}
    Outside = 9
    good = good
    bad = bad
    lib = lib
    m1 = m1
    m2 = m2
    Msgs = {m1, m2}
    Texts <- MCTexts
    Empty = good
    Closed = Closed
    Needs <- MCNeeds
    Report <- MCReport
    Jobs = {1}
    NoJob = 0
    MaxMsgs = 5
INVARIANTS
    NoForgottenDiagnostics
    DiagnosedAsShown
    InSync
    EndReleases
PROPERTIES
    PublishesWhole
    Converges
CHECK_DEADLOCK FALSE
