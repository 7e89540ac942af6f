SPECIFICATION FairSpec
CONSTANTS
    Clients = {c1, c2, c3}
    Nobody = Nobody
INVARIANTS
    TypeOK
    OwnConnection
    ReturnsClean
PROPERTY
    Returns
CHECK_DEADLOCK FALSE
