SPECIFICATION Spec
CONSTANTS
    Files = {f1}
    Bytes = {"x", "CR", "LF"}
    NotRead = NotRead
    Wrap = 64
    MaxLen = 5
    MaxRead = 0
INVARIANT
    ClientLine
CHECK_DEADLOCK FALSE
