SPECIFICATION Spec
SYMMETRY DocSymmetry
CONSTANTS
    doc1 = doc1
    doc2 = doc2
    lib = lib
    Files = {doc1, doc2, lib}
    Includes <- MCIncludes
    Symbols <- MCSymbols
    Tokens <- MCTokens
    Reset <- MCReset
    MaxDefs = 3
INVARIANTS
    LabelEditNames
    LabelsListed
    OnlyMatching
CHECK_DEADLOCK FALSE
