SPECIFICATION Spec
CONSTANTS
    NameLen <- Lengths
    NoId = "any"
    BufSizes = {180, 70000}
    Versions = {2, 4}
    Messages <- MCMessages
    Names <- MCNames
    Wants <- MCWants
    Behind = {0, 24}
INVARIANTS
    Tiled
    ReadBack
    StandsOnWritten
    CheckedReads
PROPERTIES
    NeverGarbled
    FindsFirst
    BegunIfItFits
CHECK_DEADLOCK FALSE
