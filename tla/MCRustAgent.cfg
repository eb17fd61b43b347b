SPECIFICATION FairSpec
CONSTANTS
    c1 = c1
    c2 = c2
    Call = {c1, c2}
    Msg <- MCRequest
INVARIANTS
    TypeOK
    StreamGetsArtifacts
PROPERTIES
    StreamsEnd
    StoreCatchesUp
CHECK_DEADLOCK FALSE
