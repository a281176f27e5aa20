SPECIFICATION Spec
CONSTANTS
    NodeNames <- MCNodeNames
    PropNames <- MCPropNames
    Vals      <- MCVals
    BufSizes  <- MCBufSizes
    MaxNodes  = 3
CHECK_DEADLOCK FALSE
INVARIANTS
    TypeOK
    BlocksInBuffer
    NamesResolve
    SizesAgree
    FinishedTreeOpens
