SPECIFICATION Spec
CONSTANTS
    Names     <- MCNames
    PropNames <- MCProps
    Vals      <- MCVals
    Dtbs      <- MCDtbs
    Buffers   <- MCBuffers
    Lens      <- MCLens
    UnseenError = FALSE
INVARIANTS
    TypeOK
    HeaderAgrees
    WellNested
    PropsReachable
    PathsUnique
PROPERTIES
    EarlierOffsetsStable
    InPlaceKeepsOffsets
    AddSubnodeReturnsIt
    TreeSpec
    LayoutSpec
