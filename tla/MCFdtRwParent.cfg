SPECIFICATION Spec
CONSTANTS
    Names     <- MCNames
    PropNames <- MCProps
    Vals      <- MCVals
    Dtbs      <- MCDtbs
    Buffers   <- MCBuffers
    Lens      <- MCLens
    UnseenError = TRUE
PROPERTIES
    ParentChecked
