SPECIFICATION Spec
CONSTANTS
    Blobs   <- MCBlobs
    Strings <- MCStrings
    BufLen  = 7
    MaxNops = 2
CHECK_DEADLOCK FALSE
INVARIANT
    CompatibleIfListed
