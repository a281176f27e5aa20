SPECIFICATION Spec
CONSTANTS
    Blobs   <- MCBlobs
    Strings <- MCStrings
    BufLen  = 7
    MaxNops = 3
CHECK_DEADLOCK FALSE
INVARIANTS
    WalkComplete
    UpwardsAgree
    SearchesAgree
    StringsAgree
