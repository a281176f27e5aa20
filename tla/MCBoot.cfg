SPECIFICATION Spec
CONSTANTS
    Names      <- MCNone
    Contents   <- MCNone
    HeapStart  = 4
    MaxObjects = 0
    Images     <- MCImages
    Machines   <- MCMachines
    ArgSizes   = {6, 64}
    UartTypes  = {0, 2}
    HeapSize   = 200
    MaxArgs    = 1
    MaxUarts   = 2
CHECK_DEADLOCK FALSE
INVARIANTS
    TypeOK
    ScriptIsImage
    BinSizeFits
    HeapOverrunExactly
    ObjectsDisjoint
PROPERTIES
    BootEnds
