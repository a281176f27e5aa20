SPECIFICATION Spec
CONSTANTS
    Inputs    <- MCInputs
    Compatible = "allwinner,sun4i-a10"
    U32        = 16
INVARIANTS
    TypeOK
    PctrlOffsetFresh
    PhandlesUnique
    ReferencesResolve
    UsedUartsEnabled
    PinsGrouped
    BootargsInOrder
    RestUntouched
PROPERTIES
    LostForWantOfRoom
    Termination
