SPECIFICATION Spec
CONSTANTS
    Inputs    <- Custom
    Compatible = "allwinner,sun4i-a10"
    U32        = 16
INVARIANTS
    AtagsApplied
