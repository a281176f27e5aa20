SPECIFICATION Spec
CONSTANTS
    Inputs    <- Grouping
    Compatible = "allwinner,sun4i-a10"
    U32        = 16
INVARIANTS
    PullKept
