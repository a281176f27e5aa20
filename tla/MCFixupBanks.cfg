SPECIFICATION Spec
CONSTANTS
    Inputs    <- Unusual
    Compatible = "allwinner,sun4i-a10"
    U32        = 16
INVARIANTS
    AllBanksKept
