SPECIFICATION Spec
CONSTANTS
    Sources <- MCSources
    Buffers <- MCBuffers
    Lens    <- MCLens
INVARIANTS
    LayoutInv
    PackInPlaceInv
    RoomComesBack
