CONSTANTS
    Names = {guide, alpha}
    Builtin = guide
    Inodes = {i1, i2, i3}
    None = None
    Parts = 2
SPECIFICATION Spec
SYMMETRY MCSymmetry
INVARIANTS
    TypeOK
    SessionHasClient
    OverlayMeansTransfer
PROPERTY StreamUndisturbed
PROPERTY ImplementsSlot
