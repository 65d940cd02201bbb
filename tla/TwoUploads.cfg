CONSTANTS
    Names = {guide, alpha}
    Builtin = guide
    Inodes = {i1, i2, i3, i4, i5}
    None = None
    Parts = 2
SPECIFICATION Spec
SYMMETRY MCSymmetry
INVARIANT OneUploadAtATime
