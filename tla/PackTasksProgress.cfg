CONSTANTS
    Names = {guide}
    Builtin = guide
    Inodes = {i1, i2, i3}
    None = None
    Parts = 1
SPECIFICATION Spec
PROPERTY NobodyWaitsForever
