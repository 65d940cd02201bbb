CONSTANTS
    guide = guide
    Guide = Guide
    alpha = alpha
    beta = beta
    g = g
    a = a
    b = b
    Names = {guide, Guide, alpha}
    Builtin = guide
    Stems = {g, a}
    Stem <- MCStemSmall
    Packs = {p1, p2}
    Unreadable = Unreadable
    NoFile = NoFile
    Temp = Temp
    Backup = Backup
    Flash = Flash
    NoArchive = NoArchive
    Nobody = Nobody
    MetadataCacheItems = 1
    Entries <- MCEntries
    Schemas = {1, 2, 9}
    MaxEntries = 2
    Wanted = {"a", "b"}
    Long = "long"
    MaxNumber = 9
    IntSpan = 8
    Subjects = {"store"}
SPECIFICATION MCSpec
PROPERTY PowerLossKeepsPacks
