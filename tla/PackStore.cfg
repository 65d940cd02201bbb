CONSTANTS
    guide = guide
    Guide = Guide
    alpha = alpha
    beta = beta
    g = g
    a = a
    b = b
    Names = {guide, Guide, alpha, beta}
    Builtin = guide
    Stems = {g, a, b}
    Stem <- MCStem
    Packs = {p1, p2}
    Unreadable = Unreadable
    NoFile = NoFile
    Temp = Temp
    Backup = Backup
    Flash = Flash
    NoArchive = NoArchive
    Nobody = Nobody
    MetadataCacheItems = 1
    Entries <- MCEntries
    Schemas = {1, 2, 9, 17}
    MaxEntries = 2
    Wanted = {"a", "b"}
    Long = "long"
    MaxNumber = 9
    IntSpan = 8
    Subjects = {"store", "scan"}
SPECIFICATION MCSpec
INVARIANTS
    TypesOK
    
    StagingReclaimed
    ScanReadsDocument
PROPERTIES
    ServedIsInstalled
    ImplementsLibrary
