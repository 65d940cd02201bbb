CONSTANTS
    Subjects = {"article", "search", "archive", "routes", "dashboard", "qr", "ble", "cache"}
    RingSize = 2
    ChunkSize = 2
    MaxIn = 3
    MaxOut = 3
    Tables <- MCTables
    Inputs <- MCInputs
    Limit = 3
    Libraries = 2
    WindowSize = 4
    MaxTitle = 4
    MaxEntries = 2
    WordSize = 16
    PackHeader = 1
    ContentHeader = 1
    IndexHeader = 1
    EntrySize = 2
    MaxDict = 2
    Volumes <- MCVolumes
    Flash <- MCFlash
    Visitors = {v}
    Names = {guide, alpha}
    Builtin = guide
    MaxArticles = 5
    PageSize = 2
    OffsetSpace = 8
    MaxChanges = 1
    Packs <- MCPacks
    PackSize <- MCPackSize
    Listings <- MCListings
    Capacity = 3
    MaxUses = 4
    Payloads <- MCPayloads
    Lines <- MCLines
    NoText = NoText
    packA = packA
    packB = packB
    Guide = Guide
    Directories <- MCDirectories
    MaxSwaps = 1
    MaxFailures = 2
    alpha = alpha
    beta = beta
    Ids = {alpha, beta}
    Catalogues <- MCCatalogues
    Asset = 2
    Lists <- MCLists
    Queues <- MCQueues
    Garbage = Garbage
    None = None
SPECIFICATION MCSpec
INVARIANTS
    TypesOK
    RingIsHistory
    ArticleAnswered
    SearchIsExact
    ArchiveIsSound
    IndexMatchesContent
    LinksStayInLibrary
    BrowseShowsEachOnce
    ClaimedIsInstalled
    BatchStillFits
    QrIsRight
    BleFindable
    ListingIsWhole
    CatalogueIsWhole
    LookupsSucceedAlone
    SelectionIsRight
    QueueKeepsUninstalled
CHECK_DEADLOCK FALSE
