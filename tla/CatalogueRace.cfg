CONSTANTS
    alpha = alpha
    beta = beta
    Ids = {alpha, beta}
    Catalogues <- MCCatalogues
    Asset = 2
    Lists <- MCLists
    Queues <- MCQueues
    Garbage = Garbage
    None = None
SPECIFICATION Spec
INVARIANT LookupsSucceed
