SPECIFICATION CollectionFairSpec
CONSTANTS
    Syncs = {x1}
    PageLimit = 1
    Lookback = 2
    Arbiters = {FALSE}
    Swallowing = {FALSE}
    Refusable = {}
    MaxTime = 2
    MaxFailures = 0
PROPERTIES
    EventuallyCollected
