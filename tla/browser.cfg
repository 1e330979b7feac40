SPECIFICATION MCSpec
CONSTANTS
    row1 = row1
    row2 = row2
    need1 = need1
    need2 = need2
    new1 = new1
    spot1 = spot1
    spot2 = spot2
    text1 = text1
    text2 = text2
    alert1 = alert1
    event1 = event1
    firm1 = firm1
    firm2 = firm2
    DraftRows = {row1, row2}
    MaxPosts = 2
    Listed = {need1, need2}
    Added = {new1}
    MaxSaves = 2
    Spots = {spot1, spot2}
    Texts = {text1, text2}
    Short = Short
    MaxInputs = 3
    MapAlerts = {alert1, event1}
    KindOf <- MCKindOf
    CategoryOf <- MCCategoryOf
    SeverityOf <- MCSeverityOf
    Recent = {event1}
    Hits = {alert1}
    Firms = {"Firm"}
    Any = Any
    MaxReplies = 3
    MaxThreadLoads = 2
    LogKinds = {"USER", "GMINA"}
    AnyKind = "any"
    MaxLog = 3
    PageRows = 1
    MaxRequests = 3
    MaxReverts = 1
    Holders = {firm1, firm2}
    AnyHolder = AnyHolder
    MaxStock = 1
    MaxStockChanges = 2
    MaxLoadsEach = 2
INVARIANTS
    PublishedOnce
    SavedMeansStored
    LatestInputWins
    FiltersLetThrough
    OpenThreadIsComplete
    RowsRunWithoutGap
    
CHECK_DEADLOCK FALSE
