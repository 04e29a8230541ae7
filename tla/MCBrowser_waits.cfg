SPECIFICATION BrowserSpec
CHECK_DEADLOCK FALSE
CONSTANTS
    None = None
    t1 = t1
    t2 = t2
    g1 = g1
    e1 = e1
    All = All
    Terms = {t1, t2}
    Readers = {g1}
    Editors = {e1}
    Kinds = {"edit", "move", "create", "resource"}
    MaxVersion = 1
    RedisMayFail = TRUE
    ReadsOverlapEdits = TRUE
    ScreenTerms = {t1, t2}
    Runs = {1, 2}
    Tickets = {1, 2}
    MaxClicks = 3
    MaxLosses = 1
    PageTerms = {1, 2}
    WeeksOf <- MCWeeksOf
    PageSessions = {g1, e1}
    PageRooms = {t1}
    HomeOf <- MCHomeOf
    MaxActs = 2
    MaxTroubles = 1
INVARIANTS
    ScreenIsSound
PROPERTIES
    CacheServes
    ScreenSettles
