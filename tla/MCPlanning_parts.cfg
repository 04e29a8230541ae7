SPECIFICATION PlanningSpec
CHECK_DEADLOCK FALSE
SYMMETRY Alike
CONSTANTS
    None = None
    m1 = m1
    m2 = m2
    p1 = p1
    p2 = p2
    g1 = g1
    g2 = g2
    a1 = a1
    a2 = a2
    r1 = r1
    r2 = r2
    q1 = q1
    e1 = e1
    e2 = e2
    e3 = e3
    t1 = t1
    t2 = t2
    CalendarTerms <- MCTerms
    CalendarGrids <- MCGrids
    CalendarPeriods <- MCPeriods
    MaxPeriods = 2
    GroupWindows <- MCWindows
    Minutes = {0, 1, 2, 3, 4, 5}
    TermIds = {t1, t2}
    Rows = {r1, r2}
    Reviewers = {a1, a2}
    TermDates <- MCTermDates
    Ranges <- MCRanges
    Patterns <- MCPatterns
    GridBlocks = 1
    Requests = {r1, r2}
    Exams = {e1, e2, e3}
    Clerks = {a1, a2}
    MaxBlocks = 3
    Placements <- MCPlacements
    Plans = {p1, p2}
    Templates = {m1, m2}
    Incomplete = {m2}
    PlanGroups = {g1, g2}
    LastTerm = 2
    Planners = {a1, a2}
    MaxOfferings = 2
    MaxEdits = 1
    All = All
    Terms = {g1, g2}
    Readers = {a1, a2}
    Editors = {p1, p2}
    Kinds = {"edit", "resource"}
    MaxVersion = 2
    RedisMayFail = FALSE
    ReadsOverlapEdits = FALSE
INVARIANTS
    PlanningTypeOK
    
    AbsencesKeepTheirDates
    
PROPERTIES
    CalendarIsRight
    DecisionsAreFinal
    
