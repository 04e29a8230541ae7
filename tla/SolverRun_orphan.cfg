SPECIFICATION FairSpec
CONSTANTS
    r1 = r1
    r2 = r2
    p1 = p1
    p2 = p2
    w1 = w1
    t1 = t1
    t2 = t2
    None = None
    Runs = {r1}
    Terms = {t1}
    Pollers = {p1}
    Watchers = {}
    TermOf <- SameTerm
    MaxRestarts = 0
    MaxRecovery = 1
    StarterMayCrash = TRUE
    LeaseOutlastsSweep = FALSE
PROPERTIES
    EveryRunEnds
CHECK_DEADLOCK FALSE
