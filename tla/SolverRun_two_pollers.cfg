SPECIFICATION Spec
CONSTANTS
    r1 = r1
    r2 = r2
    p1 = p1
    p2 = p2
    w1 = w1
    t1 = t1
    t2 = t2
    None = None
    Runs = {r1}
    Terms = {t1}
    Pollers = {p1, p2}
    Watchers = {w1}
    TermOf <- SameTerm
    MaxRestarts = 1
    MaxRecovery = 2
    StarterMayCrash = TRUE
    LeaseOutlastsSweep = FALSE
SYMMETRY Symmetry
INVARIANTS
    TypeOK
    ResultIsProposedOnce
    
    ExhaustedIsDecided
CHECK_DEADLOCK FALSE
