SPECIFICATION Spec
CONSTANTS
    t1 = t1  t2 = t2  o1 = o1  o2 = o2
    s1 = s1  s2 = s2  ev = ev  n1 = n1  n2 = n2  n3 = n3
    a0 = a0  a1 = a1  a2 = a2  w = w  x = x
    Terms = {t1, t2}
    Offerings = {o1, o2}
    Sessions = {s1, s2, ev, n1, n2, n3}
    Slots = {1, 2}
    Generations = {a0, a1, a2, w, x}
    Requests = {e1, e2, e3}
    TermOf <- TermsOfGenerations
    ScopeOf <- Scopes
    OfferedIn <- Offered
    Frequency <- TwoAndOne
    StartGenerations <- Proposals
    StartSessions <- Start
    Edits = {"lock", "unlock", "move", "bank"}
    Racing = {"unlock", "move"}
    MaxEdits = 1
    MaxNew = 1
    Bank = Bank
    Gone = Gone
    None = None
SYMMETRY Symmetric
CHECK_DEADLOCK FALSE
INVARIANTS
    TypeOK
    OneCurrent
    CurrentIsApplied
    Provenance
PROPERTIES
    ApplySpares
    DemandIsKept
    WholeAnswer
