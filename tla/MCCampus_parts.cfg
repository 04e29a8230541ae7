SPECIFICATION CampusSpec
CHECK_DEADLOCK FALSE
SYMMETRY Alike
CONSTANTS
    None = None
    a1 = a1
    a2 = a2
    a3 = a3
    b1 = b1
    b2 = b2
    g1 = g1
    p1 = p1
    p2 = p2
    p3 = p3
    r1 = r1
    r2 = r2
    k1 = k1
    k2 = k2
    s1 = s1
    tA = tA
    tB = tB
    Groups = {g1, a1, a2, a3}
    Members = {p1}
    Requests = {r1}
    Combined = {g1}
    SizeOf <- Sizes
    Overlap = FALSE
    RoomIds = {a1, a2, a3}
    Porters = {b1, b2}
    Cohorts = {b1, b2}
    LessonIds = {1, 2, 3}
    LessonSlots = {1}
    Frequency = 1
    MaxChanges = 2
    Staff = {p1, p2}
    Roles = {r1, r2}
    SystemRole = r1
    Clerks = {b1, b2}
    Callers = {b1, b2}
    Tenants = {tA, tB}
    Persons = {p1, p2, p3}
    Logins = {k1, k2}
    Cookies = {s1}
    TenantOf <- MCTenantOf
INVARIANTS
    CampusTypeOK
    ClosureIsExact
    GroupsAreReadRight
PROPERTIES
    RegeneratedIsTheSources
    RoomsStayRestricted
    AppliesFillTheSeries
    ShortAnswersDeleteNothing
    AdministratorStays
    LoginsStayOwned
