SPECIFICATION EditsSpec
CONSTANTS
    s1 = s1
    s2 = s2
    s3 = s3
    p1 = p1
    p2 = p2
    r1 = r1
    r2 = r2
    e1 = e1
    e2 = e2
    Bank = Bank
    Gone = Gone
    None = None
    Sessions = {s1, s2, s3}
    Rooms = {r1}
    People = {p1}
    Events = {s3}
    Days = {1}
    Blocks = 2
    Lengths = {1, 2}
    Start <- StartTwo
    Editors = {e1, e2}
    Kinds = {"CREATE", "MOVE", "SWAP", "DELETE", "UPDATE_DETAILS", "SET_LECTURERS", "LOCK", "UNLOCK", "SUBSTITUTE", "BANK"}
    MaxEvents = 3
CHECK_DEADLOCK FALSE
INVARIANTS
    
    TypeOK
    BankIsInOrder
PROPERTIES
    EditedIsRecorded
    SubstituteIsFree
