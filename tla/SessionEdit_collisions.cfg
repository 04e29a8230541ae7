SPECIFICATION Spec
CONSTANTS
    s1 = s1
    s2 = s2
    s3 = s3
    p1 = p1
    p2 = p2
    r1 = r1
    r2 = r2
    e1 = e1
    e2 = e2
    Bank = Bank
    Gone = Gone
    None = None
    Sessions = {s1, s2, s3}
    Rooms = {}
    People = {p1}
    Events = {}
    Days = {1}
    Blocks = 3
    Lengths = {1}
    Start <- StartThree
    Editors = {e1}
    Kinds = {"MOVE"}
    MaxEvents = 3
CHECK_DEADLOCK FALSE
INVARIANTS
    CollisionsAreRecorded
