SPECIFICATION Spec
CONSTANTS
    Clients = {c1, c2}
    Tokens = {t1, t2}
    MaxKeys = 1
    FirstKeys = {0}
    Denials = {}
    Absent = Absent
    Torn = Torn
PROPERTIES LiveSessionsAreKept
CHECK_DEADLOCK FALSE
