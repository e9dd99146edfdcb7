SPECIFICATION Spec
CONSTANTS
    r1 = r1
    r2 = r2
    o1 = o1
    o2 = o2
    p1 = p1
    p2 = p2
    Requests <- MCRequests
    Objects = {o1, o2}
    Props = {p1, p2}
    Filled = {o2}
    Original = Original
    Calls <- MCCalls
    NoCall = NoCall
    Absent = Absent
    NoRequest = NoRequest
    MaxFaults = 1
INVARIANTS AuditIsTrue ProcessesInBounds ChangesStored
PROPERTY EveryCallAnswered
CHECK_DEADLOCK FALSE
