SPECIFICATION Spec
CONSTANTS
    r1 = r1
    r2 = r2
    r3 = r3
    r4 = r4
    r5 = r5
    n1 = n1
    n2 = n2
    NoCall = NoCall
    Requests <- MCRequests
    Names = {n1, n2}
    Broken <- MCBroken
    Calls <- MCCalls
    MaxFaults = 1
INVARIANTS KeysUnique GraphInStep CompileMatches
PROPERTY ArchivedStays
CHECK_DEADLOCK FALSE
