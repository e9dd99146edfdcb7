SPECIFICATION ChecksSpec
CONSTANTS
    t1 = t1
    t2 = t2
    l1 = l1
    i1 = i1
    p = p
    NoId = NoId
    NoRow = NoRow
    Ids <- MCIds
    TypeIds <- MCTypes
    LinkIds <- MCLinks
    InterfaceIds <- MCInterfaces
    Names <- MCNames
    Stored <- MCStored
    TypeRows <- MCTypeRows
    LinkRows <- MCLinkRows
    InterfaceRows <- MCInterfaceRows
    MaxChanges = 2
CHECK_DEADLOCK FALSE
INVARIANTS
    CycleIsMisuse
    ReportOfAMoment
    ChecksAgree
