SPECIFICATION FlowsSpec
CONSTANTS
    r1 = r1
    r2 = r2
    Old = Old
    Requests <- MCRequests
    AtFirst <- MCAtFirst
    AtRisk <- MCAtRisk
    MaxOutages = 1
    MaxRestarts = 1
CHECK_DEADLOCK FALSE
INVARIANTS
    RecordsSettle
    FlowsAsAnswered
PROPERTIES
    
    JobsEnd
