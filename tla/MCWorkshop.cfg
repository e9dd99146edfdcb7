SPECIFICATION Spec
CONSTANTS
    a = a
    b = b
    c = c
    d = d
    Ids <- MCIds
    Types <- MCTypes
    Graphs <- MCGraphs
    MaxFaults = 1
INVARIANTS
    CycleIsReal
    UpstreamFirst
    AnswerIsStored
PROPERTIES
    RunAnswered
CHECK_DEADLOCK FALSE
