CONSTANTS
    Requests = {"r1", "r2", "r3"}
    Sessions = {"s1"}
    Nodes <- MCNodes
    NoNode = NoNode
    NoCall = NoCall
    Agents <- MCAgents
    Registry <- MCRegistry
    Calls <- MCCalls
    MaxSteps = 3
    MaxFaults = 1
SPECIFICATION Spec
INVARIANTS RunningHasOwner ReplyIsStored
PROPERTIES TurnsKept RunningSettles
CHECK_DEADLOCK FALSE
