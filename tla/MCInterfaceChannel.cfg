CONSTANTS
    Report <- MCReport
    NoReport = NoReport
    Workers = 2
    Tabs = {"t1", "t2"}
    MaxConnects = 2
    MaxChannelFaults = 1
SPECIFICATION ChannelSpec
INVARIANT TabsAgree
PROPERTY CatchUp
CHECK_DEADLOCK FALSE
