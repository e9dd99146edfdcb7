CONSTANTS
    Changes <- MCChanges
    Archives <- MCArchives
    NoReport = NoReport
    Workers = 2
    MaxRetries = 1
    MaxFaults = 1
SPECIFICATION Spec
INVARIANT FreshWins
PROPERTIES ChangeReported FeedKept
CHECK_DEADLOCK FALSE
