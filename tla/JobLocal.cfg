SPECIFICATION LiveJobSpec
CONSTANTS
    c1 = c1
    i1 = i1
    i2 = i2
    NRuns = 1
    Clients = {c1}
    Ingesters = {i1, i2}
    Executor = "local"
    Commands = {"pause"}
    ExecutorFaults = {}
    Drifted = {}
    MaxSubmits = 1
    MaxCommands = 1
    MaxCommits = 1
    MaxCrashes = 1
INVARIANT AcceptedHasHandle
PROPERTY ReceiptsSettle
CHECK_DEADLOCK FALSE
