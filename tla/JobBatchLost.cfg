SPECIFICATION JobSpec
CONSTANTS
    c1 = c1
    i1 = i1
    NRuns = 2
    Clients = {c1}
    Ingesters = {i1}
    Executor = "slurm"
    Commands = {}
    ExecutorFaults = {}
    Drifted = {}
    MaxSubmits = 2
    MaxCommands = 0
    MaxCommits = 1
    MaxCrashes = 1
INVARIANT ReturnedBatchIsComplete
CHECK_DEADLOCK FALSE
