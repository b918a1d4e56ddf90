SPECIFICATION JobSpec
CONSTANTS
    c1 = c1
    i1 = i1
    NRuns = 1
    Clients = {c1}
    Ingesters = {i1}
    Executor = "slurm"
    Commands = {}
    ExecutorFaults = {}
    Drifted = {}
    MaxSubmits = 1
    MaxCommands = 0
    MaxCommits = 1
    MaxCrashes = 1
PROPERTY StartedIsNotResubmitted
CHECK_DEADLOCK FALSE
