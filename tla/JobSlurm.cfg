SPECIFICATION JobSpec
CONSTANTS
    c1 = c1
    c2 = c2
    i1 = i1
    NRuns = 1
    Clients = {c1, c2}
    Ingesters = {i1}
    Executor = "slurm"
    Commands = {"disable", "pause", "cancel", "retry"}
    ExecutorFaults = {"query", "refused", "lost"}
    Drifted = {2}
    MaxSubmits = 2
    MaxCommands = 1
    MaxCommits = 2
    MaxCrashes = 1
INVARIANT JobTypeOK
INVARIANT OneLiveExecution
INVARIANT SubmitReceiptsStartOneAttempt
INVARIANT PinnedCode
INVARIANT AcceptedIsSubmitted
PROPERTY CancelledIsNotRelaunched
CHECK_DEADLOCK FALSE
