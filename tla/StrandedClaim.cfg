SPECIFICATION FairSpec
CONSTANTS
    Workers = {w1}
    MaxJobs = 1
    MaxAttempts = 2
    AbandonAfter = 2
    ProbeInterval = 2
    MaxRestarts = 1
    MaxOutages = 0
PROPERTY EveryJobSettles
