SPECIFICATION FairSpec
CONSTANTS
    Workers = {w1}
    MaxJobs = 2
    MaxAttempts = 2
    AbandonAfter = 1
    ProbeInterval = 2
    MaxRestarts = 2
    MaxOutages = 1
INVARIANT AttemptsWithinBudget
PROPERTIES KeepsPromise UninterruptedJobsSettle StaleClaimRecovered
