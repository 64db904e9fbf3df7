SPECIFICATION Spec
CONSTANTS
    Workers = {w1}
    MaxJobs = 1
    MaxAttempts = 2
    AbandonAfter = 2
    ProbeInterval = 9
    MaxRestarts = 0
    MaxOutages = 1
INVARIANT OutagePausesReviews
