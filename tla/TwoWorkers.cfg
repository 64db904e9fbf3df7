SPECIFICATION Spec
CONSTANTS
    Workers = {w1, w2}
    MaxJobs = 1
    MaxAttempts = 2
    AbandonAfter = 2
    ProbeInterval = 2
    MaxRestarts = 2
    MaxOutages = 1
SYMMETRY WorkerSymmetry
INVARIANTS TypeOK ClaimTokens DecisionTokens FailedIsExhausted EarlyClaimIsARace
PROPERTY SettledIsFinal
