SPECIFICATION FairSpec
CONSTANTS
    VersionTimeout = 1
    Timeout = 2
    ProbeTimeout = 1
    Grace = 1
    MaxOutput = 3
    Parts = 2
    PipeSlots = 1
    MaxLines = 4
INVARIANTS TypeOK NoOrphanedChild DecisionIsGrounded WaitIsBounded
PROPERTY CallReturns
