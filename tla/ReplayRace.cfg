SPECIFICATION DoorSpec
CHECK_DEADLOCK FALSE
CONSTANTS
    Processes = {p1, p2}
    Keys = {k1}
    Bodies = {b1}
    Limits = {1, 2, 3}
    PromptMaxRows = 2
    MaxRequests = 3
    MaxPurges = 1
    MaxCrashes = 1
    Records <- TokenRecords
    Clients = {"c1"}
    Window = 1
    Limit = 2
    MaxRestarts = 1
SYMMETRY Symmetry
INVARIANT ReplayIsFaithful
