SPECIFICATION Spec
CONSTANTS
    MaxRows = 2
    MaxTeams = 1
    Keys = {k1}
    JobDays = 1
    EvidenceDays = 2
    AuditDays = 1
    TeamsDays = 1
    Hours = 3
    MaxWork = 1
    MaxRest = 1
    MaxRestarts = 1
INVARIANTS NothingOverRetained FindingNamesNewest
