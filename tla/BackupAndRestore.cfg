SPECIFICATION Spec
CHECK_DEADLOCK FALSE
CONSTANTS
    Paths = {b1, b2}
    MaxWrites = 3
    MaxFaults = 4
SYMMETRY Symmetry
INVARIANTS DatabaseIsWhole RestoredWasBackedUp FinishedBackupsKept
PROPERTY DataSurvives
