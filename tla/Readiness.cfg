\* As with the defaults of the code, a review may outlast the staleness limit.
SPECIFICATION Spec
CONSTANTS
    Stale = 2
    Interval = 4
    MaxProbe = 2
    MaxReview = 3
    MaxFlush = 1
    Pause = 1
INVARIANTS SilenceIsBounded ReportIsRecent
PROPERTY TroubleShows
