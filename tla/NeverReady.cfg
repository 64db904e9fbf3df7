\* Short awaits: the heartbeat of a running worker never goes stale.
SPECIFICATION Spec
CONSTANTS
    Stale = 4
    Interval = 3
    MaxProbe = 1
    MaxReview = 1
    MaxFlush = 1
    Pause = 1
PROPERTY ReadyWhenHealthy
