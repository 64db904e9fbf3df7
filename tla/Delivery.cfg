SPECIFICATION FairSpec
CONSTANTS
    Reviews = {r1}
    Destinations = {d1, d2}
    Sinks = {s1}
    Flaky = {d1}
    MaxTries = 2
    BatchLimit = 2
    MaxCrashes = 1
INVARIANTS ArrivalsAccounted RetryBudget
PROPERTIES KeepsOutboxPromise ConsentBeforeSend EveryItemSettles HealthyTargetServed UninterruptedFanOut
