SPECIFICATION FairSpec
CONSTANTS
    Reviews = {r1}
    Destinations = {d1}
    Sinks = {}
    Flaky = {}
    MaxTries = 2
    BatchLimit = 2
    MaxCrashes = 1
PROPERTIES FanOutComplete
