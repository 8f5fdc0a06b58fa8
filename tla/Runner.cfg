\* Any events, hang-ups and configuration edits; at most one failed resubscription.
SPECIFICATION Spec
CONSTANTS
    Configurations <- MCConfigurations
    Stopped = Stopped
    MaxQueue = 1
    HerdrComesBack = TRUE
    MaxFailures = 1
INVARIANTS
    WakeupsPending
    NoEventDuringWarmUp
PROPERTIES
    RefreshesForever
    ReturnsOnCancel
    IntervalApplied
    WarmUpEnds
