SPECIFICATION MCSpec
CONSTANTS
    Task = {"l2", "timer", "app"}
    Together = FALSE
    MaxPoll = 2
    MaxOp = 3
    MaxEvent = 2
    Fails = TRUE
    Preempt = FALSE
    MayFail <- Steps
    ReadFails = FALSE
    Others = FALSE
    Garbled = FALSE
    Blocks = TRUE
    MaxFlip = 4
    MaxCall = 3
INVARIANTS TransfersAreRight LinksAreTold AccessesAreApart
PROPERTIES WildcardDecides TimerKeepsTime DriverServes
CHECK_DEADLOCK FALSE
