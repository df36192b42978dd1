SPECIFICATION MCSpec
CONSTANTS
    Ports = {1, 2}
    Buffer = {1, 2}
    QueueLen = 2
    BcmpLen = 1
    Stack = "lwip"
    Full = TRUE
    Byte = 4
    Sums = {5}
    Routes = TRUE
    Listens = FALSE
    Preempt = FALSE
    MaxChange = 2
    MaxRefused = 0
    Address = {"a", "b", "c"}
    Size = 2
    MaxAge = 2
    NumEntries = 6
    MaskMax = 2
    TsBase = 18
    Rule = {"r1", "r2"}
    Mask = {"m1"}
    Careful = TRUE
    MayFail = FALSE
    UdpStack = "lwip"
    UdpBuffer = {1, 2, 3}
    NetQueueLen = 2
    HandlerLen = 1
    L2Port = {1, 2}
    Fails = TRUE
    Retries = FALSE
    SamePort = TRUE
INVARIANTS SubscriptionsHold FramesAreRight LinksAreKnown AddressesAreTrue DatagramsAreRight
PROPERTIES EveryoneCalled
CHECK_DEADLOCK FALSE
