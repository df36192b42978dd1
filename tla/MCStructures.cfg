SPECIFICATION MCSpec
CONSTANTS
    Partition = {"user"}
    Key = {"k1", "k2", "k3"}
    Value = {"n", "neg", "s", "a"}
    CborType <- TypeOf
    LongKey = {}
    TooBig = {}
    MAX_NUM_KV = 2
    Concurrent = FALSE
    WriteTears = FALSE
    Receiver = {"r1"}
    Sender = {"s1", "s2"}
    Capacity = 2
    ReceiveLimits = {"forever"}
    SendLimits = {"none", "timed"}
    MaxSends = 5
    Task = {1, 2, 3}
    Consumes = FALSE
    StreamSize = 3
    Chunks <- Sent
    MaxRequests = 4
    MaxMaking = 2
INVARIANTS StructuresAreSound QueuedIsServed StoreIsSound WaitersAreTold
PROPERTIES QueuesAreFifos IsAStore
CHECK_DEADLOCK FALSE
