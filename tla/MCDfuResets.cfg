SPECIFICATION Spec
CONSTANTS
    host = host
    client = client
    other = other
    NoNode = NoNode
    Node = {host, client}
    Image <- MCSmallImages
    Factory <- MCFactory
    Offered <- MCSmallAOnly
    Pairs <- MCOneHost
    Internal = {TRUE}
    Beats = {FALSE}
    RecordsMissed = FALSE
    QueueLen = 2
    NetCap = 1
    ChunkSize = 1
    PageLen = 1
    SlotSize = 3
    MaxChunkRetries = 2
    MaxAckRetries = 1
    MaxUpdates = 1
    MaxResets = 1
    TimersMayFail = FALSE
    IoMayFail = TRUE
    WriteNeedsErase = FALSE
    ConfirmCfgs = {TRUE, FALSE}
INVARIANTS
    TrialEndsWithVerdict
PROPERTIES
    SuccessMeansInstalled
CHECK_DEADLOCK FALSE
