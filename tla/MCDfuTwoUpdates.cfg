SPECIFICATION Spec
CONSTANTS
    host = host
    client = client
    other = other
    NoNode = NoNode
    Node = {host, client}
    Image <- MCSmallImages
    Factory <- MCFactory
    Offered <- MCSmallOffered
    Pairs <- MCOneHost
    Internal = {TRUE}
    Beats = {FALSE}
    RecordsMissed = FALSE
    QueueLen = 2
    NetCap = 1
    ChunkSize = 1
    PageLen = 1
    SlotSize = 3
    MaxChunkRetries = 1
    MaxAckRetries = 1
    MaxUpdates = 2
    MaxResets = 0
    TimersMayFail = FALSE
    IoMayFail = FALSE
    WriteNeedsErase = FALSE
    ConfirmCfgs = {TRUE}
INVARIANTS
    ReportedOnce
    ActivatesOnlyIntactImage
PROPERTIES
    SuccessMeansInstalled
CHECK_DEADLOCK FALSE
