SPECIFICATION Spec
CONSTANTS
    host = host
    client = client
    other = other
    NoNode = NoNode
    Node = {host, client}
    Image <- MCFaultImages
    Factory <- MCFactory
    Offered <- MCFaultImages
    Pairs <- MCOneHost
    Internal = {FALSE}
    Beats = {TRUE}
    RecordsMissed = FALSE
    QueueLen = 2
    NetCap = 2
    ChunkSize = 2
    PageLen = 3
    SlotSize = 5
    MaxChunkRetries = 1
    MaxAckRetries = 1
    MaxUpdates = 1
    MaxResets = 0
    TimersMayFail = TRUE
    IoMayFail = TRUE
    WriteNeedsErase = FALSE
    ConfirmCfgs = {TRUE}
INVARIANTS
    TypeOK
    ActivatesOnlyIntactImage
    NothingMisplaced
    ReportedOnce
PROPERTIES
    SuccessMeansInstalled
CHECK_DEADLOCK FALSE
