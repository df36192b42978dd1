SPECIFICATION Spec
CONSTANTS
    host = host
    client = client
    other = other
    NoNode = NoNode
    Node = {host, client}
    Image <- MCTwoImages
    Factory <- MCFactory
    Offered <- MCTwoOffered
    Pairs <- MCOneHost
    Internal = {TRUE}
    Beats = {FALSE}
    RecordsMissed = FALSE
    QueueLen = 2
    NetCap = 1
    ChunkSize = 1
    PageLen = 1
    SlotSize = 3
    MaxChunkRetries = 2
    MaxAckRetries = 1
    MaxUpdates = 2
    MaxResets = 0
    TimersMayFail = FALSE
    IoMayFail = FALSE
    WriteNeedsErase = TRUE
    ConfirmCfgs = {TRUE}
INVARIANTS
    ActivatesOnlyIntactImage
CHECK_DEADLOCK FALSE
