SPECIFICATION FairSpec
CONSTANTS
    host = host
    client = client
    other = other
    NoNode = NoNode
    Node = {host, client}
    Image <- MCSmallImages
    Factory <- MCFactory
    Offered <- MCSmallAOnly
    Pairs <- MCOneHost
    Internal = {TRUE}
    Beats = {FALSE}
    RecordsMissed = TRUE
    QueueLen = 5
    NetCap = 1
    ChunkSize = 1
    PageLen = 1
    SlotSize = 3
    MaxChunkRetries = 2
    MaxAckRetries = 1
    MaxUpdates = 1
    MaxResets = 0
    TimersMayFail = FALSE
    IoMayFail = FALSE
    WriteNeedsErase = FALSE
    ConfirmCfgs = {TRUE}
PROPERTIES
    AcceptedIsReported
    ClientComesBack
CHECK_DEADLOCK FALSE
