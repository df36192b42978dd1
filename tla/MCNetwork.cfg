SPECIFICATION MCSpec
CONSTANTS
    Node = {1, 2, 3}
    Link <- Cables
    Requester = {1}
    Target = {0, 2, 3}
    Value = {"v"}
    MaxReq = 2
    QueueLen = 1
    ReplySeqs = 65536
    Lossy = TRUE
    AddFails = TRUE
    TxFails = TRUE
    Preempt = FALSE
    Resource = {"ab", "c"}
    Size <- Bytes
    StartsWith <- Names
    Pinger = {1, 2}
    Low <- Ids
    Payload = {0, 1}
    MaxAsked = 2
    MaxPing = 3
    Overtakes = FALSE
    AnswerFails = FALSE
    Peer = {1, 2}
    Port = {1, 2}
    Short <- Ids
    MaxUp = 1
    MaxInfo = 1
    Wraps = FALSE
    Moves = FALSE
    LateCallback = FALSE
    WalkBreaks = FALSE
INVARIANTS RepliesAreMine TopologyIsWhole ResourcesAreTrue NeighborsAreTrue
PROPERTIES EveryoneAnswered NetworkComesToRest
CHECK_DEADLOCK FALSE
