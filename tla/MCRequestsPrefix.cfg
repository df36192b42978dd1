SPECIFICATION MCSpec
CONSTANTS
    Node = {"n1", "n2"}
    Thread = {"t1"}
    Home <- Alone
    Service <- PrefixNames
    IdSpace = 5
    MaxCalls = 1
    MaxList = 2
    MaxResets = 0
    MayFail = FALSE
    PromptSend = TRUE
INVARIANTS
    RegisteredIsServed
CHECK_DEADLOCK FALSE
