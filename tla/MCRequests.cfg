SPECIFICATION MCSpec
CONSTANTS
    Node = {"n1", "n2"}
    Thread = {"t1", "t2"}
    Home <- Homes
    Service <- Names
    IdSpace = 2
    MaxCalls = 2
    MaxList = 2
    MaxResets = 0
    MayFail = FALSE
    PromptSend = TRUE
INVARIANTS AnswerIsForMe RegisteredIsServed AnsweredOnce
PROPERTIES CallersAreAnswered
CHECK_DEADLOCK FALSE
