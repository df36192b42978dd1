SPECIFICATION Spec
CONSTANTS
    Id = {1, 2, 3}
    MaxItems = 4
    MiddleOut = TRUE
INVARIANTS
    ChainIsTheList
CHECK_DEADLOCK FALSE
