SPECIFICATION Spec
CONSTANTS
    Engines <- AllEngines
    MaxCalls = 2
    None = None
CHECK_DEADLOCK FALSE
INVARIANTS
    TypeOK
    NothingOutlivesItsCall
    RemovedDirectoriesAreClosed
