SPECIFICATION RoundsSpec
CONSTANTS
    Null = Null
    NoWrite = NoWrite
    Pages = {"p1"}
    Removals = {}
    Refuses = TRUE
    Late = FALSE
    MaxPosts = 3
    Unavailable = Unavailable
    Unknown = Unknown
    NoEntity = NoEntity
\* Every bound that is reached stops its part.
CHECK_DEADLOCK FALSE
INVARIANTS
    NothingLost
PROPERTIES
    
    
    TasksFollowTheLevel
    SlotComesBack
    EveryWriteIsShown
