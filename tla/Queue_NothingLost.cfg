SPECIFICATION Spec
CONSTANTS
    NoWrite = NoWrite
    p1 = p1
    p2 = p2
    Pages = {p1, p2}
    Removals = {}
    Refuses = FALSE
    Late = FALSE
    MaxPosts = 3
INVARIANTS
    NothingLost
