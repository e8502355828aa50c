\* One pass at a time, hands in between, under the fairness of the tick.
SPECIFICATION FairSpec
CONSTANTS
    Null = Null
    p1 = p1
    p2 = p2
    Passes = {p1}
    Slots = {1, 2}
    Varies = {"level"}
CHECK_DEADLOCK FALSE
INVARIANTS
    ListSound
PROPERTIES
    
    UnfoundedLeaves
