SPECIFICATION Spec
CONSTANTS
    Null = Null
    p1 = p1
    p2 = p2
    Passes = {p1, p2}
    Slots = {1}
    Varies = {"level", "threshold"}
SYMMETRY Interchangeable
CHECK_DEADLOCK FALSE
PROPERTIES
    ShortageLeavesOnAMeasure
