\* Stock: two articles of one product in two places, a key, four rows.
SPECIFICATION Spec
CONSTANTS
    Null = Null
    p1 = p1
    a1 = a1
    a2 = a2
    l1 = l1
    l2 = l2
    Products = {p1}
    Articles = {a1, a2}
    Locations = {l1, l2}
    ProductOf <- OneProduct
    OpenedLife <- KeepsADay
    EntryReasons = {"purchase"}
    OutReasons = {"consumption"}
    Prices = {}
    Dates = {}
    Moments = {1}
    Keys = {k1}
    MaxQuantity = 2
    MaxBatches = 2
    MaxRows = 4
\* The journal is full when MaxRows rows are written.
CHECK_DEADLOCK FALSE
SYMMETRY Interchangeable
INVARIANTS BatchesSound JournalBalancesStock 
