\* Money: one article, prices corrected back and forth, eight rows.
SPECIFICATION Spec
CONSTANTS
    Null = Null
    p1 = p1
    a1 = a1
    a2 = a2
    l1 = l1
    l2 = l2
    Products = {p1}
    Articles = {a1}
    Locations = {l1}
    ProductOf <- OneProduct
    OpenedLife <- KeepsAny
    EntryReasons = {"purchase"}
    OutReasons = {"consumption"}
    Prices = {1, 2}
    Dates = {}
    Moments = {1}
    Keys = {}
    MaxQuantity = 2
    MaxBatches = 1
    MaxRows = 8
\* The journal is full when MaxRows rows are written.
CHECK_DEADLOCK FALSE
INVARIANTS StandingRowsPriced OutingsCostCurrentPrice CorrectionsMirror
PROPERTY PriceCorrectionKeepsStock
