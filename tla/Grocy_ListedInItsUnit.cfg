\* A product stocked in kilograms, on the list in pots.
SPECIFICATION GrocySpec
CONSTANTS
  Null = Null
  p1 = p1
  p2 = p2
  s1 = s1
  s2 = s2
  GProducts = {p1, p2}
  GRows = {s1, s2}
  ProductOf <- TheRows
  StockUnit <- TheUnits
  ListUnit <- TheListUnits
  UnitTable <- TheTable
  Impossible = {}
  Coded = {p1}
  Packed = {p1}
  Undated = {}
  Overpriced = {s2}
  GAmounts = {0, 1}
  Weight = 2
  CopyMaxAge = 0
  Tolerance = 0
  MaxHours = 1
  MaxWrites = 3
  MaxGestures = 2
CHECK_DEADLOCK FALSE
PROPERTY ListedInItsUnit
