SPECIFICATION Spec
CONSTANTS
    Null = Null
    t1 = t1
    t2 = t2
    Threads = {t1, t2}
    Kinds = {"recipe"}
    Need = 1
    Parts = 2
    Rates = {1}
    MaxPantry = 2
    MaxMeals = 2
    MaxUids = 2
    MaxDishes = 2
    MaxRows = 6
\* Everything stops when the bounds are reached.
CHECK_DEADLOCK FALSE
PROPERTY ReplayOfADoneMeal
