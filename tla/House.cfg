SPECIFICATION HouseSpec
CONSTANTS
    Null = Null
    Names = {"n1", "n2"}
    Codes = {"c1"}
    MaxProducts = 1
    MaxArticles = 2
    MaxBatches = 1
    MaxMovements = 4
    Amounts = {2}
    Nets <- NetsGiven
    Reference = 3
    Price = 6
    MaxBatteries = 2
    BatteryKinds = {"primary", "built_in"}
    Cells = 2
    Thresholds = {20, 25}
    UpkeepKeys = {"k1"}
    SheetNames = {"s1"}
    MaxEvents = 1
    MaxSpares = 2
    Readers = {"t1", "t2"}
    Photos = {"f1"}
    PaidPrices = {2, 3}
    MaxCart = 1
    MaxReceipts = 2
    MaxReadings = 2
    MaxSeen = 2
    MaxUnit = 3
    MaxQuantity = 1
    Refs = {"m1"}
    Texts = {"t1"}
    Goods = {"g1", "g2"}
    Cards <- CardsThere
    UnitAtFirst <- UnitsAtFirst
    MaxRecipes = 1
    MaxLines = 1
    Imports = {"i1"}
    GProducts = {"p1", "p2"}
    GRows = {"s1", "s2"}
    ProductOf <- TheRows
    StockUnit <- TheUnits
    ListUnit <- TheListUnits
    UnitTable <- TheTable
    Impossible = {}
    Coded = {"p1"}
    Packed = {"p1"}
    Undated = {}
    Overpriced = {"s2"}
    GAmounts = {0, 1}
    Weight = 2
    CopyMaxAge = 0
    Tolerance = 0
    MaxHours = 1
    MaxWrites = 3
    MaxGestures = 2
    GRecipes = {"r1", "r2"}
    GLines = {"l1", "l2"}
    LineOf <- RecipeOfLine
    LineProduct <- ProductOfLine
    SameUnit = {"l1"}
    GMeals = {"m1", "m2"}
    MealRecipe <- RecipeOfMeal
    MealDay <- DayOfMeal
    Ingredients = {"i1"}
    MaxPicture = 2
    LastDay = 1
    MaxPasses = 2
    MaxTouches = 2
    BatteryRows = {1, 2}
    Sensors = {"x1"}
    Families = {"AA", "AAA"}
    Inside <- NamesInside
    Tenths = {199, 246, 250}
    Offline = Offline
    NoValue = NoValue
    Junk = Junk
    MaxCells = 1
    MaxChanges = 2
    Current = 2
    Statements <- TwoMigrations
    Hooked = {2}
    Repeatable = {}
    Jobs = {"j1", "j2"}
    MaxSetups = 3
    MaxTransactions = 3
    Barcodes = {"c1", "c2"}
    Columns = {"kcal"}
    Replies = {"o1"}
    Words = {"w1"}
    Untouched = "untouched"
    Callers = {"k1", "k2"}
    MaxLoaded = 2
    MaxId = 2
    MaxEdits = 1
    MaxHands = 2
    Batteries = {"b1"}
    Levels = {22, 90}
    Lows = {20, 25}
    Keeps = {25}
    MuteHours = 1
    MaxHour = 1
    Unavailable = Unavailable
    Unknown = Unknown
    NoEntity = NoEntity
    MacroTasks = {}
    Calls = {"c1"}
    MaxPlaces = 8
    MaxLoads = 2
    MaxDay = 1
    MaxCandidates = 3
    MaxAsked = 2
    BestBefores = {1}
    Entries = {1, 2}
    Refused = Refused
    NoWrite = NoWrite
    Pages = {"p1", "p2"}
    Removals = {}
    Refuses = TRUE
    Late = TRUE
    MaxPosts = 2
\* Every bound that is reached stops its part.
CHECK_DEADLOCK FALSE
INVARIANTS
    CatalogueSound
    
    
    KitchenSound
    StockImportSound
    RecipeImportSound
    
    ArticlesSound
    
    AllocateSound
    
PROPERTIES
    FileSound
    ConversionKeepsWorth
    LevelClosesOnAMeasure
    ShownWhenAnswered
    
