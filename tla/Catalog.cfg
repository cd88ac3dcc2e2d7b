CONSTANTS
    i1 = i1  i2 = i2  k1 = k1  k2 = k2
    Jobs = {i1, i2}
    Slots = {s1, s2}
    NoJob = NoJob
    Kind <- ImportKind
    Priority <- ImportPriority
    MaxAttempts <- MCMax
    Overrun = {i1}
    Skus = {k1, k2}
    Listings <- MCListings
    Marketplaces = {"ozon", "wb"}
    MaxRows = 3
    MaxErrors = 1
    Money = {1, 2}
    NoVal = NoVal
    Editors = {e1, e2}
    NewProducts <- MCNewProducts
    Patches <- MCPatches
    Budgets <- MCBudgets
SPECIFICATION CatalogSpec
INVARIANTS CatalogTypeOK OneActiveImport ActiveHasJob CanceledWritesNothing
PROPERTIES FinishedStays
CHECK_DEADLOCK FALSE
SYMMETRY SlotSymmetry
