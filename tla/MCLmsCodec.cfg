CONSTANTS
    Groups <- MCGroups
    Segments <- MCSegments
    Orders <- MCOrders
    MaxFlips = 2
SPECIFICATION Spec
INVARIANTS TableIsHamming SyncCorrects OrderDetects
