SPECIFICATION Spec
CONSTANTS
    Object <- MCObject
    Kind <- MCKind
    Main = "main"
    Global = "G"
    Scalar = "nokey"
    HasGC = {"u"}
    Order <- MCOrder
    Worlds <- MCWorlds
    MaxStack = 2
    MaxFields = 1
INVARIANTS NothingReachableIsFreed GarbageIsCollected
PROPERTY FinalizersRunOnce
