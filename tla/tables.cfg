SPECIFICATION Spec
CONSTANTS
    s1 = s1
    s2 = s2
    Index = {1, 2, 3, 4}
    IntHash <- MCIntHash
    Place <- MCPlace
    Hash = {0, 3}
    Value = {v}
    Nil = Nil
    Idle = Idle
    Start = Start
    Invalid = Invalid
    MaxArray = 1
    MaxNodes = 2
SYMMETRY Places
INVARIANTS HoldsItsEntries LengthIsABorder
PROPERTY MeetsEachEntryOnce
