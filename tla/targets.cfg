\* Three targets with any two dependencies each, some of them asked for or excluded.
\* The constructors end, so the absence of a next step is no error.
SPECIFICATION TreeSpec
CONSTANTS
    Nodes <- MCNodes
    Order <- MCOrder
    MaxNext = 2
    Targets <- MCTargets
    FakeRoot = 0
    Kinds <- MCKinds
    Selections <- MCSelections
    Exclusions <- MCExclusions
INVARIANTS
    TreeIsVisited
    ForestIsBuilt
    OptionsReachUsers
    ArchivesAreInOrder
CHECK_DEADLOCK FALSE
