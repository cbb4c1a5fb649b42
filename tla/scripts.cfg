CONSTANTS
    Scripts <- Keys
    Tokens <- MCTokens
    Compile <- luaD_protectedparser
    StackSize = 40
    FieldsPerFlush = 2
    MaxTagLoop = 4
SPECIFICATION Spec
INVARIANTS
    CodeIsWellFormed
    ResultIsMeant
CHECK_DEADLOCK FALSE
