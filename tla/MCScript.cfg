SPECIFICATION TreeSpec
CONSTANTS
    Names      <- MCNames
    Contents   <- MCContents
    HeapStart  = 4
    MaxObjects = 7
INVARIANTS
    ListsConsistent
PROPERTIES
    ScriptSpec
