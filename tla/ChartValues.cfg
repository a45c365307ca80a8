CONSTANTS
    Key <- MCKey
    Path <- MCPath
    FileCount = 2
    FlatMap <- MCFlatMap
    FlatList <- MCFlatList
    StringMap <- MCStringMap
    StringList <- MCStringList
SPECIFICATION Spec
INVARIANTS TypeOK HighestSourceWins FailsForAReason
\* The call returns.
CHECK_DEADLOCK FALSE
