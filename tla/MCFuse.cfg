\* after destroy() there is nothing left to do
SPECIFICATION Spec
CONSTANTS
    Paths <- MCPaths
    Ids = {1, 2, 3, 4}
    RootId = 0
    FirstByte <- MCFirstByte
    Options <- MCOptions
    Trees <- MCTrees
    MaxChanges = 2
INVARIANTS
    HintedSearchFindsTheFirst
    ReloadIsInvisible
CHECK_DEADLOCK FALSE
PROPERTIES
    ModificationTimesMove
    ReadsWriteNothing
    
