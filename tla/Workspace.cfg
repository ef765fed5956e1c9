CONSTANTS
    Symbols = {1, 2}
    MaxExtent = 2
    ValuesPerProgram = 5
    HardValueCap = 8
    MaxRevisions = 5
    MaxForks = 1
    Scripts <- SmallScripts
    Valuations <- SmallValuations
SPECIFICATION Spec
CHECK_DEADLOCK FALSE
INVARIANTS FrozenIsSound IdsNameOneThing HistoryReplays
PROPERTIES ImplementsHistory
