SPECIFICATION Spec
CONSTANTS
    MinInt <- MCMin
    MaxInt = 2
    Null = Null
    hw = 2
    Tables <- MCTables
    Preds <- MCPreds
    Limits = {0, 2, 9}
INVARIANTS SlotsNotShared AllDecoded ResultExact
PROPERTY QueryEnds
