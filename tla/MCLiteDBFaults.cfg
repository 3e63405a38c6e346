SPECIFICATION Spec
CONSTANTS
    Tables = {ta, tb}
    NumColumns = 2
    kRowGroupSize = 1
    MaxInsert = 2
    MaxRows = 2
    MaxDDL = 3
    MaxCrashes = 0
    BadInserts = FALSE
    MaxThrows = 2
INVARIANTS RowsKept CloseIsComplete
