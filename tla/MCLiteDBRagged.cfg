SPECIFICATION Spec
CONSTANTS
    Tables = {ta, tb}
    NumColumns = 2
    kRowGroupSize = 2
    MaxInsert = 3
    MaxRows = 4
    MaxDDL = 3
    MaxCrashes = 0
    BadInserts = TRUE
    MaxThrows = 0
INVARIANT ColumnsAligned
