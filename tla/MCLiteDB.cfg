SPECIFICATION Spec
CONSTANTS
    Tables = {ta, tb}
    NumColumns = 2
    kRowGroupSize = 2
    MaxInsert = 3
    MaxRows = 4
    MaxDDL = 3
    MaxCrashes = 1
    BadInserts = FALSE
    MaxThrows = 0
INVARIANTS TypeOK PersistedIsDurable RowsExactlyOnce FileIsRecoverable
PROPERTY PersistedStays
