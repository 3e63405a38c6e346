SPECIFICATION Spec
CONSTANTS
    kIntMax = 12
    kBigMax = 200
    kVarcharMax = 12
    Inputs <- MCReversed
    StringRank <- MCStringRank
    Schema <- MCSchema
    Databases <- MCDatabases
INVARIANT ReturnsMatchedRows
