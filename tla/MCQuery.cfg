SPECIFICATION Spec
CONSTANTS
    kIntMax = 12
    kBigMax = 200
    kVarcharMax = 12
    Inputs <- MCInputs
    StringRank <- MCStringRank
    Schema <- MCSchema
    Databases <- MCDatabases
INVARIANTS ParsedAsMeant NeverPastEof AnswersQuery RefusesErrors
