SPECIFICATION Spec
CONSTANTS
    Null = Null
    hw = 3
    kVectorSize = 2
    Inputs <- MCInputs
INVARIANTS ResultExact RowsCountedOnce
PROPERTY AggregateEnds
