SPECIFICATION Spec
CONSTANTS
    Null = Null
    kVectorSize = 2
    Ids <- MCIds
    Keys <- MCKeys
    Lefts <- MCLefts
    Rights <- MCRights
INVARIANTS TypeOK JoinExact
PROPERTY JoinEnds
