SPECIFICATION FairSpec
CONSTANTS
  MaxSlices = 3
  MaxVersions = 4
  MaxColumnPages = 2
  MaxPages = 11
  MaxWalk = 12
  MaxTorn = 1
INVARIANTS ChainAcyclic
PROPERTIES ColumnPagesUntouched ReopenRestores LoadEnds
