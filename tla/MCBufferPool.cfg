SPECIFICATION Spec
CONSTANTS
  Clients = {c1, c2}
  num_frames = 2
  MaxPages = 3
  Data = {Fresh}
  Zero = Zero
  Fresh = Fresh
  NoContent = NoContent
  Faults = TRUE
SYMMETRY ClientSymmetry
INVARIANTS TypeOK PageTableExact PointerStable PinsCounted CleanIsDurable FullMeansAllPinned EnoughFramesNeverFull
PROPERTIES FlushAllMakesDurable ImplementsPageStore
