CONSTANTS
  NoKey = NoKey
  Jobs = {j1, j2}
  Keys = {k1}
  Capacity = 2
  DeleteMayFail = TRUE
SPECIFICATION FairSpec
PROPERTIES
  ImplementsService
  LaneFreed
