CONSTANTS
  NoKey = NoKey
  Jobs = {j1, j2}
  Keys = {k1, k2}
  Capacity = 2
  DeleteMayFail = FALSE
SPECIFICATION Spec
SYMMETRY Symmetry
INVARIANTS
  LaneExclusive
  ExecutesOnce
  InputOwned
  AnsweredIsDurable
  LastWriteIsCurrent
  OneLivePerKey
PROPERTIES
  NoRevival
  AbortedNeverCompletes
