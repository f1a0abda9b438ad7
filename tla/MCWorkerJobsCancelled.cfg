CONSTANTS
  NoKey = NoKey
  Jobs = {j1}
  Keys = {k1}
  Capacity = 2
  DeleteMayFail = FALSE
SPECIFICATION Spec
INVARIANTS
  CancelledInputGone
