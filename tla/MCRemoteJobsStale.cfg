CONSTANTS
  NoKey = NoKey
  NoJob = NoJob
  Nil = Nil
  Jobs = {j1, j2}
  Keys = {k1, k2}
  Recovery = TRUE
  MaxLate = 1
  Crashes = FALSE
  Cancelling = FALSE
SPECIFICATION Spec
INVARIANTS
  JobsOwned
