CONSTANTS
  NoKey = NoKey
  NoJob = NoJob
  Nil = Nil
  Jobs = {j1, j2}
  Keys = {k1, k2}
  Recovery = FALSE
  MaxLate = 2
  Crashes = TRUE
  Cancelling = TRUE
SPECIFICATION Spec
SYMMETRY Symmetry
INVARIANTS
  IntentFirst
  ResultOfIdentity
PROPERTIES
  RestartConfirmed
