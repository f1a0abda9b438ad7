CONSTANTS
  NoKey = NoKey
  NoJob = NoJob
  Nil = Nil
  Jobs = {j1}
  Keys = {k1, k2}
  Recovery = TRUE
  MaxLate = 0
  Crashes = FALSE
  Cancelling = TRUE
SPECIFICATION Spec
SYMMETRY Symmetry
PROPERTIES
  CancelDiscards
  ObserverYields
