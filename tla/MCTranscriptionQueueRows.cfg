SPECIFICATION Spec
CONSTANTS
  Recs = {long, brief}
  Brief = {brief}
  Ids = {q1, q2}
  NoRec = NoRec
  NoId = NoId
  TwoLanes = FALSE
  Restarts = {}
INVARIANTS
  OneActiveRow
