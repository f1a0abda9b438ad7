SPECIFICATION Spec
CONSTANTS
  r1 = r1
  r2 = r2
  A = A
  B = B
  Recs = {r1, r2}
  Folders = {A, B}
  None = None
  MaxMoves = 1
  MaxKills = 0
PROPERTIES MoveKeepsAll
