SPECIFICATION Spec
CONSTANTS
  c1 = c1
  c2 = c2
  g1 = g1
  g2 = g2
  g3 = g3
  Calls = {c1, c2}
  NoSource = NoSource
  Torn = Torn
  Gens = {g1, g2, g3}
  SourceOf <- MCSourceOf
  Prefix <- MCPrefix
  Overlap <- MCOverlap
  Ranges = 2
  Faults = TRUE
  Corruption = FALSE
INVARIANTS StalePartialRemoved
