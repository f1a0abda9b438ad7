SPECIFICATION FairSpec
CONSTANTS
  b1 = b1
  b2 = b2
  Brains = {b1, b2}
  MaxFaults = 2
INVARIANTS OneWriter
PROPERTIES QuitIsFinal AppAnswers RivalsSettle RefusedOpens
