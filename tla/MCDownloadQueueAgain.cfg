SPECIFICATION FairSpec
CONSTANTS
  f1 = f1
  f2 = f2
  Files = {f1, f2}
  NoFile = NoFile
  Hasty = {f1, f2}
PROPERTIES RetriesNextSession
