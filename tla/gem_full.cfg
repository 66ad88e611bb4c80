SPECIFICATION FairSpec
CONSTANTS
  f1 = f1
  f2 = f2
  d1 = d1
  d2 = d2
  Paths = {f1, f2}
  Folder = Folder
  Contents <- MCContents
  FirstFD = 16384
  MaxHandles = 2
  Keys = {d1}
  LockSize = 2
  ReadSize = 2
  WriteSize = 1
  LongMod = 16
  MaxSize = 2
  OpenModes = {"r", "w", "rw"}
  Asked <- MCAsked
  Data <- MCData
  Seeks <- MCSeeks
  NoPath = NoPath
  NoKey = NoKey
  Stray = Stray
  Junk = 0
  Repeats = {"fsfirst", "fseek"}
  Faults = {"full"}
PROPERTY FwriteReturns
