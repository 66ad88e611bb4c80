SPECIFICATION FairSpec
CONSTANTS
  Letters <- MCLetters
  FirstDrive = "C"
  D = "D"
  NotALetter = "-"
  Slots <- MCSlots
  PutKeys = {"acsi"}
  MaxCountdown = 2
  MaxAttempts = 2
INVARIANTS
  RuntimeAlone
  NoPressLost
PROPERTIES
  NoNewConflict
  SlotShown
  Settles
