SPECIFICATION Spec
CONSTANTS
  first = first
  adds = adds
  drops = drops
  kA = kA
  kB = kB
  kC = kC
  on = on
  off = off
  Releases = {first, adds, drops}
  Keys = {kA, kB, kC}
  Values = {on, off}
  DefaultEntries <- MCDefaults
  MaxEntries = 5
  Magic = Magic
  MagicValue = MagicValue
  NoKey = NoKey
  Torn = Torn
  HeapKeys = {kC}
  PageEntries = 2
INVARIANTS
  InStep
PROPERTIES
  Remembered
  SaveCut
