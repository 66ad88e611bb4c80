SPECIFICATION Spec
CONSTANTS
  imgA = imgA
  imgB = imgB
  imgC = imgC
  imgW = imgW
  NoImage = NoImage
  Images = {imgA, imgB, imgC, imgW}
  Present = {imgA, imgB, imgW}
  RWImages = {imgA, imgW}
  RootSector <- MCRoot
  Size <- MCSize
  Sectors = {1, 3}
  SlotPath <- MCTwoSlots
  PathB = imgW
  FlushInterval = 2
  FailMax = 2
  Faults = {}
INVARIANT SlotServed
