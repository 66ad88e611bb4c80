SPECIFICATION FairSpec
CONSTANTS
  imgA = imgA
  imgB = imgB
  imgC = imgC
  imgW = imgW
  NoImage = NoImage
  Images = {imgA, imgB, imgC, imgW}
  Present = {imgA, imgB, imgC, imgW}
  RWImages = {imgA, imgW}
  RootSector <- MCRootMalformed
  Size <- MCSize
  Sectors = {1, 2, 3}
  SlotPath <- MCThreeSlots
  PathB = imgW
  FlushInterval = 2
  FailMax = 2
  Faults = {"mount", "reopen", "read", "write", "sync"}
INVARIANTS
  SwapServed
  MediaHonest
  NoHandleLeak
  NothingLost
PROPERTIES
  EventuallyFlushed
  EverySlotComes
