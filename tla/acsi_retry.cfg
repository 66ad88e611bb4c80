SPECIFICATION DiskSpec
CONSTANTS
  Asked <- MCAsked
  Disks <- MCDisks
  Firsts = {2, 5}
  LastDrive = 7
  MaxPartitions = 6
  MaxLba = 500
  MaxWord = 100
  SectorSize = 2
  RootEntry = 1
  RootEntries = 4
  FatSectors = 1
  LogicalSizes = {2, 4}
  MinClusters = 1
  MaxClusters = 8
  Misreads = TRUE
  NoCmd = NoCmd
  Drives <- MCDrives
  Start <- MCStart
  Count <- MCCount
  ImageSize = 9
  MaxBatch = 2
  Values = {"old", "x"}
  Old = "old"
  WriteData <- MCWriteData
  Requests <- MCRequests
  FlushInterval = 1
  Repeats = {"part", "whole", "last", "mask"}
  Faults = {}
INVARIANT DiskAsWritten
