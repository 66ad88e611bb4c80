SPECIFICATION Spec
CONSTANTS
  Payloads <- MCPayloads
  Commands <- MCCommands
  Header <- MCHeader
  WordMod = 65536
  RingWords = 7
  RestartGap = 1
  ClockMod = 4
  MaxQuiet = 2
  MaxFrames = 3
  MaxMisses = 1
INVARIANTS
  NoPhantom
  FollowedIsDelivered
PROPERTY HeardAfterSilence
CHECK_DEADLOCK FALSE
