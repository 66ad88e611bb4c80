SPECIFICATION FairSpec
CONSTANTS
  Cmds = {c1, c2}
  NoCmd = NoCmd
  CounterMod = 5
  MaxTries = 2
  MaxEarly = 4
  Patient = TRUE
INVARIANTS
  TokenFresh
  AckMeansExecuted
  NothingStaleBehind
PROPERTIES
  ImplementsService
  Answered
  KeepsAnswering
