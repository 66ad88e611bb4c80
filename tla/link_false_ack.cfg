SPECIFICATION Spec
CONSTANTS
  Cmds = {c1, c2}
  NoCmd = NoCmd
  CounterMod = 5
  MaxTries = 2
  MaxEarly = 4
  Patient = FALSE
INVARIANTS
  AckMeansExecuted
