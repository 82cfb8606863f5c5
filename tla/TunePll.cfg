CONSTANTS
  Starters = {own}
  Delays = {1}
  Base = {1}
  Offsets = {0, 1}
  MaxWrites = 1
SPECIFICATION PllFairSpec
INVARIANTS
  PllTypeOK
  Settled
PROPERTIES
  PhaseFollows
  StopShown
