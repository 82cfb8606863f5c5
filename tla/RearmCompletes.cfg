CONSTANTS
  k1 = k1
  k2 = k2
  Clients = {k1, k2}
  Configs = {c1, c2}
  unset = unset
  nobody = nobody
  Scenarios <- RearmAndReset
SPECIFICATION ArmFairSpec
PROPERTIES
  RearmCompletes
CHECK_DEADLOCK FALSE
