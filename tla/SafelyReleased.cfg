CONSTANTS
  MemFiles = {m1, m2}
  RegFiles = {r1, r2}
  None = None
  MaxKills = 1
SPECIFICATION Spec
INVARIANT SafelyReleased
