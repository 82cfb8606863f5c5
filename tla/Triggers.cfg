CONSTANTS
  Seqs = {seq0}
  Dram = dram
  Readers = {r1, r2}
  k1 = k1
  k2 = k2
  Clients = {k1, k2}
  Configs = {c1, c2}
  unset = unset
  nobody = nobody
  Scenarios <- Working
SPECIFICATION MCSpec
INVARIANTS
  TypesOK
  SharedCorrect
  LocksCorrect
  ConfigFollows
PROPERTIES
  ExclusionSpec
  WaiterAdmitted
  SequenceEnds
