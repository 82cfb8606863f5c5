CONSTANTS
  Seqs = {seq0}
  Dram = dram
  Readers = {r1, r2}
SPECIFICATION Spec
SYMMETRY Symmetry
INVARIANT SoftFollowsRearm
