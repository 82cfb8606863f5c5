CONSTANTS
  Seqs = {0}
  Dram = dram
  Readers = {r1}
  Scenarios <- OwnTargets
SPECIFICATION SysSpec
INVARIANTS
  ReaderUndisturbed
