CONSTANTS
  Seqs = {0}
  Dram = dram
  Readers = {r1}
  Scenarios <- ReadingOrDisarming
SPECIFICATION FairSysSpec
INVARIANTS
  SysTypeOK
  ReaderUndisturbed
  EventsInOrder
PROPERTIES
  BusyEnds
  ArmedEnds
