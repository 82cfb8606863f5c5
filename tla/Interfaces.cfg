CONSTANTS
  MemFiles = {m1, m2}
  RegFiles = {r1, r2}
  None = None
  MaxKills = 1
  Events = {e1, e2}
  Readers = {t1, t2}
  LineSize = 4
  InSize = 2
  OutSize = 3
  ErrorLength = 2
  BlockLength = 2
  Lengths = {2, 3, 4}
  MaxLines = 2
SPECIFICATION MCSpec
INVARIANTS
  TypesOK
  FilesSafe
  DmaSafe
  NoMissedWakeUp
  TrafficFaithful
PROPERTIES
  DriverEnds
  EventsExact
  EventsDelivered
  ConnectionEnds
CHECK_DEADLOCK FALSE
