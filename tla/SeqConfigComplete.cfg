SPECIFICATION RegSpec
CONSTANTS
  RegThreads = {r1, r2}
  RegNobody = nobody
INVARIANTS SeqConfigComplete
CHECK_DEADLOCK FALSE
