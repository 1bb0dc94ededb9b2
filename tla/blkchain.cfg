SPECIFICATION Spec
CONSTANTS
  Callers = {c1}
  NoCaller = NoCaller
  CountBit = {0}
  TagMax = 1
  Kinds = {"rq"}
  Sectors = {0, 1}
  MaxSegs = 2
INVARIANTS EndSizeMatches
CHECK_DEADLOCK FALSE
