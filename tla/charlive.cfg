SPECIFICATION FairSpec
CONSTANTS
  Callers = {c1, c2}
  NoCaller = NoCaller
  CountBit = {0}
  TagMax = 1
  Counts = {{}}
  Modes = {"sync", "aio"}
PROPERTIES WaitEnds CallReturns
