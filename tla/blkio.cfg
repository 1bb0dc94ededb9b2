SPECIFICATION FairSpec
CONSTANTS
  Callers = {c1, c2}
  NoCaller = NoCaller
  CountBit = {0}
  TagMax = 1
  Kinds = {"rq", "page", "raw"}
  Sectors = {0}
  MaxSegs = 1
INVARIANTS BInv TypeOK FlagIsExclusive TagFollowsRequest TagsInStep WorkHasWaiter ChainIsOwn
PROPERTIES DeviceUndisturbed FlagReturns IssuedEnds SerialDisk
CHECK_DEADLOCK FALSE
