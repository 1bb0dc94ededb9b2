SPECIFICATION CtlSpec
CONSTANTS
  Callers = {c1, c2}
  NoCaller = NoCaller
  CountBit = {0}
  TagMax = 1
  Counts = {{}}
  Modes = {"aio"}
  CtlOps = {"bus_intid"}
  StatusArgs = {{"DEVICE_BUSY"}}
  EnableArgs = {}
  ControlArgs = {}
  IntIDArgs = {{"STATUS_ALERT"}}
INVARIANTS MutexFollowsCall BusyHasCaller
SYMMETRY CallerSymmetry
CHECK_DEADLOCK FALSE
VIEW ControlView
