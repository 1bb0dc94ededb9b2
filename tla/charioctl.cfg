SPECIFICATION CtlSpec
CONSTANTS
  Callers = {c1}
  NoCaller = NoCaller
  CountBit = {0}
  TagMax = 1
  Counts = {{}}
  Modes = {"sync"}
  CtlOps = {"bus_status", "dev_reset", "dev_enable", "dev_control"}
  StatusArgs = {{"DEVICE_BUSY"}}
  EnableArgs = {{"BUFRD_INPUT"}, {"ALIGN_OUTPUT"}, {"DMA_INPUT"}}
  ControlArgs = {{"BUFRD_GO", "CACHE_XFER"}}
  IntIDArgs = {}
INVARIANTS MutexFollowsCall BusyHasCaller
CHECK_DEADLOCK FALSE
VIEW ControlView
