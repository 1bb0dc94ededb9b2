SPECIFICATION CtlSpec
CONSTANTS
  Callers = {c1, c2}
  NoCaller = NoCaller
  CountBit = {0}
  TagMax = 1
  Counts = {{}}
  Modes = {"sync"}
  CtlOps = {"bus_reset", "bus_expire", "bus_intid", "dev_init", "dev_reset"}
  StatusArgs = {}
  EnableArgs = {}
  ControlArgs = {}
  IntIDArgs = {{"STATUS_ALERT"}}
INVARIANTS AnswerNotStolen SyncInv
SYMMETRY CallerSymmetry
CHECK_DEADLOCK FALSE
VIEW ControlView
