SPECIFICATION CtlSpec
CONSTANTS
  Callers = {c1, c2}
  NoCaller = NoCaller
  CountBit = {0}
  TagMax = 1
  Counts = {{}}
  Modes = {"aio"}
  CtlOps = {"bus_intid"}
  StatusArgs = {}
  EnableArgs = {}
  ControlArgs = {}
  IntIDArgs = {{"STATUS_ALERT"}}
INVARIANTS AnswerNotStolen
CHECK_DEADLOCK FALSE
