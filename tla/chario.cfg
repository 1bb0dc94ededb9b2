SPECIFICATION Spec
CONSTANTS
  Callers = {c1, c2}
  NoCaller = NoCaller
  CountBit = {0}
  TagMax = 2
  Counts = {{}, {0}}
  Modes = {"sync", "aio"}
INVARIANTS IInv TagsInStep WorkHasWaiter AnswerIsOwn QueuesFreeWhenIdle MutexFollowsCall BusyHasCaller
PROPERTIES DeviceUndisturbed
SYMMETRY CallerSymmetry
