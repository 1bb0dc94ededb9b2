SPECIFICATION Spec
CONSTANTS
  Requests = {r1, r2}
  NoRequest = NoRequest
  Workers = {w1, w2}
  RunModes = {"eAutoInput"}
  XtraInts = {FALSE}
  MaxXfers = 2
SYMMETRY Symmetry
INVARIANTS RequestDetermined
CHECK_DEADLOCK FALSE
