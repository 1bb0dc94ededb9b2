SPECIFICATION Spec
CONSTANTS
  Requests = {r1, r2}
  NoRequest = NoRequest
  Workers = {w1, w2}
  RunModes = {"eAutoInput", "eAutoOutput", "eAutoDuplex"}
  XtraInts = {FALSE, TRUE}
  MaxXfers = 2
SYMMETRY Symmetry
INVARIANTS WInv TransferIsOwn TransferOnce SuccessMeansTransferred CompletedOnce
CHECK_DEADLOCK FALSE
