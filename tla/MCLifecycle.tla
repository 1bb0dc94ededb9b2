---------------------------- MODULE MCLifecycle ----------------------------
(***************************************************************************)
(* Loading, plugging and unloading for TLC.                                *)
(***************************************************************************)
EXTENDS MadLifecycle, TLC

TwoDrivers == {"maddevc", "maddevb"}
TwoSlots == 1 .. 2

\* The second driver is loaded without static devices, as the scripts do.
FirstStatic == [d \in TwoDrivers |-> IF d = "maddevc" THEN 1 ELSE 0]

\* Every call fails for one of the drivers, and most for both: each of the four
\* error returns of the claim that leave something else is in, and the number of
\* combinations of what four objects have left stays small.
EachCallFails ==
  TwoDrivers \X {"module", "enable", "register", "dma", "cdev"}
  \cup {<<"maddevc", "config">>, <<"maddevc", "irq">>, <<"maddevb", "region">>}
=============================================================================
