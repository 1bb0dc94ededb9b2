------------------------------ MODULE MCCharCtl ------------------------------
(***************************************************************************)
(* The character-mode i/o path with its control operations for TLC.        *)
(***************************************************************************)
EXTENDS MadCharCtlInv, TLC

CallerSymmetry == Permutations(Callers)

\* The state without the contents of the shared buffers, which no step and no
\* property of the runs that use this view reads.
ControlView == <<callerVars, queueVars, regs, IntRegState, devVars, dpcVars>>
=============================================================================
