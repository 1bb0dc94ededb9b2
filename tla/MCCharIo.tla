------------------------------ MODULE MCCharIo ------------------------------
(***************************************************************************)
(* The character-mode i/o path for TLC.                                    *)
(***************************************************************************)
EXTENDS MadCharIoInv, TLC

CallerSymmetry == Permutations(Callers)
=============================================================================
