----------------------------- MODULE MCBlockIo -----------------------------
(***************************************************************************)
(* The block-mode i/o paths for TLC.                                       *)
(***************************************************************************)
EXTENDS MadBlockIoInv, TLC

CallerSymmetry == Permutations(Callers)
=============================================================================
