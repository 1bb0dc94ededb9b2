------------------------------ MODULE MCWdfIo ------------------------------
(***************************************************************************)
(* The KMDF driver and its simulated device for TLC.                       *)
(***************************************************************************)
EXTENDS MadWdfIoInv, TLC

Symmetry == Permutations(Requests) \cup Permutations(Workers)
=============================================================================
