--------------------------- MODULE MCKernelClient ---------------------------
(***************************************************************************)
(* Instances of KernelClient for TLC.                                      *)
(***************************************************************************)
EXTENDS KernelClient, TLC

\* Subsystems are alike.
Symmetry == Permutations(Subsystem)
============================================================================
