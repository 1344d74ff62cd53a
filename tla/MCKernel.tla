------------------------------ MODULE MCKernel ------------------------------
(***************************************************************************)
(* Kernel for TLC.  The semaphores are interchangeable model values.       *)
(***************************************************************************)
EXTENDS Kernel, TLC

Symmetry == Permutations(Sem)
=============================================================================
