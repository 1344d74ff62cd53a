------------------------------ MODULE MCMemory ------------------------------
(***************************************************************************)
(* Memory for TLC: what user programs pass to sbrk, with pages of two      *)
(* addresses.  A configuration file cannot write negative numbers.  The    *)
(* bytes are interchangeable.                                              *)
(***************************************************************************)
EXTENDS Memory, TLC

WholePages == {2, -2}
HalfPages == {1, 2, -1, -2}
BelowZero == {1, -13}

Symmetry == Permutations(Byte)
=============================================================================
