------------------------------ MODULE MCSystem ------------------------------
(***************************************************************************)
(* System for TLC: what user programs pass to sbrk, with pages of two      *)
(* addresses.                                                              *)
(***************************************************************************)
EXTENDS System, FiniteSets

WholePages == {2, -2}

(* The frames start out alike.                                              *)
BlankInit == SysInit /\ \A f \in M!UserFrame : contents[f] = 0
BlankSpec == BlankInit /\ [][SysNext]_sysVars

(* Bounds: the frames that were written and the translations the TLB holds. *)
CONSTANTS MaxWritten, MaxTlb

FewWritten == Cardinality({f \in M!UserFrame : contents[f] # 0}) <= MaxWritten
SmallTlb == Cardinality(tlb) <= MaxTlb
=============================================================================
