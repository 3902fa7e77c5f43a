-------------------------- MODULE MCRepairGovernance --------------------------
(* The controlled repair lane for TLC.                                     *)
EXTENDS RepairGovernance, TLC

Symmetry == Permutations(Item) \cup Permutations(Content)
=============================================================================
