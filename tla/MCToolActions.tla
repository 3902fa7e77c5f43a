---------------------------- MODULE MCToolActions ----------------------------
(* Governed tool actions for TLC.                                          *)
EXTENDS ToolActions, TLC

Symmetry == Permutations(Action) \cup Permutations(Account) \cup Permutations(Memory)
=============================================================================
