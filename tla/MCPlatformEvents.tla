--------------------------- MODULE MCPlatformEvents ---------------------------
(* The event log and its readers for TLC.                                  *)
EXTENDS PlatformEvents, TLC

\* Apps and types of events are interchangeable.
Symmetry == Permutations(App) \cup Permutations(Type)
=============================================================================
