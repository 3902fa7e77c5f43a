------------------------ MODULE MCDeveloperWorkspace ------------------------
(* Developer workspaces for TLC.                                           *)
EXTENDS DeveloperWorkspace, TLC

Symmetry == Permutations(Workspace) \cup Permutations(Path)

\* One path is a new file, the others exist: every kind of edit is possible.
MixedInit ==
    /\ Init
    /\ \E p \in Path : live[p] = Absent
    /\ \E p \in Path : live[p] = CHOOSE c \in Content : c # Empty

MixedSpec == MixedInit /\ [][Next]_vars
=============================================================================
