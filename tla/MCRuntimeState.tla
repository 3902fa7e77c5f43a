---------------------------- MODULE MCRuntimeState ----------------------------
(* Private state, its backups and restores for TLC.                        *)
EXTENDS RuntimeState, TLC

Symmetry == Permutations(Value)

Nothing == [saves |-> 0, crashes |-> 0, faults |-> 0, drops |-> 0, moves |-> 0,
            backups |-> 0, restores |-> 0]

\* An import with a crash, a save, an old file and another host; a backup while SAD
\* runs, restored over a hot journal; a restore with a failing call or a crash.
Scenarios ==
    {[Nothing EXCEPT !.saves = 1, !.crashes = 1, !.drops = 1, !.moves = 1],
     [Nothing EXCEPT !.saves = 1, !.crashes = 1, !.backups = 1, !.restores = 1],
     [Nothing EXCEPT !.faults = 2, !.backups = 1, !.restores = 1, !.moves = 1]}
=============================================================================
