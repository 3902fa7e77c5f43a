---------------------------- MODULE MCAuthSessions ----------------------------
(* Accounts and sessions for TLC.                                          *)
EXTENDS AuthSessions, TLC

\* Tokens and the accounts that may not manage others are interchangeable.
Symmetry == Permutations(Token) \cup Permutations(Account \ {Owner})

\* Two requests that overlap, or one among wrong passwords, a failing save and
\* a restart.
OneOfEach ==
    {[requests |-> 2, guesses |-> 0, faults |-> 0, restarts |-> 0],
     [requests |-> 1, guesses |-> 3, faults |-> 1, restarts |-> 1]}
=============================================================================
