------------------------------- MODULE MCAuth -------------------------------
(***************************************************************************)
(* Model values and symmetry for checking AuthService with TLC.            *)
(***************************************************************************)
EXTENDS AuthService, TLC

CONSTANTS s1, j1, j2

OneSession  == {s1}
TwoJobs     == {j1, j2}

\* Threads are interchangeable.
JobSymmetry == Permutations({j1, j2})
=============================================================================
