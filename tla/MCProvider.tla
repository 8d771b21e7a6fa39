----------------------------- MODULE MCProvider -----------------------------
(***************************************************************************)
(* Model values and symmetry for checking CredentialProvider with TLC.     *)
(***************************************************************************)
EXTENDS CredentialProvider, TLC

CONSTANTS p1, p2, w1, w2

OneProvider  == {p1}
TwoProviders == {p1, p2}
OneWorker    == {w1}
TwoWorkers   == {w1, w2}

\* Threads are interchangeable, and so are provider instances.
WorkerSymmetry == Permutations({w1, w2})
FullSymmetry   == Permutations({p1, p2}) \cup Permutations({w1, w2})
=============================================================================
