----------------------------- MODULE MCSettings -----------------------------
(***************************************************************************)
(* Model values and symmetry for checking ServiceSettings with TLC.        *)
(***************************************************************************)
EXTENDS ServiceSettings, TLC

CONSTANTS c1, c2, t1, t2

TwoCameras   == {c1, c2}
TwoTemplates == {t1, t2}

\* Neither devices nor templates are told apart but by being the same or not.
Alike == Permutations(TwoCameras) \cup Permutations(TwoTemplates)
=============================================================================
