------------------------------- MODULE MCSetup -------------------------------
(* Two directories, the two openers. *)
EXTENDS Setup, TLC

CONSTANTS d1, d2, k1, k2, svc, tool

TwoDirs == {d1, d2}
TwoKeys == {k1, k2}
KeySymmetry == Permutations(TwoKeys)
TwoOpeners == {svc, tool}
ServedOperations == {"stage", "install", "disable", "remove", "purge", "removeService"}
SomeEnv == {None, d2}
=============================================================================
