------------------------------ MODULE MCPresence ------------------------------
(***************************************************************************)
(* Instances of PresenceService for TLC.                                   *)
(***************************************************************************)
EXTENDS PresenceService

CONSTANTS s1, s2, m1, m2, j1

OneSession  == {s1}
TwoSessions == {s1, s2}
TwoMonitors == {m1, m2}
OneJob      == {j1}
=============================================================================
