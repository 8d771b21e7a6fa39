------------------------------ MODULE MCCamera ------------------------------
(* The two users of the camera over two worker processes. *)
EXTENDS CameraRound

CONSTANTS auth1, presence1, c1, c2

TwoUsers == {auth1, presence1}
TwoChildren == {c1, c2}
Quarter == << 1, 4 >>
=============================================================================
