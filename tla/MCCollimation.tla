--------------------------- MODULE MCCollimation ---------------------------
(* Bounds for TLC: the corrected axis and one more, the last of the loop,  *)
(* which SetMoveState looks at.  Corrections of none or one unit and a     *)
(* request for 1: a correction takes it past a travel range of 1; one of 2 *)
(* holds also what a correction makes of a position corrected already.     *)
EXTENDS Collimation

CONSTANTS Z, U

MCAxisOrder == <<Z, U>>
MCFileAxes == {Z, U}
MCRequests == {1}
MCShifts == {0, 1}
NoFaults == {}
ReadFault == {"read"}
ProjectsoftFault == {"projectsoft"}
EveryFault == AllFaults
=============================================================================
