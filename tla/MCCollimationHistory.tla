------------------------ MODULE MCCollimationHistory ------------------------
(* Bounds for TLC: those of MCCollimation, with the corrected axis alone    *)
(* where every failure is possible: the histories of the axes do not meet. *)
EXTENDS CollimationHistory, MCCollimation

OneAxis == <<Z>>
OneFileAxis == {Z}
=============================================================================
