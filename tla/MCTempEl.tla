----------------------------- MODULE MCTempEl -----------------------------
(* Bounds for TLC: readings and requests on both sides of every limit.     *)
EXTENDS TempEl

MCTemps == {-40, -29, 5, 30}
MCEls == {-3, 0, 1, 45, 90, 95}
MCUserTemps == {-31, 10, 29}
MCUserEls == {0, 45}
=============================================================================
