------------------------------ MODULE MCDriver ------------------------------
(* Bounds for TLC: those of MCSecondary; one pair of values, read or       *)
(* written by the client, different from those the driver starts with.     *)
EXTENDS Driver, MCSecondary

MCTemps == {5}
MCEls == {45}
MCUserTemps == {5}
MCUserEls == {45}
=============================================================================
