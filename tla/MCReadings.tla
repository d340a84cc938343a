----------------------------- MODULE MCReadings -----------------------------
(* Bounds for TLC: a good and a bad reading of each value, and one that is *)
(* clamped; the client writes a temperature that is too cold; two          *)
(* descriptors, so that the table is empty, partly used and full; refusals *)
(* of one word and of two, and buffers that just hold all the PLC says.    *)
EXTENDS Readings

MCTemps == {-30, 5}
MCEls == {0, 95}
MCUserTemps == {-31}
MCUserEls == {45}
=============================================================================
