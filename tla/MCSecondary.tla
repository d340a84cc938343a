---------------------------- MODULE MCSecondary ----------------------------
(* Bounds for TLC: three axes, so that switching on moves two and the tick *)
(* looks at three (a first, a middle and a last one); one failed read      *)
(* tolerated, one tick between telescope readings; two timer identifiers,  *)
(* so that a second timer could be armed beside the first.                 *)
EXTENDS Secondary

CONSTANTS t1, t2, none

MCNAxes == 3
MCMaxCommErr == 1
MCMaxVatttel == 1
MCTimerIds == {t1, t2}
NoCommands == {}
SetCommands == {"set"}
AnyCommand == {"query", "set"}
=============================================================================
