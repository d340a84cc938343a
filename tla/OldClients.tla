----------------------------- MODULE OldClients -----------------------------
(***************************************************************************)
(* The clients of the instruments the driver asked before ProjectSoft, in  *)
(* one process and one thread: calls of the three in any order, each to    *)
(* its end before the next begins.                                         *)
(***************************************************************************)
EXTENDS Vatttel, NGClient, CBW

oldVars == <<pc, fds, lost, result, errmsg, sd, output, cbwVars>>

OldInit == SocketsInit /\ VatttelInit /\ NGInit /\ CBWInit

OldNext ==
  \/ VatttelNext /\ UNCHANGED <<ngVars, cbwVars>>
  \/ NGNext      /\ UNCHANGED <<errmsg, cbwVars>>
  \/ CBWNext     /\ UNCHANGED <<errmsg, ngVars>>

OldSpec == OldInit /\ [][OldNext]_oldVars

-----------------------------------------------------------------------------
(* The socket the call under way holds. *)
Held ==
  IF pc \in {"idle", "CParseUnasked"} \/ (pc = "NConnect" /\ sd = "none")
    THEN 0 ELSE 1

(* The variables' values; what a sensor's text ends with is never written
   over. *)
OldTypeOK ==
  /\ pc \in {"idle", "VConnect", "VRead", "NConnect", "NSend", "NRecv", "CPerform"}
            \cup Parsing
  /\ fds \in 0 .. MaxFds /\ lost \in 0 .. MaxFds
  /\ sd \in {"none", "open"} /\ output \in {"", "reply", "mixed", "request"}
  /\ errmsg \in {"unset", "error"}
  /\ report \in Reports /\ come \in 0 .. Len(Body(report))
  /\ pc \in Parsing => cp \in 0 .. Len(memory)
  /\ \A s \in Sensors : Len(sensor[s]) < Len10

(* Every descriptor is held by the call under way or was given up by a call
   that failed: none is lost on another path, and none is closed twice. *)
OldSocketsAccounted == fds = lost + Held
=============================================================================
