------------------------------ MODULE Session ------------------------------
(***************************************************************************)
(* What the VATT secondary driver promises its INDI client about one       *)
(* hexapod session, with nothing of how it is done.                        *)
(*                                                                         *)
(*   line   the GCS connection to the hexapod controller                   *)
(*   shown  whether the client sees the device as connected                *)
(*   auto   whether autocollimation is switched on                         *)
(*                                                                         *)
(* The promise: the device is shown as connected, and autocollimation is   *)
(* on, only while a connection is held; both end in the step in which the  *)
(* connection is given up; autocollimation never comes back by itself with *)
(* the next connection; and a dead connection is not held for ever.        *)
(***************************************************************************)

VARIABLES line, shown, auto

vars == <<line, shown, auto>>

Lines == {"closed", "alive", "dead"}

TypeOK ==
  /\ line \in Lines
  /\ shown \in BOOLEAN
  /\ auto \in BOOLEAN

Init ==
  /\ line = "closed"
  /\ shown = FALSE
  /\ auto = FALSE

(* A connection is opened; the client is told later, when it has answered. *)
Open ==
  /\ line = "closed"
  /\ line' = "alive"
  /\ UNCHANGED <<shown, auto>>

Announce ==
  /\ line # "closed"
  /\ shown' = TRUE
  /\ UNCHANGED <<line, auto>>

(* The connection stops answering: the driver does not know yet. *)
Break ==
  /\ line = "alive"
  /\ line' = "dead"
  /\ UNCHANGED <<shown, auto>>

(* The connection is given up, for whatever reason. *)
HangUp ==
  /\ line # "closed"
  /\ line' = "closed"
  /\ shown' = FALSE
  /\ auto' = FALSE

SwitchOn ==
  /\ line # "closed"
  /\ shown
  /\ auto' = TRUE
  /\ UNCHANGED <<line, shown>>

SwitchOff ==
  /\ auto' = FALSE
  /\ UNCHANGED <<line, shown>>

Next == Open \/ Announce \/ Break \/ HangUp \/ SwitchOn \/ SwitchOff

(* The safety part of the promise, and the promise with its liveness: a dead
   connection is not held for ever. *)
Safe == Init /\ [][Next]_vars

DeadIsDropped == line = "dead" ~> line = "closed"

Spec == Safe /\ DeadIsDropped

=============================================================================
