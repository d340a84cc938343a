----------------------------- MODULE Secondary -----------------------------
(***************************************************************************)
(* The control of the VATT secondary INDI driver (vatt_secondary.cpp):     *)
(* the GCS connection to the hexapod controller, the INDI lights the       *)
(* client sees, the poll timer, the two error counters and the             *)
(* autocollimation switch.                                                 *)
(*                                                                         *)
(* The driver is one thread: the INDI event loop runs one handler at a     *)
(* time.  A handler is a chain of blocking calls to the PI library, and    *)
(* the controller and the network change between two of them, so a handler *)
(* is a chain of steps here, one for each stretch of code between blocking *)
(* calls, with pc naming the next one; pc = "idle" is the event loop.      *)
(*                                                                         *)
(* Every PI call may fail, and can succeed only on a live connection.      *)
(* Positions, elevation and temperature are the subject of Collimation and *)
(* TempEl; all that control sees of them is whether an axis has veered     *)
(* from its corrected position and whether the hexapod is moving, and      *)
(* either answer is possible here.                                         *)
(***************************************************************************)
EXTENDS Integers, FiniteSets

CONSTANTS
  NAxes,       \* axes of the hexapod: 6, in the order X Y Z W V U
  MaxCommErr,  \* MAX_COMMERR: failed reads in a row the driver puts up with
  MaxVatttel,  \* MAX_VATTTEL_CNT: ticks between two telescope readings
  TimerIds,    \* identifiers SetTimer can return
  NoTimer,     \* TimerID before the first SetTimer (-1 in the code)
  Commands     \* kinds of GCS command text that clients send

ASSUME SecondaryAssumption ==
  /\ NAxes \in Nat /\ NAxes > 1
  /\ MaxCommErr \in Nat
  /\ MaxVatttel \in Nat
  /\ NoTimer \notin TimerIds
  /\ Commands \subseteq {"query", "set"}  \* answered, and not answered

VARIABLES
  (* the controller and the PI library *)
  reachable,    \* the controller is powered and on the network
  pipe,         \* the library's connection: at most one can be open
  referenced,   \* the struts have been referenced since power-up
  referencing,  \* a reference move is under way
  answer,       \* the GCS command sent last is one the controller answers
  (* the driver *)
  pc,           \* the next step of the running handler, "idle" if none
  axis,         \* loop index of the handler, ii in the code
  ID,           \* PI library connection, -1 when there is none
  connS, connSV,         \* CONNECTION property: its CONNECT switch, its light
  corrS, corrSV,         \* "correct" property: autocollimation
  refS, refSV,           \* "ref" property: referencing
  connectionWentBad,     \* the connection was lost, not closed by the client
  commerr_count,
  vatttel_counter,
  TimerID,      \* the timer the driver believes is armed
  timers        \* the timers the event loop has armed

envVars    == <<reachable, referenced, referencing, answer>>
connVars   == <<ID, pipe>>
corrVars   == <<corrS, corrSV>>
refVars    == <<refS, refSV>>
switchVars == <<connS, connSV>>
timerVars  == <<TimerID, timers>>
countVars  == <<commerr_count, vatttel_counter>>
vars == <<envVars, pc, axis, connVars, switchVars, corrVars, refVars,
          connectionWentBad, countVars, timerVars>>

IPState == {"IDLE", "OK", "BUSY", "ALERT"}
ISState == {"ON", "OFF"}

ConnectPCs == {"Connect", "ConnectIDN", "ConnectPos", "ConnectNextPos",
               "ConnectRef"}
TickPCs    == {"TickPos", "TickReady", "TickTempEl", "TickCorrect",
               "TickError"}
PCs == {"idle", "OnMove", "OnTempEl", "RefQuery", "RefWait", "CmdWait"}
         \cup ConnectPCs \cup TickPCs

Axes == 0 .. NAxes - 1

-----------------------------------------------------------------------------
(* The INDI properties *)

setConnected(s, light) == connS' = s /\ connSV' = light

(* INDI counts the device as connected when the switch is on and green. *)
DeviceConnected == connS = "ON" /\ connSV = "OK"

(* TimerID = SetTimer(...): a new identifier, beside the timers that are
   kept. *)
SetTimer(kept) ==
  \E t \in TimerIds \ timers : TimerID' = t /\ timers' = kept \cup {t}

(* Mutant of updateProperties: the old timer is not removed. *)
TimerAdded == SetTimer(timers)

(* The poll timer is replaced, not doubled. *)
updateProperties == SetTimer(timers \ {TimerID})

-----------------------------------------------------------------------------
(* The PI library *)

(* A GCS exchange may fail at any time; it can succeed on a live pipe only. *)
Exchange(ok) == ok => pipe = "alive"

(* PI_CloseConnection and ID = -1: harmless when there is no connection. *)
CloseConnection == ID' = -1 /\ pipe' = "closed"

(* Mutant of CountError: the failed read is not counted. *)
ErrorForgotten == UNCHANGED commerr_count

(* commerr_count is only ever compared with MaxCommErr, so it is counted
   up to the first value above it. *)
CountError ==
  commerr_count' = IF commerr_count > MaxCommErr THEN commerr_count
                                                 ELSE commerr_count + 1

(* Mutant of GetHexPos: a good read does not clear the count. *)
ErrorsAddUp(ok) ==
  /\ Exchange(ok)
  /\ IF ok THEN UNCHANGED commerr_count ELSE CountError

(* _GetHexPos on an open connection: one error counted for a failed read,
   the count cleared by a good one. *)
GetHexPos(ok) ==
  /\ Exchange(ok)
  /\ IF ok THEN commerr_count' = 0 ELSE CountError

(* Mutant of LoseConnection: the client is not told. *)
LoseSilently ==
  /\ CloseConnection
  /\ refS' = "OFF"
  /\ connectionWentBad' = TRUE
  /\ UNCHANGED <<switchVars, commerr_count>>

(* Everything but the connection and the count that _MoveOneAxis and
   isConnected may change, except corrS, which some callers change too. *)
LoseConnection ==
  /\ CloseConnection
  /\ refS' = "OFF"
  /\ setConnected("OFF", "ALERT")
  /\ connectionWentBad' = TRUE
  /\ UNCHANGED commerr_count

(***************************************************************************)
(* _MoveOneAxis, with the isConnected() check it makes when PI_MOV fails.  *)
(*   "noid"     there is no connection                                     *)
(*   "moved"    PI_MOV was accepted                                        *)
(*   "refused"  PI_MOV failed, but the controller still answers qIDN (a    *)
(*              travel limit), or INDI counts the device as disconnected   *)
(*   "lost"     PI_MOV and qIDN failed: the connection is given up         *)
(***************************************************************************)
MoveResults == {"noid", "moved", "refused", "lost"}

MoveOneAxis(r) ==
  \/ /\ r = "noid"
     /\ ID < 0
     /\ setConnected("OFF", "ALERT")
     /\ UNCHANGED <<connVars, refS, connectionWentBad, commerr_count>>
  \/ /\ r = "moved"
     /\ ID >= 0
     /\ pipe = "alive"
     /\ commerr_count' = 0
     /\ UNCHANGED <<connVars, switchVars, refS, connectionWentBad>>
  \/ /\ r = "refused"
     /\ ID >= 0
     /\ pipe = "alive" \/ ~DeviceConnected
     /\ UNCHANGED <<connVars, switchVars, refS, connectionWentBad,
                    commerr_count>>
  \/ /\ r = "lost"
     /\ ID >= 0
     /\ DeviceConnected
     /\ LoseConnection

(* Mutant of CorrAfter: autocollimation survives the loss. *)
CorrKept(r) == corrS

(* isConnected switches autocollimation off when it gives up, but leaves
   its light alone. *)
CorrAfter(r) == IF r = "lost" THEN "OFF" ELSE corrS

(***************************************************************************)
(* GetTempAndEl as control sees it: most calls only count; the call that   *)
(* does ask projectsoft switches autocollimation off when that fails.      *)
(***************************************************************************)
Asks == vatttel_counter > MaxVatttel

(* Mutant of CountCall: the counter is not set back. *)
CountOn == vatttel_counter' = vatttel_counter + 1

CountCall == vatttel_counter' = IF Asks THEN 0 ELSE vatttel_counter + 1

(* The answer of projectsoft, or of the counter in its place. *)
TempElAnswers(ok) == ok \/ Asks

-----------------------------------------------------------------------------
Init ==
  /\ reachable \in BOOLEAN
  /\ referenced \in BOOLEAN
  /\ referencing = FALSE
  /\ answer = FALSE
  /\ ID = -1 /\ pipe = "closed"
  /\ pc = "idle" /\ axis = 0
  /\ connS = "OFF" /\ connSV = "IDLE"
  /\ corrS = "OFF" /\ corrSV = "IDLE"
  /\ refS = "OFF"  /\ refSV = "IDLE"
  /\ connectionWentBad = FALSE
  /\ commerr_count = 0
  /\ vatttel_counter = 0
  /\ TimerID = NoTimer /\ timers = {}

-----------------------------------------------------------------------------
(* The client connects: ISNewSwitch of CONNECTION, then Connect            *)

(* A request to connect a device that is connected changes nothing. *)
ClientConnect ==
  /\ pc = "idle"
  /\ ~DeviceConnected
  /\ setConnected("ON", "BUSY")
  /\ pc' = "Connect"
  /\ UNCHANGED <<envVars, axis, connVars, corrVars, refVars,
                 connectionWentBad, countVars, timerVars>>

(* Mutant of ConnectFails: the connection is not closed. *)
FailsOpen ==
  /\ ID' = -1 /\ UNCHANGED pipe
  /\ setConnected("ON", "ALERT")
  /\ pc' = "idle"

(* A failed Connect shows ALERT, with the switch as the client set it:
   IUUpdateSwitch comes last and undoes setConnected(false, ...). *)
ConnectFails ==
  /\ CloseConnection
  /\ setConnected("ON", "ALERT")
  /\ pc' = "idle"

Connect ==
  /\ pc = "Connect"
  /\ \/ /\ reachable /\ pipe = "closed"
        /\ ID' = 0 /\ pipe' = "alive"
        /\ pc' = "ConnectIDN"
        /\ UNCHANGED switchVars
     \/ /\ ID' = -1
        /\ setConnected("ON", "ALERT")
        /\ pc' = "idle"
        /\ UNCHANGED pipe
  /\ UNCHANGED <<envVars, axis, corrVars, refVars, connectionWentBad,
                 countVars, timerVars>>

ConnectIDN ==
  /\ pc = "ConnectIDN"
  /\ \/ /\ Exchange(TRUE)
        /\ pc' = "ConnectPos"
        /\ UNCHANGED <<connVars, switchVars>>
     \/ ConnectFails
  /\ UNCHANGED <<envVars, axis, corrVars, refVars, connectionWentBad,
                 countVars, timerVars>>

(* The two _GetHexPos, of Pos and of NextPos, whose result is ignored. *)
ConnectPos ==
  /\ pc \in {"ConnectPos", "ConnectNextPos"}
  /\ \E ok \in BOOLEAN : GetHexPos(ok)
  /\ pc' = IF pc = "ConnectPos" THEN "ConnectNextPos" ELSE "ConnectRef"
  /\ UNCHANGED <<envVars, axis, connVars, switchVars, corrVars, refVars,
                 connectionWentBad, vatttel_counter, timerVars>>

(* isReferenced: "no" and "failed" turn the reference light red. *)
isReferenced(r) ==
  \/ r = "yes"    /\ Exchange(TRUE) /\ referenced /\ UNCHANGED commerr_count
  \/ r = "no"     /\ Exchange(TRUE) /\ ~referenced /\ UNCHANGED commerr_count
  \/ r = "failed" /\ CountError

ConnectRef ==
  /\ pc = "ConnectRef"
  /\ \E r \in {"yes", "no", "failed"} :
        /\ isReferenced(r)
        /\ refSV' = IF r = "yes" THEN refSV ELSE "ALERT"
  /\ setConnected("ON", "OK")
  /\ updateProperties
  /\ pc' = "idle"
  /\ UNCHANGED <<envVars, axis, connVars, corrVars, refS, connectionWentBad,
                 vatttel_counter>>

(* The client disconnects.  Disconnect is called only when INDI counts the
   device as connected; the poll timer is replaced in any case. *)
Disconnect ==
  /\ CloseConnection
  /\ corrS' = "OFF" /\ corrSV' = "IDLE"
  /\ refS' = "OFF" /\ refSV' = "IDLE"

ClientDisconnect ==
  /\ pc = "idle"
  /\ \/ DeviceConnected /\ Disconnect
     \/ ~DeviceConnected /\ UNCHANGED <<connVars, corrVars, refVars>>
  /\ setConnected("OFF", "IDLE")
  /\ updateProperties
  /\ UNCHANGED <<envVars, pc, axis, connectionWentBad, countVars>>

-----------------------------------------------------------------------------
(* The other requests of the client                                        *)

(* ISNewNumber of one of PosX .. PosU. *)
ClientNumber ==
  /\ pc = "idle"
  /\ \E r \in MoveResults : MoveOneAxis(r) /\ corrS' = CorrAfter(r)
  /\ UNCHANGED <<envVars, pc, axis, corrSV, refSV, vatttel_counter,
                 timerVars>>

(* ISNewSwitch of "correct": three cases. *)
ClientCorrectNoConnection ==
  /\ pc = "idle"
  /\ ID < 0
  /\ corrS' = "OFF"
  /\ setConnected("OFF", "ALERT")
  /\ UNCHANGED <<envVars, pc, axis, connVars, corrSV, refVars,
                 connectionWentBad, countVars, timerVars>>

ClientCorrectOn ==
  /\ pc = "idle"
  /\ ID >= 0
  /\ corrS' = "ON"
  /\ pc' = "OnMove" /\ axis' = 0
  /\ UNCHANGED <<envVars, connVars, switchVars, corrSV, refVars,
                 connectionWentBad, countVars, timerVars>>

ClientCorrectOff ==
  /\ pc = "idle"
  /\ ID >= 0
  /\ corrS' = "OFF" /\ corrSV' = "IDLE"
  /\ \E ok \in BOOLEAN : GetHexPos(ok)
  /\ UNCHANGED <<envVars, pc, axis, connVars, switchVars, refVars,
                 connectionWentBad, vatttel_counter, timerVars>>

(* Switching on moves every axis but W to its nominal position, and goes on
   with the next axis whatever became of the last. *)
OnMove ==
  /\ pc = "OnMove"
  /\ \E r \in MoveResults : MoveOneAxis(r) /\ corrS' = CorrAfter(r)
  /\ IF axis + 1 < NAxes - 1
       THEN axis' = axis + 1 /\ UNCHANGED pc
       ELSE axis' = 0 /\ pc' = "OnTempEl"
  /\ UNCHANGED <<envVars, corrSV, refSV, vatttel_counter, timerVars>>

(* Mutant of OnTempEl: the counter is left as the call left it. *)
OnTempElCounting ==
  /\ pc = "OnTempEl"
  /\ \E ok \in BOOLEAN :
        /\ TempElAnswers(ok)
        /\ corrS' = IF ok THEN corrS ELSE "OFF"
  /\ corrSV' = "OK"
  /\ CountCall
  /\ pc' = "idle"
  /\ UNCHANGED <<envVars, axis, connVars, switchVars, refVars,
                 connectionWentBad, commerr_count, timerVars>>

(* It ends with GetTempAndEl, a green light whatever has happened, and the
   counter set so that the next tick asks projectsoft. *)
OnTempEl ==
  /\ pc = "OnTempEl"
  /\ \E ok \in BOOLEAN :
        /\ TempElAnswers(ok)
        /\ corrS' = IF ok THEN corrS ELSE "OFF"
  /\ corrSV' = "OK"
  /\ vatttel_counter' = MaxVatttel + 1
  /\ pc' = "idle"
  /\ UNCHANGED <<envVars, axis, connVars, switchVars, refVars,
                 connectionWentBad, commerr_count, timerVars>>

(* ISNewSwitch of "ref", and the steps of ReferenceIfNeeded. *)
ClientRefNoConnection ==
  /\ pc = "idle"
  /\ ID < 0
  /\ refS' = "OFF" /\ refSV' = "IDLE"
  /\ setConnected("OFF", "BUSY")
  /\ UNCHANGED <<envVars, pc, axis, connVars, corrVars, connectionWentBad,
                 countVars, timerVars>>

ClientRef ==
  /\ pc = "idle"
  /\ ID >= 0
  /\ refS' \in ISState /\ refSV' = "BUSY"
  /\ pc' = "RefQuery"
  /\ UNCHANGED <<envVars, axis, connVars, switchVars, corrVars,
                 connectionWentBad, countVars, timerVars>>

RefEnds == pc' = "idle" /\ refSV' = "OK"

RefQuery ==
  /\ pc = "RefQuery"
  /\ \/ RefEnds /\ UNCHANGED <<referenced, referencing>>
     \/ /\ Exchange(TRUE) /\ ~referenced
        /\ referencing' = TRUE
        /\ pc' = "RefWait"
        /\ UNCHANGED <<referenced, refSV>>
  /\ UNCHANGED <<reachable, answer, axis, connVars, switchVars, corrVars,
                 refS, connectionWentBad, countVars, timerVars>>

(* Mutant of RefWait: a call that fails does not end the loop. *)
RefWaitReady ==
  /\ pc = "RefWait"
  /\ Exchange(TRUE) /\ ~referencing
  /\ RefEnds
  /\ UNCHANGED <<envVars, axis, connVars, switchVars, corrVars, refS,
                 connectionWentBad, countVars, timerVars>>

(* The loop ends when the controller is ready again or a call fails. *)
RefWait ==
  /\ pc = "RefWait"
  /\ \E ok \in BOOLEAN : Exchange(ok) /\ (ok => ~referencing)
  /\ RefEnds
  /\ UNCHANGED <<envVars, axis, connVars, switchVars, corrVars, refS,
                 connectionWentBad, countVars, timerVars>>

(* ISNewText of "cmdv": GenericCommand sends the text and, when that
   succeeds, waits until there is an answer. *)
ClientCommand ==
  /\ pc = "idle"
  /\ Exchange(TRUE)
  /\ \E cmd \in Commands : answer' = (cmd = "query")
  /\ pc' = "CmdWait"
  /\ UNCHANGED <<reachable, referenced, referencing, axis, connVars,
                 switchVars, corrVars, refVars, connectionWentBad, countVars,
                 timerVars>>

CmdWait ==
  /\ pc = "CmdWait"
  /\ Exchange(TRUE) /\ answer
  /\ pc' = "idle"
  /\ UNCHANGED <<envVars, axis, connVars, switchVars, corrVars, refVars,
                 connectionWentBad, countVars, timerVars>>

-----------------------------------------------------------------------------
(* TimerHit: the poll                                                      *)

(* Mutant of TimerHitNoConnection: connectionWentBad is not set back. *)
StaysBad(t) ==
  /\ pc = "idle"
  /\ t \in timers
  /\ ID < 0
  /\ \/ UNCHANGED switchVars
     \/ connectionWentBad /\ reachable /\ setConnected("OFF", "BUSY")
  /\ SetTimer(timers \ {t})
  /\ UNCHANGED <<envVars, pc, axis, connVars, corrVars, refVars,
                 connectionWentBad, countVars>>

(* A scan of the network finds the controller only if it is there; it may
   miss it. *)
controllerIsAlive(found) == found => reachable

(* Without a connection: look for a controller whose connection was lost. *)
TimerHitNoConnection(t) ==
  /\ pc = "idle"
  /\ t \in timers
  /\ ID < 0
  /\ \E found \in BOOLEAN :
        /\ controllerIsAlive(found)
        /\ IF connectionWentBad /\ found
             THEN setConnected("OFF", "BUSY") /\ connectionWentBad' = FALSE
             ELSE UNCHANGED <<switchVars, connectionWentBad>>
  /\ SetTimer(timers \ {t})
  /\ UNCHANGED <<envVars, pc, axis, connVars, corrVars, refVars, countVars>>

TimerHit(t) ==
  /\ pc = "idle"
  /\ t \in timers
  /\ ID >= 0
  /\ timers' = timers \ {t}
  /\ setConnected("ON", "OK")
  /\ pc' = "TickPos"
  /\ UNCHANGED <<envVars, axis, connVars, corrVars, refVars,
                 connectionWentBad, countVars, TimerID>>

TickPos ==
  /\ pc = "TickPos"
  /\ \E ok \in BOOLEAN : GetHexPos(ok)
  /\ pc' = "TickReady"
  /\ UNCHANGED <<envVars, axis, connVars, switchVars, corrVars, refVars,
                 connectionWentBad, vatttel_counter, timerVars>>

(* A call that fails counts as not ready. *)
SetReadyState(isReady) == isReady => Exchange(TRUE) /\ ~referencing

TickReady ==
  /\ pc = "TickReady"
  /\ \E isReady \in BOOLEAN :
        /\ SetReadyState(isReady)
        /\ IF isReady THEN refS' = "OFF" /\ UNCHANGED refSV
                      ELSE refSV' = "ALERT" /\ UNCHANGED refS
  /\ pc' = "TickTempEl"
  /\ UNCHANGED <<envVars, axis, connVars, switchVars, corrVars,
                 connectionWentBad, countVars, timerVars>>

(* The autocollimation part of the tick begins with GetTempAndEl.  The axes
   are looked at unless the hexapod is moving, even when that has just
   switched autocollimation off. *)
TickTempEl ==
  /\ pc = "TickTempEl"
  /\ \/ /\ corrS = "OFF"
        /\ corrSV' = "IDLE"
        /\ pc' = "TickError"
        /\ UNCHANGED <<corrS, vatttel_counter>>
     \/ /\ corrS = "ON"
        /\ \E ok \in BOOLEAN :
              /\ TempElAnswers(ok)
              /\ corrS'  = IF ok THEN corrS ELSE "OFF"
              /\ corrSV' = IF ok THEN "OK" ELSE "IDLE"
        /\ CountCall
        /\ pc' \in {"TickCorrect", "TickError"}
  /\ axis' = 0
  /\ UNCHANGED <<envVars, connVars, switchVars, refVars, connectionWentBad,
                 commerr_count, timerVars>>

(* One pass of the axis loop: the axis is where it should be, or it is
   moved, and a move that fails switches autocollimation off. *)
AxisInPlace ==
  UNCHANGED <<connVars, switchVars, corrVars, refS, connectionWentBad,
              commerr_count>>

(* Mutant of MoveAxis: a failed move turns the light off, not the switch. *)
LightOnlyOff ==
  \E r \in MoveResults :
     /\ MoveOneAxis(r)
     /\ corrS' = CorrAfter(r)
     /\ corrSV' = IF r = "moved" THEN corrSV ELSE "IDLE"

MoveAxis ==
  \E r \in MoveResults :
     /\ MoveOneAxis(r)
     /\ IF r = "moved" THEN UNCHANGED corrVars
                       ELSE corrS' = "OFF" /\ corrSV' = "IDLE"

TickCorrect ==
  /\ pc = "TickCorrect"
  /\ AxisInPlace \/ MoveAxis
  /\ IF axis + 1 < NAxes
       THEN axis' = axis + 1 /\ UNCHANGED pc
       ELSE axis' = 0 /\ pc' = "TickError"
  /\ UNCHANGED <<envVars, refSV, vatttel_counter, timerVars>>

(* The end of the tick: give up a connection that has failed too often, and
   set the next timer. *)
TickError ==
  /\ pc = "TickError"
  /\ \/ /\ commerr_count > MaxCommErr
        /\ Disconnect
        /\ setConnected("OFF", "ALERT")
        /\ connectionWentBad' = TRUE
     \/ /\ commerr_count <= MaxCommErr
        /\ UNCHANGED <<connVars, switchVars, corrVars, refVars,
                       connectionWentBad>>
  /\ SetTimer(timers)
  /\ pc' = "idle"
  /\ UNCHANGED <<envVars, axis, countVars>>

-----------------------------------------------------------------------------
(* The controller and the network                                          *)

driverVars == <<pc, axis, ID, switchVars, corrVars, refVars,
                connectionWentBad, countVars, timerVars>>

(* Power or network is lost; without power the reference is lost too. *)
ControllerDown ==
  /\ reachable
  /\ reachable' = FALSE
  /\ pipe' = IF pipe = "alive" THEN "dead" ELSE pipe
  /\ \/ referenced' = FALSE /\ referencing' = FALSE
     \/ UNCHANGED <<referenced, referencing>>
  /\ UNCHANGED <<driverVars, answer>>

ControllerUp ==
  /\ ~reachable
  /\ reachable' = TRUE
  /\ UNCHANGED <<driverVars, pipe, referenced, referencing, answer>>

(* The GCS connection dies while the controller still answers scans. *)
ConnectionDies ==
  /\ pipe = "alive"
  /\ pipe' = "dead"
  /\ UNCHANGED <<driverVars, envVars>>

ReferenceMoveEnds ==
  /\ referencing
  /\ referencing' = FALSE
  /\ referenced' \in BOOLEAN
  /\ UNCHANGED <<driverVars, reachable, pipe, answer>>

-----------------------------------------------------------------------------
Request ==
  \/ ClientConnect \/ ClientDisconnect
  \/ ClientNumber
  \/ ClientCorrectNoConnection \/ ClientCorrectOn \/ ClientCorrectOff
  \/ ClientRefNoConnection \/ ClientRef
  \/ ClientCommand

Poll == \E t \in TimerIds : TimerHitNoConnection(t) \/ TimerHit(t)

(* The next step of the handler that is running. *)
Handler ==
  \/ Connect \/ ConnectIDN \/ ConnectPos \/ ConnectRef
  \/ OnMove \/ OnTempEl
  \/ RefQuery \/ RefWait
  \/ CmdWait
  \/ TickPos \/ TickReady \/ TickTempEl \/ TickCorrect \/ TickError

Environment ==
  \/ ControllerDown \/ ControllerUp \/ ConnectionDies \/ ReferenceMoveEnds

Next == Request \/ Poll \/ Handler \/ Environment

(* A scan finds a controller that is there, sooner or later. *)
Found ==
  /\ \E t \in TimerIds : TimerHitNoConnection(t)
  /\ connectionWentBad /\ ~connectionWentBad'

(* The next step asks projectsoft, whose read has no time limit: it lasts
   until the PLC answers or closes, which nothing obliges it to do. *)
WaitsForPLC ==
  Asks /\ (pc = "OnTempEl" \/ (pc = "TickTempEl" /\ corrS = "ON"))

(* A handler goes on by itself, except that the wait for the end of a
   reference move lasts as long as the move and no call fails, and that
   projectsoft may never return. *)
Progress ==
  /\ Handler
  /\ pc = "RefWait" => ~referencing \/ pipe # "alive"
  /\ ~WaitsForPLC

(* A reference move ends, and the event loop serves a timer that is due
   between two requests, however many there are. *)
Fairness ==
  /\ WF_vars(Progress)
  /\ SF_vars(Poll)
  /\ SF_vars(Found)
  /\ WF_vars(ReferenceMoveEnds)

Safe == Init /\ [][Next]_vars

Spec == Safe /\ Fairness

-----------------------------------------------------------------------------
(* Properties                                                              *)

TypeOK ==
  /\ reachable \in BOOLEAN
  /\ pipe \in {"closed", "alive", "dead"}
  /\ referenced \in BOOLEAN /\ referencing \in BOOLEAN
  /\ answer \in BOOLEAN
  /\ pc \in PCs
  /\ axis \in Axes
  /\ ID \in {-1, 0}
  /\ connS \in ISState /\ connSV \in IPState
  /\ corrS \in ISState /\ corrSV \in IPState
  /\ refS \in ISState  /\ refSV \in IPState
  /\ connectionWentBad \in BOOLEAN
  /\ commerr_count \in 0 .. MaxCommErr + 1
  /\ vatttel_counter \in 0 .. MaxVatttel + 1
  /\ TimerID \in TimerIds \cup {NoTimer}
  /\ timers \subseteq TimerIds

(* Wherever a handler gives up or fails, ID and the connection of the
   library agree: none is left open behind ID = -1, which would make every
   later PI_ConnectTCPIP fail, and no ID outlives its connection. *)
NoLeakedConnection == ID >= 0 <=> pipe # "closed"

(* What the client is shown agrees with what the driver holds, in every
   state but those of Connect itself: the three places that close the
   connection, and the handlers that go on after one of them has, leave no
   green light without a session and no session without the light. *)
ConnectionLight == pc \notin ConnectPCs => (DeviceConnected <=> ID >= 0)

(* Autocollimation does not outlive the session it was switched on in, so
   that it cannot move the mirror of itself after a reconnection. *)
AutocollimationNeedsSession == ID < 0 => corrS = "OFF"

(* Autocollimation is never active without its green light, once the
   request that switched it on has been dealt with. *)
AutocollimationIsShown ==
  corrS = "ON" /\ pc \notin {"OnMove", "OnTempEl"} => corrSV = "OK"

(* There is exactly one poll timer from the first connection or
   disconnection on, and TimerID names it, through every order of polls,
   connections and disconnections: the poll neither doubles nor dies. *)
OnePollTimer ==
  timers = IF pc \in TickPCs \/ TimerID = NoTimer THEN {} ELSE {TimerID}

(* The driver keeps the safety part of the promise of Session. *)
Promise == INSTANCE Session WITH
  line  <- pipe,
  shown <- DeviceConnected,
  auto  <- corrS = "ON"

SessionSafe == Promise!Safe

(* What stops the driver for good: a GCS command that has no answer, or has
   lost its connection, and a PLC that neither answers projectsoft nor
   closes.  The promises about what happens sooner or later hold unless the
   event loop stays in one of them for ever. *)
Stuck ==
  \/ pc = "CmdWait" /\ (pipe # "alive" \/ ~answer)
  \/ WaitsForPLC

(* The driver keeps the rest of the promise of Session, too: a connection
   that has died is not held for ever. *)
SessionLive == Promise!DeadIsDropped \/ <>[]Stuck

(* The event loop always gets control back from its handlers, failures and
   the end of the session halfway included, unless it is stuck. *)
HandlersReturn == []<>(pc = "idle") \/ <>[]Stuck

(* The poll never stops: every timer that is armed is served, or replaced
   by another, whatever the client and the controller do meanwhile, unless
   the event loop is stuck. *)
PollGoesOn ==
  (\A t \in TimerIds : t \in timers ~> t \notin timers) \/ <>[]Stuck

(* After a lost connection the client is told that it can connect again,
   unless it has connected already, the controller is away again, or the
   event loop is stuck. *)
RecoveryAnnounced ==
  \/ connectionWentBad ~> (~connectionWentBad \/ ID >= 0 \/ ~reachable)
  \/ <>[]Stuck

-----------------------------------------------------------------------------
(* What the comments say and the code does not do                          *)

(* ReferenceIfNeeded (232): "Wait until the reference move is done": when
   "ref" has turned green, the struts are not moving for it any more. *)
GreenReferenceIsDone == pc = "idle" /\ refSV = "OK" => ~referencing

(* TimerHit (1172): "Do it again in 1 second": the poll goes on also when
   the client sends commands (and the PLC answers). *)
PollGoesOnWithCommands ==
  (\A t \in TimerIds : t \in timers ~> t \notin timers) \/ <>[]WaitsForPLC

=============================================================================
