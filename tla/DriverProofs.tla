---------------------------- MODULE DriverProofs ----------------------------
(***************************************************************************)
(* Theorems about Driver: the control keeps what is proved of Secondary,   *)
(* and handlers that fail halfway keep to TempEl, so that what is proved   *)
(* of TempEl holds of the driver.  For any number of axes, any limits and  *)
(* any values.                                                             *)
(***************************************************************************)
EXTENDS Driver, SecondaryProofs

ValuesP == INSTANCE TempElProofs WITH
  corrS <- IF pc \in {"OnMove", "OnTempEl"} THEN "OFF" ELSE corrS

LEMMA ValuesAssumption == ValuesP!TempElAssumption
BY DriverAssumption, SecondaryAssumption DEF ValuesP!TempElAssumption

(* Autocollimation as TempEl has it. *)
Correcting == IF pc \in {"OnMove", "OnTempEl"} THEN "OFF" ELSE corrS

(* While it is off there is no period, and so no reading of it. *)
NoPeriod == Correcting = "OFF" => age = Values!Stale

(* The count of the code is never ahead of the failures there were. *)
Patience == failed \in 0 .. TooMany /\ commerr_count <= failed

DInv == IInv /\ ValuesP!IInv /\ NoPeriod /\ Patience

-----------------------------------------------------------------------------
(* The control *)

LEMMA ControlStep == [DriverNext]_driverAndValues => [Next]_vars
<1>1. Calls => Next
  BY DEF Calls, Next, Handler
<1> QED
  BY <1>1
  DEF DriverNext, driverAndValues, CallsGetTempAndEl, CallsNothing, ClientTemp

(* What is shown of Secondary holds of the driver. *)
THEOREM ControlIsSafe == DriverSpec => Safe
<1>1. DriverInit => Init
  BY DEF DriverInit
<1> QED
  BY <1>1, ControlStep, PTL DEF DriverSpec, Safe

-----------------------------------------------------------------------------
(* Elevation and temperature *)

(* A step that does not call GetTempAndEl leaves its counter alone and does
   not switch autocollimation on, as TempEl has it. *)
LEMMA OtherStep ==
  ASSUME IInv, Next, ~Calls
  PROVE  /\ vatttel_counter' = vatttel_counter
         /\ Correcting' \in {Correcting, "OFF"}
         /\ pc' = "OnTempEl" => pc \in {"OnMove", "OnTempEl"}
<1> USE DEF IInv, TypeOK, ISState, Correcting, countVars, corrVars, CorrAfter
<1>1. CASE ClientConnect \/ ClientDisconnect \/ ClientNumber
  BY <1>1 DEF ClientConnect, ClientDisconnect, ClientNumber, Disconnect
<1>2. CASE ClientCorrectNoConnection \/ ClientCorrectOn \/ ClientCorrectOff
  BY <1>2 DEF ClientCorrectNoConnection, ClientCorrectOn, ClientCorrectOff
<1>3. CASE ClientRefNoConnection \/ ClientRef \/ ClientCommand
  BY <1>3 DEF ClientRefNoConnection, ClientRef, ClientCommand
<1>4. ASSUME NEW t \in TimerIds, TimerHitNoConnection(t) \/ TimerHit(t)
      PROVE  /\ vatttel_counter' = vatttel_counter
             /\ Correcting' \in {Correcting, "OFF"}
             /\ pc' = "OnTempEl" => pc \in {"OnMove", "OnTempEl"}
  BY <1>4 DEF TimerHitNoConnection, TimerHit
<1>5. CASE Connect \/ ConnectIDN \/ ConnectPos \/ ConnectRef
  BY <1>5 DEF Connect, ConnectIDN, ConnectFails, ConnectPos, ConnectRef
<1>6. CASE OnMove
  BY <1>6 DEF OnMove
<1>7. CASE RefQuery \/ RefWait \/ CmdWait
  BY <1>7 DEF RefQuery, RefWait, RefEnds, CmdWait
<1>8. CASE TickPos \/ TickReady \/ TickError
  BY <1>8 DEF TickPos, TickReady, TickError, Disconnect
<1>9. CASE TickTempEl
  BY <1>9 DEF TickTempEl, Calls
<1>10. CASE TickCorrect
  BY <1>10 DEF TickCorrect, AxisInPlace, MoveAxis
<1>11. CASE Environment
  BY <1>11 DEF Environment, ControllerDown, ControllerUp, ConnectionDies,
               ReferenceMoveEnds, driverVars
<1>12. ~OnTempEl
  BY DEF Calls
<1> QED
  BY <1>1, <1>2, <1>3, <1>4, <1>5, <1>6, <1>7, <1>8, <1>9, <1>10, <1>11,
     <1>12
  DEF Next, Request, Poll, Handler

(* Any such step is, to TempEl, the end of autocollimation or no step. *)
LEMMA OtherValuesStep ==
  ASSUME IInv, NoPeriod, CallsNothing
  PROVE  [Values!Next]_(Values!vars) /\ NoPeriod'
<1>1. /\ vatttel_counter' = vatttel_counter
      /\ Correcting' \in {Correcting, "OFF"}
      /\ pc' = "OnTempEl" => pc \in {"OnMove", "OnTempEl"}
  BY OtherStep DEF CallsNothing
<1>2. /\ UNCHANGED <<temp, el, TempElN>>
      /\ age' = IF corrS' = "OFF" \/ pc' = "OnMove" THEN Values!Stale ELSE age
  BY DEF CallsNothing
<1>3. CASE Correcting' = Correcting
  <2>1. age' = age /\ NoPeriod'
    BY <1>1, <1>2, <1>3 DEF Correcting, NoPeriod, Values!Stale
  <2> QED
    BY <1>1, <1>2, <1>3, <2>1 DEF Correcting, Values!vars
<1>4. CASE Correcting' # Correcting
  <2>1. Correcting = "ON" /\ Correcting' = "OFF"
    BY <1>1, <1>4 DEF Correcting, IInv, TypeOK, ISState
  <2>2. age' = Values!Stale
    BY <1>1, <1>2, <2>1 DEF Correcting
  <2>3. Values!CorrectOff
    BY <1>1, <1>2, <2>1, <2>2 DEF Correcting, Values!CorrectOff, Values!Ages
  <2> QED
    BY <2>2, <2>3 DEF Values!Next, NoPeriod, Values!Stale
<1> QED
  BY <1>3, <1>4

(* The calls are those of TempEl's request and tick. *)
LEMMA CallValuesStep ==
  ASSUME IInv, CallsGetTempAndEl
  PROVE  [Values!Next]_(Values!vars) /\ NoPeriod'
<1>1. PICK ok \in BOOLEAN :
        /\ Values!GetTempAndEl(ok)
        /\ corrS' = IF ok THEN corrS ELSE "OFF"
  BY DEF CallsGetTempAndEl
<1>2. corrS \in {"ON", "OFF"}
  BY DEF IInv, TypeOK, ISState
<1>3. CASE OnTempEl
  <2>1. /\ pc = "OnTempEl" /\ pc' = "idle"
        /\ vatttel_counter' = MaxVatttel + 1
    BY <1>3 DEF OnTempEl
  <2>2. Values!Ages(age) /\ Correcting' = corrS'
    BY <2>1 DEF CallsGetTempAndEl, Correcting
  <2>3. Values!CorrectOn(ok)
    BY <1>1, <1>2, <2>1, <2>2 DEF Values!CorrectOn, Correcting
  <2> QED
    BY <2>2, <2>3 DEF Values!Next, NoPeriod, Values!Ages, Correcting, Values!Stale
<1>4. CASE TickTempEl /\ corrS = "ON"
  <2>1. /\ pc = "TickTempEl" /\ pc' \in {"TickCorrect", "TickError"}
        /\ vatttel_counter' = IF Asks THEN 0 ELSE vatttel_counter + 1
    BY <1>4 DEF TickTempEl, CountCall
  <2>2. Values!Ages(age + 1) /\ Correcting' = corrS' /\ Correcting = "ON"
    BY <1>4, <2>1 DEF CallsGetTempAndEl, Correcting
  <2>3. Values!CountCall
    BY <2>1 DEF Values!CountCall, Values!Asks, Asks
  <2>4. Values!Tick(ok)
    BY <1>1, <1>4, <2>2, <2>3 DEF Values!Tick, Correcting
  <2> QED
    BY <2>2, <2>4 DEF Values!Next, NoPeriod, Values!Ages, Correcting, Values!Stale
<1> QED
  BY <1>3, <1>4 DEF CallsGetTempAndEl, Calls

LEMMA ValuesStep ==
  IInv /\ NoPeriod /\ [DriverNext]_driverAndValues
    => [Values!Next]_(Values!vars) /\ NoPeriod'
<1> SUFFICES ASSUME IInv, NoPeriod, [DriverNext]_driverAndValues
             PROVE  [Values!Next]_(Values!vars) /\ NoPeriod'
  OBVIOUS
<1>1. CASE ClientTemp
  <2>1. Values!NewNumber /\ UNCHANGED <<pc, corrS, age>>
    BY <1>1 DEF ClientTemp, Values!NewNumber, vars, corrVars
  <2> QED
    BY <2>1 DEF Values!Next, NoPeriod, Correcting, Values!Stale
<1>2. CASE UNCHANGED driverAndValues
  BY <1>2
  DEF driverAndValues, valueVars, vars, corrVars, countVars, Values!vars,
      NoPeriod, Correcting, Values!Stale
<1> QED
  BY <1>1, <1>2, OtherValuesStep, CallValuesStep DEF DriverNext
-----------------------------------------------------------------------------
(* Failed reads *)

(* A step other than those that read clears the count or leaves it. *)
LEMMA OtherCount ==
  ASSUME IInv, Next, ~(ConnectPos \/ TickPos \/ ClientCorrectOff \/ ConnectRef)
  PROVE  commerr_count' \in {commerr_count, 0}
<1> USE DEF countVars, MoveOneAxis, LoseConnection
<1>1. CASE Request
  BY <1>1
  DEF Request, ClientConnect, ClientDisconnect, ClientNumber,
      ClientCorrectNoConnection, ClientCorrectOn, ClientRefNoConnection,
      ClientRef, ClientCommand
<1>2. CASE Poll
  BY <1>2 DEF Poll, TimerHitNoConnection, TimerHit
<1>3. CASE Connect \/ ConnectIDN \/ OnMove \/ OnTempEl \/ RefQuery \/ RefWait
             \/ CmdWait
  BY <1>3 DEF Connect, ConnectIDN, OnMove, OnTempEl, RefQuery, RefWait, CmdWait
<1>4. CASE TickReady \/ TickTempEl \/ TickCorrect \/ TickError
  BY <1>4 DEF TickReady, TickTempEl, TickCorrect, TickError, AxisInPlace,
              MoveAxis
<1>5. CASE Environment
  BY <1>5 DEF Environment, ControllerDown, ControllerUp, ConnectionDies,
              ReferenceMoveEnds, driverVars
<1> QED
  BY <1>1, <1>2, <1>3, <1>4, <1>5 DEF Next, Handler

LEMMA PatienceStep ==
  IInv /\ IInv' /\ Patience /\ [DriverNext]_driverAndValues => Patience'
<1> SUFFICES ASSUME IInv, IInv', Patience, [DriverNext]_driverAndValues
             PROVE  Patience'
  OBVIOUS
<1> USE SecondaryAssumption DEF Patience, TooMany, OneMore
<1>0. /\ commerr_count \in 0 .. MaxCommErr + 1
      /\ commerr_count' \in 0 .. MaxCommErr + 1
  BY DEF IInv, TypeOK
<1>1. CASE CallsGetTempAndEl
  <2>1. UNCHANGED <<failed, commerr_count>>
    BY <1>1 DEF CallsGetTempAndEl, Calls, OnTempEl, TickTempEl
  <2> QED
    BY <2>1
<1>2. CASE CallsNothing
  <2>1. ASSUME ConnectPos \/ TickPos \/ ClientCorrectOff,
               NEW ok \in BOOLEAN, GetHexPos(ok),
               failed' = IF ok THEN 0 ELSE OneMore
        PROVE  Patience'
    BY <1>0, <2>1 DEF GetHexPos, CountError
  <2>2. CASE /\ ConnectRef
             /\ failed' = IF isReferenced("failed") THEN OneMore ELSE failed
    <3>1. commerr_count' = commerr_count \/ isReferenced("failed")
      BY <2>2 DEF ConnectRef, isReferenced
    <3> QED
      BY <1>0, <2>2, <3>1 DEF isReferenced, CountError
  <2>3. CASE /\ ~(ConnectPos \/ TickPos \/ ClientCorrectOff \/ ConnectRef)
             /\ UNCHANGED failed
    <3>1. commerr_count' \in {commerr_count, 0}
      BY <1>2, <2>3, OtherCount DEF CallsNothing
    <3> QED
      BY <1>0, <2>3, <3>1
  <2> QED
    BY <1>2, <2>1, <2>2, <2>3 DEF CallsNothing, CountsFailures
<1>3. CASE ClientTemp \/ UNCHANGED driverAndValues
  <2>1. UNCHANGED <<failed, commerr_count>>
    BY <1>3 DEF ClientTemp, driverAndValues, valueVars, vars, countVars
  <2> QED
    BY <2>1
<1> QED
  BY <1>1, <1>2, <1>3 DEF DriverNext

-----------------------------------------------------------------------------
(* The theorems *)

LEMMA DriverInvariance == DriverSpec => []DInv
<1>1. DriverInit => NoPeriod /\ Patience /\ ValuesP!Init
  BY SecondaryAssumption
  DEF DriverInit, Init, NoPeriod, Patience, TooMany, Correcting, Values!Init,
      Values!Stale, ValuesP!Init, ValuesP!Stale
<1>2. DriverInit => ValuesP!IInv
  BY <1>1, ValuesAssumption, ValuesP!InitIInv
<1>3. [Values!Next]_(Values!vars) => [ValuesP!Next]_(ValuesP!vars)
  BY DEF Values!Next, ValuesP!Next, Values!vars, ValuesP!vars,
         Values!CorrectOn, ValuesP!CorrectOn, Values!Tick, ValuesP!Tick,
         Values!CorrectOff, ValuesP!CorrectOff, Values!NewNumber,
         ValuesP!NewNumber, Values!GetTempAndEl, ValuesP!GetTempAndEl,
         Values!Answered, ValuesP!Answered, Values!Reading, ValuesP!Reading,
         Values!UseTemp, ValuesP!UseTemp, Values!UseEl, ValuesP!UseEl,
         Values!Show, ValuesP!Show, Values!Reasonable, ValuesP!Reasonable,
         Values!ReasonableEl, ValuesP!ReasonableEl, Values!Clamped,
         ValuesP!Clamped, Values!mrad, ValuesP!mrad, Values!Ages,
         ValuesP!Ages, Values!Asks, ValuesP!Asks, Values!Stale,
         ValuesP!Stale, Values!CountCall, ValuesP!CountCall
<1>4. ValuesP!IInv /\ [ValuesP!Next]_(ValuesP!vars) => ValuesP!IInv'
  BY ValuesAssumption, ValuesP!StepIInv
<1> QED
  BY <1>1, <1>2, <1>3, <1>4, Invariance, ControlIsSafe, ValuesStep,
     PatienceStep, PTL
  DEF DriverSpec, DInv

(* Switching on, moves that fail or lose the connection halfway, the end of a
   session in the middle of a tick: whatever the handlers do to elevation and
   temperature is what TempEl says. *)
THEOREM HandlersKeepToTempEl == DriverSpec => ImplementsTempEl
<1>1. DriverInit => Values!Init
  BY DEF DriverInit
<1>2. DInv => IInv /\ NoPeriod
  BY DEF DInv
<1> QED
  BY <1>1, <1>2, DriverInvariance, ValuesStep, PTL
  DEF DriverSpec, ImplementsTempEl, Values!Spec

(* No tick of the driver corrects with a reading from before autocollimation
   was last switched on, or an older one than the counter allows. *)
THEOREM DriverReadingsAreFresh == DriverSpec => []ReadingsAreFresh
<1>1. DInv => ReadingsAreFresh
  BY DEF DInv, ValuesP!IInv, ValuesP!ReadingsAreFresh, ReadingsAreFresh,
         Values!ReadingsAreFresh, Values!Asks, ValuesP!Asks
<1> QED
  BY <1>1, DriverInvariance, PTL

(* A session is given up for errors only after more than MaxCommErr reads
   that failed one after the other, in it or in the sessions before it; a read
   that succeeds clears whatever those have left behind. *)
THEOREM SessionsArePatient == DriverSpec => PatientWithErrors
<1>1. DInv /\ [DriverNext]_driverAndValues =>
        [TickError /\ ID >= 0 /\ ID' < 0 => failed = TooMany]_driverAndValues
  <2> SUFFICES ASSUME DInv, TickError, ID >= 0, ID' < 0
               PROVE  failed = TooMany
    OBVIOUS
  <2>1. ID \in {-1, 0} /\ ID' # ID
    BY DEF DInv, IInv, TypeOK
  <2>2. commerr_count > MaxCommErr
    BY <2>1 DEF TickError, connVars
  <2> QED
    BY <2>2, SecondaryAssumption
    DEF DInv, IInv, TypeOK, Patience, TooMany
<1> QED
  BY <1>1, DriverInvariance, PTL DEF DriverSpec, PatientWithErrors
=============================================================================
