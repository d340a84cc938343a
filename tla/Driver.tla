------------------------------- MODULE Driver -------------------------------
(***************************************************************************)
(* The driver's control with its elevation and temperature: the steps of   *)
(* Secondary, and at each call of GetTempAndEl what TempEl says it does to *)
(* the values.  TempEl takes a request and a tick for one step each; here  *)
(* a request moves axis after axis first, a move may fail or lose the      *)
(* connection and switch autocollimation off again, and the call is made   *)
(* all the same.                                                           *)
(***************************************************************************)
EXTENDS Secondary

CONSTANTS Temps, Els, UserTemps, UserEls  \* as in TempEl

ASSUME DriverAssumption ==
  /\ Temps \subseteq Int /\ UserTemps \subseteq Int
  /\ Els \subseteq Int /\ UserEls \subseteq Int

VARIABLES
  temp, el, TempElN, age,  \* as in TempEl
  failed    \* for the properties: the reads that failed since the last good
            \* one, of this session or of those before it, up to TooMany

valueVars == <<temp, el, TempElN, age, failed>>
driverAndValues == <<vars, valueVars>>

(* Autocollimation as TempEl has it: on when the request is done. *)
Values == INSTANCE TempEl WITH
  corrS <- IF pc \in {"OnMove", "OnTempEl"} THEN "OFF" ELSE corrS

TooMany == MaxCommErr + 1

(* What the step does to the count of failed reads. *)
OneMore == IF failed = TooMany THEN failed ELSE failed + 1

CountsFailures ==
  \/ /\ ConnectPos \/ TickPos \/ ClientCorrectOff
     /\ \E ok \in BOOLEAN : GetHexPos(ok) /\ failed' = IF ok THEN 0 ELSE OneMore
  \/ /\ ConnectRef
     /\ failed' = IF isReferenced("failed") THEN OneMore ELSE failed
  \/ /\ ~(ConnectPos \/ TickPos \/ ClientCorrectOff \/ ConnectRef)
     /\ UNCHANGED failed

DriverInit == Init /\ Values!Init /\ failed = 0

(* The steps that call GetTempAndEl. *)
Calls == OnTempEl \/ (TickTempEl /\ corrS = "ON")

CallsGetTempAndEl ==
  /\ Calls
  /\ \E ok \in BOOLEAN :
       /\ Values!GetTempAndEl(ok)
       /\ corrS' = IF ok THEN corrS ELSE "OFF"
  /\ Values!Ages(IF pc = "OnTempEl" THEN age ELSE age + 1)
  /\ UNCHANGED failed

(* Every other step, which leaves the values alone, and the period of a
   reading ends with autocollimation. *)
CallsNothing ==
  /\ Next /\ ~Calls
  /\ age' = IF corrS' = "OFF" \/ pc' = "OnMove" THEN Values!Stale ELSE age
  /\ CountsFailures
  /\ UNCHANGED <<temp, el, TempElN>>

(* The client writes the "temp" property. *)
ClientTemp == pc = "idle" /\ UNCHANGED <<vars, failed>> /\ Values!NewNumber

DriverNext == CallsGetTempAndEl \/ CallsNothing \/ ClientTemp

DriverSpec == DriverInit /\ [][DriverNext]_driverAndValues

(* What is fair about the control is so with its values, too. *)
FairDriverSpec == DriverSpec /\ Fairness

-----------------------------------------------------------------------------
(* Properties *)

(* The tick that corrects finds a reading of the present period, of at most
   MaxVatttel + 1 ticks ago, wherever in a handler autocollimation was
   switched off and on meanwhile. *)
ReadingsAreFresh == Values!ReadingsAreFresh

(* A connection is given up for errors only after more than MaxCommErr reads
   in a row have failed, with no good one among them.  The code does not set
   commerr_count back when a session ends, so the row may have begun in an
   earlier session, and a session whose first reads fail may be given up after
   fewer of its own; one good read, and only its own count. *)
PatientWithErrors ==
  [][TickError /\ ID >= 0 /\ ID' < 0 => failed = TooMany]_driverAndValues

(* Handlers, with their failures halfway, keep to what TempEl says of them:
   what is shown and proved of TempEl holds of the driver. *)
ImplementsTempEl == Values!Spec
=============================================================================
