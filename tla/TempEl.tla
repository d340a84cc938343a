------------------------------- MODULE TempEl -------------------------------
(***************************************************************************)
(* The elevation and the strut temperature that autocollimation corrects   *)
(* for: GetTempAndEl (vatt_secondary.cpp), what projectsoft can answer     *)
(* (projectsoft.c), and the "temp" property, through which the client sees *)
(* the two values and may set them.                                        *)
(*                                                                         *)
(* Temperatures are in degrees C.  The elevation el is in milliradians, as *)
(* cos(el) wants it; what the telescope reports and the client sees and    *)
(* sets is in degrees.                                                     *)
(***************************************************************************)
EXTENDS Integers

CONSTANTS
  MaxVatttel,  \* MAX_VATTTEL_CNT
  Temps,       \* strut temperatures projectsoft reports
  Els,         \* elevations projectsoft reports, in degrees
  UserTemps, UserEls   \* what a client writes into the "temp" property

ASSUME TempElAssumption ==
  /\ MaxVatttel \in Nat
  /\ Temps \subseteq Int /\ UserTemps \subseteq Int
  /\ Els \subseteq Int /\ UserEls \subseteq Int

VARIABLES
  corrS,            \* autocollimation
  vatttel_counter,
  temp, el,         \* what the corrections are computed with
  TempElN,          \* the "temp" property: strut temperature, elevation
  age               \* ticks since the last reading, for the properties: the
                    \* driver keeps no such count

vars == <<corrS, vatttel_counter, temp, el, TempElN, age>>

Reasonable(t) == -30 < t /\ t < 30

(* Degrees to milliradians, and back into degrees for the client. *)
mrad(d) == (d * 3142) \div 180

(* An elevation above 90 is taken for 89.9999. *)
Clamped(d) == IF d > 90 THEN 90 ELSE d

(* dummy_el > 0 /\ dummy_el < pi/2 + 0.1 degrees, after the clamp. *)
ReasonableEl(d) == 0 < mrad(d) /\ mrad(d) < 1573

Asks == vatttel_counter > MaxVatttel

(* A reading from before autocollimation was last switched on is stale,
   however long ago that was. *)
Stale == MaxVatttel + 2

Ages(later) ==
  age' = IF corrS' = "OFF" THEN Stale ELSE IF Asks THEN 0 ELSE later

-----------------------------------------------------------------------------
Init ==
  /\ corrS = "OFF"
  /\ vatttel_counter = 0
  /\ temp = 20 /\ el = 785
  /\ TempElN = [temp |-> 0, el |-> 0]
  /\ age = Stale

(* Mutant of UseTemp: what the client wrote is used unchecked. *)
UseTempUnchecked(t) == temp' = IF Reasonable(t) THEN t ELSE TempElN.temp

(* A good temperature is used and shown; in place of a bad one the value of
   the property is used, if that is good. *)
UseTemp(t) ==
  IF Reasonable(t)
    THEN temp' = t
    ELSE temp' = IF Reasonable(TempElN.temp) THEN TempElN.temp ELSE temp

(* A good elevation is used and shown; in place of a bad one the number in
   the property is used as it is, degrees for radians. *)
UseEl(d) == el' = IF ReasonableEl(d) THEN mrad(d) ELSE TempElN.el * 1000

Show(t, d) ==
  TempElN' = [temp |-> IF Reasonable(t) THEN t ELSE TempElN.temp,
              el   |-> IF ReasonableEl(d) THEN d ELSE TempElN.el]

(* A reading of the strut temperature t and the elevation d. *)
Reading(t, d) == UseTemp(t) /\ UseEl(Clamped(d)) /\ Show(t, Clamped(d))

(* projectsoft_el_strut answers, or fails: it cannot connect, or an answer
   has too few numbers. *)
Answered == \E t \in Temps, d \in Els : Reading(t, d)

(* Most calls only count; the others ask projectsoft, and only those can
   fail.  The values are as good with autocollimation off as on. *)
GetTempAndEl(ok) ==
  /\ ok \/ Asks
  /\ IF ok /\ Asks THEN Answered ELSE UNCHANGED <<temp, el, TempElN>>

(* Mutant of CountCall: the counter is not set back. *)
CountOn == vatttel_counter' = vatttel_counter + 1

(* The counter of calls is set back by the one that asks. *)
CountCall == vatttel_counter' = IF Asks THEN 0 ELSE vatttel_counter + 1

(* Mutant of CorrectOn: the counter is left as the call left it. *)
CorrectOnCounting(ok) ==
  /\ GetTempAndEl(ok)
  /\ corrS' \in IF ok THEN {"ON", "OFF"} ELSE {"OFF"}
  /\ CountCall
  /\ Ages(age)

(* Autocollimation is switched on, which moves the hexapod first: the move
   may have lost the connection, and with it autocollimation, and the call
   is made all the same.  The next tick is to ask again. *)
CorrectOn(ok) ==
  /\ GetTempAndEl(ok)
  /\ corrS' \in IF ok THEN {"ON", "OFF"} ELSE {"OFF"}
  /\ vatttel_counter' = MaxVatttel + 1
  /\ Ages(age)

(* It is switched off, by the client or with the connection. *)
CorrectOff ==
  /\ corrS = "ON"
  /\ corrS' = "OFF"
  /\ Ages(age)
  /\ UNCHANGED <<vatttel_counter, temp, el, TempElN>>

(* A tick of autocollimation; a call that fails switches it off. *)
Tick(ok) ==
  /\ corrS = "ON"
  /\ GetTempAndEl(ok)
  /\ corrS' = IF ok THEN "ON" ELSE "OFF"
  /\ CountCall
  /\ Ages(age + 1)

(* The client writes the "temp" property; nothing is checked. *)
NewNumber ==
  /\ \E t \in UserTemps, d \in UserEls : TempElN' = [temp |-> t, el |-> d]
  /\ UNCHANGED <<corrS, vatttel_counter, temp, el, age>>

Next ==
  \/ \E ok \in BOOLEAN : CorrectOn(ok) \/ Tick(ok)
  \/ CorrectOff
  \/ NewNumber

Spec == Init /\ [][Next]_vars

-----------------------------------------------------------------------------
(* Properties                                                              *)

TypeOK ==
  /\ corrS \in {"ON", "OFF"}
  /\ vatttel_counter \in 0 .. MaxVatttel + 1
  /\ temp \in Int /\ el \in Int
  /\ TempElN \in [temp : Int, el : Int]
  /\ age \in 0 .. Stale

(* Whatever projectsoft reports and the client writes, in whatever order,
   no correction is computed with a temperature outside the band. *)
TempInBand == Reasonable(temp)

(* However often autocollimation is switched on and off, by the client or by
   a failure, a tick corrects with a reading of that period of at most
   MaxVatttel + 1 ticks ago: a tick that does not ask finds one. *)
ReadingsAreFresh == corrS = "ON" /\ ~Asks => age <= vatttel_counter

-----------------------------------------------------------------------------
(* What the comments say and the code does not do                          *)

(* GetTempAndEl (1526): "read the old value or the user input": the
   elevation used is one the telescope can have. *)
ElIsAnElevation == 0 <= el /\ el < 1573

=============================================================================
