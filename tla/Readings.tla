------------------------------ MODULE Readings ------------------------------
(***************************************************************************)
(* GetTempAndEl and the call of projectsoft it makes, together: TempEl     *)
(* with its readings taken out of runs of ProjectSoft, blocking call by    *)
(* blocking call.  Until the call returns the driver does nothing else.    *)
(***************************************************************************)
EXTENDS TempEl, ProjectSoft

VARIABLES
  caller,  \* what has called GetTempAndEl: "on", "tick", or "none"
  plc      \* what the telescope has to report to this call

readingVars == <<vars, caller, plc, psVars>>

NoReport == [tstrut |-> 0, el |-> 0]

ReadingsInit ==
  /\ Init /\ PSInit
  /\ caller = "none" /\ plc = NoReport

(* A call that only counts. *)
Count ==
  /\ caller = "none" /\ ~Asks
  /\ CorrectOn(TRUE) \/ Tick(TRUE)
  /\ UNCHANGED <<caller, plc, psVars>>

(* A call that asks: the thread enters projectsoft_el_strut. *)
Ask ==
  /\ caller = "none" /\ Asks
  /\ caller' \in IF corrS = "ON" THEN {"on", "tick"} ELSE {"on"}
  /\ plc' \in [tstrut : Temps, el : Els]
  /\ Call
  /\ UNCHANGED vars

Wait ==
  /\ Driver \/ PLC
  /\ UNCHANGED <<vars, caller, plc>>

(* What the call hands out: a field of the answer is what the telescope
   reports, any other piece of text may be any number. *)
el_out    == IF ret.el = "el" THEN {plc.el} ELSE Els
strut_out == IF ret.tstrut = <<"t1", "t2">> THEN {plc.tstrut} ELSE Temps

(* projectsoft_el_strut is back, and its caller uses what it says. *)
Return ==
  /\ caller # "none" /\ pc = "idle"
  /\ ret.ok => \E t \in strut_out, d \in el_out : Reading(t, d)
  /\ IF caller = "on" THEN CorrectOn(ret.ok) ELSE Tick(ret.ok)
  /\ caller' = "none" /\ plc' = NoReport
  /\ azel' = <<>> /\ temps' = <<>> /\ fazel' = <<>> /\ ftemps' = <<>>
  /\ ret' = Error
  /\ UNCHANGED <<pc, fds, refused, plcVars>>

Others ==
  /\ caller = "none"
  /\ CorrectOff \/ NewNumber
  /\ UNCHANGED <<caller, plc, psVars>>

ReadingsNext == Count \/ Ask \/ Wait \/ Return \/ Others

ReadingsSpec == ReadingsInit /\ [][ReadingsNext]_readingVars

-----------------------------------------------------------------------------
(* Properties *)

(* Every variable stays in its set. *)
ReadingsTypeOK ==
  /\ TypeOK /\ PSTypeOK
  /\ caller \in {"on", "tick", "none"}
  /\ plc \in [tstrut : Int, el : Int]

(* Through every cut of the stream, the parser, the unit of the angle and
   the checks of the values: what a successful call leaves in the driver is
   what the telescope reported to that call and to no earlier one, wherever
   that can be true.  A refusal of two words passes for elevation and azimuth:
   of the elevation it is said only where the PLC has given it. *)
ReadingIsTrue ==
  [][Return /\ ret.ok =>
       /\ Reasonable(plc.tstrut) => temp' = plc.tstrut
       /\ LET d == Clamped(plc.el)
          IN  GaveElevation /\ ReasonableEl(d) =>
                (180 * el') \div 3142 \in {d - 1, d}
    ]_readingVars

=============================================================================
