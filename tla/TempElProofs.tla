---------------------------- MODULE TempElProofs ----------------------------
(***************************************************************************)
(* Proofs about TempEl, for every MaxVatttel and every set of readings and *)
(* of client values.                                                       *)
(***************************************************************************)
EXTENDS TempEl, TLAPS

IInv == TypeOK /\ TempInBand /\ ReadingsAreFresh

(* The values after a call: the temperature stays in the band.  A call that
   does not ask does not fail. *)
LEMMA CallKeepsValues ==
  ASSUME TypeOK, TempInBand, NEW ok \in BOOLEAN, GetTempAndEl(ok)
  PROVE  /\ temp' \in Int /\ el' \in Int
         /\ TempElN' \in [temp : Int, el : Int]
         /\ TempInBand'
         /\ ~Asks => ok
<1> USE TempElAssumption DEF TypeOK, TempInBand
<1>1. CASE UNCHANGED <<temp, el, TempElN>>
  BY <1>1 DEF GetTempAndEl, Reasonable
<1>2. CASE Asks /\ Answered
  <2>1. PICK t \in Temps, d \in Els : Reading(t, d)
    BY <1>2 DEF Answered
  <2>2. t \in Int /\ Clamped(d) \in Int
    BY DEF Clamped
  <2>3. TempElN.temp \in Int /\ TempElN.el \in Int
    OBVIOUS
  <2>4. temp' \in Int /\ TempInBand'
    BY <2>1, <2>2, <2>3 DEF Reading, UseTemp, Reasonable
  <2>5. mrad(Clamped(d)) \in Int
    BY <2>2 DEF mrad
  <2>6. el' \in Int
    BY <2>1, <2>3, <2>5 DEF Reading, UseEl
  <2>7. TempElN' \in [temp : Int, el : Int]
    BY <2>1, <2>2, <2>3 DEF Reading, Show
  <2> QED
    BY <1>2, <2>4, <2>6, <2>7
<1> QED
  BY <1>1, <1>2 DEF GetTempAndEl

(* The age of the reading in use is a tick count or Stale, and after a call
   that does not ask it is within the counter of the call. *)
LEMMA InitIInv == Init => IInv
BY TempElAssumption DEF Init, IInv, TypeOK, TempInBand, Reasonable,
                        ReadingsAreFresh, Stale

LEMMA StepIInv == IInv /\ [Next]_vars => IInv'
<1> SUFFICES ASSUME IInv, [Next]_vars
             PROVE  IInv'
  OBVIOUS
<1> USE TempElAssumption DEF IInv
<1>1. ASSUME NEW ok \in BOOLEAN, CorrectOn(ok)
      PROVE  IInv'
  <2>1. /\ corrS' \in {"ON", "OFF"}
        /\ temp' \in Int /\ el' \in Int
        /\ TempElN' \in [temp : Int, el : Int]
        /\ TempInBand'
    BY <1>1, CallKeepsValues DEF CorrectOn
  <2>2. vatttel_counter' = MaxVatttel + 1
    BY <1>1 DEF CorrectOn
  <2>3. age' \in 0 .. Stale
    BY <1>1 DEF CorrectOn, Ages, Stale, TypeOK
  <2> QED
    BY <2>1, <2>2, <2>3 DEF TypeOK, ReadingsAreFresh, Asks
<1>2. ASSUME NEW ok \in BOOLEAN, Tick(ok)
      PROVE  IInv'
  <2>1. /\ corrS' \in {"ON", "OFF"}
        /\ temp' \in Int /\ el' \in Int
        /\ TempElN' \in [temp : Int, el : Int]
        /\ TempInBand'
        /\ ~Asks => corrS' = "ON"
    BY <1>2, CallKeepsValues DEF Tick
  <2>2. CASE Asks
    <3>1. vatttel_counter' = 0
      BY <1>2, <2>2 DEF Tick, CountCall
    <3>2. corrS' = "ON" => age' = 0
      BY <1>2, <2>2 DEF Tick, Ages
    <3>3. corrS' = "OFF" => age' = Stale
      BY <1>2 DEF Tick, Ages
    <3> QED
      BY <2>1, <3>1, <3>2, <3>3 DEF TypeOK, ReadingsAreFresh, Stale
  <2>3. CASE ~Asks
    <3>1. vatttel_counter' = vatttel_counter + 1
      BY <1>2, <2>3 DEF Tick, CountCall
    <3>2. age' = age + 1
      BY <1>2, <2>1, <2>3 DEF Tick, Ages
    <3>3. age <= vatttel_counter /\ vatttel_counter <= MaxVatttel
      BY <1>2, <2>3 DEF Tick, ReadingsAreFresh, Asks, TypeOK
    <3> QED
      BY <2>1, <3>1, <3>2, <3>3 DEF TypeOK, ReadingsAreFresh, Stale
  <2> QED
    BY <2>2, <2>3
<1>3. CASE CorrectOff
  BY <1>3 DEF CorrectOff, Ages, TypeOK, TempInBand, Reasonable,
              ReadingsAreFresh, Stale
<1>4. CASE NewNumber
  BY <1>4 DEF NewNumber, TypeOK, TempInBand, Reasonable,
              ReadingsAreFresh, Asks, Stale
<1>5. CASE UNCHANGED vars
  BY <1>5 DEF vars, TypeOK, TempInBand, Reasonable, ReadingsAreFresh, Asks,
              Stale
<1> QED
  BY <1>1, <1>2, <1>3, <1>4, <1>5 DEF Next

(* The invariant of every behaviour of GetTempAndEl and its callers. *)
THEOREM Invariance == Spec => []IInv
BY InitIInv, StepIInv, PTL DEF Spec

(* The corrections are computed with a temperature between -30 and 30,
   whatever projectsoft reports and the client writes. *)
THEOREM TemperatureInBand == Spec => []TempInBand
BY Invariance, PTL DEF IInv

(* A tick that does not ask projectsoft finds a reading of this period of
   autocollimation, as old as the counter says at most. *)
THEOREM FreshReadings == Spec => []ReadingsAreFresh
BY Invariance, PTL DEF IInv

=============================================================================
