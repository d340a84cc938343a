--------------------------- MODULE ReadingsProofs ---------------------------
(***************************************************************************)
(* Theorems about Readings: asking projectsoft keeps the promises of       *)
(* TempEl, the exchange keeps its own inside the driver, and what is read  *)
(* is what the telescope reports.                                          *)
(***************************************************************************)
EXTENDS Readings, TempElProofs, ProjectSoftProofs

(* The exchange, and what the telescope has to report to the call under way. *)
ExchangeInv ==
  /\ SocketInv
  /\ StreamInv
  /\ PSTypeOK
  /\ caller \in {"on", "tick", "none"}
  /\ plc \in [tstrut : Int, el : Int]

LEMMA ExchangeInit == ReadingsInit => ExchangeInv
<1> SUFFICES ASSUME ReadingsInit PROVE ExchangeInv
  OBVIOUS
<1>1. PSInit /\ plc = NoReport /\ caller = "none"
  BY DEF ReadingsInit
<1>2. SocketInv /\ StreamInv /\ PSTypeOK
  BY <1>1, SocketInit, StreamInit, TypesInit
<1> QED
  BY <1>1, <1>2 DEF ExchangeInv, NoReport

(* The call's steps are those of the exchange alone; when its caller goes on,
   the buffers and the result are given up between two calls. *)
LEMMA ExchangeStep == ExchangeInv /\ [ReadingsNext]_readingVars => ExchangeInv'
<1> SUFFICES ASSUME ExchangeInv, [ReadingsNext]_readingVars PROVE ExchangeInv'
  OBVIOUS
<1>1. ASSUME [PSNext]_psVars PROVE SocketInv' /\ StreamInv' /\ PSTypeOK'
  BY <1>1, SocketStep, StreamStep, TypesStep DEF ExchangeInv
<1>2. CASE Count \/ Others \/ UNCHANGED readingVars
  BY <1>1, <1>2 DEF Count, Others, readingVars, ExchangeInv
<1>3. CASE Ask
  <2>1. plc' \in [tstrut : Int, el : Int] /\ caller' \in {"on", "tick"}
    BY <1>3, TempElAssumption DEF Ask
  <2> QED
    BY <1>1, <1>3, <2>1 DEF Ask, PSNext, ExchangeInv
<1>4. CASE Wait
  BY <1>1, <1>4 DEF Wait, PSNext, ExchangeInv
<1>5. CASE Return
  <2>1. /\ pc = "idle" /\ UNCHANGED <<pc, fds, refused, asked, wire, broken>>
        /\ azel' = <<>> /\ temps' = <<>> /\ fazel' = <<>> /\ ftemps' = <<>>
        /\ ret' = Error /\ plc' = NoReport /\ caller' = "none"
    BY <1>5 DEF Return, plcVars
  <2>2. SocketInv'
    BY <2>1 DEF ExchangeInv, SocketInv, SocketsAccounted
  <2>3. StreamInv'
    BY <2>1 DEF ExchangeInv, StreamInv, AnswerUsed, Error
  <2>4. PSTypeOK'
    <3>1. \A S : <<>> \in Seq(S)
      OBVIOUS
    <3>2. /\ pc' = pc /\ fds' = fds /\ refused' = refused
          /\ asked' = asked /\ wire' = wire /\ broken' = broken
      BY <2>1
    <3> QED
      BY <2>1, <3>1, <3>2, Zenon DEF ExchangeInv, PSTypeOK
  <2> QED
    BY <2>1, <2>2, <2>3, <2>4 DEF ExchangeInv, NoReport
<1> QED
  BY <1>2, <1>3, <1>4, <1>5 DEF ReadingsNext

LEMMA ExchangeInvariance == ReadingsSpec => []ExchangeInv
BY ExchangeInit, ExchangeStep, PTL DEF ReadingsSpec

(* No socket is lost in the driver's calls either (projectsoft.c:44-75). *)
THEOREM SocketsAreKept == ReadingsSpec => []SocketsAccounted
<1>1. ExchangeInv => SocketsAccounted
  BY DEF ExchangeInv, SocketInv
<1> QED
  BY ExchangeInvariance, <1>1, PTL

-----------------------------------------------------------------------------
(* A call that asks takes many steps; TempEl sees only the last of them. *)
LEMMA StepOfTempEl == ExchangeInv /\ [ReadingsNext]_readingVars => [Next]_vars
<1> SUFFICES ASSUME ExchangeInv, [ReadingsNext]_readingVars PROVE [Next]_vars
  OBVIOUS
<1>1. CASE Ask \/ Wait \/ UNCHANGED readingVars
  BY <1>1 DEF Ask, Wait, readingVars
<1>2. CASE Count
  BY <1>2 DEF Count, Next
<1>3. CASE Others
  BY <1>3 DEF Others, Next
<1>4. CASE Return
  <2>1. ret.ok \in BOOLEAN
    BY DEF ExchangeInv, StreamInv, AnswerUsed
  <2>2. CorrectOn(ret.ok) \/ Tick(ret.ok)
    BY <1>4 DEF Return
  <2> QED
    BY <2>1, <2>2 DEF Next
<1> QED
  BY <1>1, <1>2, <1>3, <1>4 DEF ReadingsNext

(* The driver with projectsoft in it implements TempEl, in which an answer
   comes at once: what a handler does with the values is not disturbed by the
   time the call takes, since nothing else runs meanwhile. *)
THEOREM ReadingsKeepToTempEl == ReadingsSpec => Spec
<1>1. ReadingsInit => Init
  BY DEF ReadingsInit
<1> QED
  BY ExchangeInvariance, StepOfTempEl, <1>1, PTL DEF ReadingsSpec, Spec

(* The temperature band of TempEl, with the answers of the PLC in place of any
   answers. *)
THEOREM ReadInBand == ReadingsSpec => []TempInBand
BY ReadingsKeepToTempEl, TemperatureInBand, PTL

(* And the age of the readings. *)
THEOREM ReadFresh == ReadingsSpec => []ReadingsAreFresh
BY ReadingsKeepToTempEl, FreshReadings, PTL

(* Every variable of the composition stays in its set, the buffers among them,
   for any readings, client values and number of descriptors. *)
THEOREM TypesAreKept == ReadingsSpec => []ReadingsTypeOK
<1>1. IInv /\ ExchangeInv => ReadingsTypeOK
  BY DEF IInv, ExchangeInv, ReadingsTypeOK
<1> QED
  BY ReadingsKeepToTempEl, Invariance, ExchangeInvariance, <1>1, PTL

-----------------------------------------------------------------------------
(* Through the two conversions the client sees the elevation of the telescope,
   or a degree less. *)
LEMMA ThereAndBack ==
  ASSUME NEW d \in Int
  PROVE  (180 * mrad(d)) \div 3142 \in {d - 1, d}
<1> DEFINE q == (d * 3142) \div 180
<1>1. q \in Int /\ 180 * q <= 3142 * d /\ 3142 * d < 180 * q + 180
  OBVIOUS
<1> HIDE DEF q
<1>2. (180 * q) \div 3142 \in {d - 1, d}
  BY <1>1
<1> QED
  BY <1>2 DEF mrad, q

LEMMA ReturnIsTrue ==
  ASSUME ExchangeInv, Return, ret.ok
  PROVE  /\ Reasonable(plc.tstrut) => temp' = plc.tstrut
         /\ GaveElevation /\ ReasonableEl(Clamped(plc.el)) =>
              (180 * el') \div 3142 \in {Clamped(plc.el) - 1, Clamped(plc.el)}
<1>1. ret.tstrut = <<"t1", "t2">> /\ (GaveElevation => ret.el = "el")
  BY DEF ExchangeInv, StreamInv, AnswerUsed
<1>2. PICK d \in el_out : Reading(plc.tstrut, d)
  BY <1>1 DEF Return, strut_out
<1>3. Clamped(plc.el) \in Int
  BY DEF ExchangeInv, Clamped
<1>4. Reasonable(plc.tstrut) => temp' = plc.tstrut
  BY <1>2 DEF Reading, UseTemp
<1>5. ASSUME GaveElevation, ReasonableEl(Clamped(plc.el))
      PROVE  el' = mrad(Clamped(plc.el))
  <2>1. d = plc.el
    BY <1>1, <1>5 DEF el_out
  <2> QED
    BY <1>2, <1>5, <2>1 DEF Reading, UseEl
<1> QED
  BY <1>3, <1>4, <1>5, ThereAndBack

(* What a successful call leaves in the driver is what the telescope reported
   to this call, wherever that can be true: no cut of the stream, no rest of
   the first answer and no conversion gets in between
   (projectsoft.c:28, vatt_secondary.cpp:1446). *)
THEOREM ReadingsAreTrue == ReadingsSpec => ReadingIsTrue
<1>1. ExchangeInv =>
        [Return /\ ret.ok =>
           /\ Reasonable(plc.tstrut) => temp' = plc.tstrut
           /\ LET d == Clamped(plc.el)
              IN  GaveElevation /\ ReasonableEl(d) =>
                    (180 * el') \div 3142 \in {d - 1, d}
        ]_readingVars
  BY ReturnIsTrue
<1> QED
  BY ExchangeInvariance, <1>1, PTL DEF ReadingIsTrue
=============================================================================
