------------------------- MODULE CollimationProofs -------------------------
(***************************************************************************)
(* Theorems about Collimation, for any axes, any travel range, any         *)
(* corrections and requests, and any of the faults.                        *)
(***************************************************************************)
EXTENDS CollimationHistory, TLAPS

(* Autocollimation is off without a connection, and while the file is being
   written. *)
OffWhen == ~connected \/ pc = "Save" => corrS = "OFF"

IInv == TypeOK /\ OffWhen

-----------------------------------------------------------------------------
(* The operators *)

LEMMA LastAxisType == LastAxis \in Axes
<1>1. Len(AxisOrder) \in Nat /\ Len(AxisOrder) # 0
  BY CollimationAssumption
<1> QED
  BY <1>1 DEF LastAxis, Axes

(* A loop does some of its axes, and reports it when it has not done all. *)
LEMMA DoneType ==
  ASSUME NEW S, NEW fault, NEW done \in Done(S, fault)
  PROVE  done \subseteq S
BY DEF Done

LEMMA HexPosType ==
  ASSUME TypeOK, NEW p \in [Axes -> Int], NEW read
  PROVE  HexPos(p, read) \in [Axes -> Int]
BY DEF HexPos, TypeOK, Travel

LEMMA CountTypes ==
  ASSUME NEW count \in 0 .. MaxCommErr + 1
  PROVE  /\ OneMore(count) \in 0 .. MaxCommErr + 1
         /\ \A read : CountAfterRead(count, read) \in 0 .. MaxCommErr + 1
         /\ \A moved : CountAfterMoves(count, moved) \in 0 .. MaxCommErr + 1
BY CollimationAssumption DEF OneMore, CountAfterRead, CountAfterMoves

LEMMA CorrectType ==
  ASSUME TypeOK, NEW p \in [Axes -> Int]
  PROVE  /\ correct(p) \in [Axes -> Int]
         /\ uncorrect(p) \in [Axes -> Int]
         /\ \A a \in Axes : correct(p)[a] = p[a] + Shift(a)
<1>1. \A a \in Axes : Shift(a) \in Int
  BY CollimationAssumption DEF TypeOK, Shift
<1> QED
  BY <1>1 DEF correct, uncorrect

LEMMA RestoredType ==
  ASSUME TypeOK
  PROVE  Restored \in [Axes -> Int]
BY CollimationAssumption DEF TypeOK, Restored, ZeroPos

(* Only moves within the travel range are accepted. *)
LEMMA AcceptedType ==
  ASSUME NEW done, NEW want, NEW moved \in Accepted(done, want)
  PROVE  moved \subseteq done /\ \A a \in moved : want[a] \in Travel
BY DEF Accepted

(* The hexapod is never told a position outside the travel range. *)
LEMMA MoveAxesType ==
  ASSUME TypeOK, NEW done, NEW want, NEW moved \in Accepted(done, want),
         MoveAxes(moved, want)
  PROVE  target' \in [Axes -> Travel]
BY AcceptedType DEF TypeOK, MoveAxes

-----------------------------------------------------------------------------
(* Types *)

LEMMA TypeInit == Init => TypeOK
<1> SUFFICES ASSUME Init PROVE TypeOK
  OBVIOUS
<1>1. connected \in BOOLEAN /\ isMoving \in BOOLEAN /\ calm \in BOOLEAN
  BY Zenon DEF Init
<1>2. /\ NextPos \in [Axes -> Int] /\ Pos \in [Axes -> Int]
      /\ target \in [Axes -> Travel] /\ actual \in [Axes -> Travel]
  BY CollimationAssumption DEF Init, ZeroPos, Travel
<1> QED
  BY <1>1, <1>2, CollimationAssumption DEF Init, TypeOK

LEMMA GetTempAndElType ==
  ASSUME TypeOK, NEW ok \in BOOLEAN, GetTempAndEl(ok)
  PROVE  shift' \in Shifts
BY DEF TypeOK, GetTempAndEl

LEMMA EndTickType ==
  ASSUME NEW count \in 0 .. MaxCommErr + 1, NEW auto \in {"ON", "OFF"},
         NEW up \in BOOLEAN, EndTick(count, auto, up)
  PROVE  /\ commerr_count' \in 0 .. MaxCommErr + 1 /\ connected' \in BOOLEAN
         /\ corrS' \in {"ON", "OFF"} /\ isMoving' \in BOOLEAN /\ pc' = "idle"
         /\ corrS' = "ON" => auto = "ON" /\ connected' /\ up
<1>1. (count <= MaxCommErr) \in BOOLEAN
  OBVIOUS
<1>2. connected' \in BOOLEAN
  BY <1>1, Zenon DEF EndTick
<1> QED
  BY <1>2 DEF EndTick

(* A loop that is cut short told no axis a position out of range. *)
LEMMA CutShortType ==
  ASSUME TypeOK, CutShort
  PROVE  /\ target' \in [Axes -> Travel]
         /\ posfile' \in {posfile, NoFile}
         /\ posfile' # posfile => pc = "TickMove"
<1>1. CASE /\ pc = "idle" /\ connected
           /\ \E done \in Done(FileAxes, "crash") :
              \E moved \in Accepted(done, Restored) : MoveAxes(moved, Restored)
           /\ UNCHANGED posfile
  BY <1>1, MoveAxesType
<1>2. CASE /\ pc = "TickMove"
           /\ \E done \in Done(Veered, "crash") :
              \E moved \in Accepted(done, correct(NextPos)) :
                /\ MoveAxes(moved, correct(NextPos))
                /\ posfile' = IF moved # done THEN NoFile ELSE posfile
  <2>1. PICK done \in Done(Veered, "crash") :
          \E moved \in Accepted(done, correct(NextPos)) :
            /\ MoveAxes(moved, correct(NextPos))
            /\ posfile' = IF moved # done THEN NoFile ELSE posfile
    BY <1>2, Zenon
  <2>2. target' \in [Axes -> Travel]
    BY <2>1, MoveAxesType
  <2> QED
    BY <1>2, <2>1, <2>2
<1> QED
  BY <1>1, <1>2, Zenon DEF CutShort

LEMMA TypeStep == TypeOK /\ [Next]_vars => TypeOK'
<1> SUFFICES ASSUME TypeOK, [Next]_vars PROVE TypeOK'
  OBVIOUS
<1> USE CollimationAssumption DEF TypeOK, worldVars, hexVars, driverVars
<1>1. CASE Connect
  <2> DEFINE count(r1, r2) ==
               CountAfterRead(CountAfterRead(commerr_count, r1), r2)
  <2>1. PICK r1, r2 \in Done(Axes, "read") :
          /\ Pos' = HexPos(Pos, r1)
          /\ NextPos' = HexPos(NextPos, r2)
          /\ commerr_count' \in {count(r1, r2), OneMore(count(r1, r2))}
    BY <1>1, Zenon DEF Connect
  <2>2. Pos' \in [Axes -> Int] /\ NextPos' \in [Axes -> Int]
    BY <2>1, HexPosType
  <2>3. commerr_count' \in 0 .. MaxCommErr + 1
    BY <2>1, CountTypes
  <2> QED
    BY <1>1, <2>2, <2>3 DEF Connect
<1>2. CASE Disconnect
  BY <1>2 DEF Disconnect
<1>3. ASSUME NEW a \in Axes, NEW v \in Requests, NewNumber(a, v)
      PROVE  TypeOK'
  <2> DEFINE want == IF corrS = "ON" THEN correct(NextPos') ELSE NextPos'
  <2>1. NextPos' \in [Axes -> Int]
    BY <1>3 DEF NewNumber
  <2>3. CASE ~connected /\ UNCHANGED <<connected, target, corrS, commerr_count>>
    BY <1>3, <2>1, <2>3 DEF NewNumber
  <2>4. ASSUME NEW done, NEW moved \in Accepted(done, want), MoveAxes(moved, want),
               connected' = (done = {a}),
               corrS' = IF connected' THEN corrS ELSE "OFF",
               commerr_count' = CountAfterMoves(commerr_count, moved)
        PROVE  TypeOK'
    <3> HIDE DEF want
    <3>1. target' \in [Axes -> Travel]
      BY <2>4, MoveAxesType
    <3>2. commerr_count' \in 0 .. MaxCommErr + 1
      BY <2>4, CountTypes
    <3>3. connected' \in BOOLEAN
      BY <2>4, Zenon
    <3>4. corrS' \in {"ON", "OFF"}
      BY <2>4
    <3> QED
      BY <1>3, <2>1, <3>1, <3>2, <3>3, <3>4 DEF NewNumber
  <2> QED
    BY <1>3, <2>3, <2>4, Zenon DEF NewNumber
<1>4. CASE CorrectOn
  <2>1. PICK done \in Done(FileAxes, "move"), ok \in BOOLEAN :
          /\ \E moved \in Accepted(done, Restored) :
               /\ MoveAxes(moved, Restored)
               /\ commerr_count' = CountAfterMoves(commerr_count, moved)
          /\ connected' = (done = FileAxes)
          /\ GetTempAndEl(ok)
          /\ corrS' = IF connected' /\ ok THEN "ON" ELSE "OFF"
    BY <1>4, Zenon DEF CorrectOn
  <2>2. NextPos' \in [Axes -> Int]
    BY <1>4, RestoredType DEF CorrectOn
  <2>3. target' \in [Axes -> Travel]
    BY <2>1, MoveAxesType
  <2>4. commerr_count' \in 0 .. MaxCommErr + 1 /\ shift' \in Shifts
    BY <2>1, CountTypes, GetTempAndElType
  <2>5. connected' \in BOOLEAN
    BY <2>1, Zenon
  <2>6. corrS' \in {"ON", "OFF"} /\ vatttel_counter' \in 0 .. MaxVatttel + 1
    BY <1>4, <2>1 DEF CorrectOn
  <2> QED
    BY <1>4, <2>2, <2>3, <2>4, <2>5, <2>6 DEF CorrectOn
<1>5. CASE CorrectOff
  <2>1. PICK read \in Done(Axes, "read") :
          /\ Pos' = HexPos(Pos, read)
          /\ commerr_count' = CountAfterRead(commerr_count, read)
    BY <1>5, Zenon DEF CorrectOff
  <2>2. Pos' \in [Axes -> Int] /\ commerr_count' \in 0 .. MaxCommErr + 1
    BY <2>1, HexPosType, CountTypes
  <2> QED
    BY <1>5, <2>2 DEF CorrectOff
<1>6. CASE Save
  <2>1. posfile' \in [FileAxes -> Int]
    BY <1>6 DEF Save
  <2> QED
    BY <1>6, <2>1 DEF Save
<1>7. CASE TickRead
  <2> DEFINE count(read) == CountAfterRead(commerr_count, read)
             Off(read) == /\ EndTick(count(read), "OFF", TRUE)
                          /\ UNCHANGED <<shift, vatttel_counter>>
             On(read, ok) ==
               /\ GetTempAndEl(ok)
               /\ vatttel_counter' = IF Asks THEN 0 ELSE vatttel_counter + 1
               /\ corrS' = IF ok THEN "ON" ELSE "OFF"
               /\ isMoving' \in SetMoveState
               /\ commerr_count' = count(read)
               /\ pc' = "TickMove"
               /\ UNCHANGED connected
  <2>1. PICK read \in Done(Axes, "read"), ok \in BOOLEAN :
          Pos' = HexPos(Pos, read) /\ (Off(read) \/ On(read, ok))
    BY <1>7, Zenon DEF TickRead
  <2>2. Pos' \in [Axes -> Int]
    BY <2>1, HexPosType
  <2>3. count(read) \in 0 .. MaxCommErr + 1
    BY CountTypes
  <2>4. CASE Off(read)
    <3>1. /\ commerr_count' \in 0 .. MaxCommErr + 1 /\ connected' \in BOOLEAN
          /\ corrS' \in {"ON", "OFF"} /\ isMoving' \in BOOLEAN /\ pc' = "idle"
      <4> HIDE DEF count
      <4> QED
        BY <2>3, <2>4, EndTickType
    <3> QED
      BY <1>7, <2>2, <2>4, <3>1 DEF TickRead
  <2>5. CASE On(read, ok)
    <3>1. isMoving' \in BOOLEAN
      BY <2>5, Zenon DEF SetMoveState, Moving
    <3>2. shift' \in Shifts
      BY <2>5, GetTempAndElType
    <3>3. vatttel_counter' \in 0 .. MaxVatttel + 1
      BY <2>5 DEF Asks
    <3> QED
      BY <1>7, <2>2, <2>3, <2>5, <3>1, <3>2, <3>3 DEF TickRead
  <2> QED
    BY <2>1, <2>4, <2>5
<1>8. CASE TickMove
  <2> DEFINE auto(moved) == IF moved # Veered THEN "OFF" ELSE corrS
             count(moved) == CountAfterMoves(commerr_count, moved)
  <2>1. PICK done \in Done(Veered, "move") :
          \E moved \in Accepted(done, correct(NextPos)) :
            /\ MoveAxes(moved, correct(NextPos))
            /\ posfile' = IF moved # Veered THEN NoFile ELSE posfile
            /\ EndTick(count(moved), auto(moved), done = Veered)
    BY <1>8, Zenon DEF TickMove
  <2>2. PICK moved \in Accepted(done, correct(NextPos)) :
          /\ MoveAxes(moved, correct(NextPos))
          /\ posfile' = IF moved # Veered THEN NoFile ELSE posfile
          /\ EndTick(count(moved), auto(moved), done = Veered)
    BY <2>1
  <2>3. Pos' \in [Axes -> Int] /\ target' \in [Axes -> Travel]
    BY <1>8, <2>2, CorrectType, MoveAxesType DEF TickMove
  <2>4. auto(moved) \in {"ON", "OFF"}
    OBVIOUS
  <2>5. count(moved) \in 0 .. MaxCommErr + 1
    BY CountTypes
  <2>6. (done = Veered) \in BOOLEAN
    BY Zenon
  <2>7. /\ commerr_count' \in 0 .. MaxCommErr + 1 /\ connected' \in BOOLEAN
        /\ corrS' \in {"ON", "OFF"} /\ isMoving' \in BOOLEAN /\ pc' = "idle"
    <3> HIDE DEF auto, count
    <3> QED
      BY <2>2, <2>4, <2>5, <2>6, EndTickType
  <2> QED
    BY <1>8, <2>2, <2>3, <2>7 DEF TickMove
<1>9. ASSUME NEW a \in Axes, Arrive(a) PROVE TypeOK'
  BY <1>9 DEF Arrive
<1>10. CASE SkyMoves
  BY <1>10 DEF SkyMoves
<1>11. CASE Restart
  <2>1. NextPos' \in [Axes -> Int] /\ Pos' \in [Axes -> Int]
    BY <1>11 DEF Restart
  <2>2. connected' \in BOOLEAN /\ isMoving' \in BOOLEAN
    BY <1>11, Zenon DEF Restart
  <2>3. /\ target' \in [Axes -> Travel]
        /\ posfile' \in {NoFile, Corrupt} \cup [FileAxes -> Int]
    <3>1. CASE UNCHANGED <<posfile, target>>
      BY <3>1
    <3>2. CASE CutShort
      BY <3>2, CutShortType
    <3> QED
      BY <1>11, <3>1, <3>2, Zenon DEF Restart
  <2>4. /\ pc' = "idle" /\ corrS' = "OFF" /\ shift' = FirstShift
        /\ commerr_count' = 0 /\ vatttel_counter' = 0
        /\ UNCHANGED <<actual, sky, calm>>
    BY <1>11 DEF Restart
  <2> QED
    BY <2>1, <2>2, <2>3, <2>4
<1>12. CASE Calm
  BY <1>12 DEF Calm
<1>13. CASE UNCHANGED vars
  BY <1>13 DEF vars
<1> HIDE DEF TypeOK
<1> QED
  BY <1>1, <1>2, <1>3, <1>4, <1>5, <1>6, <1>7, <1>8, <1>9, <1>10, <1>11,
     <1>12, <1>13
  DEF Next, Client
-----------------------------------------------------------------------------
(* Autocollimation *)

LEMMA OffWhenStep == TypeOK /\ OffWhen /\ [Next]_vars => OffWhen'
<1> SUFFICES ASSUME TypeOK, OffWhen, [Next]_vars PROVE OffWhen'
  OBVIOUS
<1> USE DEF OffWhen, worldVars, hexVars, driverVars, Request
<1>1. CASE Connect \/ Disconnect \/ CorrectOff \/ Save
  BY <1>1 DEF Connect, Disconnect, CorrectOff, Save
<1>2. ASSUME NEW a \in Axes, NEW v \in Requests, NewNumber(a, v)
      PROVE  OffWhen'
  BY <1>2, Zenon DEF NewNumber
<1>3. CASE CorrectOn
  BY <1>3, Zenon DEF CorrectOn
<1>4. CASE TickRead
  BY <1>4 DEF TickRead, EndTick
<1>5. CASE TickMove
  BY <1>5 DEF TickMove, EndTick
<1>6. ASSUME NEW a \in Axes, Arrive(a) PROVE OffWhen'
  BY <1>6 DEF Arrive
<1>7. CASE SkyMoves \/ Restart \/ Calm
  BY <1>7 DEF SkyMoves, Restart, Calm
<1>8. CASE UNCHANGED vars
  BY <1>8 DEF vars
<1> HIDE DEF OffWhen
<1> QED
  BY <1>1, <1>2, <1>3, <1>4, <1>5, <1>6, <1>7, <1>8 DEF Next, Client

-----------------------------------------------------------------------------
(* The theorems *)

LEMMA Invariance == Safe => []IInv
<1>1. Init => IInv
  BY TypeInit DEF Init, IInv, OffWhen
<1>2. IInv /\ [Next]_vars => IInv'
  BY TypeStep, OffWhenStep DEF IInv
<1> QED
  BY <1>1, <1>2, PTL DEF Safe

(* The driver's numbers keep their ranges, and the hexapod is never told a
   position outside its travel range (vatthex.c:129). *)
THEOREM TypeCorrect == Spec => []TypeOK
<1>1. IInv => TypeOK
  BY DEF IInv
<1> QED
  BY <1>1, Invariance, PTL DEF Spec

(* What each step may do to posfile. *)
Keeps ==
  posfile' # posfile =>
    \/ pc' = "Save"
    \/ pc = "Save" /\ corrS = "OFF"
    \/ pc = "TickMove" /\ corrS' = "OFF"

LEMMA FileStep == IInv /\ [Next]_vars => [Keeps]_vars
<1> SUFFICES ASSUME IInv, [Next]_vars, posfile' # posfile PROVE Keeps
  BY DEF Keeps
<1> USE DEF worldVars, hexVars, driverVars
<1>1. CASE CorrectOff
  BY <1>1 DEF CorrectOff, Keeps
<1>2. CASE Save
  BY <1>2 DEF Save, Keeps, IInv, OffWhen
<1>3. CASE TickMove
  BY <1>3 DEF TickMove, EndTick, Keeps
<1>4. CASE Restart
  <2>1. CutShort
    BY <1>4 DEF Restart
  <2> QED
    BY <1>4, <2>1, CutShortType DEF Restart, Keeps, IInv
<1>5. CASE ~(CorrectOff \/ Save \/ TickMove \/ Restart)
  BY <1>5
  DEF Next, Client, Connect, Disconnect, CorrectOn, NewNumber, TickRead,
      Arrive, SkyMoves, Calm, vars
<1> QED
  BY <1>1, <1>2, <1>3, <1>4, <1>5

(* A saved position is there until autocollimation is switched off again or
   a tick of it fails, whatever happens in between. *)
THEOREM PositionIsKept == Spec => SavedPositionKept
<1>1. IInv /\ [Next]_vars =>
        [posfile' # posfile =>
           \/ pc' = "Save"
           \/ pc = "Save" /\ corrS = "OFF"
           \/ pc = "TickMove" /\ corrS' = "OFF"]_vars
  BY FileStep DEF Keeps
<1> QED
  BY <1>1, Invariance, PTL DEF Spec, Safe, SavedPositionKept

-----------------------------------------------------------------------------
(* What was asked for *)

Origin == [asked : Int, taken : BOOLEAN]

HistoryTypes ==
  /\ wanted \in [Axes -> Origin]
  /\ saved \in [FileAxes -> Origin]
  /\ told \in [Axes -> Origin]
  /\ there \in [Axes -> Origin]

(* What h says was asked for is what p is, if it does not come from the
   hexapod. *)
AsAsked(p, h) == ~h.taken => p = h.asked

WantedAsAsked == \A a \in Axes : AsAsked(NextPos[a], wanted[a])

SavedAsAsked ==
  posfile \notin {NoFile, Corrupt} =>
    \A a \in FileAxes : AsAsked(posfile[a], saved[a])

HInv == HistoryTypes /\ WantedAsAsked /\ SavedAsAsked /\ CorrectedOnce

LEMMA HistoryStep == [HistoryNext]_allVars => [Next]_vars
BY DEF HistoryNext, allVars, ConnectH, NewNumberH, CorrectOnH, RestartH,
       WantsTheSame, Next, Client

LEMMA AskedTypes ==
  ASSUME IInv, HInv
  PROVE  /\ AskedNominal \in [Axes -> Origin]
         /\ AskedAtStart \in [Axes -> Origin]
         /\ AskedRestored \in [Axes -> Origin]
         /\ \A a \in Axes : AsAsked(Restored[a], AskedRestored[a])
<1> USE CollimationAssumption
<1>1. Zero \in Int
  OBVIOUS
<1>2. /\ AskedNominal \in [Axes -> Origin]
      /\ AskedAtStart \in [Axes -> Origin]
  BY <1>1 DEF AskedNominal, AskedAtStart, Asked, Origin
<1>3. AskedRestored \in [Axes -> Origin]
  BY <1>2 DEF AskedRestored, HInv, HistoryTypes
<1>4. ASSUME NEW a \in Axes
      PROVE  AsAsked(Restored[a], AskedRestored[a])
  <2>1. CASE posfile \in {NoFile, Corrupt}
    BY <2>1 DEF AsAsked, Restored, AskedRestored, ZeroPos, AskedNominal, Asked
  <2>2. CASE posfile \notin {NoFile, Corrupt}
    BY <2>2 DEF Restored, AskedRestored, HInv, WantedAsAsked, SavedAsAsked
  <2> QED
    BY <2>1, <2>2
<1> QED
  BY <1>2, <1>3, <1>4

(* The histories keep their types. *)
LEMMA FollowsType ==
  ASSUME IInv, HInv, NEW origins \in [Axes -> Origin], Follows(origins)
  PROVE  /\ saved' \in [FileAxes -> Origin]
         /\ told' \in [Axes -> Origin] /\ there' \in [Axes -> Origin]
BY CollimationAssumption DEF HInv, HistoryTypes, Follows

(* The hexapod is told a position p and what was asked for in it, with the
   correction or without. *)
Corrects(p, want) ==
  \A a \in Axes : want[a] = p[a] \/ want[a] = p[a] + Shift(a)

MovesTo(p) ==
  \/ UNCHANGED target
  \/ \E moved, want : MoveAxes(moved, want) /\ Corrects(p, want)

LEMMA ToldStep ==
  ASSUME IInv, HInv, NEW p \in [Axes -> Int], NEW origins \in [Axes -> Origin],
         \A a \in Axes : AsAsked(p[a], origins[a]),
         MovesTo(p), Follows(origins)
  PROVE  CorrectedOnce'
<1> SUFFICES ASSUME NEW a \in Axes, ~told'[a].taken
             PROVE  target'[a] - told'[a].asked \in Corrections(a)
  BY DEF CorrectedOnce, Corrections
<1>1. told'[a] = IF target'[a] # target[a] THEN origins[a] ELSE told[a]
  BY DEF Follows
<1>2. CASE target'[a] = target[a]
  BY <1>1, <1>2 DEF HInv, CorrectedOnce
<1>3. CASE target'[a] # target[a]
  <2>1. target'[a] = p[a] \/ target'[a] = p[a] + Shift(a)
    BY <1>3 DEF MovesTo, MoveAxes, Corrects
  <2>2. p[a] = told'[a].asked /\ p[a] \in Int
    BY <1>1, <1>3 DEF AsAsked
  <2>3. Shift(a) \in Int /\ Shift(a) \in Corrections(a) /\ 0 \in Corrections(a)
    BY CollimationAssumption DEF IInv, TypeOK, Shift, Corrections
  <2> QED
    BY <2>1, <2>2, <2>3
<1> QED
  BY <1>2, <1>3

(* A file that is saved holds what is wanted; no other step writes one. *)
LEMMA SavedStep ==
  ASSUME IInv, HInv, NEW origins, Follows(origins),
         \/ posfile' \in {posfile, NoFile, Corrupt}
         \/ pc = "Save" /\ posfile' = [a \in FileAxes |-> NextPos[a]]
  PROVE  SavedAsAsked'
<1> SUFFICES ASSUME posfile' \notin {NoFile, Corrupt}, NEW a \in FileAxes
             PROVE  AsAsked(posfile'[a], saved'[a])
  BY DEF SavedAsAsked, AsAsked
<1>1. CASE posfile' = posfile
  BY <1>1 DEF Follows, HInv, SavedAsAsked
<1>2. CASE /\ pc = "Save" /\ posfile' # posfile
           /\ posfile' = [b \in FileAxes |-> NextPos[b]]
  <2>1. posfile'[a] = NextPos[a] /\ saved'[a] = wanted[a]
    BY <1>2 DEF Follows
  <2> QED
    BY <2>1, CollimationAssumption DEF HInv, WantedAsAsked
<1> QED
  BY <1>1, <1>2

(* Steps that want the same. *)
LEMMA WantsTheSameStep ==
  ASSUME IInv, HInv, WantsTheSame
  PROVE  HInv'
<1> USE DEF driverVars, hexVars, worldVars
<1>1. UNCHANGED <<wanted, NextPos>> /\ Follows(wanted)
  BY DEF WantsTheSame, Disconnect, CorrectOff, Save, TickRead, TickMove, Arrive,
         SkyMoves, Calm
<1>2. WantedAsAsked' /\ wanted \in [Axes -> Origin] /\ NextPos \in [Axes -> Int]
  BY <1>1 DEF HInv, HistoryTypes, WantedAsAsked, AsAsked, IInv, TypeOK
<1>3. \/ posfile' \in {posfile, NoFile, Corrupt}
      \/ pc = "Save" /\ posfile' = [a \in FileAxes |-> NextPos[a]]
  BY Zenon DEF WantsTheSame, Disconnect, CorrectOff, Save, TickRead, TickMove,
               Arrive, SkyMoves, Calm
<1>4. MovesTo(NextPos)
  <2>1. CASE TickMove
    <3>1. \E moved : MoveAxes(moved, correct(NextPos))
      BY <2>1, Zenon DEF TickMove
    <3>2. Corrects(NextPos, correct(NextPos))
      BY CorrectType DEF IInv, TypeOK, Corrects
    <3> QED
      BY <3>1, <3>2 DEF MovesTo
  <2>2. CASE ~TickMove
    BY <2>2, Zenon DEF MovesTo, WantsTheSame, Disconnect, CorrectOff, Save,
                       TickRead, Arrive, SkyMoves, Calm
  <2> QED
    BY <2>1, <2>2
<1> QED
  BY <1>1, <1>2, <1>3, <1>4, FollowsType, ToldStep, SavedStep
  DEF HInv, HistoryTypes, WantedAsAsked

LEMMA HistoryInvStep ==
  IInv /\ IInv' /\ HInv /\ [HistoryNext]_allVars => HInv'
<1> SUFFICES ASSUME IInv, IInv', HInv, [HistoryNext]_allVars PROVE HInv'
  OBVIOUS
<1> USE DEF hexVars, HistoryTypes
<1>1. CASE ConnectH
  <2>1. UNCHANGED <<posfile, target>> /\ Follows(wanted)
    BY <1>1 DEF ConnectH, Connect
  <2>2. /\ WantedAsAsked' /\ wanted' \in [Axes -> Origin]
        /\ wanted \in [Axes -> Origin]
    BY <1>1 DEF ConnectH, HInv, WantedAsAsked, AsAsked, Taken, Origin
  <2>3. MovesTo(NextPos) /\ NextPos \in [Axes -> Int]
    BY <2>1 DEF MovesTo, IInv, TypeOK
  <2> QED
    BY <2>1, <2>2, <2>3, FollowsType, ToldStep, SavedStep DEF HInv, WantedAsAsked
<1>2. ASSUME NEW a \in Axes, NEW v \in Requests, NewNumberH(a, v)
      PROVE  HInv'
  <2> DEFINE want == IF corrS = "ON" THEN correct(NextPos') ELSE NextPos'
  <2>1. /\ NextPos' = [NextPos EXCEPT ![a] = v] /\ v \in Int
        /\ wanted' = [wanted EXCEPT ![a] = Asked(v)]
        /\ UNCHANGED posfile /\ Follows(wanted')
    BY <1>2, CollimationAssumption DEF NewNumberH, NewNumber
  <2>2. /\ WantedAsAsked' /\ wanted' \in [Axes -> Origin]
        /\ NextPos' \in [Axes -> Int]
    BY <2>1
    DEF HInv, WantedAsAsked, AsAsked, Asked, Origin, IInv, TypeOK
  <2>3. Corrects(NextPos', want)
    BY <2>2, CorrectType DEF Corrects, IInv
  <2>4. (\E moved : MoveAxes(moved, want)) \/ UNCHANGED target
    BY <1>2, Zenon DEF NewNumberH, NewNumber
  <2>5. MovesTo(NextPos')
    BY <2>3, <2>4 DEF MovesTo
  <2> QED
    BY <2>1, <2>2, <2>5, FollowsType, ToldStep, SavedStep DEF HInv, WantedAsAsked
<1>3. CASE CorrectOnH
  <2>1. /\ NextPos' = Restored /\ wanted' = AskedRestored
        /\ UNCHANGED posfile /\ Follows(AskedRestored)
    BY <1>3 DEF CorrectOnH, CorrectOn
  <2>2. WantedAsAsked' /\ wanted' \in [Axes -> Origin]
    BY <2>1, AskedTypes DEF WantedAsAsked
  <2>3. \E moved : MoveAxes(moved, Restored)
    BY <1>3, Zenon DEF CorrectOnH, CorrectOn
  <2>4. MovesTo(Restored) /\ Restored \in [Axes -> Int]
    BY <2>3, RestoredType DEF MovesTo, Corrects, IInv
  <2> QED
    BY <2>1, <2>2, <2>4, AskedTypes, FollowsType, ToldStep, SavedStep DEF HInv
<1>4. CASE RestartH
  <2> DEFINE p == IF pc = "TickMove" THEN NextPos ELSE Restored
             origins == IF pc = "TickMove" THEN wanted ELSE AskedRestored
  <2>1. Follows(origins) /\ wanted' = AskedAtStart /\ NextPos' = [a \in Axes |-> 0]
    BY <1>4 DEF RestartH, Restart
  <2>2. WantedAsAsked' /\ wanted' \in [Axes -> Origin]
    BY <2>1, AskedTypes DEF WantedAsAsked, AskedAtStart, Asked, AsAsked
  <2>3. /\ origins \in [Axes -> Origin] /\ p \in [Axes -> Int]
        /\ \A a \in Axes : AsAsked(p[a], origins[a])
    BY AskedTypes, RestoredType DEF HInv, WantedAsAsked, IInv, TypeOK
  <2>4. MovesTo(p)
    <3>1. CASE /\ pc = "idle"
               /\ \E moved : MoveAxes(moved, Restored)
      BY <3>1 DEF MovesTo, Corrects
    <3>2. CASE /\ pc = "TickMove"
               /\ \E moved : MoveAxes(moved, correct(NextPos))
      <4>1. Corrects(NextPos, correct(NextPos))
        BY CorrectType DEF IInv, TypeOK, Corrects
      <4> QED
        BY <3>2, <4>1 DEF MovesTo
    <3>3. CASE UNCHANGED target
      BY <3>3 DEF MovesTo
    <3> QED
      BY <1>4, <3>1, <3>2, <3>3, Zenon DEF RestartH, Restart, CutShort
  <2>5. posfile' \in {posfile, NoFile}
    BY <1>4, CutShortType DEF RestartH, Restart, IInv
  <2> HIDE DEF p, origins
  <2> QED
    BY <2>1, <2>2, <2>3, <2>4, <2>5, FollowsType, ToldStep, SavedStep DEF HInv
<1>5. CASE WantsTheSame
  BY <1>5, WantsTheSameStep
<1>6. CASE UNCHANGED allVars
  BY <1>6
  DEF allVars, vars, driverVars, history, HInv, WantedAsAsked, SavedAsAsked,
      CorrectedOnce, AsAsked, Corrections
<1> QED
  BY <1>1, <1>2, <1>3, <1>4, <1>5, <1>6 DEF HistoryNext

(* What the client has asked for, or the nominal position, reaches the hexapod
   with the correction once or not at all, also by way of the file, through any
   order of requests, ticks, refusals, losses and restarts, for any axes: as
   long as no connection takes it back from the hexapod. *)
THEOREM CorrectedAtMostOnce == HistorySpec => []CorrectedOnce
<1>1. HistoryInit => IInv
  BY TypeInit DEF HistoryInit, Init, IInv, OffWhen
<1>2. HistoryInit => HInv
  <2> SUFFICES ASSUME HistoryInit PROVE HInv
    OBVIOUS
  <2>1. HistoryTypes
    BY CollimationAssumption
    DEF HistoryInit, HistoryTypes, AskedAtStart, AskedNominal, Asked, Origin
  <2>2. WantedAsAsked /\ SavedAsAsked
    BY DEF HistoryInit, Init, WantedAsAsked, SavedAsAsked, AsAsked,
           AskedAtStart, Asked
  <2>3. CorrectedOnce
    BY CollimationAssumption
    DEF HistoryInit, Init, CorrectedOnce, AskedNominal, Asked, ZeroPos,
        Corrections
  <2> QED
    BY <2>1, <2>2, <2>3 DEF HInv
<1>3. IInv /\ [HistoryNext]_allVars => IInv'
  BY HistoryStep, TypeStep, OffWhenStep DEF IInv
<1>4. HInv => CorrectedOnce
  BY DEF HInv
<1> QED
  BY <1>1, <1>2, <1>3, <1>4, HistoryInvStep, PTL DEF HistorySpec

-----------------------------------------------------------------------------
(* Autocollimation does not hunt *)

(* When nothing fails a loop does all of its axes. *)
LEMMA CalmDone ==
  ASSUME calm, NEW S, NEW fault, NEW done \in Done(S, fault)
  PROVE  done = S
BY DEF Done, MayFail

LEMMA CalmHexPos ==
  ASSUME TypeOK, NEW p
  PROVE  HexPos(p, Axes) = actual
BY DEF HexPos, TypeOK

(* What correct adds uncorrect takes off. *)
LEMMA UncorrectCorrect ==
  ASSUME TypeOK, NEW p \in [Axes -> Int]
  PROVE  uncorrect(correct(p)) = p
<1>1. \A a \in Axes : Shift(a) \in Int
  BY CollimationAssumption DEF TypeOK, Shift
<1> QED
  BY <1>1 DEF correct, uncorrect

(* A settled tick finds the hexapod where it was. *)
LEMMA SettledRead ==
  ASSUME IInv, calm, Settled, TickRead
  PROVE  Settled' /\ UNCHANGED target
<1> USE DEF IInv, worldVars, hexVars
<1>1. PICK read \in Done(Axes, "read"), ok \in BOOLEAN :
        /\ Pos' = HexPos(Pos, read)
        /\ \/ corrS = "OFF" /\ EndTick(CountAfterRead(commerr_count, read), "OFF", TRUE)
           \/ corrS = "ON" /\ GetTempAndEl(ok) /\ corrS' = (IF ok THEN "ON" ELSE "OFF")
              /\ pc' = "TickMove"
  BY Zenon DEF TickRead
<1>2. Pos' = target /\ UNCHANGED <<NextPos, target, actual, sky>>
  BY <1>1, CalmDone, CalmHexPos DEF TickRead, Settled
<1>3. CASE corrS = "OFF"
  <2>1. corrS' = "OFF" /\ pc' = "idle"
    BY <1>1, <1>3 DEF EndTick
  <2> QED
    BY <1>2, <2>1 DEF Settled
<1>4. CASE corrS = "ON"
  <2>1. shift' = sky /\ shift = sky /\ pc' = "TickMove" /\ corrS' = "ON"
    BY <1>1, <1>4 DEF GetTempAndEl, MayFail, Settled
  <2>2. correct(NextPos)' = correct(NextPos)
    BY <1>2, <2>1 DEF correct, Shift
  <2> QED
    BY <1>2, <1>4, <2>1, <2>2 DEF Settled
<1> QED
  BY <1>3, <1>4 DEF TypeOK

(* And leaves it there, with the position wanted to show. *)
LEMMA SettledMove ==
  ASSUME IInv, calm, Settled, TickMove
  PROVE  Settled' /\ UNCHANGED target
<1> USE DEF IInv, worldVars
<1>1. corrS = "ON" /\ pc = "TickMove"
  BY DEF TickMove, Settled, TypeOK
<1>2. shift = sky /\ target = correct(NextPos) /\ Pos = correct(NextPos)
  BY <1>1 DEF Settled
<1>3. Veered = {}
  BY <1>2 DEF Veered
<1>4. /\ MoveAxes({}, correct(NextPos))
      /\ corrS' = "OFF" => ~connected'
      /\ pc' = "idle"
  <2>1. PICK done \in Done(Veered, "move") :
          \E moved \in Accepted(done, correct(NextPos)) :
            /\ MoveAxes(moved, correct(NextPos))
            /\ corrS' = IF connected' THEN IF moved # Veered THEN "OFF" ELSE corrS
                                      ELSE "OFF"
            /\ pc' = "idle"
    BY Zenon DEF TickMove, EndTick
  <2>2. PICK moved \in Accepted(done, correct(NextPos)) :
          /\ MoveAxes(moved, correct(NextPos))
          /\ corrS' = IF connected' THEN IF moved # Veered THEN "OFF" ELSE corrS
                                    ELSE "OFF"
          /\ pc' = "idle"
    BY <2>1
  <2>3. done = {}
    BY <1>3, CalmDone
  <2>4. moved = {}
    BY <2>3, AcceptedType
  <2> QED
    BY <1>1, <1>3, <2>2, <2>4
<1>5. target' = target
  BY <1>4 DEF MoveAxes, TypeOK
<1>6. Pos' = NextPos
  BY <1>2, UncorrectCorrect DEF TickMove, TypeOK
<1>7. UNCHANGED <<NextPos, shift, actual, sky>>
  BY DEF TickMove
<1>8. correct(NextPos)' = correct(NextPos)
  BY <1>7 DEF correct, Shift
<1> QED
  BY <1>1, <1>2, <1>4, <1>5, <1>6, <1>7, <1>8 DEF Settled

LEMMA SettledStep ==
  IInv /\ calm /\ Settled /\ [Next]_vars => calm' /\ Settled' /\ UNCHANGED target
<1> SUFFICES ASSUME IInv, calm, Settled, [Next]_vars
             PROVE  calm' /\ Settled' /\ UNCHANGED target
  OBVIOUS
<1> USE DEF worldVars, hexVars, driverVars
<1>1. CASE TickRead
  BY <1>1, SettledRead DEF TickRead
<1>2. CASE TickMove
  BY <1>2, SettledMove DEF TickMove
<1>3. CASE Save
  <2>1. corrS = "OFF" /\ corrS' = "OFF" /\ pc' = "idle"
    BY <1>3 DEF Save, IInv, OffWhen
  <2> QED
    BY <1>3, <2>1 DEF Save, Settled
<1>4. CASE UNCHANGED vars
  <2>1. correct(NextPos)' = correct(NextPos)
    BY <1>4 DEF vars, correct, Shift
  <2> QED
    BY <1>4, <2>1 DEF vars, Settled
<1>5. ~\E a \in Axes : Arrive(a)
  BY DEF Arrive, Moving, Settled
<1>6. ~(Client \/ SkyMoves \/ Restart \/ Calm)
  BY DEF Client, Connect, Disconnect, CorrectOn, CorrectOff, NewNumber, Request,
         SkyMoves, Restart, MayFail, Calm
<1> QED
  BY <1>1, <1>2, <1>3, <1>4, <1>5, <1>6 DEF Next

(* A position that is reached is not left again by a tick: no axis is told to
   move, and what is shown comes back to the position wanted. *)
THEOREM NoHunting == Spec => StaysSettled
<1>1. IInv /\ [Next]_vars => [calm /\ Settled => Settled' /\ UNCHANGED target]_vars
  BY SettledStep
<1> QED
  BY <1>1, Invariance, PTL DEF Spec, Safe, StaysSettled

(* So both liveness properties come down to being settled once: from then on
   the hexapod is corrected and what is shown is right. *)
THEOREM SettledForGood ==
  Spec => [](calm /\ Settled => [](AtCorrected /\ ShownIsRight))
<1>1. IInv /\ Settled => AtCorrected /\ ShownIsRight
  <2> SUFFICES ASSUME IInv, Settled PROVE AtCorrected /\ ShownIsRight
    OBVIOUS
  <2>1. AtCorrected
    <3> SUFFICES ASSUME corrS = "ON"
                 PROVE  actual = [a \in Axes |->
                                    NextPos[a] + IF a = Corrected THEN sky ELSE 0]
      BY DEF AtCorrected
    <3> QED
      BY DEF Settled, correct, Shift
  <2>2. ShownIsRight
    BY DEF ShownIsRight, Settled, IInv, TypeOK
  <2> QED
    BY <2>1, <2>2
<1> QED
  BY <1>1, SettledStep, Invariance, PTL DEF Spec, Safe
=============================================================================
