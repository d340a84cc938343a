---------------------------- MODULE Collimation ----------------------------
(***************************************************************************)
(* Positions in the VATT secondary driver (vatt_secondary.cpp, vatthex.c): *)
(* what the client asked for (NextPos), what the hexapod was told and      *)
(* where it is, what the client is shown (Pos), the correction for         *)
(* elevation and temperature, and the file that remembers the position     *)
(* between two periods of autocollimation and between two runs.            *)
(*                                                                         *)
(* Requests are served in one step, a tick in two: it reads the position   *)
(* and projectsoft, then moves the axes that have veered; the hexapod and  *)
(* the telescope move in between.  Lengths are small integers; only one    *)
(* axis has correction coefficients that are not zero.                     *)
(*                                                                         *)
(* calm marks the moment from which nothing disturbs the driver any more:  *)
(* no request, no failure, no change of elevation or temperature.          *)
(***************************************************************************)
EXTENDS Integers, Sequences

CONSTANTS
  AxisOrder,   \* the axes, in the order the driver's loops visit them
  Corrected,   \* the axis with correction coefficients: Z, the focus
  FileAxes,    \* the axes in posfile, and moved by switching on: all but W in the code
  Limit,       \* travel range of an axis: -Limit .. Limit
  Requests,    \* positions a client asks for
  Zero,        \* nominal position of an axis
  Shifts,      \* corrections elevation and temperature can call for
  FirstShift,  \* the correction for the driver's first el and temp
  MaxCommErr,  \* MAX_COMMERR
  MaxVatttel,  \* MAX_VATTTEL_CNT
  NoFile, Corrupt, \* posfile does not exist, cannot be read
  Faults,      \* what can fail: a subset of AllFaults
  MaxDrift     \* bound of the model: no read fails that would leave the
               \* position shown further below zero

(* A read of a position, of the movement or the readiness fails; a move
   finds the connection dead; the controller refuses a move within the travel
   range; projectsoft fails; the driver stops. *)
AllFaults == {"read", "move", "refuse", "projectsoft", "crash"}

Axes == {AxisOrder[i] : i \in 1 .. Len(AxisOrder)}

ASSUME CollimationAssumption ==
  /\ AxisOrder \in Seq(Axes) /\ AxisOrder # <<>>
  /\ Corrected \in Axes
  /\ FileAxes \subseteq Axes
  /\ Limit \in Nat
  /\ Requests \subseteq Int
  /\ Zero \in -Limit .. Limit
  /\ Shifts \subseteq Int /\ FirstShift \in Shifts
  /\ MaxCommErr \in Nat /\ MaxVatttel \in Nat
  /\ Faults \subseteq AllFaults
  /\ MaxDrift \in Nat

VARIABLES
  (* the driver *)
  pc,         \* "idle", "TickMove" between the parts of a tick, "Save"
  connected,  \* ID >= 0
  corrS,      \* autocollimation
  NextPos,    \* the uncorrected position the client wants
  Pos,        \* the position last read, uncorrected for display when on
  shift,      \* the correction of Corrected for the driver's el and temp
  isMoving,   \* SetMoveState's result, used in the second part of a tick
  commerr_count, vatttel_counter,
  (* what survives the driver *)
  posfile,
  (* the hexapod, the telescope, and the rest of the world *)
  target, actual,
  sky,        \* the correction that elevation and temperature call for now
  calm

driverVars == <<pc, connected, corrS, NextPos, Pos, shift, isMoving,
                commerr_count, vatttel_counter>>
worldVars == <<sky, calm>>
hexVars == <<target, actual>>
vars == <<driverVars, posfile, hexVars, worldVars>>

Travel == -Limit .. Limit
ZeroPos == [a \in Axes |-> Zero]
Shift(a) == IF a = Corrected THEN shift ELSE 0
LastAxis == AxisOrder[Len(AxisOrder)]
Moving(a) == actual[a] # target[a]

MayFail(fault) == fault \in Faults /\ ~calm

(* correct and uncorrect: the correction is added, and taken off. *)
correct(p)   == [a \in Axes |-> p[a] + Shift(a)]

(* Mutant of uncorrect: the sign of correct was left. *)
CorrectAgain(p) == correct(p)

uncorrect(p) == [a \in Axes |-> p[a] - Shift(a)]

(* The axes of S that a loop has done when it ends, early if it fails. *)
Done(S, fault) ==
  {S} \cup IF MayFail(fault)
             THEN {S \cap {AxisOrder[i] : i \in 1 .. k} :
                     k \in 0 .. Len(AxisOrder)}
             ELSE {}

(* GetHexPos reads axis by axis up to the first failure. *)
HexPos(p, read) == [a \in Axes |-> IF a \in read THEN actual[a] ELSE p[a]]

(* One error more; past MaxCommErr the model counts no further. *)
OneMore(count) == IF count > MaxCommErr THEN count ELSE count + 1

CountAfterRead(count, read) == IF read = Axes THEN 0 ELSE OneMore(count)

(* Mutant of Accepted: the travel range is not checked. *)
AllAccepted(done, want) == {done}

(* Axes are moved one after the other to where want says.  A move outside
   the travel range is refused, another may be, and the next axis is tried;
   a move that finds the connection dead ends the session.  Of the axes of
   done, those that may be the ones whose moves were accepted. *)
Accepted(done, want) ==
  LET inRange == {a \in done : want[a] \in Travel}
  IN  {inRange} \cup IF MayFail("refuse") THEN SUBSET inRange ELSE {}

MoveAxes(moved, want) ==
  target' = [a \in Axes |-> IF a \in moved THEN want[a] ELSE target[a]]

CountAfterMoves(count, moved) == IF moved = {} THEN count ELSE 0

(* GetTempAndEl asks projectsoft when the counter has run out; ok is its
   success, and a call that only counts succeeds. *)
Asks == vatttel_counter > MaxVatttel

(* Mutant of GetTempAndEl: a reading is not kept from one call to the next. *)
ForgetReading(ok) ==
  /\ ok \/ (Asks /\ MayFail("projectsoft"))
  /\ shift' = IF Asks /\ ok THEN sky ELSE FirstShift

GetTempAndEl(ok) ==
  /\ ok \/ (Asks /\ MayFail("projectsoft"))
  /\ shift' = IF Asks /\ ok THEN sky ELSE shift

-----------------------------------------------------------------------------
Init ==
  /\ pc = "idle" /\ connected = FALSE /\ corrS = "OFF"
  /\ NextPos = [a \in Axes |-> 0] /\ Pos = [a \in Axes |-> 0]
  /\ shift = FirstShift
  /\ isMoving = FALSE
  /\ commerr_count = 0 /\ vatttel_counter = 0
  /\ posfile = NoFile
  /\ target = ZeroPos /\ actual = ZeroPos
  /\ sky = FirstShift
  /\ calm = FALSE

-----------------------------------------------------------------------------
(* Requests                                                                *)

Request == pc = "idle" /\ ~calm

(* Connect takes the position of the hexapod for the position wanted, and
   then asks whether the axes are referenced; a failure is one more error. *)
Connect ==
  /\ Request
  /\ ~connected
  /\ connected' = TRUE
  /\ \E r1, r2 \in Done(Axes, "read") :
        LET count == CountAfterRead(CountAfterRead(commerr_count, r1), r2) IN
        /\ Pos' = HexPos(Pos, r1)
        /\ NextPos' = HexPos(NextPos, r2)
        /\ \/ commerr_count' = count
           \/ MayFail("read") /\ commerr_count' = OneMore(count)
  /\ UNCHANGED <<pc, corrS, shift, isMoving, vatttel_counter,
                 posfile, hexVars, worldVars>>

(* Mutant of Disconnect: the position is saved then, too. *)
DisconnectAndSave ==
  /\ Request
  /\ connected
  /\ connected' = FALSE
  /\ corrS' = "OFF"
  /\ posfile' = [a \in FileAxes |-> NextPos[a]]
  /\ UNCHANGED <<pc, NextPos, Pos, shift, isMoving, commerr_count,
                 vatttel_counter, hexVars, worldVars>>

Disconnect ==
  /\ Request
  /\ connected
  /\ connected' = FALSE
  /\ corrS' = "OFF"
  /\ UNCHANGED <<pc, NextPos, Pos, shift, isMoving, commerr_count,
                 vatttel_counter, posfile, hexVars, worldVars>>

(* A position for one axis.  A move that is refused or lost is forgotten;
   the position stays wanted. *)
NewNumber(a, v) ==
  /\ Request
  /\ NextPos' = [NextPos EXCEPT ![a] = v]
  /\ LET want == IF corrS = "ON" THEN correct(NextPos') ELSE NextPos'
     IN  \/ /\ connected
            /\ \E done \in Done({a}, "move") : \E moved \in Accepted(done, want) :
                  /\ MoveAxes(moved, want)
                  /\ connected' = (done = {a})
                  /\ corrS' = IF connected' THEN corrS ELSE "OFF"
                  /\ commerr_count' = CountAfterMoves(commerr_count, moved)
         \/ ~connected /\ UNCHANGED <<connected, target, corrS, commerr_count>>
  /\ UNCHANGED <<pc, Pos, shift, isMoving, vatttel_counter, posfile,
                 actual, worldVars>>

(* Autocollimation on: go to the position of posfile, or the nominal one,
   without correction; the next tick asks projectsoft and corrects. *)
Restored ==
  IF posfile \in {NoFile, Corrupt}
    THEN ZeroPos
    ELSE [a \in Axes |-> IF a \in FileAxes THEN posfile[a] ELSE NextPos[a]]

CorrectOn ==
  /\ Request
  /\ connected
  /\ NextPos' = Restored
  /\ \E done \in Done(FileAxes, "move"), ok \in BOOLEAN :
        /\ \E moved \in Accepted(done, Restored) :
              /\ MoveAxes(moved, Restored)
              /\ commerr_count' = CountAfterMoves(commerr_count, moved)
        /\ connected' = (done = FileAxes)
        /\ GetTempAndEl(ok)
        /\ corrS' = IF connected' /\ ok THEN "ON" ELSE "OFF"
  /\ vatttel_counter' = MaxVatttel + 1
  /\ UNCHANGED <<pc, Pos, isMoving, posfile, actual, worldVars>>

(* Off: the file is opened, which empties it, then written and closed.  The
   hexapod stays where it is, corrected. *)
CorrectOff ==
  /\ Request
  /\ connected
  /\ corrS' = "OFF"
  /\ \E read \in Done(Axes, "read") :
        /\ Pos' = HexPos(Pos, read)
        /\ commerr_count' = CountAfterRead(commerr_count, read)
  /\ posfile' = Corrupt
  /\ pc' = "Save"
  /\ UNCHANGED <<connected, NextPos, shift, isMoving,
                 vatttel_counter, hexVars, worldVars>>

(* Mutant of Save: the position read is saved, the correction with it. *)
SavePos ==
  /\ pc = "Save"
  /\ posfile' = [a \in FileAxes |-> Pos[a]]
  /\ pc' = "idle"
  /\ UNCHANGED <<connected, corrS, NextPos, Pos, shift, isMoving,
                 commerr_count, vatttel_counter, hexVars, worldVars>>

Save ==
  /\ pc = "Save"
  /\ posfile' = [a \in FileAxes |-> NextPos[a]]
  /\ pc' = "idle"
  /\ UNCHANGED <<connected, corrS, NextPos, Pos, shift, isMoving,
                 commerr_count, vatttel_counter, hexVars, worldVars>>

-----------------------------------------------------------------------------
(* The tick                                                                *)

(* The end of a tick: too many failed reads end the session. *)
EndTick(count, auto, up) ==
  /\ commerr_count' = count
  /\ connected' = (up /\ count <= MaxCommErr)
  /\ corrS' = IF connected' THEN auto ELSE "OFF"
  /\ isMoving' = FALSE
  /\ pc' = "idle"

(* SetMoveState's result is that of the last axis; when the call for it
   fails it is that of another axis, or was never set. *)
SetMoveState == {Moving(LastAxis)} \cup IF MayFail("read") THEN BOOLEAN ELSE {}

(* Read the position, whether the hexapod is moving, and in autocollimation
   projectsoft. *)
TickRead ==
  /\ pc = "idle"
  /\ connected
  /\ \E read \in Done(Axes, "read"), ok \in BOOLEAN :
        LET count == CountAfterRead(commerr_count, read) IN
        /\ read = Axes \/ \A a \in Axes : Pos[a] >= -MaxDrift
        /\ Pos' = HexPos(Pos, read)
        /\ \/ /\ corrS = "OFF"
              /\ ok
              /\ EndTick(count, "OFF", TRUE)
              /\ UNCHANGED <<shift, vatttel_counter>>
           \/ /\ corrS = "ON"
              /\ GetTempAndEl(ok)
              /\ vatttel_counter' = IF Asks THEN 0 ELSE vatttel_counter + 1
              /\ corrS' = IF ok THEN "ON" ELSE "OFF"
              /\ isMoving' \in SetMoveState
              /\ commerr_count' = count
              /\ pc' = "TickMove"
              /\ UNCHANGED connected
  /\ UNCHANGED <<NextPos, posfile, hexVars, worldVars>>

(* Mutant of Veered: the position is compared with the uncorrected one. *)
VeeredUncorrected ==
  IF isMoving THEN {} ELSE {a \in Axes : NextPos[a] # Pos[a]}

(* Move the axes that have veered from the corrected position; if a move
   fails, switch off and delete the file, in case it is to blame.  Then the
   correction is taken out of the position shown. *)
Veered == IF isMoving THEN {} ELSE {a \in Axes : correct(NextPos)[a] # Pos[a]}

TickMove ==
  /\ pc = "TickMove"
  /\ \E done \in Done(Veered, "move") :
     \E moved \in Accepted(done, correct(NextPos)) :
        /\ MoveAxes(moved, correct(NextPos))
        /\ posfile' = IF moved # Veered THEN NoFile ELSE posfile
        /\ EndTick(CountAfterMoves(commerr_count, moved),
                   IF moved # Veered THEN "OFF" ELSE corrS,
                   done = Veered)
  /\ Pos' = uncorrect(Pos)
  /\ UNCHANGED <<NextPos, shift, vatttel_counter, actual, worldVars>>

-----------------------------------------------------------------------------
(* The world                                                               *)

Arrive(a) ==
  /\ Moving(a)
  /\ actual' = [actual EXCEPT ![a] = target[a]]
  /\ UNCHANGED <<driverVars, posfile, target, worldVars>>

SkyMoves ==
  /\ ~calm
  /\ sky' \in Shifts \ {sky}
  /\ UNCHANGED <<driverVars, posfile, hexVars, calm>>

(* The driver stops in the middle of a loop over the axes: some of them have
   been told to move, and a tick that was refused one of those moves has
   already deleted the file. *)
CutShort ==
  \/ /\ pc = "idle" /\ connected
     /\ \E done \in Done(FileAxes, "crash") :
        \E moved \in Accepted(done, Restored) : MoveAxes(moved, Restored)
     /\ UNCHANGED posfile
  \/ /\ pc = "TickMove"
     /\ \E done \in Done(Veered, "crash") :
        \E moved \in Accepted(done, correct(NextPos)) :
           /\ MoveAxes(moved, correct(NextPos))
           /\ posfile' = IF moved # done THEN NoFile ELSE posfile

(* The driver stops at any point, and indiserver starts it again. *)
Restart ==
  /\ MayFail("crash")
  /\ CutShort \/ UNCHANGED <<posfile, target>>
  /\ pc' = "idle" /\ connected' = FALSE /\ corrS' = "OFF"
  /\ NextPos' = [a \in Axes |-> 0] /\ Pos' = [a \in Axes |-> 0]
  /\ shift' = FirstShift
  /\ isMoving' = FALSE
  /\ commerr_count' = 0 /\ vatttel_counter' = 0
  /\ UNCHANGED <<actual, worldVars>>

Calm ==
  /\ ~calm
  /\ calm' = TRUE
  /\ UNCHANGED <<driverVars, posfile, hexVars, sky>>

-----------------------------------------------------------------------------
Client ==
  \/ Connect \/ Disconnect \/ CorrectOn \/ CorrectOff
  \/ \E a \in Axes, v \in Requests : NewNumber(a, v)

Next ==
  \/ Client \/ Save \/ TickRead \/ TickMove
  \/ \E a \in Axes : Arrive(a)
  \/ SkyMoves \/ Restart \/ Calm

(* The timer keeps firing, a handler goes on, and the hexapod gets there. *)
Fairness ==
  /\ WF_vars(Save) /\ WF_vars(TickRead) /\ WF_vars(TickMove)
  /\ \A a \in Axes : WF_vars(Arrive(a))

Safe == Init /\ [][Next]_vars

Spec == Safe /\ Fairness

-----------------------------------------------------------------------------
(* Properties                                                              *)

TypeOK ==
  /\ pc \in {"idle", "TickMove", "Save"}
  /\ connected \in BOOLEAN
  /\ corrS \in {"ON", "OFF"}
  /\ NextPos \in [Axes -> Int] /\ Pos \in [Axes -> Int]
  /\ shift \in Shifts /\ sky \in Shifts
  /\ isMoving \in BOOLEAN
  /\ commerr_count \in 0 .. MaxCommErr + 1
  /\ vatttel_counter \in 0 .. MaxVatttel + 1
  /\ posfile \in {NoFile, Corrupt} \cup [FileAxes -> Int]
  /\ target \in [Axes -> Travel] /\ actual \in [Axes -> Travel]
  /\ calm \in BOOLEAN

Corrections(a) == IF a = Corrected THEN Shifts \cup {0} ELSE {0}

(* A position saved when autocollimation was switched off is there when it
   is switched on again, after any number of connections and restarts: it
   is replaced only by switching off again, and deleted only by a tick of
   autocollimation. *)
SavedPositionKept ==
  [][posfile' # posfile =>
       \/ pc' = "Save"
       \/ pc = "Save" /\ corrS = "OFF"
       \/ pc = "TickMove" /\ corrS' = "OFF"]_vars

(* The hexapod is at the position wanted with the correction of the moment. *)
AtCorrected ==
  corrS = "ON" => actual = [a \in Axes |->
                              NextPos[a] + IF a = Corrected THEN sky ELSE 0]

(* The client is shown the position it asked for in autocollimation, where
   the hexapod is otherwise. *)
ShownIsRight ==
  connected /\ pc = "idle" => Pos = IF corrS = "ON" THEN NextPos ELSE actual

(* Once nothing disturbs it, autocollimation brings the hexapod to the
   position wanted with the correction of the moment, and it stays there. *)
Converges == [](calm => <>[]AtCorrected)

(* And what the client is shown settles. *)
DisplaySettles == [](calm => <>[]ShownIsRight)

(* The hexapod has arrived, and the driver has read that it has: in
   autocollimation corrected for the elevation and temperature of now, the
   position shown with the correction in it only within a tick. *)
Settled ==
  /\ actual = target
  /\ corrS = "ON" => /\ shift = sky
                     /\ target = correct(NextPos)
                     /\ Pos = IF pc = "idle" THEN NextPos ELSE target
  /\ corrS = "OFF" => pc # "TickMove" /\ (connected => Pos = target)

(* Autocollimation does not hunt: what it has reached, tick after tick of
   reading, correcting and taking the correction out again leaves alone, and
   no axis is told to move. *)
StaysSettled == [][calm /\ Settled => Settled' /\ UNCHANGED target]_vars

-----------------------------------------------------------------------------
(* What the comments say and the code does not do                          *)

(* GetTempAndEl (1463): "turning off autocollimation": a tick in which that
   has happened does not move the hexapod. *)
OffMeansOff == [][corrS = "OFF" /\ pc = "TickMove" => UNCHANGED target]_vars

(* TimerHit (1021): "if we are not moving [...] update the position": a tick
   moves nothing while an axis is moving. *)
MovesAtRest ==
  [][pc = "TickMove" /\ target' # target => \A a \in Axes : ~Moving(a)]_vars

(* TimerHit (1083): "remove correction for display purpose": the position
   shown is one the hexapod can be in, with the correction removed once. *)
ShownIsPossible ==
  \A a \in Axes : \E s \in Corrections(a) : Pos[a] + s \in Travel

=============================================================================
