--------------------------- MODULE SecondaryProofs ---------------------------
(***************************************************************************)
(* The safety properties of Secondary, proved for every number of axes,    *)
(* every value of the two limits, every set of timers and any mix of GCS   *)
(* commands, and the step simulation that shows Secondary to keep the      *)
(* promise of Session.                                                     *)
(***************************************************************************)
EXTENDS Secondary, TLAPS

-----------------------------------------------------------------------------
(* The part of the inductive invariant that is not a property of its own   *)

(* While Connect runs, the client is not yet shown a connected device and
   autocollimation is off; there is a session from qIDN on. *)
Connecting ==
  /\ pc \in ConnectPCs => ~DeviceConnected /\ corrS = "OFF"
  /\ pc = "Connect" => ID < 0
  /\ pc \in ConnectPCs \ {"Connect"} => ID >= 0

-----------------------------------------------------------------------------
(* Type correctness, in two parts: the provers that are good with sets of
   values are not those that are good with truth values. *)
TruthTypes ==
  /\ reachable \in BOOLEAN
  /\ referenced \in BOOLEAN
  /\ referencing \in BOOLEAN
  /\ answer \in BOOLEAN
  /\ connectionWentBad \in BOOLEAN

ValueTypes ==
  /\ pipe \in {"closed", "alive", "dead"}
  /\ pc \in PCs
  /\ axis \in Axes
  /\ ID \in {-1, 0}
  /\ connS \in ISState /\ connSV \in IPState
  /\ corrS \in ISState /\ corrSV \in IPState
  /\ refS \in ISState  /\ refSV \in IPState
  /\ commerr_count \in 0 .. MaxCommErr + 1
  /\ vatttel_counter \in 0 .. MaxVatttel + 1
  /\ TimerID \in TimerIds \cup {NoTimer}
  /\ timers \subseteq TimerIds

LEMMA ValueStep == TypeOK /\ [Next]_vars => ValueTypes'
<1> SUFFICES ASSUME TypeOK, [Next]_vars PROVE ValueTypes'
  OBVIOUS
<1> USE SecondaryAssumption
    DEF TypeOK, ValueTypes, PCs, ConnectPCs, TickPCs, Axes, IPState, ISState, Exchange,
        envVars, connVars, switchVars, corrVars, refVars, timerVars, countVars
<1>1. CASE ClientConnect
  BY <1>1 DEF ClientConnect, setConnected
<1>2. CASE Connect
  BY <1>2 DEF Connect, setConnected
<1>3. CASE ConnectIDN
  BY <1>3 DEF ConnectIDN, ConnectFails, CloseConnection, setConnected
<1>4. CASE ConnectPos
  BY <1>4 DEF ConnectPos, GetHexPos, CountError
<1>5. CASE ConnectRef
  BY <1>5 DEF ConnectRef, isReferenced, CountError, setConnected,
              updateProperties, SetTimer
<1>6. CASE ClientDisconnect
  BY <1>6 DEF ClientDisconnect, Disconnect, CloseConnection, setConnected,
              updateProperties, SetTimer
<1>7. CASE ClientNumber
  BY <1>7 DEF ClientNumber, MoveOneAxis, LoseConnection, CloseConnection,
              CorrAfter, setConnected
<1>8. CASE ClientCorrectNoConnection
  BY <1>8 DEF ClientCorrectNoConnection, setConnected
<1>9. CASE ClientCorrectOn
  BY <1>9 DEF ClientCorrectOn
<1>10. CASE ClientCorrectOff
  BY <1>10 DEF ClientCorrectOff, GetHexPos, CountError
<1>11. CASE ClientRefNoConnection
  BY <1>11 DEF ClientRefNoConnection, setConnected
<1>12. CASE ClientRef
  BY <1>12 DEF ClientRef
<1>13. CASE ClientCommand
  BY <1>13 DEF ClientCommand
<1>14. ASSUME NEW t \in TimerIds, TimerHitNoConnection(t) PROVE ValueTypes'
  BY <1>14 DEF TimerHitNoConnection, setConnected, SetTimer
<1>15. ASSUME NEW t \in TimerIds, TimerHit(t) PROVE ValueTypes'
  BY <1>15 DEF TimerHit, setConnected
<1>16. CASE OnMove
  BY <1>16 DEF OnMove, MoveOneAxis, LoseConnection, CloseConnection,
               CorrAfter, setConnected
<1>17. CASE OnTempEl
  BY <1>17 DEF OnTempEl
<1>18. CASE RefQuery
  BY <1>18 DEF RefQuery, RefEnds
<1>19. CASE RefWait
  BY <1>19 DEF RefWait, RefEnds
<1>20. CASE CmdWait
  BY <1>20 DEF CmdWait
<1>21. CASE TickPos
  BY <1>21 DEF TickPos, GetHexPos, CountError
<1>22. CASE TickReady
  BY <1>22 DEF TickReady
<1>23. CASE TickTempEl
  BY <1>23 DEF TickTempEl, CountCall, Asks
<1>24. CASE TickCorrect
  BY <1>24 DEF TickCorrect, AxisInPlace, MoveAxis, MoveOneAxis,
               LoseConnection, CloseConnection, setConnected
<1>25. CASE TickError
  BY <1>25 DEF TickError, Disconnect, CloseConnection, setConnected, SetTimer
<1>26. CASE Environment
  BY <1>26 DEF Environment, ControllerDown, ControllerUp, ConnectionDies,
               ReferenceMoveEnds, driverVars
<1>27. CASE UNCHANGED vars
  BY <1>27 DEF vars
<1> QED
  BY <1>1, <1>2, <1>3, <1>4, <1>5, <1>6, <1>7, <1>8, <1>9, <1>10, <1>11,
     <1>12, <1>13, <1>14, <1>15, <1>16, <1>17, <1>18, <1>19, <1>20, <1>21,
     <1>22, <1>23, <1>24, <1>25, <1>26, <1>27
  DEF Next, Request, Poll, Handler

LEMMA TruthStep == TypeOK /\ [Next]_vars => TruthTypes'
<1> SUFFICES ASSUME TypeOK, [Next]_vars PROVE TruthTypes'
  OBVIOUS
<1> USE DEF TypeOK, TruthTypes, envVars
<1>1. CASE Request
  <2>1. UNCHANGED <<reachable, referenced, referencing>> /\ answer' \in BOOLEAN
    BY <1>1, Zenon
    DEF Request, ClientConnect, ClientDisconnect, ClientNumber,
        ClientCorrectNoConnection, ClientCorrectOn, ClientCorrectOff,
        ClientRefNoConnection, ClientRef, ClientCommand
  <2>2. connectionWentBad' \in BOOLEAN
    BY <1>1, Zenon
    DEF Request, ClientConnect, ClientDisconnect, ClientNumber,
        ClientCorrectNoConnection, ClientCorrectOn, ClientCorrectOff,
        ClientRefNoConnection, ClientRef, ClientCommand, MoveOneAxis,
        LoseConnection
  <2> QED
    BY <2>1, <2>2, Zenon
<1>2. CASE Poll
  BY <1>2, Zenon DEF Poll, TimerHitNoConnection, TimerHit
<1>3. CASE Handler
  <2>1. reachable' \in BOOLEAN /\ answer' \in BOOLEAN
    BY <1>3, Zenon
    DEF Handler, Connect, ConnectIDN, ConnectPos, ConnectRef, OnMove,
        OnTempEl, RefQuery, RefWait, CmdWait, TickPos, TickReady, TickTempEl,
        TickCorrect, TickError
  <2>2. referenced' \in BOOLEAN /\ referencing' \in BOOLEAN
    BY <1>3, Zenon
    DEF Handler, Connect, ConnectIDN, ConnectPos, ConnectRef, OnMove,
        OnTempEl, RefQuery, RefWait, CmdWait, TickPos, TickReady, TickTempEl,
        TickCorrect, TickError
  <2>3. connectionWentBad' \in BOOLEAN
    BY <1>3, Zenon
    DEF Handler, Connect, ConnectIDN, ConnectPos, ConnectRef, OnMove,
        OnTempEl, RefQuery, RefWait, CmdWait, TickPos, TickReady, TickTempEl,
        TickCorrect, TickError, AxisInPlace, MoveAxis, MoveOneAxis,
        LoseConnection
  <2> QED
    BY <2>1, <2>2, <2>3, Zenon
<1>4. CASE Environment
  BY <1>4, Zenon DEF Environment, ControllerDown, ControllerUp,
                     ConnectionDies, ReferenceMoveEnds, driverVars
<1>5. CASE UNCHANGED vars
  BY <1>5, Zenon DEF vars
<1> QED
  BY <1>1, <1>2, <1>3, <1>4, <1>5 DEF Next

(* Every step leaves each variable in its type. *)
LEMMA TypeStep == TypeOK /\ [Next]_vars => TypeOK'
<1>1. TruthTypes' /\ ValueTypes' => TypeOK'
  BY DEF TruthTypes, ValueTypes, TypeOK
<1> QED
  BY <1>1, ValueStep, TruthStep

-----------------------------------------------------------------------------
(* The session invariants: what holds of the connection, the lights the
   client sees and the autocollimation switch together.  None of them is
   inductive alone: a handler that goes on after the connection is lost
   needs to know that autocollimation is off, and a failing Connect that it
   was never on. *)
SessionInv ==
  /\ NoLeakedConnection
  /\ ConnectionLight
  /\ Connecting
  /\ AutocollimationNeedsSession
  /\ AutocollimationIsShown

LEMMA SessionStep == TypeOK /\ SessionInv /\ [Next]_vars => SessionInv'
<1> SUFFICES ASSUME TypeOK, SessionInv, [Next]_vars PROVE SessionInv'
  OBVIOUS
<1> USE DEF TypeOK, SessionInv, NoLeakedConnection, ConnectionLight,
            Connecting, AutocollimationNeedsSession, AutocollimationIsShown,
            DeviceConnected, ConnectPCs, connVars, switchVars, corrVars
<1>1. CASE ClientConnect
  BY <1>1 DEF ClientConnect, setConnected
<1>2. CASE Connect
  BY <1>2 DEF Connect, setConnected
<1>3. CASE ConnectIDN
  BY <1>3 DEF ConnectIDN, ConnectFails, CloseConnection, setConnected,
              Exchange
<1>4. CASE ConnectPos
  BY <1>4 DEF ConnectPos
<1>5. CASE ConnectRef
  BY <1>5 DEF ConnectRef, setConnected
<1>6. CASE ClientDisconnect
  BY <1>6 DEF ClientDisconnect, Disconnect, CloseConnection, setConnected
<1>7. CASE ClientNumber
  BY <1>7 DEF ClientNumber, MoveOneAxis, LoseConnection, CloseConnection,
              CorrAfter, setConnected
<1>8. CASE ClientCorrectNoConnection
  BY <1>8 DEF ClientCorrectNoConnection, setConnected
<1>9. CASE ClientCorrectOn
  BY <1>9 DEF ClientCorrectOn
<1>10. CASE ClientCorrectOff
  BY <1>10 DEF ClientCorrectOff
<1>11. CASE ClientRefNoConnection
  BY <1>11 DEF ClientRefNoConnection, setConnected
<1>12. CASE ClientRef
  BY <1>12 DEF ClientRef
<1>13. CASE ClientCommand
  BY <1>13 DEF ClientCommand
<1>14. CASE OnMove
  BY <1>14 DEF OnMove, MoveOneAxis, LoseConnection, CloseConnection,
               CorrAfter, setConnected
<1>15. CASE OnTempEl
  BY <1>15 DEF OnTempEl
<1>16. CASE RefQuery
  BY <1>16 DEF RefQuery, RefEnds
<1>17. CASE RefWait
  BY <1>17 DEF RefWait, RefEnds
<1>18. CASE CmdWait
  BY <1>18 DEF CmdWait
<1>19. CASE TickPos
  BY <1>19 DEF TickPos
<1>20. CASE TickReady
  BY <1>20 DEF TickReady
<1>21. CASE TickTempEl
  BY <1>21 DEF TickTempEl
<1>22. CASE TickCorrect
  BY <1>22 DEF TickCorrect, AxisInPlace, MoveAxis, MoveOneAxis,
               LoseConnection, CloseConnection, setConnected
<1>23. CASE TickError
  BY <1>23 DEF TickError, Disconnect, CloseConnection, setConnected
<1>24. CASE Environment
  BY <1>24 DEF Environment, ControllerDown, ControllerUp, ConnectionDies,
               ReferenceMoveEnds, driverVars
<1>25. ASSUME NEW t \in TimerIds, TimerHitNoConnection(t) PROVE SessionInv'
  BY <1>25 DEF TimerHitNoConnection, setConnected
<1>26. ASSUME NEW t \in TimerIds, TimerHit(t) PROVE SessionInv'
  BY <1>26 DEF TimerHit, setConnected
<1>27. CASE UNCHANGED vars
  BY <1>27 DEF vars
<1> QED
  BY <1>1, <1>2, <1>3, <1>4, <1>5, <1>6, <1>7, <1>8, <1>9, <1>10, <1>11,
     <1>12, <1>13, <1>14, <1>15, <1>16, <1>17, <1>18, <1>19, <1>20, <1>21,
     <1>22, <1>23, <1>24, <1>25, <1>26, <1>27
  DEF Next, Request, Poll, Handler

-----------------------------------------------------------------------------
(* The poll timer.  Only five actions touch it; the others keep pc in or
   out of TickPCs as they leave the timers alone. *)
LEMMA TimerStep == TypeOK /\ OnePollTimer /\ [Next]_vars => OnePollTimer'
<1> SUFFICES ASSUME TypeOK, OnePollTimer, [Next]_vars PROVE OnePollTimer'
  OBVIOUS
<1> USE SecondaryAssumption DEF TypeOK, OnePollTimer, TickPCs, timerVars
<1>1. CASE ClientDisconnect
  BY <1>1 DEF ClientDisconnect, updateProperties, SetTimer
<1>2. CASE ConnectRef
  BY <1>2 DEF ConnectRef, updateProperties, SetTimer
<1>3. ASSUME NEW t \in TimerIds, TimerHitNoConnection(t)
      PROVE OnePollTimer'
  BY <1>3 DEF TimerHitNoConnection, SetTimer
<1>4. ASSUME NEW t \in TimerIds, TimerHit(t) PROVE OnePollTimer'
  BY <1>4 DEF TimerHit
<1>5. CASE TickError
  BY <1>5 DEF TickError, SetTimer
<1>6. CASE Request /\ ~ClientDisconnect
  BY <1>6 DEF Request, ClientConnect, ClientNumber,
              ClientCorrectNoConnection, ClientCorrectOn, ClientCorrectOff,
              ClientRefNoConnection, ClientRef, ClientCommand
<1>7. CASE Handler /\ ~ConnectRef /\ ~TickError
  BY <1>7 DEF Handler, Connect, ConnectIDN, ConnectFails, ConnectPos, OnMove,
              OnTempEl, RefQuery, RefWait, RefEnds, CmdWait, TickPos,
              TickReady, TickTempEl, TickCorrect
<1>8. CASE Environment
  BY <1>8 DEF Environment, ControllerDown, ControllerUp, ConnectionDies,
              ReferenceMoveEnds, driverVars
<1>9. CASE UNCHANGED vars
  BY <1>9 DEF vars
<1> QED
  BY <1>1, <1>2, <1>3, <1>4, <1>5, <1>6, <1>7, <1>8, <1>9 DEF Next, Poll

-----------------------------------------------------------------------------
(* The theorems                                                            *)

(* The inductive invariant. *)
IInv == TypeOK /\ SessionInv /\ OnePollTimer

(* The invariant holds initially and every step keeps it. *)
THEOREM Invariance == Safe => []IInv
<1>1. Init => IInv
  <2> SUFFICES ASSUME Init PROVE IInv
    OBVIOUS
  <2>1. TruthTypes
    BY Zenon DEF Init, TruthTypes
  <2>2. ValueTypes
    BY SecondaryAssumption
    DEF Init, ValueTypes, PCs, Axes, ISState, IPState
  <2>3. TypeOK
    BY <2>1, <2>2 DEF TruthTypes, ValueTypes, TypeOK
  <2>4. SessionInv
    BY DEF Init, SessionInv, NoLeakedConnection, ConnectionLight, Connecting,
           AutocollimationNeedsSession, AutocollimationIsShown,
           DeviceConnected, ConnectPCs
  <2>5. OnePollTimer
    BY SecondaryAssumption DEF Init, OnePollTimer
  <2> QED
    BY <2>3, <2>4, <2>5 DEF IInv
<1>2. IInv /\ [Next]_vars => IInv'
  BY TypeStep, SessionStep, TimerStep DEF IInv
<1> QED
  BY <1>1, <1>2, PTL DEF Safe

(* Every variable keeps its type, the two counters their range. *)
THEOREM TypeCorrect == Spec => []TypeOK
<1>1. IInv => TypeOK
  BY DEF IInv
<1> QED
  BY <1>1, Invariance, PTL DEF Spec

(* ID and the connection of the PI library agree in every state: no way out
   of a handler leaks a connection or keeps the ID of a closed one. *)
THEOREM ConnectionNotLeaked == Spec => []NoLeakedConnection
<1>1. IInv => NoLeakedConnection
  BY DEF IInv, SessionInv
<1> QED
  BY <1>1, Invariance, PTL DEF Spec

(* The client is shown a connected device exactly when there is a session,
   except while Connect is at work. *)
THEOREM LightTellsTheTruth == Spec => []ConnectionLight
<1>1. IInv => ConnectionLight
  BY DEF IInv, SessionInv
<1> QED
  BY <1>1, Invariance, PTL DEF Spec

(* Autocollimation ends with the session, however the session ends. *)
THEOREM AutocollimationEndsWithSession ==
  Spec => []AutocollimationNeedsSession
<1>1. IInv => AutocollimationNeedsSession
  BY DEF IInv, SessionInv
<1> QED
  BY <1>1, Invariance, PTL DEF Spec

(* While it is on, its light is green: whichever handler switches it off in
   one failure or another, none leaves it on behind an idle light. *)
THEOREM AutocollimationHasItsLight == Spec => []AutocollimationIsShown
<1>1. IInv => AutocollimationIsShown
  BY DEF IInv, SessionInv
<1> QED
  BY <1>1, Invariance, PTL DEF Spec

(* There is one poll timer, however polls, connections and disconnections
   are ordered. *)
THEOREM PollNeitherDoublesNorDies == Spec => []OnePollTimer
<1>1. IInv => OnePollTimer
  BY DEF IInv
<1> QED
  BY <1>1, Invariance, PTL DEF Spec

-----------------------------------------------------------------------------
(* Secondary implements Session                                            *)

(* What the session of the promise shows does not change. *)
SameSession == UNCHANGED <<pipe, DeviceConnected, corrS>>

(* Every step is a step of the promise or leaves the session as it is. *)
LEMMA SimulationStep ==
  TypeOK /\ SessionInv /\ [Next]_vars => [Promise!Next]_(Promise!vars)
<1> SUFFICES ASSUME TypeOK, SessionInv, [Next]_vars
             PROVE  [Promise!Next]_(Promise!vars)
  OBVIOUS
<1> USE DEF TypeOK, SessionInv, NoLeakedConnection, ConnectionLight,
            Connecting, AutocollimationNeedsSession, DeviceConnected,
            ConnectPCs, ISState, connVars, switchVars, corrVars
<1> DEFINE P == [Promise!Next]_(Promise!vars)
<1>0. SameSession => P
  BY DEF SameSession, Promise!vars
<1>a. ASSUME Promise!Next PROVE P
  BY <1>a
<1> SUFFICES P
  OBVIOUS
<1> HIDE DEF P
(* Steps that leave the session as it is. *)
<1>1. CASE ClientConnect
  BY <1>0, <1>1 DEF ClientConnect, setConnected, SameSession
<1>2. CASE ConnectPos
  BY <1>0, <1>2 DEF ConnectPos, SameSession
<1>3. CASE ClientCorrectNoConnection
  BY <1>0, <1>3 DEF ClientCorrectNoConnection, setConnected, SameSession
<1>4. CASE ClientRefNoConnection
  BY <1>0, <1>4 DEF ClientRefNoConnection, setConnected, SameSession
<1>5. CASE ClientRef \/ RefQuery \/ RefWait
  BY <1>0, <1>5 DEF ClientRef, RefQuery, RefWait, SameSession
<1>6. CASE ClientCommand \/ CmdWait
  BY <1>0, <1>6 DEF ClientCommand, CmdWait, SameSession
<1>7. ASSUME NEW t \in TimerIds, TimerHitNoConnection(t) PROVE P
  BY <1>0, <1>7 DEF TimerHitNoConnection, setConnected, SameSession
<1>8. ASSUME NEW t \in TimerIds, TimerHit(t) PROVE P
  BY <1>0, <1>8 DEF TimerHit, setConnected, SameSession
<1>9. CASE TickPos \/ TickReady
  BY <1>0, <1>9 DEF TickPos, TickReady, SameSession
<1>10. CASE UNCHANGED vars
  BY <1>0, <1>10 DEF vars, SameSession
(* The connection is opened, announced, dies and is given up. *)
<1>11. CASE Connect
  <2>1. CASE SameSession
    BY <2>1, <1>0
  <2>2. CASE ~SameSession
    BY <2>2, <1>11, <1>a
    DEF Connect, setConnected, SameSession, Promise!Next, Promise!Open
  <2> QED
    BY <2>1, <2>2
<1>12. CASE ConnectIDN
  <2>1. CASE ConnectFails
    BY <2>1, <1>12, <1>a
    DEF ConnectIDN, ConnectFails, CloseConnection, setConnected,
        Promise!Next, Promise!HangUp
  <2>2. CASE ~ConnectFails
    BY <2>2, <1>12, <1>0 DEF ConnectIDN, SameSession
  <2> QED
    BY <2>1, <2>2
<1>13. CASE ConnectRef
  BY <1>13, <1>a
  DEF ConnectRef, setConnected, Promise!Next, Promise!Announce
<1>14. CASE Environment
  <2>1. CASE SameSession
    BY <2>1, <1>0
  <2>2. CASE ~SameSession
    BY <2>2, <1>14, <1>a
    DEF Environment, ControllerDown, ControllerUp, ConnectionDies,
        ReferenceMoveEnds, driverVars, SameSession, Promise!Next,
        Promise!Break
  <2> QED
    BY <2>1, <2>2
<1>15. CASE ClientDisconnect
  <2>1. CASE DeviceConnected
    BY <2>1, <1>15, <1>a
    DEF ClientDisconnect, Disconnect, CloseConnection, setConnected,
        Promise!Next, Promise!HangUp
  <2>2. CASE ~DeviceConnected
    BY <2>2, <1>15, <1>0
    DEF ClientDisconnect, setConnected, SameSession
  <2> QED
    BY <2>1, <2>2
(* A move leaves the session as it is, unless it finds it lost. *)
<1>16. ASSUME NEW r \in MoveResults, MoveOneAxis(r), r # "lost",
              UNCHANGED corrS \/ corrS' = "OFF"
       PROVE  P
  <2>1. UNCHANGED <<pipe, DeviceConnected>>
    BY <1>16 DEF MoveOneAxis, setConnected
  <2>2. CASE UNCHANGED corrS
    BY <2>1, <2>2, <1>0 DEF SameSession
  <2>3. CASE corrS' = "OFF"
    BY <2>1, <2>3, <1>a DEF Promise!Next, Promise!SwitchOff
  <2> QED
    BY <2>2, <2>3, <1>16
<1>17. ASSUME MoveOneAxis("lost"), corrS' = "OFF" PROVE P
  BY <1>17, <1>a
  DEF MoveOneAxis, LoseConnection, CloseConnection, setConnected,
      Promise!Next, Promise!HangUp
<1>18. CASE ClientNumber \/ OnMove
  BY <1>18, <1>16, <1>17 DEF ClientNumber, OnMove, CorrAfter
<1>19. CASE TickCorrect
  <2>1. CASE AxisInPlace
    BY <2>1, <1>0 DEF AxisInPlace, SameSession
  <2>2. CASE MoveAxis
    BY <2>2, <1>16, <1>17 DEF MoveAxis
  <2> QED
    BY <1>19, <2>1, <2>2 DEF TickCorrect
(* Autocollimation is switched on and off. *)
<1>20. CASE ClientCorrectOn
  BY <1>20, <1>a DEF ClientCorrectOn, Promise!Next, Promise!SwitchOn
<1>21. CASE ClientCorrectOff
  BY <1>21, <1>a DEF ClientCorrectOff, Promise!Next, Promise!SwitchOff
<1>22. CASE OnTempEl \/ TickTempEl
  <2>1. UNCHANGED <<pipe, DeviceConnected>>
    BY <1>22 DEF OnTempEl, TickTempEl
  <2>2. UNCHANGED corrS \/ corrS' = "OFF"
    BY <1>22 DEF OnTempEl, TickTempEl
  <2>3. CASE UNCHANGED corrS
    BY <2>1, <2>3, <1>0 DEF SameSession
  <2>4. CASE corrS' = "OFF"
    BY <2>1, <2>4, <1>a DEF Promise!Next, Promise!SwitchOff
  <2> QED
    BY <2>2, <2>3, <2>4
<1>23. CASE TickError
  <2>1. CASE UNCHANGED <<connVars, switchVars, corrVars>>
    BY <2>1, <1>0 DEF SameSession
  <2>2. CASE Disconnect /\ setConnected("OFF", "ALERT")
    <3>1. CASE pipe = "closed"
      BY <2>2, <3>1, <1>0
      DEF Disconnect, CloseConnection, setConnected, SameSession
    <3>2. CASE pipe # "closed"
      BY <2>2, <3>2, <1>a
      DEF Disconnect, CloseConnection, setConnected, Promise!Next,
          Promise!HangUp
    <3> QED
      BY <3>1, <3>2
  <2> QED
    BY <1>23, <2>1, <2>2 DEF TickError
<1> QED
  BY <1>1, <1>2, <1>3, <1>4, <1>5, <1>6, <1>7, <1>8, <1>9, <1>10, <1>11,
     <1>12, <1>13, <1>14, <1>15, <1>18, <1>19, <1>20, <1>21, <1>22, <1>23
  DEF Next, Request, Poll, Handler

(* The driver keeps the safety part of the promise of Session, for every
   number of axes and every limit. *)
THEOREM KeepsPromise == Spec => SessionSafe
<1>1. Init => Promise!Init
  BY DEF Init, Promise!Init, DeviceConnected
<1>2. IInv /\ [Next]_vars => [Promise!Next]_(Promise!vars)
  BY SimulationStep DEF IInv
<1> QED
  BY <1>1, <1>2, Invariance, PTL DEF Spec, Safe, SessionSafe, Promise!Safe

=============================================================================
