------------------------------ MODULE Hexapod ------------------------------
(***************************************************************************)
(* The two loops of the hexapod wrapper (vatthex.c) that wait for the      *)
(* controller: GenericCommand, which collects the lines of an answer, and  *)
(* MoveAbs, which reads positions until the hexapod is there.  Secondary   *)
(* has the first for what it does to the event loop only.                  *)
(*                                                                         *)
(* One connection.  The library keeps the lines that have come in a queue, *)
(* whatever command they answer; PI_GcsGetAnswerSize tells the length of   *)
(* the first and PI_GcsGetAnswer takes it.  Every call may fail.           *)
(***************************************************************************)
EXTENDS Naturals, Sequences

CONSTANTS
  NAXES,
  Lengths,    \* how many lines the answers to commands have; 0 for none
  MaxCalls    \* bound on the calls a run makes

ASSUME HexapodAssumption ==
  /\ NAXES \in Nat \ {0} /\ MaxCalls \in Nat
  /\ Lengths \subseteq Nat

VARIABLES
  alive,      \* the connection
  coming,     \* lines the controller has yet to send, for commands it got
  queue,      \* lines the library has
  there,      \* axes that are where MoveAbs wants them
  pc, calls,
  iAnswerSize, resp,   \* GenericCommand
  axis, current,       \* MoveAbs: the loop's index, the last readings
  (* for the properties only *)
  asked,      \* all lines of all answers, in the order of the commands
  past,       \* what the commands before this one returned
  own,        \* the answer to this command
  disturbed   \* some call failed, or an answer came in pieces

outside  == <<alive, coming, there>>
textVars == <<queue, iAnswerSize, resp, asked, past, own, disturbed>>
moveVars == <<axis, current>>
vars == <<outside, pc, calls, textVars, moveVars>>

Axes == 0 .. NAXES - 1

Init ==
  /\ alive = TRUE /\ coming = <<>> /\ queue = <<>> /\ there = {}
  /\ pc = "idle" /\ calls = 0
  /\ iAnswerSize = 0 /\ resp = <<>>
  /\ axis = 0 /\ current = [a \in Axes |-> "junk"]
  /\ asked = <<>> /\ past = <<>> /\ own = <<>> /\ disturbed = FALSE

-----------------------------------------------------------------------------
(* GenericCommand *)

(* The answer of a command that reaches the controller: lines like no
   others. *)
Reaches(n) ==
  /\ alive
  /\ own' = [i \in 1..n |-> Len(asked) + i]
  /\ asked' = asked \o own'
  /\ coming' = coming \o own'

Misses == own' = <<>> /\ UNCHANGED <<asked, coming>>

(* Mutant of ClearResponse: the buffer of the caller is used as it is. *)
KeepResponse == past' = past /\ UNCHANGED resp

ClearResponse == past' = past \o resp /\ resp' = <<>>

(* PI_GcsCommandset: when it fails the command may have gone out or not. *)
Commandset(n) ==
  /\ pc = "idle" /\ calls < MaxCalls /\ calls' = calls + 1
  /\ ClearResponse
  /\ iAnswerSize' = 0
  /\ \/ Reaches(n) /\ pc' = "Wait" /\ UNCHANGED disturbed
     \/ (Reaches(n) \/ Misses) /\ UNCHANGED pc /\ disturbed' = TRUE
  /\ UNCHANGED <<alive, there, queue, moveVars>>

(* The size of the first line, 0 when there is none. *)
AnswerSize == alive /\ iAnswerSize' = IF queue = <<>> THEN 0 ELSE 1

(* The first loop ends with a size; a call that fails leaves it 0. *)
Wait ==
  /\ pc = "Wait"
  /\ AnswerSize /\ iAnswerSize' # 0
  /\ pc' = "Size"
  /\ UNCHANGED <<outside, calls, queue, resp, asked, past, own, disturbed,
                 moveVars>>

(* The second loop ends when there is no line; a call that fails leaves the
   size of the line before. *)
Size ==
  /\ pc = "Size"
  /\ \/ /\ AnswerSize
        /\ disturbed' = (disturbed \/ (iAnswerSize' = 0 /\ coming # <<>>))
     \/ UNCHANGED iAnswerSize /\ disturbed' = TRUE
  /\ pc' = IF iAnswerSize' = 0 THEN "idle" ELSE "Get"
  /\ UNCHANGED <<outside, calls, queue, resp, asked, past, own, moveVars>>

(* Mutant of Collect: strcpy for strncat. *)
Overwrite(line) == resp' = <<line>>

Collect(line) == resp' = Append(resp, line)

(* A line is taken, or the call fails and the rest stays where it is. *)
Get ==
  /\ pc = "Get"
  /\ \/ /\ alive /\ queue # <<>>
        /\ Collect(Head(queue)) /\ queue' = Tail(queue)
        /\ pc' = "Size"
        /\ UNCHANGED disturbed
     \/ /\ pc' = "idle" /\ disturbed' = TRUE
        /\ UNCHANGED <<queue, resp>>
  /\ UNCHANGED <<outside, calls, iAnswerSize, asked, past, own, moveVars>>

-----------------------------------------------------------------------------
(* MoveAbs *)

MovePCs == {"First", "Order", "Compare", "Again", "Last"}

MoveAbs ==
  /\ pc = "idle" /\ calls < MaxCalls /\ calls' = calls + 1
  /\ current' = [a \in Axes |-> "junk"]
  /\ there' \in SUBSET Axes
  /\ axis' = 0 /\ pc' = "First"
  /\ UNCHANGED <<alive, coming, textVars>>

AfterReading == [First |-> "Order", Again |-> "Compare", Last |-> "idle"]

(* Mutant of NextAxis: <= for <. *)
OneAxisMore(after) ==
  IF axis < NAXES THEN axis' = axis + 1 /\ UNCHANGED pc
                  ELSE axis' = 0 /\ pc' = after

(* The loops over the axes. *)
NextAxis(after) ==
  IF axis + 1 < NAXES THEN axis' = axis + 1 /\ UNCHANGED pc
                      ELSE axis' = 0 /\ pc' = after

(* GetHexPos reads axis after axis and stops at the first call that fails;
   MoveAbs goes on with what there is. *)
ReadAxis ==
  /\ pc \in DOMAIN AfterReading
  /\ alive
  /\ current' = [current EXCEPT ![axis] = IF axis \in there THEN "there"
                                                            ELSE "far"]
  /\ NextAxis(AfterReading[pc])
  /\ UNCHANGED <<outside, calls, textVars>>

ReadFails ==
  /\ pc \in DOMAIN AfterReading
  /\ axis' = 0 /\ pc' = AfterReading[pc]
  /\ UNCHANGED <<outside, calls, textVars, current>>

(* PI_MOV for each axis, up to the first that is refused. *)
Order ==
  /\ pc = "Order"
  /\ \/ alive /\ NextAxis("Compare")
     \/ axis' = 0 /\ pc' = "idle"
  /\ UNCHANGED <<outside, calls, textVars, current>>

(* Mutant of test: what the last axis says is what counts. *)
LastAxisOnly(moving) ==
  \/ current[NAXES - 1] = "junk"
  \/ (moving <=> current[NAXES - 1] = "far")

(* Mutant of test: a position is never exactly the one asked for. *)
Exactly(moving) == moving

(* The axes compared with where they are to go.  A position that has never
   been read is whatever is on the stack. *)
test(moving) ==
  \/ moving  /\ \E a \in Axes : current[a] # "there"
  \/ ~moving /\ \A a \in Axes : current[a] # "far"

(* One pass of the loop; positions are read once more in the last. *)
Compare ==
  /\ pc = "Compare"
  /\ \E moving \in BOOLEAN :
        test(moving) /\ pc' = IF moving THEN "Again" ELSE "Last"
  /\ UNCHANGED <<outside, calls, textVars, moveVars>>

-----------------------------------------------------------------------------
(* The controller *)

(* Lines come one by one or together. *)
Arrive ==
  /\ alive
  /\ \E n \in 1..Len(coming) :
        /\ queue' = queue \o SubSeq(coming, 1, n)
        /\ coming' = SubSeq(coming, n + 1, Len(coming))
  /\ UNCHANGED <<alive, there, pc, calls, iAnswerSize, resp, asked, past, own,
                 disturbed, moveVars>>

(* An axis that has been told to move gets there. *)
AxisArrives ==
  /\ \E a \in Axes \ there :
        /\ pc \in {"Compare", "Again", "Last"} \/ (pc = "Order" /\ a < axis)
        /\ there' = there \union {a}
  /\ UNCHANGED <<alive, coming, pc, calls, textVars, moveVars>>

Dies ==
  /\ alive /\ alive' = FALSE
  /\ UNCHANGED <<coming, there, pc, calls, textVars, moveVars>>

-----------------------------------------------------------------------------
Next ==
  \/ \E n \in Lengths : Commandset(n)
  \/ Wait \/ Size \/ Get
  \/ MoveAbs \/ ReadAxis \/ ReadFails \/ Order \/ Compare
  \/ Arrive \/ AxisArrives \/ Dies

Steps == Size \/ Get \/ ReadAxis \/ ReadFails \/ Order \/ Compare

(* Calls return; not every one fails for ever; lines and axes arrive. *)
Spec ==
  /\ Init /\ [][Next]_vars
  /\ WF_vars(Steps) /\ SF_vars(Wait)
  /\ \A a \in Axes : SF_vars(ReadAxis /\ axis = a)
  /\ WF_vars(Arrive) /\ WF_vars(AxisArrives)

-----------------------------------------------------------------------------
(* Properties *)

(* Every variable stays in its set. *)
TypeOK ==
  /\ {alive, disturbed} \subseteq BOOLEAN
  /\ {coming, queue, resp, asked, past, own} \subseteq Seq(Nat)
  /\ there \subseteq Axes
  /\ pc \in {"idle", "Wait", "Size", "Get"} \union MovePCs
  /\ calls \in 0..MaxCalls /\ iAnswerSize \in {0, 1}
  /\ axis \in Axes /\ current \in [Axes -> {"junk", "far", "there"}]

(* Over any number of commands, failing calls and answers in pieces, no line
   of an answer gets lost, is handed out twice or overtakes another: all
   responses, with what is still to come, are all answers. *)
InOrder == past \o resp \o queue \o coming = asked

(* As long as no call has failed and no answer has come in pieces, a command
   is answered by its own answer, all of it and nothing else: nothing then
   stays in the queue for the next one. *)
OwnAnswer ==
  [][Size /\ pc' = "idle" /\ ~disturbed' => resp = own /\ queue = <<>>]_vars

(* MoveAbs leaves its loop when every axis is there, however the axes and
   the readings follow each other; all it may go by besides is a position it
   has never read. *)
LeavesWhenThere ==
  [][Compare /\ pc' = "Last" =>
       there = Axes \/ \E a \in Axes : current[a] = "junk"]_vars

(* A command for which there is a line, and a move, come to an end unless the
   connection dies. *)
LoopsEnd ==
  /\ pc = "Wait" /\ queue \o coming # <<>> ~> pc = "idle" \/ ~alive
  /\ pc \in MovePCs ~> pc = "idle" \/ ~alive
=============================================================================
