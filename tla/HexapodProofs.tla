--------------------------- MODULE HexapodProofs ---------------------------
(***************************************************************************)
(* Theorems about Hexapod: what becomes of the lines of answers, for any   *)
(* number of commands with answers of any length.                          *)
(***************************************************************************)
EXTENDS Hexapod, SequenceTheorems, TLAPS

TextPCs == {"Wait", "Size", "Get"}

LineTypes ==
  /\ coming \in Seq(Nat) /\ queue \in Seq(Nat) /\ resp \in Seq(Nat)
  /\ asked \in Seq(Nat) /\ past \in Seq(Nat) /\ own \in Seq(Nat)
  /\ disturbed \in BOOLEAN

(* Undisturbed, a command has its answer before it, in three parts, and
   nothing is on its way between two commands. *)
OwnLines ==
  ~disturbed =>
    IF pc \in TextPCs THEN resp \o queue \o coming = own
                      ELSE queue = <<>> /\ coming = <<>>

IInv == LineTypes /\ InOrder /\ OwnLines

-----------------------------------------------------------------------------
(* Brackets in what InOrder and OwnLines put together. *)
LEMMA Brackets ==
  ASSUME NEW r \in Seq(Nat), NEW q \in Seq(Nat), NEW c \in Seq(Nat)
  PROVE  r \o q \o c = r \o (q \o c)
BY ConcatAssociative

(* The first line of the queue goes behind the response. *)
LEMMA TakeLine ==
  ASSUME NEW r \in Seq(Nat), NEW q \in Seq(Nat), q # <<>>
  PROVE  /\ Append(r, Head(q)) \in Seq(Nat) /\ Tail(q) \in Seq(Nat)
         /\ Append(r, Head(q)) \o Tail(q) = r \o q
<1>1. Head(q) \in Nat /\ Tail(q) \in Seq(Nat)
  BY HeadTailProperties
<1>2. Len(q) \in Nat /\ Len(q) # 0
  BY EmptySeq, LenProperties
<1>3. q = <<Head(q)>> \o Tail(q)
  <2>1. SubSeq(q, 1, Len(q)) = <<q[1]>> \o SubSeq(q, 2, Len(q))
    BY <1>2, SubSeqRecursiveFirst
  <2> QED
    BY <2>1, SubSeqFull, TailIsSubSeq
<1>4. Append(r, Head(q)) = r \o <<Head(q)>>
  BY <1>1, AppendIsConcat
<1>5. <<Head(q)>> \in Seq(Nat)
  BY <1>1
<1>6. (r \o <<Head(q)>>) \o Tail(q) = r \o (<<Head(q)>> \o Tail(q))
  BY <1>1, <1>5, Brackets
<1> QED
  BY <1>1, <1>3, <1>4, <1>6, AppendProperties

(* Lines that come move from one sequence to the other. *)
LEMMA LinesCome ==
  ASSUME NEW q \in Seq(Nat), NEW c \in Seq(Nat), NEW n \in 1 .. Len(c)
  PROVE  LET q2 == q \o SubSeq(c, 1, n)
             c2 == SubSeq(c, n + 1, Len(c))
         IN  q2 \in Seq(Nat) /\ c2 \in Seq(Nat) /\ q2 \o c2 = q \o c
<1> DEFINE a == SubSeq(c, 1, n)
           b == SubSeq(c, n + 1, Len(c))
<1>1. Len(c) \in Nat /\ \A i \in 1 .. Len(c) : c[i] \in Nat
  BY LenProperties, ElementOfSeq
<1>2. a \in Seq(Nat) /\ b \in Seq(Nat)
  BY <1>1, SubSeqProperties
<1>3. a \o b = c
  <2>1. a \o b = SubSeq(c, 1, Len(c))
    BY <1>1, ConcatAdjacentSubSeq
  <2> QED
    BY <2>1, SubSeqFull
<1>4. (q \o a) \o b = q \o (a \o b)
  <2> HIDE DEF a, b
  <2> QED
    BY <1>2, Brackets
<1> QED
  BY <1>2, <1>3, <1>4, ConcatProperties

-----------------------------------------------------------------------------
LEMMA InvInit == Init => IInv
<1> SUFFICES ASSUME Init PROVE IInv
  OBVIOUS
<1>1. <<>> \in Seq(Nat)
  OBVIOUS
<1>2. <<>> \o <<>> = <<>>
  BY <1>1, ConcatEmptySeq
<1> QED
  BY <1>1, <1>2 DEF Init, IInv, LineTypes, InOrder, OwnLines, TextPCs

(* What a command puts on its way. *)
LEMMA CommandReaches ==
  ASSUME IInv, NEW n \in Nat, Reaches(n)
  PROVE  /\ own' \in Seq(Nat) /\ asked' \in Seq(Nat) /\ coming' \in Seq(Nat)
         /\ past \o resp \o queue \o coming' = asked'
         /\ queue \o coming = <<>> => queue \o coming' = own'
<1>1. LineTypes
  BY DEF IInv
<1>2. own' \in Seq(Nat)
  <2>1. asked \in Seq(Nat)
    BY <1>1 DEF LineTypes
  <2>2. Len(asked) \in Nat
    BY <2>1, LenProperties
  <2> QED
    BY <2>2 DEF Reaches
<1>3. asked' = asked \o own' /\ coming' = coming \o own'
  BY DEF Reaches
<1>4. asked' \in Seq(Nat) /\ coming' \in Seq(Nat)
  BY <1>1, <1>2, <1>3, ConcatProperties DEF LineTypes
<1>5. past \o resp \o queue \in Seq(Nat) /\ coming \in Seq(Nat)
      /\ queue \in Seq(Nat)
  BY <1>1, ConcatProperties DEF LineTypes
<1>6. past \o resp \o queue \o coming \o own'
        = past \o resp \o queue \o (coming \o own')
  BY <1>2, <1>5, Brackets
<1>7. queue \o coming \o own' = queue \o (coming \o own')
  BY <1>2, <1>5, Brackets
<1>8. past \o resp \o queue \o coming = asked
  BY DEF IInv, InOrder
<1>9. past \o resp \o queue \o coming' = asked'
  BY <1>3, <1>6, <1>8
<1>10. queue \o coming = <<>> => queue \o coming' = own'
  BY <1>2, <1>3, <1>7, ConcatEmptySeq
<1> QED
  BY <1>2, <1>4, <1>9, <1>10

LEMMA CommandStep ==
  ASSUME IInv, NEW n \in Nat, Commandset(n)
  PROVE  IInv'
<1>1. LineTypes
  BY DEF IInv
<1>2. /\ past' = past \o resp /\ resp' = <<>> /\ queue' = queue
      /\ pc = "idle"
  BY DEF Commandset, ClearResponse
<1>3. past' \in Seq(Nat) /\ resp' \in Seq(Nat) /\ queue' \in Seq(Nat)
  BY <1>1, <1>2, ConcatProperties DEF LineTypes
<1>4. past' \o resp' = past \o resp /\ resp' \o queue' = queue
  BY <1>2, <1>3, ConcatEmptySeq
<1>5. ~disturbed => queue = <<>> /\ coming = <<>>
  BY <1>2 DEF IInv, OwnLines, TextPCs
<1>6. CASE Reaches(n)
  <2>1. past' \o resp' \o queue' \o coming' = asked'
    BY <1>2, <1>4, <1>6, CommandReaches
  <2>2. ~disturbed' => pc' = "Wait" /\ ~disturbed
    BY DEF Commandset
  <2>3. disturbed' \in BOOLEAN
    BY <1>1 DEF Commandset, LineTypes
  <2>4. ~disturbed' => queue \o coming = <<>>
    BY <1>5, <2>2, ConcatEmptySeq
  <2>5. ~disturbed' => resp' \o queue' \o coming' = own'
    BY <1>4, <1>6, <2>4, CommandReaches
  <2>6. own' \in Seq(Nat) /\ asked' \in Seq(Nat) /\ coming' \in Seq(Nat)
    BY <1>6, CommandReaches
  <2> QED
    BY <1>3, <2>1, <2>2, <2>3, <2>5, <2>6
       DEF IInv, LineTypes, InOrder, OwnLines, TextPCs
<1>7. CASE Misses /\ disturbed' = TRUE
  <2>1. own' = <<>> /\ asked' = asked /\ coming' = coming
    BY <1>7 DEF Misses
  <2>2. past' \o resp' \o queue' \o coming' = asked'
    BY <1>2, <1>4, <2>1 DEF IInv, InOrder
  <2> QED
    BY <1>1, <1>3, <1>7, <2>1, <2>2 DEF IInv, LineTypes, InOrder, OwnLines
<1> QED
  BY <1>6, <1>7 DEF Commandset

LEMMA SizeStep ==
  ASSUME IInv, Size
  PROVE  /\ IInv'
         /\ pc' = "idle" /\ ~disturbed' => resp = own /\ queue = <<>>
<1>1. LineTypes /\ InOrder /\ OwnLines
  BY DEF IInv
<1>2. UNCHANGED <<queue, coming, resp, asked, past, own>> /\ pc = "Size"
  BY DEF Size, outside
<1>3. pc' = IF iAnswerSize' = 0 THEN "idle" ELSE "Get"
  BY DEF Size
<1>4. /\ disturbed' \in BOOLEAN
      /\ ~disturbed' =>
           ~disturbed /\ (pc' = "idle" => queue = <<>> /\ coming = <<>>)
  <2>1. CASE
          /\ AnswerSize
          /\ disturbed' = (disturbed \/ (iAnswerSize' = 0 /\ coming # <<>>))
    <3>1. iAnswerSize' = 0 => queue = <<>>
      BY <2>1 DEF AnswerSize
    <3>2. pc' = "idle" => iAnswerSize' = 0
      BY <1>3
    <3> QED
      BY <2>1, <3>1, <3>2, <1>1, Zenon DEF LineTypes
  <2>2. CASE disturbed' = TRUE
    BY <2>2
  <2> QED
    BY <2>1, <2>2 DEF Size
<1>5. resp \o <<>> \o <<>> = resp
  BY <1>1, ConcatEmptySeq DEF LineTypes
<1>6. ~disturbed => resp \o queue \o coming = own
  BY <1>1, <1>2 DEF OwnLines, TextPCs
<1>7. LineTypes' /\ InOrder'
  BY <1>1, <1>2, <1>4 DEF LineTypes, InOrder
<1>8. OwnLines'
  BY <1>2, <1>3, <1>4, <1>6 DEF OwnLines, TextPCs
<1>9. pc' = "idle" /\ ~disturbed' => resp = own /\ queue = <<>>
  BY <1>4, <1>5, <1>6
<1> QED
  BY <1>7, <1>8, <1>9 DEF IInv

LEMMA GetStep ==
  ASSUME IInv, Get
  PROVE  IInv'
<1>1. LineTypes /\ InOrder /\ OwnLines
  BY DEF IInv
<1>2. UNCHANGED <<coming, asked, past, own>> /\ pc = "Get"
  BY DEF Get, outside
<1>3. CASE /\ queue # <<>> /\ Collect(Head(queue)) /\ queue' = Tail(queue)
           /\ pc' = "Size" /\ UNCHANGED disturbed
  <2>1. /\ resp' \in Seq(Nat) /\ queue' \in Seq(Nat)
        /\ resp' \o queue' = resp \o queue
    <3>1. resp \in Seq(Nat) /\ queue \in Seq(Nat)
      BY <1>1 DEF LineTypes
    <3> QED
      BY <1>3, <3>1, TakeLine DEF Collect
  <2>2. InOrder'
    <3> past \in Seq(Nat) /\ resp \in Seq(Nat) /\ queue \in Seq(Nat)
      BY <1>1 DEF LineTypes
    <3>1. past \o resp' \o queue' = past \o (resp' \o queue')
      BY <2>1, Brackets, Zenon
    <3>2. past \o resp \o queue = past \o (resp \o queue)
      BY Brackets, Zenon
    <3>3. past \o (resp' \o queue') = past \o (resp \o queue)
      BY <2>1
    <3>4. past \o resp' \o queue' = past \o resp \o queue
      BY <3>1, <3>2, <3>3, Zenon
    <3>5. past \o resp \o queue \o coming = asked
      BY <1>1 DEF InOrder
    <3> QED
      BY <1>2, <3>4, <3>5, Zenon DEF InOrder
  <2>3. OwnLines'
    BY <1>1, <1>2, <1>3, <2>1 DEF OwnLines, TextPCs
  <2> QED
    BY <1>1, <1>2, <1>3, <2>1, <2>2, <2>3 DEF IInv, LineTypes
<1>4. CASE disturbed' = TRUE /\ UNCHANGED <<queue, resp>>
  BY <1>1, <1>2, <1>4 DEF IInv, LineTypes, InOrder, OwnLines
<1> QED
  BY <1>3, <1>4 DEF Get

LEMMA ArriveStep ==
  ASSUME IInv, Arrive
  PROVE  IInv'
<1>1. LineTypes /\ InOrder /\ OwnLines
  BY DEF IInv
<1>2. UNCHANGED <<pc, resp, asked, past, own, disturbed>>
  BY DEF Arrive
<1>3. /\ queue' \in Seq(Nat) /\ coming' \in Seq(Nat)
      /\ queue' \o coming' = queue \o coming /\ coming # <<>>
  <2>1. PICK n \in 1 .. Len(coming) :
          /\ queue' = queue \o SubSeq(coming, 1, n)
          /\ coming' = SubSeq(coming, n + 1, Len(coming))
    BY DEF Arrive
  <2>2. queue \in Seq(Nat) /\ coming \in Seq(Nat)
    BY <1>1 DEF LineTypes
  <2>3. coming # <<>>
    BY <2>1
  <2> QED
    BY <2>1, <2>2, <2>3, LinesCome
<1>4. past \o resp \in Seq(Nat)
  BY <1>1, ConcatProperties DEF LineTypes
<1>5. InOrder'
  <2> queue \in Seq(Nat) /\ coming \in Seq(Nat)
    BY <1>1 DEF LineTypes
  <2>1. past \o resp \o queue' \o coming' = past \o resp \o (queue' \o coming')
    BY <1>3, <1>4, Brackets, Zenon
  <2>2. past \o resp \o queue \o coming = past \o resp \o (queue \o coming)
    BY <1>4, Brackets, Zenon
  <2>3. past \o resp \o queue' \o coming' = past \o resp \o queue \o coming
    BY <1>3, <2>1, <2>2, Zenon
  <2>4. past \o resp \o queue \o coming = asked
    BY <1>1 DEF InOrder
  <2> QED
    BY <1>2, <2>3, <2>4, Zenon DEF InOrder
<1>6. OwnLines'
  <2> resp \in Seq(Nat) /\ queue \in Seq(Nat) /\ coming \in Seq(Nat)
    BY <1>1 DEF LineTypes
  <2>1. resp \o queue' \o coming' = resp \o (queue' \o coming')
    BY <1>3, Brackets, Zenon
  <2>2. resp \o queue \o coming = resp \o (queue \o coming)
    BY Brackets, Zenon
  <2>3. resp \o queue' \o coming' = resp \o queue \o coming
    BY <1>3, <2>1, <2>2, Zenon
  <2>4. pc \notin TextPCs => disturbed
    BY <1>1, <1>3 DEF OwnLines
  <2>5. pc \in TextPCs /\ ~disturbed => resp \o queue \o coming = own
    BY <1>1 DEF OwnLines
  <2> QED
    BY <1>2, <2>3, <2>4, <2>5, Zenon DEF OwnLines
<1> QED
  BY <1>1, <1>2, <1>3, <1>5, <1>6 DEF IInv, LineTypes

(* All other steps leave the lines alone. *)
LEMMA OtherStep ==
  ASSUME IInv, UNCHANGED <<coming, textVars>>,
         pc' = pc \/ (pc \in TextPCs <=> pc' \in TextPCs)
  PROVE  IInv'
BY DEF IInv, LineTypes, InOrder, OwnLines, textVars

LEMMA MoveStep ==
  ASSUME MoveAbs \/ ReadAxis \/ ReadFails \/ Order \/ Compare
  PROVE  /\ UNCHANGED <<coming, textVars>>
         /\ pc \notin TextPCs /\ pc' \notin TextPCs
<1> USE DEF TextPCs, outside
<1>1. pc \in DOMAIN AfterReading =>
        pc \notin TextPCs /\ AfterReading[pc] \in {"Order", "Compare", "idle"}
  BY DEF AfterReading
<1>2. CASE MoveAbs
  BY <1>2 DEF MoveAbs
<1>3. CASE ReadAxis
  BY <1>1, <1>3 DEF ReadAxis, NextAxis
<1>4. CASE ReadFails
  BY <1>1, <1>4 DEF ReadFails
<1>5. CASE Order
  BY <1>5 DEF Order, NextAxis
<1>6. CASE Compare
  BY <1>6 DEF Compare
<1> QED
  BY <1>2, <1>3, <1>4, <1>5, <1>6

LEMMA InvStep == IInv /\ [Next]_vars => IInv'
<1> SUFFICES ASSUME IInv, [Next]_vars PROVE IInv'
  OBVIOUS
<1>1. CASE \E n \in Lengths : Commandset(n)
  BY <1>1, CommandStep, HexapodAssumption
<1>2. CASE Wait
  BY <1>2 DEF Wait, IInv, LineTypes, InOrder, OwnLines, TextPCs, outside
<1>3. CASE Size
  BY <1>3, SizeStep
<1>4. CASE Get
  BY <1>4, GetStep
<1>5. CASE MoveAbs \/ ReadAxis \/ ReadFails \/ Order \/ Compare
  BY <1>5, MoveStep, OtherStep
<1>6. CASE Arrive
  BY <1>6, ArriveStep
<1>7. CASE AxisArrives \/ Dies
  BY <1>7, OtherStep DEF AxisArrives, Dies
<1>8. CASE UNCHANGED vars
  BY <1>8, OtherStep DEF vars, outside
<1> QED
  BY <1>1, <1>2, <1>3, <1>4, <1>5, <1>6, <1>7, <1>8 DEF Next

-----------------------------------------------------------------------------
(* GenericCommand (vatthex.c:293-333), however calls fail and answers come in
   pieces, loses no line, hands none out twice and changes no order. *)
THEOREM LinesInOrder == Spec => []InOrder
<1>1. IInv => InOrder
  BY DEF IInv
<1> QED
  BY InvInit, InvStep, <1>1, PTL DEF Spec

(* Undisturbed, it returns the answer to its own command, and leaves nothing
   behind for the next. *)
THEOREM AnswersItsOwn == Spec => OwnAnswer
<1>1. IInv /\ [Next]_vars =>
        [Size /\ pc' = "idle" /\ ~disturbed' => resp = own /\ queue = <<>>]_vars
  BY SizeStep
<1> QED
  BY InvInit, InvStep, <1>1, PTL DEF Spec, OwnAnswer

-----------------------------------------------------------------------------
(* The other variables, and MoveAbs *)

OtherTypes ==
  /\ alive \in BOOLEAN
  /\ there \subseteq Axes
  /\ pc \in {"idle", "Wait", "Size", "Get"} \union MovePCs
  /\ calls \in 0..MaxCalls /\ iAnswerSize \in {0, 1}
  /\ axis \in Axes /\ current \in [Axes -> {"junk", "far", "there"}]

(* A reading that says an axis is there stays true: no axis leaves before the
   next call, which reads afresh. *)
ReadingsHold == \A a \in Axes : current[a] = "there" => a \in there

LEMMA NextAxisType ==
  ASSUME axis \in Axes, NEW after, NextAxis(after)
  PROVE  axis' \in Axes /\ pc' \in {pc, after}
BY HexapodAssumption DEF Axes, NextAxis

LEMMA OtherTypesStep == OtherTypes /\ [Next]_vars => OtherTypes'
<1> SUFFICES ASSUME OtherTypes, [Next]_vars PROVE OtherTypes'
  OBVIOUS
<1> USE HexapodAssumption DEF OtherTypes, MovePCs, outside, textVars, moveVars
<1>0. 0 \in Axes
  BY DEF Axes
<1>1. ASSUME NEW n \in Lengths, Commandset(n) PROVE OtherTypes'
  BY <1>1 DEF Commandset
<1>2. CASE Wait
  BY <1>2 DEF Wait, AnswerSize
<1>3. CASE Size
  BY <1>3 DEF Size, AnswerSize
<1>4. CASE Get
  BY <1>4 DEF Get
<1>5. CASE MoveAbs
  <2>1. current' \in [Axes -> {"junk", "far", "there"}]
    BY <1>5 DEF MoveAbs
  <2> QED
    BY <1>0, <1>5, <2>1 DEF MoveAbs
<1>6. AfterReading = [First |-> "Order", Again |-> "Compare", Last |-> "idle"]
      /\ DOMAIN AfterReading = {"First", "Again", "Last"}
  BY DEF AfterReading
<1>7. CASE ReadAxis
  <2>1. current' \in [Axes -> {"junk", "far", "there"}]
    BY <1>7 DEF ReadAxis
  <2>2. axis' \in Axes /\ pc' \in {pc, AfterReading[pc]}
    BY <1>7, NextAxisType DEF ReadAxis
  <2> QED
    BY <1>6, <1>7, <2>1, <2>2 DEF ReadAxis
<1>8. CASE ReadFails
  BY <1>0, <1>6, <1>8 DEF ReadFails
<1>9. CASE Order
  <2>1. axis' \in Axes /\ pc' \in {pc, "Compare", "idle"}
    BY <1>0, <1>9, NextAxisType DEF Order
  <2> QED
    BY <1>9, <2>1 DEF Order
<1>10. CASE Compare
  BY <1>10 DEF Compare
<1>11. CASE Arrive
  BY <1>11 DEF Arrive
<1>12. CASE AxisArrives
  BY <1>12 DEF AxisArrives
<1>13. CASE Dies
  BY <1>13 DEF Dies
<1>14. CASE UNCHANGED vars
  BY <1>14 DEF vars
<1> QED
  BY <1>1, <1>2, <1>3, <1>4, <1>5, <1>7, <1>8, <1>9, <1>10, <1>11, <1>12,
     <1>13, <1>14
  DEF Next

LEMMA ReadingsStep == OtherTypes /\ ReadingsHold /\ [Next]_vars => ReadingsHold'
<1> SUFFICES ASSUME OtherTypes, ReadingsHold, [Next]_vars PROVE ReadingsHold'
  OBVIOUS
<1> USE DEF OtherTypes, ReadingsHold, outside, textVars, moveVars
<1>1. CASE MoveAbs
  BY <1>1 DEF MoveAbs
<1>2. CASE ReadAxis
  BY <1>2 DEF ReadAxis
<1>3. CASE AxisArrives
  BY <1>3 DEF AxisArrives
<1>4. CASE UNCHANGED <<current, there>>
  BY <1>4
<1> QED
  BY <1>1, <1>2, <1>3, <1>4
  DEF Next, vars, Commandset, Wait, Size, Get, ReadFails, Order, Compare,
      Arrive, Dies

LEMMA Invariance == Spec => [](IInv /\ OtherTypes /\ ReadingsHold)
<1>1. Init => OtherTypes /\ ReadingsHold
  BY HexapodAssumption DEF Init, OtherTypes, ReadingsHold, Axes, MovePCs
<1> QED
  BY <1>1, InvInit, InvStep, OtherTypesStep, ReadingsStep, PTL DEF Spec

(* The loops of the wrapper keep inside their arrays, for any number of
   axes. *)
THEOREM TypeCorrect == Spec => []TypeOK
<1>1. IInv /\ OtherTypes => TypeOK
  BY DEF IInv, LineTypes, OtherTypes, TypeOK
<1> QED
  BY <1>1, Invariance, PTL

(* MoveAbs (vatthex.c:272) leaves its loop only when every axis is there or
   one has never been read, for any number of axes. *)
THEOREM MoveEndsThere == Spec => LeavesWhenThere
<1>1. OtherTypes /\ ReadingsHold /\ [Next]_vars =>
        [Compare /\ pc' = "Last" =>
           there = Axes \/ \E a \in Axes : current[a] = "junk"]_vars
  <2> SUFFICES ASSUME OtherTypes, ReadingsHold, Compare, pc' = "Last",
                      \A a \in Axes : current[a] # "junk"
               PROVE  there = Axes
    OBVIOUS
  <2>1. \A a \in Axes : current[a] # "far"
    BY DEF Compare, test
  <2> QED
    BY <2>1 DEF OtherTypes, ReadingsHold
<1> QED
  BY <1>1, Invariance, PTL DEF Spec, LeavesWhenThere
=============================================================================
