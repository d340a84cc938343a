------------------------- MODULE ProjectSoftProofs -------------------------
(***************************************************************************)
(* Theorems about ProjectSoft: the account of the sockets, for any number  *)
(* of descriptors, and what the parser makes of the stream, however it is  *)
(* cut.                                                                    *)
(***************************************************************************)
EXTENDS ProjectSoft, FiniteSetTheorems, SequenceTheorems, TLAPS

(* What the account of the sockets rests on: how far the call has got. *)
SocketInv ==
  /\ pc \in {"idle", "Connect", "ReadAzEl", "ReadTemps"}
  /\ fds \in 0..MaxFds /\ refused \in Nat
  /\ SocketsAccounted

LEMMA SocketInit == PSInit => SocketInv
BY ProjectSoftAssumption DEF PSInit, SocketInv, SocketsAccounted

LEMMA SocketStep == SocketInv /\ [PSNext]_psVars => SocketInv'
<1> SUFFICES ASSUME SocketInv, [PSNext]_psVars PROVE SocketInv'
  OBVIOUS
<1> USE ProjectSoftAssumption DEF SocketInv, SocketsAccounted
<1>1. CASE Call
  BY <1>1 DEF Call
<1>2. CASE ConnectRefused
  BY <1>2 DEF ConnectRefused
<1>3. CASE Connected
  BY <1>3 DEF Connected
<1>4. CASE ReadAzEl
  BY <1>4 DEF ReadAzEl
<1>5. CASE ReadTemps
  BY <1>5 DEF ReadTemps, CloseSocket
<1>6. CASE PLCAnswers
  BY <1>6 DEF PLCAnswers
<1>7. CASE PLCCloses
  BY <1>7 DEF PLCCloses
<1>8. CASE UNCHANGED psVars
  BY <1>8 DEF psVars
<1> QED
  BY <1>1, <1>2, <1>3, <1>4, <1>5, <1>6, <1>7, <1>8 DEF PSNext, Driver, PLC

(* Every socket that stays open is one whose connect failed, or that of the
   call under way (projectsoft.c:44-75). *)
THEOREM NoSocketLost == PSSpec => []SocketsAccounted
<1>1. SocketInv => SocketsAccounted
  BY DEF SocketInv
<1> QED
  BY SocketInit, SocketStep, <1>1, PTL DEF PSSpec

-----------------------------------------------------------------------------
(* The texts the PLC may send, and what the parser sees in pieces of them *)

First == Line(<<"el", "az">>)
Second == Line(<<"t0", "t1", "t2", "t3", "t4", "t5", "t6", "t7">>)
NoAnswer == Refusal(1)

(* Two words, and so two numbers: elevation and azimuth, or a refusal. *)
TwoWords == {First, Refusal(2)}

(* No part of a number is taken for a space or a newline. *)
LEMMA SymbolsDiffer ==
  /\ SP # NL
  /\ \A x : Head1(x) # SP /\ Tail1(x) # SP /\ Head1(x) # NL
  /\ \A x : Head1(x)[1] = x
BY DEF SP, NL, Head1, Tail1

(* A line of two words: the space in it, and the first word. *)
LEMMA TwoWordLine ==
  ASSUME NEW t \in TwoWords
  PROVE  /\ t \in Seq(Symbols) /\ Len(t) = 6
         /\ \A i \in 1..6 : t[i] = SP <=> i = 3
         /\ t[1] = Head1(t[1][1]) /\ t[2] = Tail1(t[1][1])
         /\ t[1][1] # Garbled => t[1][1] = "el"
<1>1. ASSUME NEW x \in Fields, NEW y \in Fields,
             t = <<Head1(x), Tail1(x), SP, Head1(y), Tail1(y), NL>>
      PROVE  /\ t \in Seq(Symbols) /\ Len(t) = 6
             /\ \A i \in 1..6 : t[i] = SP <=> i = 3
             /\ t[1] = Head1(t[1][1]) /\ t[2] = Tail1(t[1][1])
             /\ t[1][1] = x
  <2>1. {Head1(x), Tail1(x), SP, Head1(y), Tail1(y), NL} \subseteq Symbols
    BY DEF Symbols
  <2> QED
    BY <1>1, <2>1, SymbolsDiffer
<1>2. "el" \in Fields /\ "az" \in Fields /\ Garbled \in Fields
  BY DEF Fields
<1>3. CASE t = First
  <2>1. t = <<Head1("el"), Tail1("el"), SP, Head1("az"), Tail1("az"), NL>>
    BY <1>3 DEF First, Line
  <2> QED
    BY <1>1, <1>2, <2>1, Zenon
<1>4. CASE t = Refusal(2)
  <2>1. t = <<Head1(Garbled), Tail1(Garbled), SP,
              Head1(Garbled), Tail1(Garbled), NL>>
    BY <1>4 DEF Refusal, Line
  <2> QED
    BY <1>1, <1>2, <2>1, Zenon
<1> QED
  BY <1>3, <1>4 DEF TwoWords

(* The refusal of one word. *)
LEMMA OneWordLine ==
  /\ NoAnswer \in Seq(Symbols) /\ Len(NoAnswer) = 3
  /\ \A i \in 1..3 : NoAnswer[i] # SP
<1>1. NoAnswer = <<Head1(Garbled), Tail1(Garbled), NL>>
  BY DEF NoAnswer, Refusal, Line
<1>2. {Head1(Garbled), Tail1(Garbled), NL} \subseteq Symbols
  BY DEF Symbols, Fields
<1> QED
  BY <1>1, <1>2, SymbolsDiffer

TempNames == <<"t0", "t1", "t2", "t3", "t4", "t5", "t6", "t7">>

(* The line with the temperatures: where the second and the third of them are,
   and where the spaces. *)
LEMMA SecondLine ==
  /\ Len(Second) = 24 /\ DOMAIN Second = 1..24
  /\ Second \in Seq(Symbols)
  /\ Second[4] = Head1("t1") /\ Second[5] = Tail1("t1")
  /\ Second[7] = Head1("t2") /\ Second[8] = Tail1("t2")
  /\ \A i \in 1..24 : Second[i] = SP <=> i \in {3, 6, 9, 12, 15, 18, 21}
<1>1. Len(TempNames) = 8 /\ TempNames[2] = "t1" /\ TempNames[3] = "t2"
  BY DEF TempNames
<1>2. \A i \in 1..8 : TempNames[i] \in Fields
  BY DEF TempNames, Fields
<1>3. Second = [i \in 1..24 |->
                  LET x == TempNames[(i + 2) \div 3]
                  IN  CASE i % 3 = 1 -> Head1(x)
                        [] i % 3 = 2 -> Tail1(x)
                        [] i = 24 -> NL
                        [] OTHER -> SP]
  BY <1>1 DEF Second, Line, TempNames
<1>7. /\ Second[4] = Head1("t1") /\ Second[5] = Tail1("t1")
  /\ Second[7] = Head1("t2") /\ Second[8] = Tail1("t2")
  BY <1>1, <1>3, SMT
<1>4. \A i \in 1..24 : Second[i] = SP <=> i \in {3, 6, 9, 12, 15, 18, 21}
  BY <1>3, SymbolsDiffer, SMT
<1>5. \A i \in 1..24 : Second[i] \in Symbols
  <2>1. ASSUME NEW i \in 1 .. 24 PROVE TempNames[(i+2) \div 3] \in Fields
   BY <1>2
  <2> QED BY <1>3, <2>1, SMT DEF Symbols
<1> QED
  BY <1>1, <1>3, <1>7, <1>4, <1>5

(* The parser's k-th token is the one with k tokens up to its own beginning. *)
LEMMA Nth ==
  ASSUME NEW S, IsFiniteSet(S), S \subseteq Nat, NEW a \in S,
         NEW k, Cardinality({j \in S : j <= a}) = k
  PROVE  (CHOOSE i \in S : Cardinality({j \in S : j <= i}) = k) = a
<1> DEFINE Upto(i) == {j \in S : j <= i}
           c == CHOOSE i \in S : Cardinality(Upto(i)) = k
<1>1. c \in S /\ Cardinality(Upto(c)) = Cardinality(Upto(a))
  BY Zenon
<1> HIDE DEF c
<1>2. IsFiniteSet(Upto(c)) /\ IsFiniteSet(Upto(a))
  <2>1. Upto(c) \in SUBSET S /\ Upto(a) \in SUBSET S
    OBVIOUS
  <2> HIDE DEF Upto
  <2> QED
    BY <2>1, FS_Subset
<1>3. Upto(c) \subseteq Upto(a) \/ Upto(a) \subseteq Upto(c)
  <2>1. c \in Nat /\ a \in Nat /\ \A j \in S : j \in Nat
    BY <1>1
  <2>2. ASSUME c <= a, NEW j \in Upto(c) PROVE j \in Upto(a)
    BY <2>1, <2>2
  <2>3. ASSUME a <= c, NEW j \in Upto(a) PROVE j \in Upto(c)
    BY <2>1, <2>3
  <2>4. c <= a \/ a <= c
    BY <2>1
  <2> HIDE DEF Upto
  <2> QED
    BY <2>2, <2>3, <2>4
<1>4. Upto(c) = Upto(a)
  <2> HIDE DEF Upto
  <2> QED
    BY <1>1, <1>2, <1>3, FS_Subset
<1>5. c <= a /\ a <= c
  <2>1. c \in Upto(c) /\ a \in Upto(a)
    BY <1>1, SMT
  <2> QED
    BY <1>4, <2>1, SMT
<1> QED
  BY <1>1, <1>5, SMT DEF c

(* There are as many numbers as tokens, and the k-th comes from the k-th. *)
LEMMA NumberCount ==
  ASSUME NEW s, IsFiniteSet(TokenStarts(s))
  PROVE  /\ Len(Numbers(s)) = Cardinality(TokenStarts(s))
         /\ Len(Numbers(s)) \in Nat
<1>1. Cardinality(TokenStarts(s)) \in Nat
  BY FS_CardinalityType
<1> QED
  BY <1>1 DEF Numbers

LEMMA KthNumber ==
  ASSUME NEW s \in Seq(Symbols), IsFiniteSet(TokenStarts(s)),
         NEW a \in TokenStarts(s), NEW k \in 1..Cardinality(TokenStarts(s)),
         Cardinality({j \in TokenStarts(s) : j <= a}) = k
  PROVE  Numbers(s)[k] = atof(s, a)
<1> DEFINE S == TokenStarts(s)
<1>1. S \subseteq Nat
  BY DEF TokenStarts
<1>2. a \in S /\ IsFiniteSet(S) /\ k \in 1..Cardinality(S)
      /\ Cardinality({j \in S : j <= a}) = k
  BY Zenon
<1>3. Numbers(s) = [n \in 1..Cardinality(S) |->
         atof(s, CHOOSE i \in S : Cardinality({j \in S : j <= i}) = n)]
  BY Zenon DEF Numbers
<1> HIDE DEF S
<1>4. (CHOOSE i \in S : Cardinality({j \in S : j <= i}) = k) = a
  BY <1>1, <1>2, Nth, Zenon
<1> QED
  BY <1>2, <1>3, <1>4, Zenon

(* Small sets have as many elements as they show. *)
LEMMA Counts ==
  /\ \A x, y : x # y => IsFiniteSet({x, y}) /\ Cardinality({x, y}) = 2
  /\ \A x, y, z : x # y /\ x # z /\ y # z
       => IsFiniteSet({x, y, z}) /\ Cardinality({x, y, z}) = 3
<1>1. ASSUME NEW x, NEW y, x # y
      PROVE  IsFiniteSet({x, y}) /\ Cardinality({x, y}) = 2
  <2>1. {x, y} = {x} \cup {y}
    OBVIOUS
  <2>2. IsFiniteSet({x}) /\ Cardinality({x}) = 1 /\ y \notin {x}
    BY <1>1, FS_Singleton
  <2>3. Cardinality({x} \cup {y}) = 1 + 1 /\ IsFiniteSet({x} \cup {y})
    BY <2>2, FS_AddElement
  <2> QED
    BY <2>1, <2>3
<1>2. ASSUME NEW x, NEW y, NEW z, x # y, x # z, y # z
      PROVE  IsFiniteSet({x, y, z}) /\ Cardinality({x, y, z}) = 3
  <2>1. {x, y, z} = {x, y} \cup {z} /\ z \notin {x, y}
    BY <1>2
  <2> DEFINE pair == {x, y}
  <2>2. IsFiniteSet(pair) /\ Cardinality(pair) = 2 /\ z \notin pair
    BY <1>1, <1>2, <2>1
  <2>3. {x, y, z} = pair \cup {z}
    BY <2>1
  <2> HIDE DEF pair
  <2>4. Cardinality(pair \cup {z}) = 2 + 1 /\ IsFiniteSet(pair \cup {z})
    BY <2>2, FS_AddElement
  <2> QED
    BY <2>3, <2>4
<1> QED
  BY <1>1, <1>2

(* Where the tokens begin when all temperatures have come behind r symbols of
   the first answer: those are glued to the first temperature. *)
Starts(r) == {1, r + 4, r + 7, r + 10, r + 13, r + 16, r + 19, r + 22}

LEMMA EightStarts ==
  ASSUME NEW r \in Nat
  PROVE  IsFiniteSet(Starts(r)) /\ Cardinality(Starts(r)) = 8
<1> DEFINE A == {1, r + 4, r + 7}
           B == A \cup {r + 10}
           C == B \cup {r + 13}
           D == C \cup {r + 16}
           E == D \cup {r + 19}
           F == E \cup {r + 22}
<1>1. /\ 1 # r + 4 /\ 1 # r + 7 /\ r + 4 # r + 7
      /\ r + 10 \notin A /\ r + 13 \notin B /\ r + 16 \notin C
      /\ r + 19 \notin D /\ r + 22 \notin E
  BY SMT
<1>2. Starts(r) = F
  BY DEF Starts
<1>3. IsFiniteSet(A) /\ Cardinality(A) = 3
  <2>1. 1 # r + 4 /\ 1 # r + 7 /\ r + 4 # r + 7
    BY <1>1
  <2> QED
    BY <2>1, Counts, Zenon
<1> HIDE DEF A
<1>4. IsFiniteSet(B) /\ Cardinality(B) = 4
  BY <1>1, <1>3, FS_AddElement
<1> HIDE DEF B
<1>5. IsFiniteSet(C) /\ Cardinality(C) = 5
  BY <1>1, <1>4, FS_AddElement
<1> HIDE DEF C
<1>6. IsFiniteSet(D) /\ Cardinality(D) = 6
  BY <1>1, <1>5, FS_AddElement
<1> HIDE DEF D
<1>7. IsFiniteSet(E) /\ Cardinality(E) = 7
  BY <1>1, <1>6, FS_AddElement
<1> HIDE DEF E
<1>8. IsFiniteSet(F) /\ Cardinality(F) = 8
  BY <1>1, <1>7, FS_AddElement
<1> QED
  BY <1>2, <1>8

(* In the first n symbols of such a line a token begins at each word: they make
   two numbers at most, and two only when the second word has begun, and then
   the first is whole. *)
LEMMA FirstNumbers ==
  ASSUME NEW t \in TwoWords, NEW n \in 0..6, NEW s, s = SubSeq(t, 1, n)
  PROVE  /\ s \in Seq(Symbols)
         /\ Len(Numbers(s)) \in 0..2
         /\ Len(Numbers(s)) = 2 =>
              n \in 4..6 /\ s[1] = t[1] /\ Numbers(s)[1] = t[1][1]
<1>1. t \in Seq(Symbols) /\ Len(t) = 6 /\ \A i \in 1..6 : t[i] = SP <=> i = 3
  BY TwoWordLine
<1>2. s \in Seq(Symbols) /\ Len(s) = n /\ \A i \in 1..n : s[i] = t[i]
  BY <1>1, SMT
<1>3. DOMAIN s = 1..n /\ TokenStarts(s) \subseteq 1..n
  BY <1>2, SMT DEF TokenStarts
<1>4. ASSUME NEW i \in 1..n PROVE i \in TokenStarts(s) <=> i \in {1, 4}
  <2>1. s[i] = SP <=> i = 3
    BY <1>1, <1>2
  <2>2. i # 1 => (s[i - 1] = SP <=> i = 4)
    BY <1>1, <1>2
  <2> QED
    BY <1>3, <2>1, <2>2 DEF TokenStarts
<1>5. TokenStarts(s) = {1, 4} \cap 1..n
  BY <1>3, <1>4
<1>6. /\ IsFiniteSet({1}) /\ Cardinality({1}) = 1
      /\ IsFiniteSet({1, 4}) /\ Cardinality({1, 4}) = 2
  <2>1. 1 # 4
    OBVIOUS
  <2> QED
    BY <2>1, FS_Singleton, Counts, Zenon
<1>7. CASE n < 4
  <2>1. TokenStarts(s) \in SUBSET {1}
    BY <1>2, <1>5, <1>7, SMT
  <2>2. IsFiniteSet(TokenStarts(s)) /\ Cardinality(TokenStarts(s)) <= 1
    BY <1>6, <2>1, FS_Subset
  <2>3. Len(Numbers(s)) = Cardinality(TokenStarts(s)) /\ Len(Numbers(s)) \in Nat
    BY <2>2, NumberCount
  <2>4. \A c \in Nat : c <= 1 => c \in 0..2 /\ c # 2
    OBVIOUS
  <2> QED
    BY <1>2, <1>5, <2>2, <2>3, <2>4, Zenon
<1>8. CASE n >= 4
  <2>1. TokenStarts(s) = {1, 4}
    BY <1>2, <1>5, <1>8, SMT
  <2>2. Len(Numbers(s)) = 2
    BY <1>6, <2>1, NumberCount, Zenon
  <2>3. {j \in TokenStarts(s) : j <= 1} = {1}
    BY <2>1, SMT
  <2>4. Numbers(s)[1] = atof(s, 1)
    <3>1. 1 \in TokenStarts(s) /\ 1 \in 1..Cardinality(TokenStarts(s))
      <4>1. 1 \in {1, 4} /\ 1 \in 1..2
        OBVIOUS
      <4> QED
        BY <1>6, <2>1, <4>1, Zenon
    <3>2. Cardinality({j \in TokenStarts(s) : j <= 1}) = 1
      BY <1>6, <2>3, Zenon
    <3>3. IsFiniteSet(TokenStarts(s))
      BY <1>6, <2>1, Zenon
    <3> QED
      BY <1>2, <1>5, <3>1, <3>2, <3>3, KthNumber, Zenon
  <2>5. s[1] = t[1] /\ s[2] = t[2] /\ 2 \in DOMAIN s
    BY <1>2, <1>5, <1>8, SMT
  <2>6. atof(s, 1) = t[1][1]
    <3>1. s[1] = Head1(s[1][1]) /\ s[1 + 1] = Tail1(s[1][1]) /\ 1 + 1 \in DOMAIN s
      BY <2>5, TwoWordLine
    <3>2. s[1] # NL
      BY <3>1, SymbolsDiffer
    <3> QED
      BY <2>5, <3>1, <3>2, Zenon DEF atof
  <2>7. 2 \in 0..2 /\ n \in 4..6
    BY <1>8
  <2> QED
    BY <1>2, <1>5, <2>2, <2>4, <2>5, <2>6, <2>7, Zenon
<1> QED
  BY <1>7, <1>8

(* A refusal of one word makes one number at most. *)
LEMMA GarbledNumbers ==
  ASSUME NEW n \in 0..3, NEW s, s = SubSeq(NoAnswer, 1, n)
  PROVE  s \in Seq(Symbols) /\ Len(Numbers(s)) \in 0..1
<1>1. s \in Seq(Symbols) /\ Len(s) = n /\ \A i \in 1..n : s[i] = NoAnswer[i]
  BY OneWordLine, SMT
<1>2. TokenStarts(s) \in SUBSET {1}
  BY <1>1, OneWordLine, SMT DEF TokenStarts
<1>3. IsFiniteSet({1}) /\ Cardinality({1}) = 1
  BY FS_Singleton
<1>4. IsFiniteSet(TokenStarts(s)) /\ Cardinality(TokenStarts(s)) <= 1
  BY <1>2, <1>3, FS_Subset
<1>5. Len(Numbers(s)) = Cardinality(TokenStarts(s)) /\ Len(Numbers(s)) \in Nat
  BY <1>4, NumberCount
<1>6. \A c \in Nat : c <= 1 => c \in 0..1
  OBVIOUS
<1> QED
  BY <1>1, <1>4, <1>5, <1>6, Zenon

(* What the first read can leave of a line of two words has no space in it. *)
LEMMA Leftover ==
  ASSUME NEW t \in TwoWords, NEW n \in 4..6
  PROVE  /\ SubSeq(t, n + 1, 6) \in Seq(Symbols)
         /\ Len(SubSeq(t, n + 1, 6)) = 6 - n
         /\ \A i \in 1..(6 - n) : SubSeq(t, n + 1, 6)[i] # SP
<1>1. /\ t \in Seq(Symbols) /\ Len(t) = 6
      /\ \A i \in 4..6 : t[i] # SP
      /\ \A i \in 1..6 : t[i] \in Symbols
  BY TwoWordLine
<1>2. \A i \in n + 1 .. 6 : t[i] \in Symbols
  <2>1. \A i \in n + 1 .. 6 : i \in 1..6
    OBVIOUS
  <2> QED
    BY <1>1, <2>1, Zenon
<1>3. /\ SubSeq(t, n + 1, 6) \in Seq(Symbols)
      /\ Len(SubSeq(t, n + 1, 6)) = IF n + 1 <= 6 THEN 6 - (n + 1) + 1 ELSE 0
      /\ \A i \in 1 .. 6 - (n + 1) + 1 :
           SubSeq(t, n + 1, 6)[i] = t[n + 1 + i - 1]
  BY <1>2, SubSeqProperties
<1> QED
  BY <1>1, <1>3

(* The second answer, whatever it is, has its spaces where the line has them. *)
Replies == {<<>>, NoAnswer, Refusal(2), Second}

LEMMA AnswersBegin ==
  ASSUME NEW a \in Replies
  PROVE  /\ a \in Seq(Symbols) /\ Len(a) <= 24
         /\ \A i \in 1..Len(a) : a[i] = SP => i \in {3, 6, 9, 12, 15, 18, 21}
         /\ Len(a) > 6 => a = Second
<1>1. CASE a = <<>>
  BY <1>1
<1>2. CASE a = NoAnswer
  BY <1>2, OneWordLine
<1>3. CASE a = Refusal(2)
  <2>1. a \in TwoWords
    BY <1>3 DEF TwoWords
  <2>2. a \in Seq(Symbols) /\ Len(a) = 6 /\ \A i \in 1..6 : a[i] = SP <=> i = 3
    BY <2>1, TwoWordLine, Zenon
  <2> QED
    BY <2>2
<1>4. CASE a = Second
  BY <1>4, SecondLine
<1> QED
  BY <1>1, <1>2, <1>3, <1>4 DEF Replies

(* Two texts in one buffer, and the part of a text that has come. *)
LEMMA Glued ==
  ASSUME NEW p \in Seq(Symbols), NEW q \in Seq(Symbols)
  PROVE  /\ p \o q \in Seq(Symbols) /\ Len(p \o q) = Len(p) + Len(q)
         /\ \A i \in 1..Len(p) : (p \o q)[i] = p[i]
         /\ \A i \in Len(p) + 1 .. Len(p) + Len(q) : (p \o q)[i] = q[i - Len(p)]
BY SMT

LEMMA PartOf ==
  ASSUME NEW p \in Seq(Symbols), NEW k \in 0..Len(p)
  PROVE  /\ SubSeq(p, 1, k) \in Seq(Symbols) /\ Len(SubSeq(p, 1, k)) = k
         /\ \A i \in 1..k : SubSeq(p, 1, k)[i] = p[i]
BY SMT

(* However much of the first line was left and however much is read now, there
   are eight numbers at most, and if there are eight, the second and the third
   are the temperatures t1 and t2. *)
LEMMA SecondNumbers ==
  ASSUME NEW t \in TwoWords, NEW n \in 4..6, NEW a \in Replies,
         NEW w, w = SubSeq(t, n + 1, 6) \o a,
         NEW m \in 0..Len(w), NEW s, s = SubSeq(w, 1, m)
  PROVE  /\ s \in Seq(Symbols)
         /\ Len(Numbers(s)) \in 0..8
         /\ Len(Numbers(s)) = 8 => Numbers(s)[2] = "t1" /\ Numbers(s)[3] = "t2"
<1>1. PICK r \in 0..2 : r = 6 - n
  OBVIOUS
<1>2. PICK rest \in Seq(Symbols) : /\ rest = SubSeq(t, n + 1, 6)
                                   /\ Len(rest) = r
                                   /\ \A i \in 1..r : rest[i] # SP
  BY <1>1, Leftover
<1>3. /\ a \in Seq(Symbols) /\ Len(a) <= 24
      /\ \A i \in 1..Len(a) : a[i] = SP => i \in {3, 6, 9, 12, 15, 18, 21}
      /\ Len(a) > 6 => a = Second
  BY AnswersBegin
<1>4. /\ w \in Seq(Symbols) /\ Len(w) = r + Len(a)
      /\ \A i \in 1..r : w[i] # SP
      /\ \A i \in r + 1 .. r + Len(a) : w[i] = a[i - r]
  <2>1. w = rest \o a
    BY <1>2
  <2>2. a \in Seq(Symbols)
    BY <1>3
  <2> DEFINE g == rest \o a
  <2>3. /\ g \in Seq(Symbols) /\ Len(g) = Len(rest) + Len(a)
        /\ \A i \in 1..Len(rest) : g[i] = rest[i]
        /\ \A i \in Len(rest) + 1 .. Len(rest) + Len(a) : g[i] = a[i - Len(rest)]
    BY <2>2, Glued, Zenon
  <2>4. /\ w \in Seq(Symbols) /\ Len(w) = Len(rest) + Len(a)
        /\ \A i \in 1..Len(rest) : w[i] = rest[i]
        /\ \A i \in Len(rest) + 1 .. Len(rest) + Len(a) : w[i] = a[i - Len(rest)]
    <3> HIDE DEF g
    <3>1. w = g
      BY <2>1 DEF g
    <3> QED
      BY <2>3, <3>1, Zenon
  <2>5. /\ \A i \in 1..r : w[i] = rest[i]
        /\ \A i \in r + 1 .. r + Len(a) : w[i] = a[i - r]
        /\ Len(w) = r + Len(a)
    BY <1>2, <2>4, Zenon
  <2> QED
    BY <1>2, <2>4, <2>5, Zenon
<1>5. /\ s \in Seq(Symbols) /\ Len(s) = m /\ m \in 0..r + Len(a) /\ Len(a) \in Nat
      /\ \A i \in 1..m : s[i] = w[i]
  <2>1. Len(a) \in Nat /\ m \in 0..r + Len(a)
    BY <1>3, <1>4
  <2> QED
    BY <1>4, <2>1, PartOf
<1>6. ASSUME NEW i \in 1..m, s[i] = SP
      PROVE  i - r \in {3, 6, 9, 12, 15, 18, 21}
  <2>1. w[i] = SP
    BY <1>5, <1>6
  <2>2. i \in r + 1 .. r + Len(a)
    <3>1. i \notin 1..r
      BY <1>4, <2>1
    <3> QED
      BY <1>5, <3>1
  <2>3. Len(a) \in Nat /\ i - r \in 1..Len(a)
    <3>1. Len(a) \in Nat
      BY <1>5
    <3> QED
      BY <2>2, <3>1
  <2>4. \A j \in r + 1 .. r + Len(a) : w[j] = a[j - r]
    BY <1>4
  <2>5. a[i - r] = SP
    BY <2>1, <2>2, <2>4
  <2>6. \A j \in 1..Len(a) : a[j] = SP => j \in {3, 6, 9, 12, 15, 18, 21}
    BY <1>3
  <2> QED
    BY <2>3, <2>5, <2>6
<1>7. TokenStarts(s) \in SUBSET Starts(r)
  <2>1. ASSUME NEW i \in TokenStarts(s) PROVE i \in Starts(r)
    <3> DOMAIN s = 1..m
      BY <1>5
    <3>1. i \in 1..m /\ (i = 1 \/ s[i - 1] = SP)
      BY Zenon DEF TokenStarts
    <3> m \in Int
      BY <1>5
    <3>2. i # 1 => i - 1 \in 1..m
      BY <3>1
    <3>3. i # 1 => i - 1 - r \in {3, 6, 9, 12, 15, 18, 21}
      BY <1>6, <3>1, <3>2
    <3>4. i # 1 => i \in {r + 4, r + 7, r + 10, r + 13, r + 16, r + 19, r + 22}
      BY <3>1, <3>3, SMT
    <3> QED
      BY <3>4, Zenon DEF Starts
  <2> QED
    BY <2>1
<1>8. IsFiniteSet(Starts(r)) /\ Cardinality(Starts(r)) = 8
  BY EightStarts
<1>9. /\ IsFiniteSet(TokenStarts(s)) /\ Cardinality(TokenStarts(s)) <= 8
      /\ Cardinality(TokenStarts(s)) = 8 => TokenStarts(s) = Starts(r)
  BY <1>7, <1>8, FS_Subset
<1>10. /\ Len(Numbers(s)) \in 0..8
       /\ Len(Numbers(s)) = Cardinality(TokenStarts(s))
  <2>1. /\ Len(Numbers(s)) = Cardinality(TokenStarts(s))
        /\ Len(Numbers(s)) \in Nat
    BY <1>9, NumberCount, Zenon
  <2>2. Len(Numbers(s)) <= 8
    BY <1>9, <2>1, Zenon
  <2>3. \A x \in Nat : x <= 8 => x \in 0..8
    OBVIOUS
  <2> QED
    BY <2>1, <2>2, <2>3, Zenon
<1>11. ASSUME Len(Numbers(s)) = 8
       PROVE  Numbers(s)[2] = "t1" /\ Numbers(s)[3] = "t2"
  <2>1. TokenStarts(s) = Starts(r)
    BY <1>9, <1>10, <1>11
  <2>2. r + 22 \in 1..m
    <3>1. r + 22 \in TokenStarts(s)
      BY <2>1 DEF Starts
    <3>2. TokenStarts(s) \subseteq DOMAIN s /\ DOMAIN s = 1..m
      BY <1>5 DEF TokenStarts
    <3> QED
      BY <3>1, <3>2
  <2>3. a = Second
    BY <1>3, <1>5, <2>2
  <2>4. \A i \in 1..24 : i + r \in 1..m => s[i + r] = Second[i]
    BY <1>4, <1>5, <2>3, SMT
  <2>5. /\ s[r + 4] = Head1("t1") /\ s[r + 5] = Tail1("t1")
        /\ s[r + 7] = Head1("t2") /\ s[r + 8] = Tail1("t2")
        /\ r + 5 \in DOMAIN s /\ r + 8 \in DOMAIN s
    <3>1. \A i \in 4..8 : i + r \in 1..m /\ i + r = r + i /\ i \in 1..24
      BY <1>5, <2>2, SMT
    <3>2. \A i \in 4..8 : s[r + i] = Second[i]
      BY <2>4, <3>1
    <3>3. DOMAIN s = 1..m /\ r + 5 \in 1..m /\ r + 8 \in 1..m
      BY <1>5, <2>2
    <3> QED
      <4>1. /\ s[r + 4] = Second[4] /\ s[r + 5] = Second[5]
            /\ s[r + 7] = Second[7] /\ s[r + 8] = Second[8]
        <5>1. 4 \in 4..8 /\ 5 \in 4..8 /\ 7 \in 4..8 /\ 8 \in 4..8
          OBVIOUS
        <5> QED
          BY <3>2, <5>1, Zenon
      <4> QED
        BY <3>3, <4>1, SecondLine, Zenon
  <2>6. atof(s, r + 4) = "t1" /\ atof(s, r + 7) = "t2"
    <3>1. /\ (r + 4) + 1 = r + 5 /\ (r + 7) + 1 = r + 8
      OBVIOUS
    <3> QED
      BY <2>5, <3>1, SymbolsDiffer, Zenon DEF atof
  <2>7. /\ {j \in Starts(r) : j <= r + 4} = {1, r + 4}
        /\ {j \in Starts(r) : j <= r + 7} = {1, r + 4, r + 7}
    BY SMT DEF Starts
  <2>8. /\ r + 4 \in Starts(r) /\ r + 7 \in Starts(r)
        /\ 1 # r + 4 /\ 1 # r + 7 /\ r + 4 # r + 7
    BY SMT DEF Starts
  <2>9. Cardinality({1, r + 4}) = 2 /\ Cardinality({1, r + 4, r + 7}) = 3
    BY <2>8, Counts, Zenon
  <2>10. 2 \in 1..8 /\ 3 \in 1..8
    OBVIOUS
  <2>11. Numbers(s)[2] = atof(s, r + 4)
    <3>1. Cardinality({j \in TokenStarts(s) : j <= r + 4}) = 2
      BY <2>1, <2>7, <2>9, Zenon
    <3>2. r + 4 \in TokenStarts(s) /\ 2 \in 1..Cardinality(TokenStarts(s))
      BY <1>8, <2>1, <2>8, <2>10, Zenon
    <3> QED
      BY <1>5, <1>9, <3>1, <3>2, KthNumber, Zenon
  <2>12. Numbers(s)[3] = atof(s, r + 7)
    <3>1. Cardinality({j \in TokenStarts(s) : j <= r + 7}) = 3
      BY <2>1, <2>7, <2>9, Zenon
    <3>2. r + 7 \in TokenStarts(s) /\ 3 \in 1..Cardinality(TokenStarts(s))
      BY <1>8, <2>1, <2>8, <2>10, Zenon
    <3> QED
      BY <1>5, <1>9, <3>1, <3>2, KthNumber, Zenon
  <2> QED
    BY <2>6, <2>11, <2>12
<1> QED
  BY <1>5, <1>10, <1>11

(* Nothing makes no numbers. *)
LEMMA EmptyNumbers == Len(Numbers(<<>>)) = 0
<1>1. TokenStarts(<<>>) = {}
  BY DEF TokenStarts
<1> QED
  BY <1>1, FS_EmptySet, NumberCount

LEMMA TheAnswers ==
  /\ Answers("TRAA") \subseteq {NoAnswer} \union TwoWords
  /\ Answers("GLTE") \subseteq Replies
<1>1. \A w \in 1..MaxRefusal : Refusal(w) \in {NoAnswer, Refusal(2)}
  <2>1. \A w \in 1..MaxRefusal : w = 1 \/ w = 2
    BY RefusalsAreShort
  <2> QED
    BY <2>1, Zenon DEF NoAnswer
<1> QED
  BY <1>1 DEF Answers, TwoWords, Replies, First, Second

-----------------------------------------------------------------------------
(* The invariant of the exchange *)

(* A call that succeeds returns the two temperatures it should, and of what the
   PLC says of the elevation all. *)
AnswerUsed ==
  /\ ret.ok \in BOOLEAN
  /\ ret.ok => /\ ret.tstrut = <<"t1", "t2">>
               /\ GaveElevation => ret.el = "el"

(* Before the first read: nothing has come, or one answer as a whole. *)
AzElOnItsWay ==
  \/ asked \in {<<>>, <<"TRAA">>} /\ wire = <<>>
  \/ asked = <<>> /\ wire \in {NoAnswer} \union TwoWords

RestOf(t, n, a) == SubSeq(t, n + 1, 6) \o a

(* After it: there are too few numbers for success, or the first word is whole
   and what is on its way is the rest of its line and at most one answer. *)
TempsOnTheirWay ==
  /\ asked \in {<<>>, <<"GLTE">>}
  /\ \/ Len(Numbers(azel)) \in 0..1
     \/ \E t \in TwoWords, n \in 4..6 :
          /\ azel = SubSeq(t, 1, n)
          /\ \/ asked = <<>> /\ wire = <<>>
             \/ \E a \in Replies :
                  wire = RestOf(t, n, a) /\ (asked # <<>> => a = <<>>)

(* AnswerUsed is about the end of a call; what makes it inductive is what the
   connection can hold between its two reads. *)
StreamInv ==
  /\ pc \in {"idle", "Connect", "ReadAzEl", "ReadTemps"}
  /\ broken \/ pc \in {"idle", "Connect"} => asked = <<>>
  /\ pc = "ReadAzEl"  => AzElOnItsWay
  /\ pc = "ReadTemps" => TempsOnTheirWay
  /\ pc # "idle" => ~ret.ok
  /\ AnswerUsed

LEMMA StreamInit == PSInit => StreamInv
BY DEF PSInit, StreamInv, AnswerUsed, Error

LEMMA ReadAzElStep ==
  ASSUME StreamInv, ReadAzEl
  PROVE  StreamInv'
<1>1. /\ pc = "ReadAzEl" /\ pc' = "ReadTemps"
      /\ asked' = IF broken THEN asked ELSE Append(asked, "GLTE")
      /\ UNCHANGED <<fazel, ftemps, ret, broken>>
  BY DEF ReadAzEl
<1>2. ~ret'.ok /\ AnswerUsed' /\ AzElOnItsWay /\ (broken => asked = <<>>)
  BY <1>1 DEF StreamInv, AnswerUsed
<1>3. CASE azel' = <<>> /\ broken
  <2>1. asked' = <<>>
    BY <1>1, <1>2, <1>3
  <2>2. Len(Numbers(azel)') \in 0..1
    BY <1>3, EmptyNumbers
  <2> QED
    BY <1>1, <1>2, <2>1, <2>2 DEF StreamInv, TempsOnTheirWay
<1>4. ASSUME NEW n \in 1..Len(wire), azel' = SubSeq(wire, 1, n),
             wire' = SubSeq(wire, n + 1, Len(wire))
      PROVE  StreamInv'
  <2>1. asked = <<>> /\ wire \in {NoAnswer} \union TwoWords
    BY <1>2, <1>4 DEF AzElOnItsWay
  <2>2. asked' \in {<<>>, <<"GLTE">>} /\ (broken' => asked' = <<>>)
    BY <1>1, <2>1
  <2>3. CASE wire = NoAnswer
    <3>1. n \in 0..3
      BY <1>4, <2>3, OneWordLine
    <3>2. Len(Numbers(azel)') \in 0..1
      BY <1>4, <2>3, <3>1, GarbledNumbers
    <3> QED
      BY <1>1, <1>2, <2>2, <3>2 DEF StreamInv, TempsOnTheirWay
  <2>4. CASE wire \in TwoWords
    <3>1. n \in 0..6 /\ Len(wire) = 6
      BY <1>4, <2>4, TwoWordLine
    <3>2. /\ Len(Numbers(azel)') \in 0..2
          /\ Len(Numbers(azel)') = 2 => n \in 4..6
      BY <1>4, <2>4, <3>1, FirstNumbers
    <3>3. CASE Len(Numbers(azel)') \in 0..1
      BY <1>1, <1>2, <2>2, <3>3 DEF StreamInv, TempsOnTheirWay
    <3>4. CASE n \in 4..6
      <4>1. SubSeq(wire, n + 1, 6) \in Seq(Symbols)
        BY <2>4, <3>4, Leftover
      <4>2. PICK t : t = wire
        OBVIOUS
      <4>3. wire' = RestOf(t, n, <<>>) /\ azel' = SubSeq(t, 1, n) /\ t \in TwoWords
        BY <1>4, <2>4, <3>1, <4>1, <4>2 DEF RestOf
      <4>4. TempsOnTheirWay'
        BY <2>2, <3>4, <4>3 DEF TempsOnTheirWay, Replies
      <4> QED
        BY <1>1, <1>2, <2>2, <4>4 DEF StreamInv
    <3> QED
      BY <3>2, <3>3, <3>4
  <2> QED
    BY <2>1, <2>3, <2>4
<1> QED
  BY <1>3, <1>4 DEF ReadAzEl, Readable

LEMMA ReadTempsStep ==
  ASSUME StreamInv, ReadTemps
  PROVE  StreamInv'
<1>1. pc = "ReadTemps" /\ pc' = "idle" /\ asked' = <<>> /\ azel' = azel
  BY DEF ReadTemps
<1>2. TempsOnTheirWay
  BY <1>1 DEF StreamInv
<1>3. /\ fazel' = Numbers(azel)
      /\ ftemps' = IF Enough(fazel') THEN Numbers(temps') ELSE <<>>
      /\ ret' = IF Enough(fazel') /\ Len(ftemps') >= 8
                THEN [ok |-> TRUE, el |-> fazel'[1],
                      tstrut |-> <<ftemps'[2], ftemps'[3]>>]
                ELSE Error
  BY DEF ReadTemps, Parse, TempNumbers
<1>4. CASE ~(Enough(fazel') /\ Len(ftemps') >= 8)
  BY <1>1, <1>3, <1>4 DEF StreamInv, AnswerUsed, Error
<1>5. CASE Len(Numbers(azel)) \in 0..1
  <2>1. \A x \in 0..1 : ~(x >= 2)
    OBVIOUS
  <2>2. ~Enough(fazel')
    BY <1>3, <1>5, <2>1, Zenon DEF Enough
  <2> QED
    BY <1>4, <2>2
<1>6. ASSUME NEW t \in TwoWords, NEW n \in 4..6, azel = SubSeq(t, 1, n),
             /\ Len(Numbers(temps')) \in 0..8
             /\ Len(Numbers(temps')) = 8 =>
                  Numbers(temps')[2] = "t1" /\ Numbers(temps')[3] = "t2"
      PROVE  StreamInv'
  <2>1. CASE Enough(fazel') /\ Len(ftemps') >= 8
    <3>1. Len(fazel') \in 0..2 /\ (Len(fazel') = 2 =>
                                    azel[1] = t[1] /\ fazel'[1] = t[1][1])
      <4>1. n \in 0..6
        OBVIOUS
      <4> QED
        BY <1>3, <1>6, <4>1, FirstNumbers
    <3>2. Len(fazel') = 2
      <4>1. \A x \in 0..2 : x >= 2 => x = 2
        OBVIOUS
      <4> QED
        BY <2>1, <3>1, <4>1, Zenon DEF Enough
    <3>3. ftemps'[2] = "t1" /\ ftemps'[3] = "t2"
      <4>1. \A x \in 0..8 : x >= 8 => x = 8
        OBVIOUS
      <4> QED
        BY <1>3, <1>6, <2>1, <4>1, Zenon
    <3>4. GaveElevation' => fazel'[1] = "el"
      BY <1>1, <3>1, <3>2, TwoWordLine DEF GaveElevation
    <3>5. /\ ret'.ok = TRUE /\ ret'.el = fazel'[1]
          /\ ret'.tstrut = <<ftemps'[2], ftemps'[3]>>
      BY <1>3, <2>1
    <3> QED
      BY <1>1, <3>3, <3>4, <3>5 DEF StreamInv, AnswerUsed
  <2> QED
    BY <1>4, <2>1
<1>7. CASE temps' = <<>>
  BY <1>2, <1>5, <1>6, <1>7, EmptyNumbers DEF TempsOnTheirWay
<1>8. ASSUME NEW m \in 1..Len(wire), temps' = SubSeq(wire, 1, m),
             NEW t \in TwoWords, NEW n \in 4..6, azel = SubSeq(t, 1, n),
             NEW a \in Replies, wire = RestOf(t, n, a)
      PROVE  StreamInv'
  <2>1. m \in 0..Len(wire)
    BY <1>8
  <2> QED
    BY <1>6, <1>8, <2>1, SecondNumbers DEF RestOf
<1>9. CASE wire # <<>>
  <2>1. PICK m \in 1..Len(wire) : temps' = SubSeq(wire, 1, m)
    BY <1>9 DEF ReadTemps, Readable
  <2> QED
    BY <1>2, <1>5, <1>8, <1>9, <2>1 DEF TempsOnTheirWay
<1>10. CASE wire = <<>>
  <2>1. temps' = <<>>
    BY <1>10 DEF ReadTemps, Readable
  <2> QED
    BY <1>7, <2>1
<1> QED
  BY <1>9, <1>10

LEMMA PLCAnswersStep ==
  ASSUME StreamInv, PLCAnswers
  PROVE  StreamInv'
<1>1. /\ asked # <<>> /\ ~broken /\ asked' = Tail(asked)
      /\ UNCHANGED <<pc, azel, fazel, ftemps, ret, broken>>
  BY DEF PLCAnswers, bufVars
<1>2. AnswerUsed' /\ (pc' # "idle" => ~ret'.ok)
  BY <1>1 DEF StreamInv, AnswerUsed, GaveElevation
<1>3. CASE pc = "ReadAzEl"
  <2>1. asked = <<"TRAA">> /\ wire = <<>>
    BY <1>1, <1>3 DEF StreamInv, AzElOnItsWay
  <2>2. asked' = <<>>
    BY <1>1, <2>1
  <2>3. PICK answer \in {NoAnswer} \union TwoWords : wire' = <<>> \o answer
    BY <2>1, TheAnswers DEF PLCAnswers
  <2>4. answer \in Seq(Symbols)
    BY OneWordLine, TwoWordLine
  <2>5. wire' \in {NoAnswer} \union TwoWords
    BY <2>3, <2>4
  <2> QED
    BY <1>1, <1>2, <1>3, <2>2, <2>5 DEF StreamInv, AzElOnItsWay
<1>4. CASE pc = "ReadTemps"
  <2>1. asked = <<"GLTE">>
    BY <1>1, <1>4 DEF StreamInv, TempsOnTheirWay
  <2>2. asked' = <<>>
    BY <1>1, <2>1
  <2>3. PICK a \in Replies : wire' = wire \o a
    BY <2>1, TheAnswers DEF PLCAnswers
  <2>4. CASE Len(Numbers(azel)) \in 0..1
    <3>1. Len(Numbers(azel)') \in 0..1
      BY <1>1, <2>4
    <3> QED
      BY <1>1, <1>2, <1>4, <2>2, <3>1 DEF StreamInv, TempsOnTheirWay
  <2>5. ASSUME NEW t \in TwoWords, NEW n \in 4..6, azel = SubSeq(t, 1, n),
               wire = RestOf(t, n, <<>>)
        PROVE  StreamInv'
    <3>1. SubSeq(t, n + 1, 6) \in Seq(Symbols)
      BY Leftover
    <3>2. wire' = RestOf(t, n, a)
      BY <2>3, <2>5, <3>1 DEF RestOf
    <3>3. TempsOnTheirWay'
      BY <1>1, <2>2, <2>5, <3>2 DEF TempsOnTheirWay
    <3> QED
      BY <1>1, <1>2, <1>4, <2>2, <3>3 DEF StreamInv
  <2> QED
    BY <1>1, <1>4, <2>1, <2>4, <2>5 DEF StreamInv, TempsOnTheirWay
<1> QED
  BY <1>1, <1>3, <1>4 DEF StreamInv

LEMMA PLCClosesStep ==
  ASSUME StreamInv, PLCCloses
  PROVE  StreamInv'
<1>1. /\ asked' = <<>> /\ wire' \in {wire, <<>>}
      /\ UNCHANGED <<pc, azel, fazel, ftemps, ret>>
  BY DEF PLCCloses, bufVars
<1>2. AnswerUsed' /\ (pc' # "idle" => ~ret'.ok)
  BY <1>1 DEF StreamInv, AnswerUsed, GaveElevation
<1>3. Numbers(azel)' = Numbers(azel)
  BY <1>1
<1>4. AzElOnItsWay => AzElOnItsWay'
  BY <1>1 DEF AzElOnItsWay
<1>5. TempsOnTheirWay => TempsOnTheirWay'
  BY <1>1, <1>3 DEF TempsOnTheirWay
<1> QED
  BY <1>1, <1>2, <1>4, <1>5 DEF StreamInv

LEMMA StreamStep == StreamInv /\ [PSNext]_psVars => StreamInv'
<1> SUFFICES ASSUME StreamInv, [PSNext]_psVars PROVE StreamInv'
  OBVIOUS
<1>1. CASE Call
  BY <1>1 DEF Call, StreamInv, plcVars, AnswerUsed, Error
<1>2. CASE ConnectRefused
  BY <1>2 DEF ConnectRefused, StreamInv, plcVars, bufVars, AnswerUsed, GaveElevation
<1>3. CASE Connected
  BY <1>3 DEF Connected, StreamInv, AzElOnItsWay, bufVars, AnswerUsed, GaveElevation
<1>4. CASE UNCHANGED psVars
  BY <1>4 DEF psVars, bufVars, plcVars, StreamInv, AzElOnItsWay, TempsOnTheirWay,
              AnswerUsed, GaveElevation
<1> QED
  BY <1>1, <1>2, <1>3, <1>4, ReadAzElStep, ReadTempsStep, PLCAnswersStep,
     PLCClosesStep DEF PSNext, Driver, PLC

(* A call that succeeds returns the two temperatures the PLC has sent, and the
   elevation unless it has refused to say it: never another of its numbers or a
   part of one, however the stream is cut and whatever of the first answer is
   left to the second (projectsoft.c:77-104). *)
THEOREM AnswersAreUsed == PSSpec => []AnswerUsed
<1>1. StreamInv => AnswerUsed
  BY DEF StreamInv
<1> QED
  BY StreamInit, StreamStep, <1>1, PTL DEF PSSpec

-----------------------------------------------------------------------------
(* Types *)

(* Whatever atof finds, and from wherever it starts, is the name of a number:
   it gives a name only when it has seen the end of that number. *)
LEMMA NumbersAreFields ==
  ASSUME NEW s \in Seq(Symbols)
  PROVE  Numbers(s) \in Seq(Fields)
<1>1. IsFiniteSet(TokenStarts(s))
  <2>1. TokenStarts(s) \in SUBSET (1..Len(s)) /\ Len(s) \in Int
    BY DEF TokenStarts
  <2> QED
    BY <2>1, FS_Interval, FS_Subset
<1>2. Cardinality(TokenStarts(s)) \in Nat
  BY <1>1, FS_CardinalityType
<1>3. ASSUME NEW i PROVE atof(s, i) \in Fields
  <2> DEFINE j == IF s[i] = NL THEN i + 1 ELSE i
  <2> HIDE DEF j
  <2>1. Garbled \in Fields
    BY DEF Fields
  <2>2. ASSUME j + 1 \in DOMAIN s, s[j + 1] = Tail1(s[j][1])
        PROVE  s[j][1] \in Fields
    <3>1. Tail1(s[j][1]) \in Symbols
      BY <2>2
    <3>2. ASSUME NEW x, Tail1(x) \in Symbols PROVE x \in Fields
      <4>1. \A y : Tail1(x) # Head1(y) /\ Tail1(x) # SP /\ Tail1(x) # NL
        BY DEF Tail1, Head1, SP, NL
      <4>2. PICK y \in Fields : Tail1(x) = Tail1(y)
        BY <3>2, <4>1, Zenon DEF Symbols
      <4> QED
        BY <4>2 DEF Tail1
    <3> QED
      BY <3>1, <3>2
  <2> QED
    BY <2>1, <2>2, Zenon DEF atof, j
<1> DEFINE start(k) ==
             CHOOSE i \in TokenStarts(s) :
               Cardinality({j \in TokenStarts(s) : j <= i}) = k
           C == Cardinality(TokenStarts(s))
<1>4. Numbers(s) = [k \in 1..C |-> atof(s, start(k))]
  BY Zenon DEF Numbers
<1>5. \A k \in 1..C : atof(s, start(k)) \in Fields
  BY <1>3, Zenon
<1>6. C \in Nat
  BY <1>2
<1> HIDE DEF start, C
<1> QED
  BY <1>4, <1>5, <1>6

LEMMA AnswersAreSymbols ==
  ASSUME NEW request, NEW answer \in Answers(request), request \in {"TRAA", "GLTE"}
  PROVE  answer \in Seq(Symbols)
<1>1. answer \in {NoAnswer} \union TwoWords \/ answer \in Replies
  BY TheAnswers
<1> QED
  BY <1>1, OneWordLine, TwoWordLine, AnswersBegin

LEMMA TypesInit == PSInit => PSTypeOK
<1>1. 0 \in 0..MaxFds /\ 0 \in Nat /\ FALSE \in BOOLEAN
  BY ProjectSoftAssumption
<1>2. \A S : <<>> \in Seq(S)
  OBVIOUS
<1> QED
  BY <1>1, <1>2, Zenon DEF PSInit, PSTypeOK

LEMMA ReadableTypes ==
  ASSUME PSTypeOK, NEW r \in Readable
  PROVE  r[1] \in Seq(Symbols) /\ r[2] \in Seq(Symbols)
<1>1. CASE r = << <<>>, <<>> >>
  BY <1>1
<1>2. ASSUME NEW n \in 1..Len(wire),
             r = <<SubSeq(wire, 1, n), SubSeq(wire, n + 1, Len(wire))>>
      PROVE  r[1] \in Seq(Symbols) /\ r[2] \in Seq(Symbols)
  <2>1. wire \in Seq(Symbols) /\ Len(wire) \in Nat
    BY DEF PSTypeOK
  <2>2. /\ \A i \in 1..n : wire[i] \in Symbols
        /\ \A i \in n + 1..Len(wire) : wire[i] \in Symbols
    BY <2>1
  <2>3. /\ SubSeq(wire, 1, n) \in Seq(Symbols)
        /\ SubSeq(wire, n + 1, Len(wire)) \in Seq(Symbols)
    BY <2>1, <2>2, SubSeqProperties
  <2> QED
    BY <1>2, <2>3
<1> QED
  BY <1>1, <1>2 DEF Readable

LEMMA TypesStep == PSTypeOK /\ SocketInv /\ [PSNext]_psVars => PSTypeOK'
<1> SUFFICES ASSUME PSTypeOK, SocketInv, [PSNext]_psVars PROVE PSTypeOK'
  OBVIOUS
<1>1. /\ pc' \in {"idle", "Connect", "ReadAzEl", "ReadTemps"}
      /\ fds' \in 0..MaxFds /\ refused' \in Nat
  BY SocketStep DEF SocketInv
<1>2. CASE Call
  <2>1. /\ azel' = <<>> /\ temps' = <<>> /\ fazel' = <<>> /\ ftemps' = <<>>
        /\ ret' = Error
        /\ asked' = asked /\ wire' = wire /\ broken' = broken
    BY <1>2 DEF Call, plcVars
  <2>2. \A S : <<>> \in Seq(S)
    OBVIOUS
  <2> QED
    BY <1>1, <2>1, <2>2, Zenon DEF PSTypeOK
<1>3. CASE ConnectRefused
  BY <1>1, <1>3 DEF ConnectRefused, PSTypeOK, plcVars, bufVars
<1>4. CASE Connected
  <2>1. /\ azel' = azel /\ temps' = temps /\ fazel' = fazel /\ ftemps' = ftemps
        /\ ret' = ret /\ wire' = <<>> /\ broken' = FALSE
    BY <1>4 DEF Connected, bufVars
  <2>2. <<>> \in Seq(Symbols) /\ asked' \in Seq({"TRAA", "GLTE"})
    BY <1>4 DEF Connected
  <2> QED
    BY <1>1, <2>1, <2>2, Zenon DEF PSTypeOK
<1>5. CASE ReadAzEl
  <2>1. azel' \in Seq(Symbols) /\ wire' \in Seq(Symbols)
    BY <1>5, ReadableTypes DEF ReadAzEl
  <2>2. asked' \in Seq({"TRAA", "GLTE"})
    BY <1>5 DEF ReadAzEl, PSTypeOK
  <2> QED
    BY <1>1, <1>5, <2>1, <2>2 DEF ReadAzEl, PSTypeOK
<1>6. CASE ReadTemps
  <2>1. temps' \in Seq(Symbols)
    BY <1>6, ReadableTypes DEF ReadTemps
  <2>2. fazel' \in Seq(Fields)
    BY <1>6, NumbersAreFields DEF ReadTemps, Parse, PSTypeOK
  <2>3. ftemps' \in Seq(Fields)
    BY <1>6, <2>1, NumbersAreFields DEF ReadTemps, Parse, TempNumbers
  <2>4. ret' \in {Error} \union
          [ok : {TRUE}, el : Fields, tstrut : Fields \X Fields]
    <3>1. CASE Enough(fazel') /\ Len(ftemps') >= 8
      <4>1. fazel'[1] \in Fields /\ ftemps'[2] \in Fields /\ ftemps'[3] \in Fields
        BY <2>2, <2>3, <3>1 DEF Enough
      <4> QED
        BY <1>6, <3>1, <4>1 DEF ReadTemps, Parse
    <3>2. CASE ~(Enough(fazel') /\ Len(ftemps') >= 8)
      BY <1>6, <3>2 DEF ReadTemps, Parse
    <3> QED
      BY <3>1, <3>2
  <2>5. /\ azel' = azel /\ asked' = <<>> /\ wire' = <<>> /\ broken' = FALSE
    BY <1>6 DEF ReadTemps
  <2>6. \A S : <<>> \in Seq(S)
    OBVIOUS
  <2> QED
    BY <1>1, <2>1, <2>2, <2>3, <2>4, <2>5, <2>6, Zenon DEF PSTypeOK
<1>7. CASE PLCAnswers
  <2>1. PICK answer \in Answers(Head(asked)) : wire' = wire \o answer
    BY <1>7 DEF PLCAnswers
  <2>2. Head(asked) \in {"TRAA", "GLTE"} /\ asked' \in Seq({"TRAA", "GLTE"})
    BY <1>7 DEF PLCAnswers, PSTypeOK
  <2>3. wire' \in Seq(Symbols)
    BY <2>1, <2>2, AnswersAreSymbols DEF PSTypeOK
  <2> QED
    BY <1>1, <1>7, <2>2, <2>3 DEF PLCAnswers, PSTypeOK, bufVars
<1>8. CASE PLCCloses
  <2>1. /\ azel' = azel /\ temps' = temps /\ fazel' = fazel /\ ftemps' = ftemps
        /\ ret' = ret /\ asked' = <<>> /\ broken' = TRUE
        /\ wire' = wire \/ wire' = <<>>
    BY <1>8 DEF PLCCloses, bufVars
  <2>2. \A S : <<>> \in Seq(S)
    OBVIOUS
  <2> QED
    BY <1>1, <2>1, <2>2, Zenon DEF PSTypeOK
<1>9. CASE UNCHANGED psVars
  BY <1>9 DEF psVars, bufVars, plcVars, PSTypeOK
<1> QED
  BY <1>2, <1>3, <1>4, <1>5, <1>6, <1>7, <1>8, <1>9 DEF PSNext, Driver, PLC
=============================================================================
