-------------------------- MODULE OldClientsProofs --------------------------
(***************************************************************************)
(* Theorems about OldClients: the account of the sockets, for any number   *)
(* of descriptors and whatever the instruments answer; every word of the   *)
(* old telescope decoded; what is left of a reply after a failure; and     *)
(* what the parser makes of any part of Control by Web's body.             *)
(***************************************************************************)
EXTENDS OldClients, TLAPS

PCs == {"idle", "VConnect", "VRead", "NConnect", "NSend", "NRecv", "CPerform"}
         \cup Parsing

(* The account, and what it rests on: whether ng_send has a socket is known from
   sd, which it has opened itself whenever it is further than connect. *)
IInv ==
  /\ pc \in PCs /\ sd \in {"none", "open"}
  /\ fds \in Nat /\ lost \in Nat /\ fds <= MaxFds
  /\ pc \in {"NSend", "NRecv"} => sd = "open"
  /\ OldSocketsAccounted

LEMMA InvInit == OldInit => IInv
<1> SUFFICES ASSUME OldInit PROVE IInv
  OBVIOUS
<1>1. sd = "none"
  BY Zenon DEF OldInit, NGInit
<1>2. pc = "idle" /\ fds = 0 /\ lost = 0
  BY Zenon DEF OldInit, SocketsInit
<1> QED
  BY <1>1, <1>2, SocketsAssumption DEF IInv, PCs, OldSocketsAccounted, Held

LEMMA VatttelStep ==
  ASSUME IInv, VatttelNext, UNCHANGED <<ngVars, cbwVars>>
  PROVE  IInv'
<1> USE SocketsAssumption
    DEF IInv, PCs, Parsing, OldSocketsAccounted, Held, ngVars, sockVars, Returns,
        Opened, NoneLeft, Closed, StaysOpen
<1>1. CASE GetStrutTemp
  BY <1>1 DEF GetStrutTemp, Begin, VatttelFails
<1>2. CASE VatttelRefused
  BY <1>2 DEF VatttelRefused, VatttelFails
<1>3. CASE VatttelConnected
  BY <1>3 DEF VatttelConnected
<1>4. CASE VatttelRead
  BY <1>4 DEF VatttelRead
<1> QED
  BY <1>1, <1>2, <1>3, <1>4 DEF VatttelNext

LEMMA NGStep ==
  ASSUME IInv, NGNext
  PROVE  IInv'
<1> USE SocketsAssumption
    DEF IInv, PCs, Parsing, OldSocketsAccounted, Held, ngVars, sockVars, Returns,
        Opened, NoneLeft, Closed, StaysOpen
<1>1. CASE ng_send
  <2>1. pc = "idle" /\ pc' = "NConnect" /\ initialize
    BY <1>1 DEF ng_send, Begin
  <2>2. CASE Opened /\ sd' = "open"
    BY <2>1, <2>2
  <2>3. CASE NoneLeft /\ sd' = "none"
    BY <2>1, <2>3
  <2> QED
    BY <2>1, <2>2, <2>3 DEF initialize
<1>2. CASE NGRefused
  BY <1>2 DEF NGRefused
<1>3. CASE NGConnected
  BY <1>3 DEF NGConnected
<1>4. CASE NGSend
  BY <1>4 DEF NGSend
<1>5. CASE NGRecv
  BY <1>5 DEF NGRecv
<1> QED
  BY <1>1, <1>2, <1>3, <1>4, <1>5 DEF NGNext

LEMMA CBWStep ==
  ASSUME IInv, CBWNext, UNCHANGED ngVars
  PROVE  IInv'
<1> USE SocketsAssumption
    DEF IInv, PCs, Parsing, OldSocketsAccounted, Held, ngVars, sockVars, Returns,
        Opened, NoneLeft, Closed, StaysOpen
<1>1. CASE GetStrutTempCBW
  BY <1>1 DEF GetStrutTempCBW, Begin
<1>2. CASE CBWChunk
  BY <1>2 DEF CBWChunk
<1>3. CASE CBWPerformed
  BY <1>3 DEF CBWPerformed, json_read_object
<1>4. CASE CBWNoHandle
  BY <1>4 DEF CBWNoHandle, Begin, json_read_object
<1>5. CASE CBWSymbol
  BY <1>5 DEF CBWSymbol
<1>6. CASE CBWReturns
  BY <1>6 DEF CBWReturns
<1> QED
  BY <1>1, <1>2, <1>3, <1>4, <1>5, <1>6 DEF CBWNext

LEMMA InvStep == IInv /\ [OldNext]_oldVars => IInv'
<1> SUFFICES ASSUME IInv, [OldNext]_oldVars PROVE IInv'
  OBVIOUS
<1>1. CASE UNCHANGED oldVars
  BY <1>1 DEF oldVars, IInv, OldSocketsAccounted, Held
<1> QED
  BY <1>1, VatttelStep, NGStep, CBWStep DEF OldNext

(* Every socket of the process belongs to the call under way or was left open
   by a connect or a recv that failed (vatttel_com.c:96, ngclient.c:75, 89);
   none is closed twice. *)
THEOREM OldSocketsKept == OldSpec => []OldSocketsAccounted
<1>1. IInv => OldSocketsAccounted
  BY DEF IInv
<1> QED
  BY InvInit, InvStep, <1>1, PTL DEF OldSpec

-----------------------------------------------------------------------------
(* The four bytes of a word give it back, for each of the 2^32 words. *)
LEMMA WordOfBytes ==
  ASSUME NEW w \in Words
  PROVE  Byte(w, 3) + Byte(w, 2) * 256 + Byte(w, 1) * 65536
           + SignedByte(Byte(w, 0)) * 16777216 = w
<1>1. w \in Int /\ w \div 16777216 \in -128 .. 127
  BY VatttelAssumption, SMT
<1>2. /\ Byte(w, 0) = (w \div 16777216) % 256
      /\ Byte(w, 1) = (w \div 65536) % 256
      /\ Byte(w, 2) = (w \div 256) % 256
  BY <1>1, SMT DEF Byte
<1>3. Byte(w, 3) = w % 256
  <2>1. w \div 1 = w
    BY <1>1, SMT
  <2> QED
    BY <2>1, SMT DEF Byte
<1>4. SignedByte((w \div 16777216) % 256) = w \div 16777216
  <2> DEFINE b == w \div 16777216
  <2> HIDE DEF b
  <2>1. b \in -128 .. 127 => SignedByte(b % 256) = b
    BY SMT DEF SignedByte
  <2> QED
    BY <1>1, <2>1, SMT DEF b
<1>5. w = (w \div 16777216) * 16777216 + ((w \div 65536) % 256) * 65536
            + ((w \div 256) % 256) * 256 + (w % 256)
  BY <1>1, SMT
<1>6. /\ w % 256 \in Int /\ (w \div 256) % 256 \in Int
      /\ (w \div 65536) % 256 \in Int
  BY <1>1, SMT
<1> QED
  BY <1>1, <1>2, <1>3, <1>4, <1>5, <1>6, SMT

(* As soon as the word is whole, the number of bytes read makes no
   difference to what is taken out of the buffer. *)
LEMMA WordIsDecoded ==
  ASSUME NEW w \in Words, NEW n \in First + 4 .. 64
  PROVE  read_value(recvBuff(w, n), STRUT_INDEX) = w
<1> DEFINE pkt == recvBuff(w, n)
<1>1. /\ pkt[16] = Byte(w, 0) /\ pkt[17] = Byte(w, 1)
      /\ pkt[18] = Byte(w, 2) /\ pkt[19] = Byte(w, 3)
  BY SMT DEF recvBuff, Packet, First, STRUT_INDEX
<1> HIDE DEF pkt
<1>2. read_value(pkt, STRUT_INDEX) =
        Byte(w, 3) + Byte(w, 2) * 256 + Byte(w, 1) * 65536
          + SignedByte(Byte(w, 0)) * 16777216
  BY <1>1, SMT DEF read_value, STRUT_INDEX
<1> QED
  BY <1>2, WordOfBytes, SMT DEF pkt

(* A call of GetStrutTemp returns what it says; every other step leaves its
   result alone or puts one of another client in its place. *)
LEMMA WordInit == OldInit => WordIsTrue
BY SMT DEF OldInit, SocketsInit, NoResult, WordIsTrue

LEMMA WordStep == WordIsTrue /\ [OldNext]_oldVars => WordIsTrue'
<1> SUFFICES ASSUME WordIsTrue, [OldNext]_oldVars PROVE WordIsTrue'
  OBVIOUS
<1>1. CASE UNCHANGED <<result, errmsg>>
  BY <1>1, Zenon DEF WordIsTrue
<1>2. CASE result'.by # "vatttel"
  BY <1>2, Zenon DEF WordIsTrue
<1>3. CASE VatttelNext
  <2>1. CASE VatttelFails
    BY <2>1, SMT DEF VatttelFails, Returns, VatttelResult, WordIsTrue
  <2>2. CASE VatttelRead
    <3>1. PICK w \in Words, n \in -1 .. 64 :
            /\ errmsg' = IF n < 0 THEN "error" ELSE errmsg
            /\ result' = VatttelResult(w, n,
                            read_value(recvBuff(w, n), STRUT_INDEX))
      BY <2>2, Zenon DEF VatttelRead, Returns
    <3>2. result'.got = "word" => n \in First + 4 .. 64
      BY <3>1, SMT DEF VatttelResult, First, STRUT_INDEX
    <3>3. result'.got = "word" => result'.value = result'.sent
      BY <3>1, <3>2, WordIsDecoded, SMT DEF VatttelResult
    <3>4. result'.got = "nothing" => errmsg' = "error"
      BY <3>1, SMT DEF VatttelResult
    <3> QED
      BY <3>3, <3>4, Zenon DEF WordIsTrue
  <2>3. CASE GetStrutTemp \/ VatttelRefused \/ VatttelConnected
    <3>1. CASE Begin("VConnect")
      BY <3>1, <1>2, SMT DEF Begin, NoResult
    <3> QED
      BY <2>1, <2>3, <3>1, <1>1, Zenon
         DEF GetStrutTemp, VatttelRefused, VatttelConnected
  <2> QED
    BY <1>3, <2>2, <2>3, Zenon DEF VatttelNext
<1>4. CASE NGNext /\ UNCHANGED errmsg
  <2>1. CASE UNCHANGED result
    BY <1>1, <1>4, <2>1, Zenon
  <2>2. ASSUME NEW r, NEW reply, Returns(NGResult(r, reply))
        PROVE  WordIsTrue'
    BY <1>2, <2>2, SMT DEF Returns, NGResult
  <2>3. CASE Begin("NConnect")
    BY <1>2, <2>3, SMT DEF Begin, NoResult
  <2> QED
    BY <1>4, <2>1, <2>2, <2>3, Zenon
       DEF NGNext, ng_send, NGRefused, NGConnected, NGSend, NGRecv
<1>5. CASE CBWNext /\ UNCHANGED errmsg
  <2>1. CASE UNCHANGED result
    BY <1>1, <1>5, <2>1, Zenon
  <2>2. CASE CBWReturns
    <3>1. result' = CBWResult(AtEnd(parse))
      BY <2>2, Zenon DEF CBWReturns, Returns
    <3> QED
      BY <1>2, <3>1, SMT DEF CBWResult
  <2>3. CASE Begin("CPerform") \/ Begin("CParseUnasked")
    BY <1>2, <2>3, SMT DEF Begin, NoResult
  <2> QED
    BY <1>5, <2>1, <2>2, <2>3, Zenon
       DEF CBWNext, GetStrutTempCBW, CBWChunk, CBWPerformed, CBWNoHandle,
           CBWSymbol
<1> QED
  BY <1>1, <1>3, <1>4, <1>5, Zenon DEF OldNext, oldVars

(* A word of the old telescope control system that has come whole is decoded
   to the number sent, for every number of 32 bits, and a call that got
   nothing leaves its message (vatttel_com.c:25, 63). *)
THEOREM WordsAreTrue == OldSpec => []WordIsTrue
BY WordInit, WordStep, PTL DEF OldSpec

-----------------------------------------------------------------------------
NGSteps == {"NConnect", "NSend", "NRecv"}

(* What makes FailureIsEmpty inductive: the output is empty from the beginning of
   a call of ng_send until its recv, and a result is that of the last call, so
   that there is none while a call is under way. *)
EmptyUntilReply ==
  /\ FailureIsEmpty
  /\ pc # "idle" => result.by = "none"
  /\ pc \in NGSteps => output = ""

LEMMA EmptyInit == OldInit => EmptyUntilReply
BY SMT DEF OldInit, SocketsInit, NoResult, EmptyUntilReply, FailureIsEmpty,
           NGSteps

LEMMA NGReturns ==
  ASSUME NEW r, NEW reply, Returns(NGResult(r, reply))
  PROVE  /\ pc' = "idle" /\ result'.reply = reply
         /\ result'.ret = 1 <=> r = 1
         /\ r = 0 => r # 1
BY DEF Returns, NGResult

LEMMA EmptyStep == EmptyUntilReply /\ [OldNext]_oldVars => EmptyUntilReply'
<1> SUFFICES ASSUME EmptyUntilReply, [OldNext]_oldVars PROVE EmptyUntilReply'
  OBVIOUS
<1> USE DEF EmptyUntilReply, FailureIsEmpty
<1>1. CASE UNCHANGED oldVars
  BY <1>1, Zenon DEF oldVars
<1>2. ASSUME NEW r, Returns(r), r.by # "ng" PROVE EmptyUntilReply'
  BY <1>2, Zenon DEF Returns, NGSteps
<1>3. ASSUME NEW step, Begin(step), step \notin NGSteps PROVE EmptyUntilReply'
  BY <1>3, Zenon DEF Begin, NoResult
<1>4. CASE VatttelNext /\ UNCHANGED ngVars
  <2>1. CASE VatttelFails
    BY <1>2, <2>1, Zenon DEF VatttelFails, VatttelResult
  <2>2. CASE VatttelConnected
    BY <2>2, Zenon DEF VatttelConnected, NGSteps
  <2>3. CASE VatttelRead
    BY <1>2, <2>3, Zenon DEF VatttelRead, VatttelResult
  <2>4. CASE Begin("VConnect")
    BY <1>3, <2>4, Zenon DEF NGSteps
  <2> QED
    BY <1>4, <2>1, <2>2, <2>3, <2>4, Zenon
       DEF VatttelNext, GetStrutTemp, VatttelRefused
<1>5. CASE NGNext
  <2>1. CASE ng_send
    BY <2>1, Zenon DEF ng_send, Begin, ClearOutput, NoResult
  <2>2. CASE NGRefused
    BY <2>2, Zenon DEF NGRefused, Returns, NGResult, ngVars, NGSteps
  <2>3. CASE NGConnected
    BY <2>3, Zenon DEF NGConnected, ngVars, NGSteps
  <2>4. CASE NGSend
    <3>1. output' = output /\ output = ""
      BY <2>4, Zenon DEF NGSend, ngVars, NGSteps
    <3>2. CASE pc' = "NRecv" /\ UNCHANGED result
      <4>1. pc = "NSend"
        BY <2>4, Zenon DEF NGSend
      <4> QED
        BY <3>1, <3>2, <4>1, Zenon
    <3>3. CASE Returns(NGResult(1, "none"))
      <4>1. result'.ret = 1 /\ result'.reply = "none" /\ pc' = "idle"
        BY <3>3, NGReturns, Zenon
      <4> QED
        BY <3>1, <4>1, Zenon
    <3> QED
      BY <2>4, <3>2, <3>3, Zenon DEF NGSend
  <2>5. CASE NGRecv
    <3>1. output = ""
      BY <2>5, Zenon DEF NGRecv, NGSteps
    <3>2. ASSUME NEW reply \in {"whole", "part", "closed"},
                 output' \in Text(reply), Returns(NGResult(0, reply))
          PROVE  EmptyUntilReply'
      <4>1. result'.ret # 1 /\ result'.reply = reply /\ pc' = "idle"
        BY <3>2, NGReturns, Zenon
      <4>2. output' # "" /\ (reply = "whole" => output' = "reply")
        BY <3>2, Zenon DEF Text
      <4> QED
        BY <4>1, <4>2, Zenon DEF NGSteps
    <3>3. CASE Returns(NGResult(1, "error")) /\ UNCHANGED output
      <4>1. result'.ret = 1 /\ result'.reply = "error" /\ pc' = "idle"
        BY <3>3, NGReturns, Zenon
      <4> QED
        BY <3>1, <3>3, <4>1, Zenon DEF NGSteps
    <3> QED
      BY <2>5, <3>2, <3>3, Zenon DEF NGRecv
  <2> QED
    BY <1>5, <2>1, <2>2, <2>3, <2>4, <2>5, Zenon DEF NGNext
<1>6. CASE CBWNext /\ UNCHANGED ngVars
  <2>1. CASE GetStrutTempCBW
    BY <1>3, <2>1, Zenon DEF GetStrutTempCBW, NGSteps
  <2>2. CASE CBWChunk
    BY <1>6, <2>2, Zenon DEF CBWChunk, ngVars, NGSteps
  <2>3. CASE CBWReturns
    BY <1>2, <2>3, Zenon DEF CBWReturns, CBWResult
  <2>4. CASE CBWNoHandle
    BY <1>3, <2>4, Zenon DEF CBWNoHandle, NGSteps
  <2>5. CASE CBWPerformed
    BY <1>6, <2>5, Zenon DEF CBWPerformed, ngVars, NGSteps
  <2>6. CASE CBWSymbol
    BY <1>6, <2>6, Zenon DEF CBWSymbol, Parsing, ngVars, NGSteps
  <2> QED
    BY <1>6, <2>1, <2>2, <2>3, <2>4, <2>5, <2>6, Zenon DEF CBWNext
<1> QED
  BY <1>1, <1>4, <1>5, <1>6, Zenon DEF OldNext

(* After a failed ng_send the output is empty, and only then: nothing of an
   earlier reply or of the request is left for GetTempAndEl_old to take for
   an answer (ngclient.c:98, vatt_secondary.cpp:1319). *)
THEOREM FailuresAreEmpty == OldSpec => []FailureIsEmpty
<1>1. EmptyUntilReply => FailureIsEmpty
  BY Zenon DEF EmptyUntilReply
<1> QED
  BY EmptyInit, EmptyStep, <1>1, PTL DEF OldSpec

-----------------------------------------------------------------------------
(* The parse of the body of Control by Web.  Induction over its symbols is out
   of reach, induction over the steps is not: the invariant says, for every
   number of symbols looked at, where the parser is. *)
One == "oneWireSensor1"
Two == "oneWireSensor2"

States == {"init", "await_attr", "in_attr", "await_value", "in_val_string",
           "in_val_token", "post_val", "post_space", "end"}

Codes == {"parsed", "OBSTART", "ATTRSTART", "NOARRAY", "STRLONG", "BADTRAIL",
          "NONQSTRING", "EMPTY"}

(* Every symbol of a text. *)
Symbols == Characters \cup {Quote, Space, LBrace, RBrace, Colon, Comma, "0", "garbage",
                            "other", One, Two}

Parses ==
  [state : States, status : Codes, attr : Symbols \cup {""},
   value : Seq(Symbols), quoted : BOOLEAN, sensor : [Sensors -> Seq(Symbols)]]

NoTemps == [s \in Sensors |-> <<>>]
FirstTemp(v) == [NoTemps EXCEPT ![One] = Stored(v)]

SensorAttribute(name, v) == Attribute(name, Quoted(v))

Glues(t, p, q) ==
  /\ t \in Seq(Symbols) /\ Len(t) = Len(p) + Len(q)
  /\ \A i \in 1 .. Len(p) : t[i] = p[i]
  /\ \A i \in Len(p) + 1 .. Len(p) + Len(q) : t[i] = q[i - Len(p)]

LEMMA Glued ==
  ASSUME NEW p \in Seq(Symbols), NEW q \in Seq(Symbols)
  PROVE  Glues(p \o q, p, q)
BY SMT DEF Glues

LEMMA PartOf ==
  ASSUME NEW t \in Seq(Symbols), NEW k \in 0 .. Len(t)
  PROVE  /\ SubSeq(t, 1, k) \in Seq(Symbols) /\ Len(SubSeq(t, 1, k)) = k
         /\ \A i \in 1 .. k : SubSeq(t, 1, k)[i] = t[i]
BY SMT

LEMMA Whole ==
  ASSUME NEW t \in Seq(Symbols) PROVE SubSeq(t, 1, Len(t)) = t
BY SMT

LEMMA OneMore ==
  ASSUME NEW t \in Seq(Symbols), NEW k \in 0 .. Len(t) - 1
  PROVE  SubSeq(t, 1, k + 1) = Append(SubSeq(t, 1, k), t[k + 1])
BY SMT

LEMMA Shorter ==
  ASSUME NEW v \in Seq(Symbols)
  PROVE  Stored(v) \in Seq(Symbols) /\ Len(Stored(v)) < Len10
BY MicroJSONAssumption, SMT DEF Stored

IsAttribute(t, name, v) ==
  /\ t \in Seq(Symbols) /\ Len(t) = Len(v) + 6
  /\ t[1] = Quote /\ t[2] = name /\ t[3] = Quote /\ t[4] = Colon
  /\ t[5] = Quote /\ t[Len(v) + 6] = Quote
  /\ \A i \in 1 .. Len(v) : t[i + 5] = v[i]

LEMMA AttributeLaidOut ==
  ASSUME NEW name \in Symbols, NEW v \in Seq(Symbols)
  PROVE  IsAttribute(SensorAttribute(name, v), name, v)
<1> DEFINE h == <<Quote, name, Quote, Colon>>
           w == <<Quote>> \o v
           q == w \o <<Quote>>
<1>1. /\ <<Quote>> \in Seq(Symbols) /\ Len(<<Quote>>) = 1 /\ <<Quote>>[1] = Quote
      /\ h \in Seq(Symbols) /\ Len(h) = 4
      /\ h[1] = Quote /\ h[2] = name /\ h[3] = Quote /\ h[4] = Colon
  <2>1. Quote \in Symbols /\ Colon \in Symbols
    BY DEF Symbols
  <2>2. <<Quote>> \in Seq(Symbols) /\ Len(<<Quote>>) = 1 /\ <<Quote>>[1] = Quote
    BY <2>1
  <2>3. h \in Seq(Symbols) /\ Len(h) = 4
    BY <2>1
  <2>4. h[1] = Quote /\ h[2] = name /\ h[3] = Quote /\ h[4] = Colon
    OBVIOUS
  <2> QED
    BY <2>2, <2>3, <2>4
<1>2. Glues(w, <<Quote>>, v)
  BY <1>1, Glued
<1>3. Glues(q, w, <<Quote>>)
  BY <1>1, <1>2, Glued DEF Glues
<1>4. Glues(h \o q, h, q)
  BY <1>1, <1>3, Glued DEF Glues
<1>5. SensorAttribute(name, v) = h \o q
  BY DEF SensorAttribute, Attribute, Quoted
<1> DEFINE t == h \o q
<1> SUFFICES IsAttribute(t, name, v)
  BY <1>5, Zenon
<1> HIDE DEF h, w, q, t
<1>6. Len(v) \in Nat
  OBVIOUS
<1>7. Len(w) = Len(v) + 1 /\ w[1] = Quote /\ \A i \in 1 .. Len(v) : w[i + 1] = v[i]
  BY <1>1, <1>2, <1>6, SMT DEF Glues
<1>8. /\ Len(q) = Len(v) + 2 /\ q[1] = Quote /\ q[Len(v) + 2] = Quote
      /\ \A i \in 1 .. Len(v) : q[i + 1] = v[i]
  BY <1>1, <1>3, <1>6, <1>7, SMT DEF Glues
<1>9. t \in Seq(Symbols) /\ Glues(t, h, q)
  BY <1>4, Zenon DEF t, Glues
<1> QED
  BY <1>1, <1>6, <1>8, <1>9, SMT DEF Glues, IsAttribute

Opening == <<LBrace, Quote, "other", Quote, Colon, "0", Comma>>

(* Where the symbols of the body are. *)
LaidOut(t, v, w) ==
  LET a == Len(v)
      b == Len(w)
  IN  /\ t \in Seq(Symbols) /\ Len(t) = 22 + a + b
      /\ \A k \in 1 .. 7 : t[k] = Opening[k]
      /\ \A k \in 1 .. 6 + a : t[7 + k] = SensorAttribute(One, v)[k]
      /\ t[14 + a] = Comma
      /\ \A k \in 1 .. 6 + b : t[14 + a + k] = SensorAttribute(Two, w)[k]
      /\ t[21 + a + b] = Space /\ t[22 + a + b] = RBrace

LEMMA BodyLaidOut ==
  ASSUME NEW r, NEW v \in Seq(Symbols), NEW w \in Seq(Symbols),
         v = r[One], w = r[Two]
  PROVE  LaidOut(Body(r), v, w)
<1> DEFINE a == Len(v)
           b == Len(w)
           x == SensorAttribute(One, v)
           y == SensorAttribute(Two, w)
           h == <<Quote, "other", Quote, Colon>>
           zero == <<"0">>
           open == <<LBrace>>
           comma == <<Comma>>
           end == <<Space, RBrace>>
           p0 == h \o zero
           p1 == open \o p0
           p2 == p1 \o comma
           p3 == p2 \o x
           p4 == p3 \o comma
           p5 == p4 \o y
           p6 == p5 \o end
<1>2. Body(r) = p6
  BY DEF Body, Attribute, SensorAttribute, One, Two
<1>3. /\ x \in Seq(Symbols) /\ Len(x) = 6 + a
      /\ y \in Seq(Symbols) /\ Len(y) = 6 + b
      /\ a \in Nat /\ b \in Nat
  <2>1. One \in Symbols /\ Two \in Symbols
    BY DEF Symbols
  <2>2. IsAttribute(x, One, v) /\ IsAttribute(y, Two, w)
    BY <2>1, AttributeLaidOut, Zenon
  <2>3. Len(v) \in Nat /\ Len(w) \in Nat
    OBVIOUS
  <2> QED
    BY <2>2, <2>3, SMT DEF IsAttribute
<1> HIDE DEF a, b, x, y
<1>4. /\ h \in Seq(Symbols) /\ Len(h) = 4
      /\ h[1] = Quote /\ h[2] = "other" /\ h[3] = Quote /\ h[4] = Colon
      /\ zero \in Seq(Symbols) /\ Len(zero) = 1 /\ zero[1] = "0"
      /\ open \in Seq(Symbols) /\ Len(open) = 1 /\ open[1] = LBrace
      /\ comma \in Seq(Symbols) /\ Len(comma) = 1 /\ comma[1] = Comma
      /\ end \in Seq(Symbols) /\ Len(end) = 2 /\ end[1] = Space /\ end[2] = RBrace
  <2>1. {Quote, "other", Colon, "0", LBrace, Comma, Space, RBrace} \subseteq Symbols
    BY DEF Symbols
  <2>2. h \in Seq(Symbols) /\ Len(h) = 4
    BY <2>1
  <2>3. zero \in Seq(Symbols) /\ open \in Seq(Symbols) /\ comma \in Seq(Symbols)
    BY <2>1
  <2>4. end \in Seq(Symbols) /\ Len(end) = 2
    BY <2>1
  <2> QED
    BY <2>2, <2>3, <2>4
<1> HIDE DEF h, zero, open, comma, end
<1>5. /\ p1 \in Seq(Symbols) /\ Len(p1) = 6
      /\ p1[1] = LBrace /\ p1[2] = Quote /\ p1[3] = "other" /\ p1[4] = Quote
      /\ p1[5] = Colon /\ p1[6] = "0"
  <2>1. Glues(p0, h, zero)
    BY <1>4, Glued
  <2> HIDE DEF p0
  <2>2. Glues(p1, open, p0)
    BY <1>4, <2>1, Glued DEF Glues
  <2> HIDE DEF p1
  <2>3. p0 \in Seq(Symbols) /\ Len(p0) = 5
    BY <1>4, <2>1, SMT DEF Glues
  <2>4. p0[1] = Quote /\ p0[2] = "other" /\ p0[3] = Quote /\ p0[4] = Colon /\ p0[5] = "0"
    BY <1>4, <2>1, SMT DEF Glues
  <2> QED
    BY <1>4, <2>2, <2>3, <2>4, SMT DEF Glues
<1> HIDE DEF p1
<1>6. p2 \in Seq(Symbols) /\ Len(p2) = 7 /\ \A k \in 1 .. 7 : p2[k] = Opening[k]
  <2>1. Glues(p2, p1, comma)
    BY <1>4, <1>5, Glued
  <2> HIDE DEF p2
  <2>2. p2[7] = Comma
    BY <1>4, <1>5, <2>1, SMT DEF Glues
  <2>3. \A k \in 1 .. 6 : p2[k] = p1[k]
    BY <1>5, <2>1, SMT DEF Glues
  <2>4. \A k \in 1 .. 7 : k \in {1, 2, 3, 4, 5, 6, 7}
    OBVIOUS
  <2>5. \A k \in 1 .. 7 : p2[k] = Opening[k]
    BY <1>5, <2>2, <2>3, <2>4, SMT DEF Opening
  <2> QED
    BY <1>4, <1>5, <2>1, <2>5, SMT DEF Glues
<1> HIDE DEF p2
<1>7. /\ p3 \in Seq(Symbols) /\ Len(p3) = 13 + a
      /\ \A k \in 1 .. 7 : p3[k] = Opening[k]
      /\ \A k \in 1 .. 6 + a : p3[7 + k] = x[k]
  <2>1. Glues(p3, p2, x)
    BY <1>3, <1>6, Glued
  <2> HIDE DEF p3
  <2> QED
    BY <1>3, <1>6, <2>1, SMT DEF Glues
<1> HIDE DEF p3
<1>8. /\ p4 \in Seq(Symbols) /\ Len(p4) = 14 + a /\ p4[14 + a] = Comma
      /\ \A k \in 1 .. 13 + a : p4[k] = p3[k]
  <2>1. Glues(p4, p3, comma)
    BY <1>4, <1>7, Glued
  <2> HIDE DEF p4
  <2> QED
    BY <1>3, <1>4, <1>7, <2>1, SMT DEF Glues
<1> HIDE DEF p4
<1>9. /\ p5 \in Seq(Symbols) /\ Len(p5) = 20 + a + b
      /\ \A k \in 1 .. 14 + a : p5[k] = p4[k]
      /\ \A k \in 1 .. 6 + b : p5[14 + a + k] = y[k]
  <2>1. Glues(p5, p4, y)
    BY <1>3, <1>8, Glued
  <2> HIDE DEF p5
  <2>2. p5 \in Seq(Symbols) /\ Len(p5) = 20 + a + b
    BY <1>3, <1>8, <2>1, SMT DEF Glues
  <2>3. \A k \in 1 .. 14 + a : p5[k] = p4[k]
    BY <1>8, <2>1, Zenon DEF Glues
  <2>4. ASSUME NEW k \in 1 .. 6 + b PROVE p5[14 + a + k] = y[k]
    <3>1. 14 + a + k \in 14 + a + 1 .. 14 + a + (6 + b) /\ (14 + a + k) - (14 + a) = k
      BY <1>3, SMT
    <3>2. \A i \in 14 + a + 1 .. 14 + a + (6 + b) : p5[i] = y[i - (14 + a)]
      BY <1>3, <1>8, <2>1, Zenon DEF Glues
    <3> QED
      BY <3>1, <3>2
  <2> QED
    BY <2>2, <2>3, <2>4
<1> HIDE DEF p5
<1>10. /\ p6 \in Seq(Symbols) /\ Len(p6) = 22 + a + b
       /\ \A k \in 1 .. 20 + a + b : p6[k] = p5[k]
       /\ p6[21 + a + b] = Space /\ p6[22 + a + b] = RBrace
  <2>1. Glues(p6, p5, end)
    BY <1>4, <1>9, Glued
  <2> HIDE DEF p6
  <2>2. p6 \in Seq(Symbols) /\ Len(p6) = 22 + a + b
    BY <1>3, <1>4, <1>9, <2>1, SMT DEF Glues
  <2>3. \A k \in 1 .. 20 + a + b : p6[k] = p5[k]
    BY <1>9, <2>1, Zenon DEF Glues
  <2>4. p6[21 + a + b] = Space /\ p6[22 + a + b] = RBrace
    BY <1>3, <1>4, <1>9, <2>1, SMT DEF Glues
  <2> QED
    BY <2>2, <2>3, <2>4, Zenon
<1> HIDE DEF p6
<1>11. \A k \in 1 .. 14 + a : p6[k] = p4[k]
  <2>1. \A k \in 1 .. 14 + a : k \in 1 .. 20 + a + b
    BY <1>3, SMT
  <2> QED
    BY <1>9, <1>10, <2>1, Zenon
<1>12. p6[14 + a] = Comma /\ \A k \in 1 .. 13 + a : p6[k] = p3[k]
  <2>1. 14 + a \in 1 .. 14 + a /\ \A k \in 1 .. 13 + a : k \in 1 .. 14 + a
    BY <1>3, SMT
  <2> QED
    BY <1>8, <1>11, <2>1, Zenon
<1>13. \A k \in 1 .. 6 + b : p6[14 + a + k] = y[k]
  <2> SUFFICES ASSUME NEW k \in 1 .. 6 + b PROVE p6[14 + a + k] = y[k]
    OBVIOUS
  <2>1. 14 + a + k \in 1 .. 20 + a + b
    BY <1>3, SMT
  <2>2. p6[14 + a + k] = p5[14 + a + k]
    BY <1>10, <2>1, Zenon
  <2> QED
    BY <1>9, <2>2, Zenon
<1>14. \A k \in 1 .. 7 : p6[k] = Opening[k]
  <2>1. \A k \in 1 .. 7 : k \in 1 .. 13 + a
    BY <1>3, SMT
  <2> QED
    BY <1>7, <1>12, <2>1, Zenon
<1>15. \A k \in 1 .. 6 + a : p6[7 + k] = x[k]
  <2> SUFFICES ASSUME NEW k \in 1 .. 6 + a PROVE p6[7 + k] = x[k]
    OBVIOUS
  <2>1. 7 + k \in 1 .. 13 + a
    BY <1>3, SMT
  <2>2. p6[7 + k] = p3[7 + k]
    BY <1>12, <2>1, Zenon
  <2> QED
    BY <1>7, <2>2, Zenon
<1>16. LaidOut(p6, v, w)
  BY <1>10, <1>12, <1>13, <1>14, <1>15, Zenon DEF LaidOut, a, b, x, y
<1> QED
  BY <1>2, <1>16, Zenon

-----------------------------------------------------------------------------
(* One symbol more, wherever the parser is. *)
Fits(sensors) ==
  sensors \in [Sensors -> Seq(Symbols)]
  /\ \A s \in Sensors : Len(sensors[s]) < Len10

IsParse(p) == p \in Parses /\ Fits(p.sensor)

LEMMA PostValKeeps ==
  ASSUME NEW p, IsParse(p), NEW c
  PROVE  IsParse(post_val(p, c))
<1>1. p.state \in States /\ p.value \in Seq(Symbols) /\ Fits(p.sensor)
  BY DEF IsParse, Parses
<1>2. ASSUME NEW f, Fits(f) PROVE IsParse(post_element([p EXCEPT !.sensor = f], c))
  BY <1>2 DEF IsParse, Parses, post_element, Goto, Fails, States, Codes, Fits
<1>3. p.attr \in Sensors => Fits([p.sensor EXCEPT ![p.attr] = Stored(p.value)])
  BY <1>1, Shorter DEF Fits
<1>4. IsParse(Goto(p, "post_space")) /\ IsParse(Fails(p, "NONQSTRING"))
  BY DEF IsParse, Parses, Goto, Fails, States, Codes
<1>5. IsParse(post_element(p, c))
  BY DEF IsParse, Parses, post_element, Goto, Fails, States, Codes
<1>6. p.attr \in Sensors => 
        [p EXCEPT !.sensor[p.attr] = Stored(p.value)]
          = [p EXCEPT !.sensor = [p.sensor EXCEPT ![p.attr] = Stored(p.value)]]
  OBVIOUS
<1> QED
  BY <1>2, <1>3, <1>4, <1>5, <1>6 DEF post_val

LEMMA Going ==
  ASSUME NEW p, IsParse(p)
  PROVE  /\ \A state \in States : IsParse(Goto(p, state))
         /\ \A code \in Codes : IsParse(Fails(p, code))
         /\ \A state \in States, v \in Seq(Symbols) :
              IsParse([Goto(p, state) EXCEPT !.value = v])
         /\ \A state \in States, v \in Seq(Symbols), b \in BOOLEAN :
              IsParse([Goto(p, state) EXCEPT !.quoted = b, !.value = v])
BY DEF IsParse, Parses, Goto, Fails, States

LEMMA SymbolKeeps ==
  ASSUME NEW p, IsParse(p), p.state # "end", NEW c \in Symbols
  PROVE  IsParse(Symbol(p, c))
<1>1. CASE p.state = "init"
  <2>1. Symbol(p, c) = init(p, c)
    BY <1>1 DEF Symbol
  <2> QED
    BY <2>1, Going DEF init, States, Codes
<1>2. CASE p.state = "await_attr"
  <2>1. Symbol(p, c) = await_attr(p, c)
    BY <1>2 DEF Symbol
  <2>2. IsParse([Goto(p, "in_attr") EXCEPT !.attr = ""])
    BY DEF IsParse, Parses, Goto, States
  <2> QED
    BY <2>1, <2>2, Going DEF await_attr, Codes
<1>3. CASE p.state = "in_attr"
  <2>1. Symbol(p, c) = in_attr(p, c)
    BY <1>3 DEF Symbol
  <2>2. IsParse([Goto(p, "await_value") EXCEPT !.value = <<>>])
    <3>1. <<>> \in Seq(Symbols) /\ "await_value" \in States
      BY DEF States
    <3> QED
      BY <3>1, Going, Zenon
  <2>3. IsParse([p EXCEPT !.attr = c])
    BY DEF IsParse, Parses
  <2> QED
    BY <2>1, <2>2, <2>3 DEF in_attr
<1>4. CASE p.state = "await_value"
  <2>1. Symbol(p, c) = await_value(p, c)
    BY <1>4 DEF Symbol
  <2>2. IsParse([Goto(p, "in_val_string") EXCEPT !.quoted = TRUE])
    BY DEF IsParse, Parses, Goto, States
  <2>3. <<c>> \in Seq(Symbols)
    OBVIOUS
  <2>4. IsParse([Goto(p, "in_val_token") EXCEPT !.quoted = FALSE, !.value = <<c>>])
    BY <2>3, Going, Zenon DEF States
  <2>5. IsParse(Fails(p, "NOARRAY"))
    BY Going DEF Codes
  <2> QED
    BY <2>1, <2>2, <2>4, <2>5, Zenon DEF await_value
<1>5. CASE p.state \in {"in_val_string", "in_val_token"}
  <2>1. p.value \in Seq(Symbols)
    BY DEF IsParse, Parses
  <2>2. Append(p.value, c) \in Seq(Symbols)
    BY <2>1
  <2>3. IsParse([p EXCEPT !.value = Append(p.value, c)])
    BY <2>2 DEF IsParse, Parses
  <2>4. CASE p.state = "in_val_string"
    <3>1. Symbol(p, c) = in_val_string(p, c)
      BY <2>4 DEF Symbol
    <3>2. IsParse(Goto(p, "post_val")) /\ IsParse(Fails(p, "STRLONG"))
      BY Going DEF States, Codes
    <3> QED
      BY <2>3, <3>1, <3>2, Zenon DEF in_val_string
  <2>5. CASE p.state = "in_val_token"
    <3>1. Symbol(p, c) = in_val_token(p, c)
      BY <2>5 DEF Symbol
    <3>2. IsParse(Goto(p, "post_val")) /\ IsParse(post_val(p, c))
      BY Going, PostValKeeps DEF States
    <3> QED
      BY <2>3, <3>1, <3>2, Zenon DEF in_val_token
  <2> QED
    BY <1>5, <2>4, <2>5
<1>6. CASE p.state \in {"post_val", "post_space"}
  BY <1>6, PostValKeeps DEF Symbol
<1>7. p.state \in States
  BY DEF IsParse, Parses
<1> QED
  BY <1>1, <1>2, <1>3, <1>4, <1>5, <1>6, <1>7 DEF States

(* A sensor's attribute, symbol by symbol: where the parser is after j
   symbols of it, with what the targets held before. *)
InSensor(p, name, v, held, j) ==
  /\ p.status = "parsed" /\ p.sensor = held
  /\ j = 0 => p.state = "await_attr"
  /\ j \in {1, 2} => p.state = "in_attr"
  /\ j > 1 => p.attr = name
  /\ j \in {3, 4} => p.state = "await_value" /\ p.value = <<>>
  /\ j \in 5 .. 5 + Len(v) =>
       /\ p.state = "in_val_string" /\ p.quoted
       /\ p.value = SubSeq(v, 1, j - 5) /\ j - 5 <= Len10
  /\ j = 6 + Len(v) =>
       p.state = "post_val" /\ p.quoted /\ p.value = v /\ Len(v) <= Len10

Refused(p) == p.state = "end" /\ p.status # "parsed"

LEMMA SensorStep ==
  ASSUME NEW p, IsParse(p), NEW name \in Sensors, NEW v \in Seq(Characters),
         NEW held, NEW j \in 0 .. 5 + Len(v), InSensor(p, name, v, held, j),
         NEW c, c = SensorAttribute(name, v)[j + 1]
  PROVE  /\ p.state # "end"
         /\ \/ InSensor(Symbol(p, c), name, v, held, j + 1)
            \/ Refused(Symbol(p, c)) /\ Len(v) > Len10
<1> DEFINE t == SensorAttribute(name, v)
           q == Symbol(p, c)
<1>1. v \in Seq(Symbols) /\ name \in Symbols /\ Len(v) \in Nat
  BY DEF Symbols, Sensors, One, Two
<1>2. IsAttribute(t, name, v)
  BY <1>1, AttributeLaidOut, Zenon
<1> HIDE DEF t
<1>3. c = t[j + 1]
  BY DEF t
<1>4. p \in Parses
  BY DEF IsParse
<1>5. CASE j = 0
  <2>1. c = Quote /\ p.state = "await_attr"
    BY <1>2, <1>3, <1>5 DEF IsAttribute, InSensor
  <2>2. q = [Goto(p, "in_attr") EXCEPT !.attr = ""]
    BY <2>1 DEF Symbol, await_attr, Quote, Space, RBrace
  <2>3. q.state = "in_attr" /\ q.status = p.status /\ q.sensor = p.sensor
    BY <1>4, <2>2 DEF Goto, Parses
  <2> QED
    BY <1>1, <1>5, <2>1, <2>3 DEF InSensor
<1>6. CASE j = 1
  <2>1. c = name /\ p.state = "in_attr" /\ name # Quote
    BY <1>2, <1>3, <1>6 DEF IsAttribute, InSensor, Sensors, Quote
  <2>2. q = [p EXCEPT !.attr = c]
    BY <2>1 DEF Symbol, in_attr
  <2>3. /\ q.state = "in_attr" /\ q.status = p.status /\ q.sensor = p.sensor
        /\ q.attr = name
    BY <1>4, <2>1, <2>2 DEF Parses
  <2> QED
    BY <1>1, <1>6, <2>1, <2>3 DEF InSensor
<1>7. CASE j = 2
  <2>1. c = Quote /\ p.state = "in_attr" /\ p.attr = name
    BY <1>2, <1>3, <1>7 DEF IsAttribute, InSensor
  <2>2. q = [Goto(p, "await_value") EXCEPT !.value = <<>>]
    BY <2>1 DEF Symbol, in_attr
  <2>3. /\ q.state = "await_value" /\ q.status = p.status /\ q.sensor = p.sensor
        /\ q.attr = name /\ q.value = <<>>
    BY <1>4, <2>1, <2>2 DEF Parses, Goto
  <2> QED
    BY <1>1, <1>7, <2>1, <2>3 DEF InSensor
<1>8. CASE j = 3
  <2>1. c = Colon /\ p.state = "await_value"
    BY <1>2, <1>3, <1>8 DEF IsAttribute, InSensor
  <2>2. q = p
    BY <2>1 DEF Symbol, await_value
  <2> QED
    BY <1>1, <1>8, <2>1, <2>2 DEF InSensor
<1>9. CASE j = 4
  <2>1. /\ c = Quote /\ p.state = "await_value" /\ p.attr = name
        /\ p.value = <<>> /\ p.status = "parsed" /\ p.sensor = held
    BY <1>2, <1>3, <1>9 DEF IsAttribute, InSensor
  <2>2. q = [Goto(p, "in_val_string") EXCEPT !.quoted = TRUE]
    BY <2>1 DEF Symbol, await_value, Quote, Space, Colon, LBrace, LBracket
  <2>3. /\ q.state = "in_val_string" /\ q.status = p.status /\ q.sensor = p.sensor
        /\ q.attr = name /\ q.value = <<>> /\ q.quoted
    BY <1>4, <2>1, <2>2 DEF Parses, Goto
  <2>4. SubSeq(v, 1, 5 - 5) = <<>> /\ 5 - 5 <= Len10
    BY MicroJSONAssumption
  <2>5. 5 \notin {0, 1, 2, 3, 4, 6 + Len(v)}
    BY <1>1
  <2>6. InSensor(q, name, v, held, 5)
    BY <2>1, <2>3, <2>4, <2>5, Zenon DEF InSensor
  <2>7. j + 1 = 5
    BY <1>9
  <2> QED
    BY <2>1, <2>6, <2>7, Zenon
<1>10. CASE j \in 5 .. 4 + Len(v)
  <2> DEFINE i == j - 5
  <2>1. i \in 0 .. Len(v) - 1 /\ j + 1 = i + 6 /\ j = i + 5
    BY <1>1, <1>10, SMT
  <2>2. c = v[i + 1]
    BY <1>1, <1>2, <1>3, <2>1, SMT DEF IsAttribute
  <2>3. c # Quote
    BY <2>1, <2>2 DEF Characters
  <2>4. /\ p.state = "in_val_string" /\ p.attr = name /\ p.quoted
        /\ p.value = SubSeq(v, 1, i) /\ i <= Len10
        /\ p.status = "parsed" /\ p.sensor = held
    BY <1>1, <1>10, SMT DEF InSensor
  <2> HIDE DEF i
  <2>5. Len(p.value) = i
    BY <1>1, <2>1, <2>4, PartOf
  <2>6. q = IF i > Len10 - 1 THEN Fails(p, "STRLONG")
                             ELSE [p EXCEPT !.value = Append(p.value, c)]
    BY <2>3, <2>4, <2>5 DEF Symbol, in_val_string
  <2>7. CASE i > Len10 - 1
    <3>1. q.state = "end" /\ q.status = "STRLONG"
      BY <1>4, <2>6, <2>7 DEF Fails, Parses
    <3>2. Len(v) > Len10
      BY <1>1, <2>1, <2>7, MicroJSONAssumption, SMT
    <3> QED
      BY <2>4, <3>1, <3>2 DEF Refused
  <2>8. CASE ~(i > Len10 - 1)
    <3>1. q = [p EXCEPT !.value = Append(p.value, c)]
      BY <2>6, <2>8
    <3>2. /\ q.state = "in_val_string" /\ q.status = p.status
          /\ q.sensor = p.sensor /\ q.attr = p.attr /\ q.quoted = p.quoted
          /\ q.value = Append(p.value, c)
      BY <1>4, <2>4, <3>1 DEF Parses
    <3>3. q.value = SubSeq(v, 1, i + 1)
      BY <1>1, <2>1, <2>2, <2>4, <3>2, OneMore
    <3>4. i + 1 <= Len10 /\ (j + 1) - 5 = i + 1
      BY <2>1, <2>8, MicroJSONAssumption, SMT
    <3>5. j + 1 \in 5 .. 5 + Len(v) /\ j + 1 \notin {0, 1, 2, 3, 4, 6 + Len(v)}
      BY <1>1, <1>10, SMT
    <3> QED
      BY <2>4, <3>2, <3>3, <3>4, <3>5, Zenon DEF InSensor
  <2> QED
    BY <2>7, <2>8
<1>11. CASE j = 5 + Len(v)
  <2>1. c = Quote
    BY <1>1, <1>2, <1>3, <1>11, SMT DEF IsAttribute
  <2>2. /\ p.state = "in_val_string" /\ p.quoted /\ p.attr = name
        /\ p.value = SubSeq(v, 1, Len(v)) /\ Len(v) <= Len10
        /\ p.status = "parsed" /\ p.sensor = held
    BY <1>1, <1>11, SMT DEF InSensor
  <2>3. q = Goto(p, "post_val")
    BY <2>1, <2>2 DEF Symbol, in_val_string
  <2>4. /\ q.state = "post_val" /\ q.status = p.status /\ q.sensor = p.sensor
        /\ q.attr = p.attr /\ q.quoted = p.quoted /\ q.value = p.value
    BY <1>4, <2>3 DEF Parses, Goto
  <2>5. SubSeq(v, 1, Len(v)) = v
    BY <1>1, Whole
  <2>6. j + 1 = 6 + Len(v) /\ j + 1 \notin {0, 1, 2, 3, 4} \cup 5 .. 5 + Len(v)
    BY <1>1, <1>11, SMT
  <2> QED
    BY <2>2, <2>4, <2>5, <2>6, Zenon DEF InSensor
<1>12. j \in {0, 1, 2, 3, 4} \/ j \in 5 .. 4 + Len(v) \/ j = 5 + Len(v)
  BY <1>1, SMT
<1>13. p.state # "end"
  BY <1>12, <1>1, SMT DEF InSensor
<1> QED
  BY <1>5, <1>6, <1>7, <1>8, <1>9, <1>10, <1>11, <1>12, <1>13, Zenon

(* What comes before the sensors, symbol by symbol. *)
OpeningStates == <<"init", "await_attr", "in_attr", "in_attr", "await_value",
                   "await_value", "in_val_token">>

InOpening(p, k) ==
  /\ p.status = "parsed" /\ p.sensor = NoTemps
  /\ p.state = OpeningStates[k + 1]
  /\ k > 2 => p.attr = "other"

LEMMA OpeningStep ==
  ASSUME NEW p, IsParse(p), NEW k \in 0 .. 6, InOpening(p, k),
         NEW c, c = Opening[k + 1]
  PROVE  LET q == Symbol(p, c)
         IN  /\ p.state # "end"
             /\ k < 6 => InOpening(q, k + 1)
             /\ k = 6 => /\ q.state = "await_attr" /\ q.status = "parsed"
                         /\ q.sensor = NoTemps
<1> DEFINE q == Symbol(p, c)
<1>1. /\ p \in Parses /\ p.status = "parsed" /\ p.sensor = NoTemps
      /\ k > 2 => p.attr = "other"
  BY DEF IsParse, InOpening
<1> USE DEF Quote, Space, LBrace, RBrace, Colon, Comma, LBracket
<1>2. CASE k = 0
  <2>1. c = LBrace /\ p.state = "init"
    BY <1>2 DEF InOpening, Opening, OpeningStates
  <2>2. q = Goto(p, "await_attr")
    BY <2>1 DEF Symbol, init
  <2>3. q.state = "await_attr" /\ q.status = "parsed" /\ q.sensor = NoTemps
    BY <1>1, <2>2 DEF Goto, Parses
  <2> QED
    BY <1>2, <2>1, <2>3 DEF InOpening, OpeningStates
<1>3. CASE k = 1
  <2>1. c = Quote /\ p.state = "await_attr"
    BY <1>3 DEF InOpening, Opening, OpeningStates
  <2>2. q = [Goto(p, "in_attr") EXCEPT !.attr = ""]
    BY <2>1 DEF Symbol, await_attr
  <2>3. q.state = "in_attr" /\ q.status = "parsed" /\ q.sensor = NoTemps
    BY <1>1, <2>2 DEF Goto, Parses
  <2> QED
    BY <1>3, <2>1, <2>3 DEF InOpening, OpeningStates
<1>4. CASE k = 2
  <2>1. c = "other" /\ p.state = "in_attr"
    BY <1>4 DEF InOpening, Opening, OpeningStates
  <2>2. q = [p EXCEPT !.attr = c]
    BY <2>1 DEF Symbol, in_attr
  <2>3. /\ q.state = "in_attr" /\ q.status = "parsed" /\ q.sensor = NoTemps
        /\ q.attr = "other"
    BY <1>1, <2>1, <2>2 DEF Parses
  <2> QED
    BY <1>4, <2>1, <2>3 DEF InOpening, OpeningStates
<1>5. CASE k = 3
  <2>1. c = Quote /\ p.state = "in_attr"
    BY <1>5 DEF InOpening, Opening, OpeningStates
  <2>2. q = [Goto(p, "await_value") EXCEPT !.value = <<>>]
    BY <2>1 DEF Symbol, in_attr
  <2>3. /\ q.state = "await_value" /\ q.status = "parsed" /\ q.sensor = NoTemps
        /\ q.attr = "other"
    <3>1. p.attr = "other"
      BY <1>1, <1>5
    <3> QED
      BY <1>1, <2>2, <3>1 DEF Goto, Parses
  <2> QED
    BY <1>5, <2>1, <2>3 DEF InOpening, OpeningStates
<1>6. CASE k = 4
  <2>1. c = Colon /\ p.state = "await_value"
    BY <1>6 DEF InOpening, Opening, OpeningStates
  <2>2. q = p
    BY <2>1 DEF Symbol, await_value
  <2> QED
    BY <1>1, <1>6, <2>1, <2>2 DEF InOpening, OpeningStates
<1>7. CASE k = 5
  <2>1. c = "0" /\ p.state = "await_value"
    BY <1>7 DEF InOpening, Opening, OpeningStates
  <2>2. q = [Goto(p, "in_val_token") EXCEPT !.quoted = FALSE, !.value = <<c>>]
    BY <2>1 DEF Symbol, await_value
  <2>3. /\ q.state = "in_val_token" /\ q.status = "parsed" /\ q.sensor = NoTemps
        /\ q.attr = "other"
    <3>1. p.attr = "other"
      BY <1>1, <1>7
    <3> QED
      BY <1>1, <2>2, <3>1 DEF Goto, Parses
  <2> QED
    BY <1>7, <2>1, <2>3 DEF InOpening, OpeningStates
<1>8. CASE k = 6
  <2>1. c = Comma /\ p.state = "in_val_token" /\ p.attr = "other"
    BY <1>8 DEF InOpening, Opening, OpeningStates
  <2>2. q = Goto(p, "await_attr")
    BY <2>1 DEF Symbol, in_val_token, post_val, post_element, Sensors
  <2>3. q.state = "await_attr" /\ q.status = "parsed" /\ q.sensor = NoTemps
    BY <1>1, <2>2 DEF Goto, Parses
  <2> QED
    BY <1>8, <2>1, <2>3
<1>9. k \in {0, 1, 2, 3, 4, 5, 6}
  OBVIOUS
<1> QED
  BY <1>2, <1>3, <1>4, <1>5, <1>6, <1>7, <1>8, <1>9, Zenon

(* What stands behind a value: a comma or a space, or the brace behind the
   space. *)
LEMMA ValueEnds ==
  ASSUME NEW p, IsParse(p), p.attr \in Sensors, p.quoted
  PROVE  LET held == [p.sensor EXCEPT ![p.attr] = Stored(p.value)]
         IN  /\ post_val(p, Comma) = [p EXCEPT !.state = "await_attr", !.sensor = held]
             /\ post_val(p, Space) = [p EXCEPT !.state = "post_space"]
             /\ post_val(p, RBrace) = [p EXCEPT !.state = "end", !.sensor = held]
BY DEF IsParse, Parses, post_val, post_element, Goto, Comma, Space, RBrace

(* After k symbols of the body with the values v and w. *)
InBody(p, v, w, k) ==
  LET a == Len(v)
      b == Len(w)
  IN  \/ k \in 0 .. 6 /\ InOpening(p, k)
      \/ k \in 7 .. 13 + a /\ InSensor(p, One, v, NoTemps, k - 7)
      \/ /\ k \in 14 + a .. 20 + a + b /\ a <= Len10
         /\ InSensor(p, Two, w, FirstTemp(v), k - 14 - a)
      \/ /\ k = 21 + a + b /\ a <= Len10 /\ b <= Len10
         /\ p.state = "post_space" /\ p.status = "parsed" /\ p.quoted
         /\ p.attr = Two /\ p.value = w /\ p.sensor = FirstTemp(v)
      \/ /\ k = 22 + a + b /\ a <= Len10 /\ b <= Len10
         /\ p.state = "end" /\ p.status = "parsed"
         /\ p.sensor = [FirstTemp(v) EXCEPT ![Two] = Stored(w)]

LEMMA BodyStep ==
  ASSUME NEW p, IsParse(p), NEW v \in Seq(Characters), NEW w \in Seq(Characters),
         NEW t, LaidOut(t, v, w), NEW k \in 0 .. Len(t) - 1, InBody(p, v, w, k),
         NEW q, q = Symbol(p, t[k + 1])
  PROVE  /\ p.state # "end"
         /\ \/ InBody(q, v, w, k + 1)
            \/ Refused(q) /\ (Len(v) > Len10 \/ Len(w) > Len10)
<1> DEFINE a == Len(v)
           b == Len(w)
<1>1. /\ a \in Nat /\ b \in Nat /\ Len(t) = 22 + a + b
      /\ One \in Sensors /\ Two \in Sensors
  BY DEF LaidOut, One, Two, Sensors
<1> HIDE DEF a, b
<1>2. CASE k \in 0 .. 6 /\ InOpening(p, k)
  <2>1. t[k + 1] = Opening[k + 1]
    BY <1>2 DEF LaidOut
  <2>2. /\ p.state # "end"
        /\ k < 6 => InOpening(q, k + 1)
        /\ k = 6 => /\ q.state = "await_attr" /\ q.status = "parsed"
                    /\ q.sensor = NoTemps
    BY <1>2, <2>1, OpeningStep
  <2>3. CASE k < 6
    <3>1. k + 1 \in 0 .. 6
      BY <2>3
    <3> QED
      BY <2>2, <2>3, <3>1 DEF InBody
  <2>4. CASE k = 6
    <3>1. InSensor(q, One, v, NoTemps, 0)
      BY <1>1, <2>2, <2>4, SMT DEF InSensor, a
    <3>2. k + 1 \in 7 .. 13 + a /\ (k + 1) - 7 = 0
      BY <1>1, <2>4
    <3>3. InSensor(q, One, v, NoTemps, (k + 1) - 7)
      BY <3>1, <3>2
    <3> QED
      BY <2>2, <3>2, <3>3, Zenon DEF InBody, a
  <2>5. k < 6 \/ k = 6
    BY <1>2
  <2> QED
    BY <2>3, <2>4, <2>5, Zenon
<1>3. CASE k \in 7 .. 13 + a /\ InSensor(p, One, v, NoTemps, k - 7)
  <2> DEFINE j == k - 7
  <2>1. j \in 0 .. 6 + a /\ k + 1 = 7 + (j + 1) /\ (k + 1) - 7 = j + 1
    BY <1>1, <1>3
  <2>2. CASE j \in 0 .. 5 + a
    <3>1. t[k + 1] = SensorAttribute(One, v)[j + 1]
      <4>1. j + 1 \in 1 .. 6 + a
        BY <1>1, <2>2
      <4>2. \A i \in 1 .. 6 + a : t[7 + i] = SensorAttribute(One, v)[i]
        BY Zenon DEF LaidOut, a
      <4> QED
        BY <2>1, <4>1, <4>2
    <3>2. /\ p.state # "end"
          /\ \/ InSensor(q, One, v, NoTemps, j + 1)
             \/ Refused(q) /\ a > Len10
      BY <1>1, <1>3, <2>2, <3>1, SensorStep, Zenon DEF a
    <3>3. k + 1 \in 7 .. 13 + a
      BY <1>1, <2>2
    <3> QED
      BY <2>1, <3>2, <3>3, Zenon DEF InBody, a
  <2>3. CASE j = 6 + a
    <3>1. t[k + 1] = Comma
      <4>1. k + 1 = 14 + a
        BY <1>1, <2>1, <2>3
      <4> QED
        BY <4>1 DEF LaidOut, a
    <3>2. /\ p.status = "parsed" /\ p.sensor = NoTemps /\ p.attr = One
          /\ p.state = "post_val" /\ p.quoted /\ p.value = v /\ a <= Len10
      BY <1>1, <1>3, <2>3, SMT DEF InSensor, a
    <3>3. q = [p EXCEPT !.state = "await_attr", !.sensor = FirstTemp(v)]
      BY <1>1, <3>1, <3>2, ValueEnds DEF Symbol, FirstTemp
    <3>4. q.state = "await_attr" /\ q.status = "parsed" /\ q.sensor = FirstTemp(v)
      BY <3>2, <3>3 DEF IsParse, Parses
    <3>5. InSensor(q, Two, w, FirstTemp(v), 0)
      BY <1>1, <3>4, SMT DEF InSensor, b
    <3>6. k + 1 \in 14 + a .. 20 + a + b /\ (k + 1) - 14 - a = 0
      BY <1>1, <2>1, <2>3
    <3> QED
      BY <3>2, <3>5, <3>6, Zenon DEF InBody, a, b
  <2> QED
    BY <1>1, <2>1, <2>2, <2>3
<1>4. CASE /\ k \in 14 + a .. 20 + a + b /\ a <= Len10
           /\ InSensor(p, Two, w, FirstTemp(v), k - 14 - a)
  <2> DEFINE j == k - 14 - a
  <2>1. j \in 0 .. 6 + b /\ k + 1 = 14 + a + (j + 1) /\ (k + 1) - 14 - a = j + 1
    BY <1>1, <1>4
  <2>2. CASE j \in 0 .. 5 + b
    <3>1. t[k + 1] = SensorAttribute(Two, w)[j + 1]
      <4>1. j + 1 \in 1 .. 6 + b
        BY <1>1, <2>2
      <4>2. \A i \in 1 .. 6 + b : t[14 + a + i] = SensorAttribute(Two, w)[i]
        BY Zenon DEF LaidOut, a, b
      <4> QED
        BY <2>1, <4>1, <4>2
    <3>2. /\ p.state # "end"
          /\ \/ InSensor(q, Two, w, FirstTemp(v), j + 1)
             \/ Refused(q) /\ b > Len10
      BY <1>1, <1>4, <2>2, <3>1, SensorStep, Zenon DEF b
    <3>3. k + 1 \in 14 + a .. 20 + a + b
      BY <1>1, <2>1, <2>2
    <3> QED
      BY <1>4, <2>1, <3>2, <3>3, Zenon DEF InBody, a, b
  <2>3. CASE j = 6 + b
    <3>1. t[k + 1] = Space
      <4>1. k + 1 = 21 + a + b
        BY <1>1, <2>1, <2>3
      <4> QED
        BY <4>1 DEF LaidOut, a, b
    <3>2. /\ p.status = "parsed" /\ p.sensor = FirstTemp(v) /\ p.attr = Two
          /\ p.state = "post_val" /\ p.quoted /\ p.value = w /\ b <= Len10
      BY <1>1, <1>4, <2>3, SMT DEF InSensor, b
    <3>3. q = [p EXCEPT !.state = "post_space"]
      BY <1>1, <3>1, <3>2, ValueEnds DEF Symbol
    <3>4. /\ q.state = "post_space" /\ q.status = "parsed"
          /\ q.sensor = FirstTemp(v) /\ q.attr = Two /\ q.quoted /\ q.value = w
      BY <3>2, <3>3 DEF IsParse, Parses
    <3>5. k + 1 = 21 + a + b
      BY <1>1, <2>1, <2>3
    <3> QED
      BY <1>4, <3>2, <3>4, <3>5, Zenon DEF InBody, a, b
  <2> QED
    BY <1>1, <2>1, <2>2, <2>3
<1>5. CASE /\ k = 21 + a + b /\ a <= Len10 /\ b <= Len10
           /\ p.state = "post_space" /\ p.status = "parsed" /\ p.quoted
           /\ p.attr = Two /\ p.value = w /\ p.sensor = FirstTemp(v)
  <2>1. k + 1 = 22 + a + b
    BY <1>1, <1>5
  <2>2. t[k + 1] = RBrace
    BY <2>1 DEF LaidOut, a, b
  <2>3. q = [p EXCEPT !.state = "end",
                      !.sensor = [FirstTemp(v) EXCEPT ![Two] = Stored(w)]]
    BY <1>1, <1>5, <2>2, ValueEnds DEF Symbol
  <2>4. /\ q.state = "end" /\ q.status = "parsed"
        /\ q.sensor = [FirstTemp(v) EXCEPT ![Two] = Stored(w)]
    BY <1>5, <2>3 DEF IsParse, Parses
  <2> QED
    BY <1>5, <2>1, <2>4, Zenon DEF InBody, a, b
<1>6. k # 22 + a + b
  BY <1>1
<1> QED
  BY <1>2, <1>3, <1>4, <1>5, <1>6, Zenon DEF InBody, a, b

LEMMA BodyInit ==
  ASSUME NEW v, NEW w, NEW s
  PROVE  /\ IsParse(Start(s)) /\ InOpening(Start(s), 0)
         /\ InBody(Start(s), v, w, 0)
<1> DEFINE p == Start(s)
<1>1. p = [state |-> "init", status |-> "parsed", attr |-> "", value |-> <<>>,
           quoted |-> FALSE, sensor |-> NoTemps]
  BY DEF Start, Defaults, NoTemps
<1>2. <<>> \in Seq(Symbols) /\ Len(<<>>) < Len10
  BY MicroJSONAssumption
<1>3. Fits(NoTemps)
  BY <1>2 DEF Fits, NoTemps
<1> HIDE DEF p
<1>4. IsParse(p)
  <2>1. NoTemps \in [Sensors -> Seq(Symbols)]
    BY <1>3 DEF Fits
  <2> QED
    BY <1>1, <1>2, <1>3, <2>1 DEF IsParse, Parses, States, Codes
<1>5. InOpening(p, 0)
  <2>1. p.status = "parsed" /\ p.sensor = NoTemps /\ p.state = "init"
    BY <1>1
  <2>2. OpeningStates[0 + 1] = "init"
    BY DEF OpeningStates
  <2> QED
    BY <2>1, <2>2 DEF InOpening
<1> QED
  BY <1>4, <1>5 DEF InBody, p

LEMMA AtEndKeeps ==
  ASSUME NEW p, IsParse(p)
  PROVE  IsParse(AtEnd(p))
<1>1. IsParse(Fails(p, "EMPTY")) /\ IsParse(post_val(p, "NUL"))
  BY Going, PostValKeeps DEF Codes
<1> QED
  BY <1>1 DEF AtEnd

(* What the end of the text leaves of the parse: every target holds the value
   of this body or nothing; and all of them do when the text is the whole
   body. *)
LEMMA BodyEnds ==
  ASSUME NEW p, IsParse(p), NEW v \in Seq(Characters), NEW w \in Seq(Characters),
         NEW k \in Nat, InBody(p, v, w, k),
         NEW q, q = AtEnd(p)
  PROVE  /\ IsParse(q)
         /\ q.status = "parsed" => /\ q.sensor[One] \in {<<>>, Stored(v)}
                                   /\ q.sensor[Two] \in {<<>>, Stored(w)}
         /\ k = 22 + Len(v) + Len(w) =>
              /\ q.status = "parsed" /\ Len(v) <= Len10 /\ Len(w) <= Len10
              /\ q.sensor[One] = Stored(v) /\ q.sensor[Two] = Stored(w)
<1>1. /\ Len(v) \in Nat /\ Len(w) \in Nat
      /\ One \in Sensors /\ Two \in Sensors /\ One # Two
  BY DEF One, Two, Sensors
<1>2. IsParse(q)
  BY AtEndKeeps
<1>3. /\ NoTemps[One] = <<>> /\ NoTemps[Two] = <<>>
      /\ FirstTemp(v)[One] = Stored(v) /\ FirstTemp(v)[Two] = <<>>
      /\ FirstTemp(v) \in [Sensors -> {<<>>, Stored(v)}]
  BY <1>1 DEF NoTemps, FirstTemp
<1>4. CASE p.state = "post_space"
  <2>1. q = post_val(p, "NUL")
    BY <1>4 DEF AtEnd
  <2>2. q.status # "parsed"
    BY <2>1 DEF post_val, post_element, Fails, Comma, RBrace, Space, IsParse, Parses
  <2>3. k # 22 + Len(v) + Len(w)
    BY <1>1, <1>4, SMT DEF InBody
  <2> QED
    BY <1>2, <2>2, <2>3
<1>5. CASE p.state = "init"
  <2>1. q = Fails(p, "EMPTY")
    BY <1>5 DEF AtEnd
  <2>2. q.status # "parsed"
    BY <2>1 DEF Fails, IsParse, Parses
  <2>3. k # 22 + Len(v) + Len(w)
    BY <1>1, <1>5, SMT DEF InBody
  <2> QED
    BY <1>2, <2>2, <2>3
<1>6. CASE p.state \notin {"post_space", "init"}
  <2>1. q = p
    BY <1>6 DEF AtEnd
  <2>2. \/ p.sensor = NoTemps /\ k < 22 + Len(v) + Len(w)
        \/ p.sensor = FirstTemp(v) /\ k < 22 + Len(v) + Len(w)
        \/ /\ p.sensor = [FirstTemp(v) EXCEPT ![Two] = Stored(w)]
           /\ p.status = "parsed" /\ Len(v) <= Len10 /\ Len(w) <= Len10
    BY <1>1, SMT DEF InBody, InOpening, InSensor
  <2>3. [FirstTemp(v) EXCEPT ![Two] = Stored(w)][One] = Stored(v)
    BY <1>1, <1>3
  <2>4. [FirstTemp(v) EXCEPT ![Two] = Stored(w)][Two] = Stored(w)
    BY <1>1, <1>3
  <2>5. CASE k < 22 + Len(v) + Len(w)
    <3>1. q.sensor = NoTemps \/ q.sensor = FirstTemp(v)
            \/ q.sensor = [FirstTemp(v) EXCEPT ![Two] = Stored(w)]
      BY <2>1, <2>2
    <3>2. k # 22 + Len(v) + Len(w)
      BY <1>1, <2>5
    <3> QED
      BY <1>2, <1>3, <2>3, <2>4, <3>1, <3>2, Zenon
  <2>6. CASE ~(k < 22 + Len(v) + Len(w))
    BY <1>2, <2>1, <2>2, <2>3, <2>4, <2>6, Zenon
  <2> QED
    BY <2>5, <2>6
<1> QED
  BY <1>4, <1>5, <1>6

LEMMA InBodyAtEnd ==
  ASSUME NEW p, NEW v \in Seq(Symbols), NEW w \in Seq(Symbols), NEW k \in Nat,
         InBody(p, v, w, k), p.state = "end"
  PROVE  k = 22 + Len(v) + Len(w)
<1>1. Len(v) \in Nat /\ Len(w) \in Nat
  OBVIOUS
<1>2. ASSUME NEW j \in 0 .. 6 PROVE ~InOpening(p, j)
  BY DEF InOpening, OpeningStates
<1>3. ASSUME NEW j \in 0 .. 6 + Len(v), NEW name, NEW held
      PROVE  ~InSensor(p, name, v, held, j)
  BY <1>1, SMT DEF InSensor
<1>4. ASSUME NEW j \in 0 .. 6 + Len(w), NEW name, NEW held
      PROVE  ~InSensor(p, name, w, held, j)
  BY <1>1, SMT DEF InSensor
<1>5. /\ k \in 7 .. 13 + Len(v) => k - 7 \in 0 .. 6 + Len(v)
      /\ k \in 14 + Len(v) .. 20 + Len(v) + Len(w) => k - 14 - Len(v) \in 0 .. 6 + Len(w)
  BY <1>1
<1> QED
  BY <1>2, <1>3, <1>4, <1>5, Zenon DEF InBody

-----------------------------------------------------------------------------
(* Where a fetch and its parse are.  The text is the part of the body that has
   come, or what the memory read as when nothing had, which may be a part of
   the body of another report; a parse of it is where it is to be after as many
   symbols of the body, or was ended by a value the targets have no room for. *)
Whence(text, r, n) ==
  /\ r \in Reports /\ n \in 0 .. Len(Body(r))
  /\ text = SubSeq(Body(r), 1, n)

AsFarAs(r) ==
  \E n \in 0 .. Len(Body(r)) :
    /\ Whence(memory, r, n)
    /\ come = 0 \/ (come = n /\ r = report)
    /\ cp \in 0 .. n
    /\ \/ InBody(parse, r[One], r[Two], cp)
       \/ Refused(parse) /\ \E s \in Sensors : Len(r[s]) > Len10

OnTrack == \E r \in Reports : AsFarAs(r)

OffTrack ==
  /\ memory = <<"garbage">> /\ come = 0 /\ cp \in 0 .. 1
  /\ IF cp = 0 THEN InOpening(parse, 0) ELSE Refused(parse)

ParseInv ==
  /\ report \in Reports /\ come \in 0 .. Len(Body(report))
  /\ pc \notin {"CPerform"} \cup Parsing => come = 0
  /\ pc = "CPerform" => 
       IF come = 0 THEN memory = NoBody
                   ELSE memory = SubSeq(Body(report), 1, come)
  /\ IsParse(parse) /\ Fits(sensor)
  /\ pc \in Parsing => OnTrack \/ OffTrack

LEMMA BodyBegins ==
  ASSUME NEW v \in Seq(Symbols), NEW w \in Seq(Symbols), NEW t, LaidOut(t, v, w)
  PROVE  /\ t \in Seq(Symbols) /\ Len(t) \in Nat /\ Len(t) >= 22
         /\ t[1] = LBrace /\ Len(t) = 22 + Len(v) + Len(w)
<1>1. Len(v) \in Nat /\ Len(w) \in Nat
  OBVIOUS
<1>2. t \in Seq(Symbols) /\ Len(t) = 22 + Len(v) + Len(w) /\ t[1] = Opening[1]
  BY DEF LaidOut
<1> QED
  BY <1>1, <1>2 DEF Opening

(* What a report is, and its body. *)
LEMMA ReportOK ==
  ASSUME NEW r \in Reports
  PROVE  /\ r[One] \in Seq(Characters) /\ r[Two] \in Seq(Characters)
         /\ LaidOut(Body(r), r[One], r[Two])
         /\ Body(r) \in Seq(Symbols) /\ Len(Body(r)) \in Nat /\ Len(Body(r)) >= 22
         /\ Body(r)[1] = LBrace
         /\ Len(Body(r)) = 22 + Len(r[One]) + Len(r[Two])
<1>1. r \in [Sensors -> Seq(Characters)]
  BY CBWAssumption
<1>2. r[One] \in Seq(Characters) /\ r[Two] \in Seq(Characters)
  BY <1>1 DEF Sensors, One, Two
<1>3. r[One] \in Seq(Symbols) /\ r[Two] \in Seq(Symbols)
  BY <1>2 DEF Symbols
<1>4. LaidOut(Body(r), r[One], r[Two])
  BY <1>3, BodyLaidOut, Zenon
<1>5. /\ Body(r) \in Seq(Symbols) /\ Len(Body(r)) \in Nat /\ Len(Body(r)) >= 22
      /\ Body(r)[1] = LBrace /\ Len(Body(r)) = 22 + Len(r[One]) + Len(r[Two])
  <2> DEFINE t == Body(r)
             v == r[One]
             w == r[Two]
  <2>1. v \in Seq(Symbols) /\ w \in Seq(Symbols) /\ LaidOut(t, v, w)
    BY <1>3, <1>4
  <2> HIDE DEF t, v, w
  <2>2. /\ t \in Seq(Symbols) /\ Len(t) \in Nat /\ Len(t) >= 22
        /\ t[1] = LBrace /\ Len(t) = 22 + Len(v) + Len(w)
    BY <2>1, BodyBegins, Zenon
  <2> QED
    BY <2>2, Zenon DEF t, v, w
<1> QED
  BY <1>2, <1>4, <1>5, Zenon

(* The texts a parse may begin with. *)
LEMMA FirstParts ==
  ASSUME NEW t \in Seq(Symbols), Len(t) >= 22
  PROVE  /\ SubSeq(t, 1, 0) = <<>>
         /\ SubSeq(t, 1, 1) = <<t[1]>>
         /\ \A n \in 1 .. Len(t) : SubSeq(t, 1, n)[1] = t[1]
<1>1. SubSeq(t, 1, 0) = <<>>
  OBVIOUS
<1>2. SubSeq(t, 1, 0 + 1) = Append(SubSeq(t, 1, 0), t[0 + 1])
  BY OneMore
<1>3. \A n \in 1 .. Len(t) : SubSeq(t, 1, n)[1] = t[1]
  OBVIOUS
<1>4. Append(<<>>, t[1]) = <<t[1]>> /\ 0 + 1 = 1
  OBVIOUS
<1>5. SubSeq(t, 1, 1) = <<t[1]>>
  BY <1>1, <1>2, <1>4, Zenon
<1> QED
  BY <1>1, <1>3, <1>5, Zenon

LEMMA Beginnings ==
  ASSUME NEW r \in Reports
  PROVE  /\ SubSeq(Body(r), 1, 0) = <<>>
         /\ SubSeq(Body(r), 1, 1) = <<LBrace>>
         /\ \A n \in 1 .. Len(Body(r)) : SubSeq(Body(r), 1, n) # NoBody
<1>1. Body(r) \in Seq(Symbols) /\ Len(Body(r)) >= 22 /\ Body(r)[1] = LBrace
  BY ReportOK, Zenon
<1>2. NoBody[1] # LBrace
  BY DEF NoBody, LBrace
<1>3. /\ SubSeq(Body(r), 1, 0) = <<>>
      /\ SubSeq(Body(r), 1, 1) = <<Body(r)[1]>>
      /\ \A n \in 1 .. Len(Body(r)) : SubSeq(Body(r), 1, n)[1] = Body(r)[1]
  BY <1>1, FirstParts, Zenon
<1>4. ASSUME NEW n \in 1 .. Len(Body(r)), SubSeq(Body(r), 1, n) = NoBody
      PROVE  FALSE
  <2>1. SubSeq(Body(r), 1, n)[1] = LBrace
    BY <1>1, <1>3, Zenon
  <2> QED
    BY <1>2, <1>4, <2>1, Zenon
<1>5. SubSeq(Body(r), 1, 1) = <<LBrace>>
  BY <1>1, <1>3, Zenon
<1> QED
  BY <1>3, <1>4, <1>5, Zenon

LEMMA UnwrittenTexts ==
  ASSUME NEW text \in Unwritten
  PROVE  \/ \E r \in Reports : \E n \in 0 .. Len(Body(r)) : Whence(text, r, n)
         \/ text = <<"garbage">>
BY Zenon DEF Unwritten, Freed, Whence

LEMMA Joined ==
  ASSUME NEW t \in Seq(Symbols), NEW m \in 0 .. Len(t), NEW n \in m .. Len(t)
  PROVE  SubSeq(t, 1, m) \o SubSeq(t, m + 1, n) = SubSeq(t, 1, n)
BY SMT

LEMMA ParseInit == OldInit => ParseInv
<1> SUFFICES ASSUME OldInit PROVE ParseInv
  OBVIOUS
<1>1. /\ report \in Reports /\ come = 0 /\ parse = Start(sensor)
      /\ sensor = [s \in Sensors |-> <<>>]
  BY DEF OldInit, CBWInit
<1>2. pc = "idle"
  BY DEF OldInit, SocketsInit
<1>3. Len(Body(report)) \in Nat
  BY <1>1, ReportOK
<1>4. Fits(sensor)
  <2>1. <<>> \in Seq(Symbols) /\ Len(<<>>) < Len10
    BY MicroJSONAssumption
  <2> QED
    BY <1>1, <2>1 DEF Fits
<1>5. IsParse(parse)
  BY <1>1, BodyInit, Zenon
<1> QED
  BY <1>1, <1>2, <1>3, <1>4, <1>5 DEF ParseInv, Parsing

(* A parse begins. *)
LEMMA ParseBegins ==
  ASSUME json_read_object(memory'),
         \/ \E r \in Reports : \E n \in 0 .. Len(Body(r)) :
              Whence(memory', r, n) /\ (come' = 0 \/ (come' = n /\ r = report'))
         \/ memory' = <<"garbage">> /\ come' = 0
  PROVE  IsParse(parse') /\ (OnTrack' \/ OffTrack')
<1>1. parse' = Start(sensor) /\ cp' = 0
  BY DEF json_read_object
<1>2. IsParse(parse') /\ \A v, w : InBody(parse', v, w, 0)
  BY <1>1, BodyInit, Zenon
<1>3. InOpening(parse', 0)
  BY <1>1, BodyInit, Zenon
<1>4. CASE memory' = <<"garbage">> /\ come' = 0
  BY <1>1, <1>2, <1>3, <1>4 DEF OffTrack
<1>5. ASSUME NEW r \in Reports, NEW n \in 0 .. Len(Body(r)),
             Whence(memory', r, n), come' = 0 \/ (come' = n /\ r = report')
      PROVE  OnTrack'
  <2>1. 0 \in 0 .. n
    BY ReportOK
  <2> QED
    BY <1>1, <1>2, <1>5, <2>1, Zenon DEF OnTrack, AsFarAs
<1> QED
  BY <1>2, <1>4, <1>5

(* One pass of the parser's loop. *)
LEMMA ParseGoesOn ==
  ASSUME ParseInv, CBWSymbol
  PROVE  IsParse(parse') /\ (OnTrack' \/ OffTrack')
<1>1. /\ pc \in Parsing /\ parse.state # "end" /\ cp < Len(memory)
      /\ parse' = Symbol(parse, memory[cp + 1]) /\ cp' = cp + 1
      /\ report' = report /\ come' = come /\ memory' = memory
  BY DEF CBWSymbol
<1>2. IsParse(parse)
  BY DEF ParseInv
<1>3. ASSUME NEW r \in Reports, NEW n \in 0 .. Len(Body(r)),
             Whence(memory, r, n), cp \in 0 .. n,
             \/ InBody(parse, r[One], r[Two], cp)
             \/ Refused(parse) /\ \E s \in Sensors : Len(r[s]) > Len10
      PROVE  /\ IsParse(parse') /\ cp' \in 0 .. n
             /\ \/ InBody(parse', r[One], r[Two], cp')
                \/ Refused(parse') /\ \E s \in Sensors : Len(r[s]) > Len10
  <2> DEFINE t == Body(r)
             v == r[One]
             w == r[Two]
  <2>1. /\ v \in Seq(Characters) /\ w \in Seq(Characters) /\ LaidOut(t, v, w)
        /\ t \in Seq(Symbols) /\ Len(t) \in Nat
    BY ReportOK
  <2>2. /\ memory = SubSeq(t, 1, n) /\ n \in 0 .. Len(t) /\ cp \in 0 .. n
        /\ \/ InBody(parse, v, w, cp)
           \/ Refused(parse) /\ \E s \in Sensors : Len(r[s]) > Len10
    BY <1>3, Zenon DEF Whence
  <2>3. (Len(v) > Len10 \/ Len(w) > Len10) => \E s \in Sensors : Len(r[s]) > Len10
    <3>1. One \in Sensors /\ Two \in Sensors
      BY DEF One, Two, Sensors
    <3> QED
      BY <3>1, Zenon
  <2> HIDE DEF t, v, w
  <2>4. /\ Len(memory) = n /\ cp \in 0 .. n - 1
        /\ memory[cp + 1] = t[cp + 1] /\ t[cp + 1] \in Symbols
        /\ cp \in 0 .. Len(t) - 1
    <3>1. Len(memory) = n /\ \A i \in 1 .. n : memory[i] = t[i]
      BY <2>1, <2>2, PartOf, Zenon
    <3>2. cp \in 0 .. n - 1 /\ cp \in 0 .. Len(t) - 1 /\ cp + 1 \in 1 .. n
      BY <1>1, <2>1, <2>2, <3>1
    <3> QED
      BY <2>1, <3>1, <3>2
  <2>5. InBody(parse, v, w, cp)
    BY <1>1, <2>2, Zenon DEF Refused
  <2>6. IsParse(parse')
    BY <1>1, <1>2, <2>4, SymbolKeeps
  <2>7. \/ InBody(parse', v, w, cp')
        \/ Refused(parse') /\ (Len(v) > Len10 \/ Len(w) > Len10)
    BY <1>1, <1>2, <2>1, <2>4, <2>5, BodyStep, Zenon
  <2>8. cp' \in 0 .. n
    BY <1>1, <2>4
  <2> QED
    BY <2>3, <2>6, <2>7, <2>8, Zenon DEF v, w
<1>4. ASSUME OnTrack PROVE IsParse(parse') /\ OnTrack'
  <2>0. PICK r \in Reports : AsFarAs(r)
    BY <1>4, Zenon DEF OnTrack
  <2>1. PICK n \in 0 .. Len(Body(r)) :
          /\ Whence(memory, r, n)
          /\ come = 0 \/ (come = n /\ r = report)
          /\ cp \in 0 .. n
          /\ \/ InBody(parse, r[One], r[Two], cp)
             \/ Refused(parse) /\ \E s \in Sensors : Len(r[s]) > Len10
    BY <2>0, Zenon DEF AsFarAs
  <2>2. /\ IsParse(parse') /\ cp' \in 0 .. n
        /\ \/ InBody(parse', r[One], r[Two], cp')
           \/ Refused(parse') /\ \E s \in Sensors : Len(r[s]) > Len10
    BY <1>3, <2>1, Zenon
  <2>3. Whence(memory', r, n) /\ (come' = 0 \/ (come' = n /\ r = report'))
    BY <1>1, <2>1, Zenon
  <2> QED
    BY <2>1, <2>2, <2>3, Zenon DEF OnTrack, AsFarAs
<1>5. ASSUME OffTrack PROVE IsParse(parse') /\ OffTrack'
  <2>1. /\ memory = <<"garbage">> /\ come = 0 /\ cp \in 0 .. 1
        /\ cp = 0 => InOpening(parse, 0)
    BY <1>5 DEF OffTrack
  <2>2. Len(memory) = 1 /\ memory[1] = "garbage"
    BY <2>1
  <2>3. cp = 0 /\ cp' = 1
    BY <1>1, <2>1, <2>2
  <2>4. parse.state = "init"
    <3>1. OpeningStates[0 + 1] = "init"
      BY DEF OpeningStates
    <3> QED
      BY <2>1, <2>3, <3>1, Zenon DEF InOpening
  <2>5. parse' = Fails(parse, "OBSTART")
    BY <1>1, <2>2, <2>3, <2>4 DEF Symbol, init, Space, LBrace
  <2>6. Refused(parse')
    BY <1>2, <2>5 DEF IsParse, Parses, Fails, Refused
  <2>7. IsParse(parse')
    BY <1>2, <2>5, Going DEF Codes
  <2> QED
    BY <1>1, <2>1, <2>3, <2>6, <2>7 DEF OffTrack
<1> QED
  BY <1>1, <1>4, <1>5 DEF ParseInv

LEMMA ParseStep == ParseInv /\ [OldNext]_oldVars => ParseInv'
<1> SUFFICES ASSUME ParseInv, [OldNext]_oldVars PROVE ParseInv'
  OBVIOUS
<1>1. CASE UNCHANGED <<pc, cbwVars>>
  BY <1>1, Zenon DEF cbwVars, parseVars, ParseInv, OnTrack, AsFarAs, OffTrack
<1>2. CASE UNCHANGED cbwVars /\ pc \notin {"CPerform"} \cup Parsing
                             /\ pc' \notin {"CPerform"} \cup Parsing
  BY <1>2, Zenon DEF cbwVars, parseVars, ParseInv
<1>3. CASE VatttelNext /\ UNCHANGED cbwVars
  <2>1. pc \notin {"CPerform"} \cup Parsing /\ pc' \notin {"CPerform"} \cup Parsing
    BY <1>3, SMT DEF VatttelNext, GetStrutTemp, VatttelRefused, VatttelConnected,
                     VatttelRead, VatttelFails, Begin, Returns, Parsing
  <2> QED
    BY <1>2, <1>3, <2>1, Zenon
<1>4. CASE NGNext /\ UNCHANGED cbwVars
  <2>1. pc \notin {"CPerform"} \cup Parsing /\ pc' \notin {"CPerform"} \cup Parsing
    BY <1>4, SMT DEF NGNext, ng_send, NGRefused, NGConnected, NGSend, NGRecv,
                     Begin, Returns, Parsing
  <2> QED
    BY <1>2, <1>4, <2>1, Zenon
<1>5. /\ report \in Reports /\ come \in 0 .. Len(Body(report))
      /\ IsParse(parse) /\ Fits(sensor)
      /\ Body(report) \in Seq(Symbols) /\ Len(Body(report)) \in Nat
  BY ReportOK DEF ParseInv
<1>6. CASE GetStrutTempCBW
  <2>1. /\ pc' = "CPerform" /\ report' \in Reports /\ come' = 0 /\ memory' = NoBody
        /\ UNCHANGED <<parse, sensor>>
    BY <1>6, Zenon DEF GetStrutTempCBW, Begin, parseVars
  <2>2. come' \in 0 .. Len(Body(report'))
    BY <2>1, ReportOK
  <2> QED
    BY <1>5, <2>1, <2>2, SMT DEF ParseInv, Parsing
<1>7. CASE CBWChunk
  <2>1. PICK n \in come + 1 .. Len(Body(report)) :
          come' = n /\ memory' = Written \o SubSeq(Body(report), come + 1, n)
    BY <1>7, Zenon DEF CBWChunk, WriteMemoryCallback
  <2>2. /\ pc = "CPerform" /\ pc' = "CPerform" /\ UNCHANGED <<report, parse, sensor>>
    BY <1>7, Zenon DEF CBWChunk, parseVars
  <2>3. memory' = SubSeq(Body(report), 1, n)
    <3>1. Written = SubSeq(Body(report), 1, come)
      <4>1. IF come = 0 THEN memory = NoBody
                        ELSE memory = SubSeq(Body(report), 1, come)
        BY <2>2 DEF ParseInv
      <4>2. CASE come = 0
        BY <1>5, <4>1, <4>2, Beginnings, Zenon DEF Written
      <4>3. CASE come # 0
        <5>1. come \in 1 .. Len(Body(report))
          BY <1>5, <4>3
        <5> QED
          BY <1>5, <4>1, <4>3, <5>1, Beginnings, Zenon DEF Written
      <4> QED
        BY <4>2, <4>3
    <3>2. n \in come .. Len(Body(report))
      BY <1>5, <2>1
    <3> QED
      BY <1>5, <2>1, <3>1, <3>2, Joined, Zenon
  <2>4. come' \in 0 .. Len(Body(report)) /\ come' # 0
    BY <1>5, <2>1
  <2>5. /\ memory' = SubSeq(Body(report'), 1, come') /\ report' \in Reports
        /\ come' \in 0 .. Len(Body(report'))
    BY <1>5, <2>1, <2>2, <2>3, <2>4, Zenon
  <2>6. IsParse(parse') /\ Fits(sensor')
    BY <1>5, <2>2, Zenon
  <2>7. pc' \notin Parsing
    BY <2>2 DEF Parsing
  <2> QED
    BY <2>2, <2>4, <2>5, <2>6, <2>7, Zenon DEF ParseInv
<1>8. CASE CBWPerformed
  <2>1. /\ pc = "CPerform" /\ pc' = "CParse" /\ UNCHANGED <<report, come, sensor>>
        /\ memory' \in IF memory = NoBody THEN Unwritten ELSE {memory}
        /\ json_read_object(memory')
    BY <1>8, Zenon DEF CBWPerformed, json_read_object
  <2>2. IF come = 0 THEN memory = NoBody
                    ELSE memory = SubSeq(Body(report), 1, come)
    BY <2>1 DEF ParseInv
  <2>3. \/ \E r \in Reports : \E n \in 0 .. Len(Body(r)) :
             Whence(memory', r, n) /\ (come' = 0 \/ (come' = n /\ r = report'))
        \/ memory' = <<"garbage">> /\ come' = 0
    <3>1. CASE come = 0
      BY <1>5, <2>1, <2>2, <3>1, UnwrittenTexts, Zenon
    <3>2. CASE come # 0
      <4>1. come \in 1 .. Len(Body(report))
        BY <1>5, <3>2
      <4>2. memory' = SubSeq(Body(report), 1, come)
        BY <1>5, <2>1, <2>2, <3>2, <4>1, Beginnings, Zenon
      <4>3. Whence(memory', report, come)
        BY <1>5, <4>2, Zenon DEF Whence
      <4> QED
        BY <1>5, <2>1, <4>3, Zenon
    <3> QED
      BY <3>1, <3>2
  <2>4. IsParse(parse') /\ (OnTrack' \/ OffTrack')
    BY <1>5, <2>1, <2>3, ParseBegins, Zenon
  <2> QED
    BY <1>5, <2>1, <2>4, SMT DEF ParseInv, Parsing
<1>9. CASE CBWNoHandle
  <2>1. /\ pc' = "CParseUnasked" /\ report' \in Reports /\ UNCHANGED <<come, sensor>>
        /\ memory' \in Unwritten /\ json_read_object(memory') /\ pc = "idle"
    BY <1>9, Zenon DEF CBWNoHandle, json_read_object, Begin
  <2>2. come' = 0
    BY <2>1 DEF ParseInv, Parsing
  <2>3. \/ \E r \in Reports : \E n \in 0 .. Len(Body(r)) :
             Whence(memory', r, n) /\ (come' = 0 \/ (come' = n /\ r = report'))
        \/ memory' = <<"garbage">> /\ come' = 0
    BY <2>1, <2>2, UnwrittenTexts, Zenon
  <2>4. IsParse(parse') /\ (OnTrack' \/ OffTrack')
    BY <2>1, <2>3, ParseBegins, Zenon
  <2>5. 0 \in 0 .. Len(Body(report'))
    BY <2>1, ReportOK
  <2> QED
    BY <1>5, <2>1, <2>2, <2>4, <2>5, SMT DEF ParseInv, Parsing
<1>10. CASE CBWSymbol
  <2>1. pc' = pc /\ pc \in Parsing /\ UNCHANGED <<report, come, memory, sensor>>
    BY <1>10 DEF CBWSymbol
  <2>2. IsParse(parse') /\ (OnTrack' \/ OffTrack')
    BY <1>10, ParseGoesOn
  <2> QED
    BY <1>5, <2>1, <2>2, SMT DEF ParseInv, Parsing
<1>11. CASE CBWReturns
  <2>1. /\ pc' = "idle" /\ report' = report /\ come' = 0
        /\ sensor' = AtEnd(parse).sensor /\ parse' = Start(sensor')
    BY <1>11, Zenon DEF CBWReturns, Returns
  <2>2. Fits(sensor')
    BY <1>5, <2>1, AtEndKeeps, Zenon DEF IsParse
  <2>3. IsParse(parse')
    BY <2>1, BodyInit, Zenon
  <2> QED
    BY <1>5, <2>1, <2>2, <2>3, SMT DEF ParseInv, Parsing
<1> QED
  BY <1>1, <1>3, <1>4, <1>6, <1>7, <1>8, <1>9, <1>10, <1>11, Zenon
     DEF OldNext, CBWNext, oldVars

-----------------------------------------------------------------------------
(* The variables' types, along with what they rest on. *)
TypesInv ==
  /\ IInv /\ ParseInv
  /\ output \in {"", "reply", "mixed", "request"} /\ errmsg \in {"unset", "error"}

LEMMA TypesOK == TypesInv => OldTypeOK
<1> SUFFICES ASSUME TypesInv PROVE OldTypeOK
  OBVIOUS
<1>1. pc \in Parsing => cp \in 0 .. Len(memory)
  <2> SUFFICES ASSUME pc \in Parsing PROVE cp \in 0 .. Len(memory)
    OBVIOUS
  <2>1. CASE OnTrack
    <3>0. PICK r \in Reports : AsFarAs(r)
      BY <2>1, Zenon DEF OnTrack
    <3>1. PICK n \in 0 .. Len(Body(r)) : Whence(memory, r, n) /\ cp \in 0 .. n
      BY <3>0, Zenon DEF AsFarAs
    <3>2. memory = SubSeq(Body(r), 1, n)
      BY <3>1 DEF Whence
    <3>3. Len(SubSeq(Body(r), 1, n)) = n
      BY PartOf, ReportOK, Zenon
    <3> QED
      BY <3>1, <3>2, <3>3, Zenon
  <2>2. CASE OffTrack
    <3>1. memory = <<"garbage">> /\ cp \in 0 .. 1
      BY <2>2 DEF OffTrack
    <3> QED
      BY <3>1
  <2> QED
    BY <2>1, <2>2 DEF TypesInv, ParseInv
<1>2. fds \in 0 .. MaxFds /\ lost \in 0 .. MaxFds
  <2>1. Held \in {0, 1}
    BY DEF Held
  <2>2. fds \in Nat /\ lost \in Nat /\ fds <= MaxFds /\ fds = lost + Held
    BY DEF TypesInv, IInv, OldSocketsAccounted
  <2> QED
    BY <2>1, <2>2, SocketsAssumption
<1>3. \A s \in Sensors : Len(sensor[s]) < Len10
  BY DEF TypesInv, ParseInv, Fits
<1> QED
  BY <1>1, <1>2, <1>3, Zenon DEF TypesInv, IInv, PCs, ParseInv, OldTypeOK

LEMMA TypesInit == OldInit => TypesInv
<1> SUFFICES ASSUME OldInit PROVE TypesInv
  OBVIOUS
<1>1. output = "" /\ errmsg = "unset"
  BY Zenon DEF OldInit, NGInit, VatttelInit
<1> QED
  BY <1>1, InvInit, ParseInit, Zenon DEF TypesInv

LEMMA TypesStep == TypesInv /\ [OldNext]_oldVars => TypesInv'
<1> SUFFICES ASSUME TypesInv, [OldNext]_oldVars PROVE TypesInv'
  OBVIOUS
<1>1. IInv' /\ ParseInv'
  BY InvStep, ParseStep DEF TypesInv
<1>2. errmsg' \in {"unset", "error"}
  BY Zenon DEF OldNext, VatttelNext, GetStrutTemp, VatttelRefused, VatttelConnected,
     VatttelRead, VatttelFails, TypesInv, oldVars
<1>3. output' \in {"", "reply", "mixed", "request"}
  BY Zenon DEF OldNext, NGNext, ng_send, NGRefused, NGConnected, NGSend, NGRecv,
     ClearOutput, Text, TypesInv, oldVars, ngVars
<1> QED
  BY <1>1, <1>2, <1>3 DEF TypesInv

(* The variables keep their types, whatever is connected, lost, sent or cut
   off: no more descriptors are open or lost than the process has, the parser
   stays within the text (mjson.c:259), and the text of a sensor ends within
   its ten characters (readcbw.c:21, mjson.c:581). *)
THEOREM TypesAreKept == OldSpec => []OldTypeOK
BY TypesInit, TypesStep, TypesOK, PTL DEF OldSpec

(* What GetStrutTempCBW has returned. *)
ResultInv == ParseInv /\ WholeBodyIsRead /\ TakenFromThisBody

LEMMA OtherResults ==
  ASSUME result'.by # "cbw" PROVE WholeBodyIsRead' /\ TakenFromThisBody'
BY Zenon DEF WholeBodyIsRead, TakenFromThisBody

(* The end of a parse, of the body or of something else. *)
LEMMA ParseEnds ==
  ASSUME ParseInv, CBWReturns
  PROVE  WholeBodyIsRead' /\ TakenFromThisBody'
<1> DEFINE t == Body(report)
           v == report[One]
           w == report[Two]
           p == AtEnd(parse)
           short == \A s \in Sensors : Len(report[s]) <= Len10
<1>1. /\ pc \in Parsing /\ (parse.state = "end" \/ cp = Len(memory))
      /\ result' = CBWResult(p)
  BY Zenon DEF CBWReturns, Returns
<1>2. IsParse(parse) /\ report \in Reports /\ (OnTrack \/ OffTrack)
  BY <1>1, Zenon DEF ParseInv
<1>3. /\ v \in Seq(Characters) /\ w \in Seq(Characters) /\ t \in Seq(Symbols)
      /\ Len(t) \in Nat /\ Len(t) >= 22 /\ Len(t) = 22 + Len(v) + Len(w)
  BY <1>2, ReportOK, Zenon
<1>4. Sensors = {One, Two}
  BY DEF Sensors, One, Two
<1>5. IsParse(p) /\ p.sensor \in [Sensors -> Seq(Symbols)]
  BY <1>2, AtEndKeeps DEF IsParse, Fits
<1>6. ASSUME come # 0 /\ p.status = "parsed" =>
               /\ p.sensor[One] \in {<<>>, Stored(v)}
               /\ p.sensor[Two] \in {<<>>, Stored(w)},
             come = Len(t) =>
               IF short THEN /\ p.status = "parsed"
                             /\ p.sensor[One] = Stored(v) /\ p.sensor[Two] = Stored(w)
                        ELSE p.status # "parsed"
      PROVE  WholeBodyIsRead' /\ TakenFromThisBody'
  <2>1. /\ result'.by = "cbw" /\ result'.shown = report
        /\ result'.whole <=> come = Len(t)
        /\ result'.begun => come # 0
        /\ result'.status = p.status
        /\ result'.temps = IF p.status = "parsed" THEN p.sensor ELSE NOTEMP
    <3>1. ~(0 > 0)
      OBVIOUS
    <3> QED
      BY <1>1, <3>1 DEF CBWResult
  <2>2. TakenFromThisBody'
    BY <1>4, <1>6, <2>1, Zenon DEF TakenFromThisBody
  <2>3. come = Len(t) /\ short => p.sensor = AsStored(report)
    BY <1>4, <1>5, <1>6 DEF AsStored
  <2>4. result'.twice = TwiceMean(result'.temps)
    <3> DEFINE temps == IF p.status = "parsed" THEN p.sensor ELSE NOTEMP
               twice == TwiceMean(temps)
    <3> HIDE DEF temps, twice
    <3>1. result'.twice = twice /\ result'.temps = temps
      BY <1>1 DEF CBWResult, temps, twice
    <3> QED
      BY <3>1, Zenon DEF twice
  <2>5. WholeBodyIsRead'
    BY <1>6, <2>1, <2>3, <2>4, Zenon DEF WholeBodyIsRead
  <2> QED
    BY <2>2, <2>5
<1> HIDE DEF t, v, w, p
<1>7. v \in Seq(Symbols) /\ w \in Seq(Symbols) /\ Len(v) \in Nat /\ Len(w) \in Nat
  <2>1. v \in Seq(Symbols) /\ w \in Seq(Symbols)
    BY <1>3 DEF Symbols
  <2> QED
    BY <2>1
<1>8. ASSUME OnTrack PROVE WholeBodyIsRead' /\ TakenFromThisBody'
  <2>0. PICK r \in Reports : AsFarAs(r)
    BY <1>8, Zenon DEF OnTrack
  <2>1. PICK n \in 0 .. Len(Body(r)) :
          /\ Whence(memory, r, n)
          /\ come = 0 \/ (come = n /\ r = report)
          /\ cp \in 0 .. n
          /\ \/ InBody(parse, r[One], r[Two], cp)
             \/ Refused(parse) /\ \E s \in Sensors : Len(r[s]) > Len10
    BY <2>0, Zenon DEF AsFarAs
  <2>2. CASE come = 0
    <3>1. come # Len(t)
      BY <1>3, <2>2
    <3> QED
      BY <1>6, <2>2, <3>1, Zenon
  <2>3. ASSUME come # 0
        PROVE  /\ n = come /\ n \in 0 .. Len(t) /\ memory = SubSeq(t, 1, n)
               /\ \/ InBody(parse, v, w, cp)
                  \/ Refused(parse) /\ ~short
    <3>1. (\E s \in Sensors : Len(report[s]) > Len10) => ~short
      BY <1>4, <1>7, MicroJSONAssumption DEF v, w
    <3> QED
      BY <2>1, <2>3, <3>1, Zenon DEF Whence, t, v, w
  <2>4. CASE come # 0 /\ Refused(parse) /\ ~short
    <3>1. p = parse
      BY <2>4 DEF p, AtEnd, Refused
    <3> QED
      BY <1>6, <2>4, <3>1, Zenon DEF Refused
  <2>5. CASE come # 0 /\ InBody(parse, v, w, cp)
    <3>1. cp \in Nat
      BY <2>1
    <3>2. /\ p.status = "parsed" => /\ p.sensor[One] \in {<<>>, Stored(v)}
                                    /\ p.sensor[Two] \in {<<>>, Stored(w)}
          /\ cp = 22 + Len(v) + Len(w) =>
               /\ p.status = "parsed" /\ Len(v) <= Len10 /\ Len(w) <= Len10
               /\ p.sensor[One] = Stored(v) /\ p.sensor[Two] = Stored(w)
      BY <1>2, <1>3, <2>5, <3>1, BodyEnds DEF p
    <3>3. ASSUME come = Len(t) PROVE cp = 22 + Len(v) + Len(w)
      <4>1. n = Len(t) /\ Len(memory) = Len(t)
        <5>1. Len(SubSeq(t, 1, n)) = n
          BY <1>3, <2>3, <2>5, PartOf, Zenon
        <5> QED
          BY <2>3, <2>5, <3>3, <5>1, Zenon
      <4>2. CASE parse.state = "end"
        BY <1>7, <2>5, <3>1, <4>2, InBodyAtEnd, Zenon
      <4>3. CASE cp = Len(memory)
        BY <1>3, <4>1, <4>3, Zenon
      <4> QED
        BY <1>1, <4>2, <4>3
    <3>4. Len(v) <= Len10 /\ Len(w) <= Len10 => short
      BY <1>4 DEF v, w
    <3> QED
      BY <1>6, <3>2, <3>3, <3>4, Zenon
  <2> QED
    BY <2>2, <2>3, <2>4, <2>5
<1>9. ASSUME OffTrack PROVE WholeBodyIsRead' /\ TakenFromThisBody'
  <2>1. come # Len(t)
    BY <1>3, <1>9 DEF OffTrack
  <2>2. p.status # "parsed"
    <3>1. CASE cp = 0
      <4>1. InOpening(parse, 0)
        BY <1>9, <3>1, Zenon DEF OffTrack
      <4>2. parse.state = "init"
        <5>1. OpeningStates[0 + 1] = "init"
          BY DEF OpeningStates
        <5> QED
          BY <4>1, <5>1, Zenon DEF InOpening
      <4>3. p = Fails(parse, "EMPTY")
        BY <4>2 DEF p, AtEnd
      <4> QED
        BY <1>2, <4>3 DEF Fails, IsParse, Parses
    <3>2. CASE cp # 0
      <4>1. Refused(parse)
        BY <1>9, <3>2, Zenon DEF OffTrack
      <4> QED
        BY <4>1 DEF p, AtEnd, Refused
    <3> QED
      BY <3>1, <3>2
  <2> QED
    BY <1>6, <2>1, <2>2, Zenon
<1> QED
  BY <1>2, <1>8, <1>9

LEMMA ResultInit == OldInit => ResultInv
<1> SUFFICES ASSUME OldInit PROVE ResultInv
  OBVIOUS
<1>1. result.by = "none"
  BY DEF OldInit, SocketsInit, NoResult
<1> QED
  BY <1>1, ParseInit, SMT DEF ResultInv, WholeBodyIsRead, TakenFromThisBody

LEMMA ResultStep == ResultInv /\ [OldNext]_oldVars => ResultInv'
<1> SUFFICES ASSUME ResultInv, [OldNext]_oldVars PROVE ResultInv'
  OBVIOUS
<1>1. ParseInv'
  BY ParseStep DEF ResultInv
<1>2. CASE UNCHANGED result
  BY <1>1, <1>2, Zenon DEF ResultInv, WholeBodyIsRead, TakenFromThisBody
<1>3. CASE result'.by # "cbw"
  BY <1>1, <1>3, OtherResults, Zenon DEF ResultInv
<1>4. CASE CBWReturns
  BY <1>1, <1>4, ParseEnds, Zenon DEF ResultInv
<1>5. ASSUME NEW step, Begin(step) PROVE result'.by # "cbw"
  BY <1>5 DEF Begin, NoResult
<1>6. CASE VatttelNext
  <2>1. ASSUME NEW w, NEW n, NEW value, Returns(VatttelResult(w, n, value))
        PROVE  result'.by # "cbw"
    BY <2>1, SMT DEF Returns, VatttelResult
  <2> QED
    BY <1>2, <1>3, <1>5, <1>6, <2>1, Zenon
       DEF VatttelNext, GetStrutTemp, VatttelRefused, VatttelConnected, VatttelRead,
           VatttelFails
<1>7. CASE NGNext
  <2>1. ASSUME NEW r, NEW reply, Returns(NGResult(r, reply))
        PROVE  result'.by # "cbw"
    BY <2>1, SMT DEF Returns, NGResult
  <2> QED
    BY <1>2, <1>3, <1>5, <1>7, <2>1, Zenon
       DEF NGNext, ng_send, NGRefused, NGConnected, NGSend, NGRecv
<1>8. CASE CBWNext
  BY <1>2, <1>3, <1>4, <1>5, <1>8, Zenon
     DEF CBWNext, GetStrutTempCBW, CBWChunk, CBWPerformed, CBWNoHandle, CBWSymbol,
         json_read_object
<1> QED
  BY <1>2, <1>6, <1>7, <1>8 DEF OldNext, oldVars

(* However libcurl cuts the body into chunks (readcbw.c:57), and whatever was
   asked of the instruments before: a body that has come whole gives both
   temperatures the device showed, up to the room in the targets, and gives
   none when one of them does not fit (mjson.c:400). *)
THEOREM BodiesAreRead == OldSpec => []WholeBodyIsRead
<1>1. ResultInv => WholeBodyIsRead
  BY DEF ResultInv
<1> QED
  BY ResultInit, ResultStep, <1>1, PTL DEF OldSpec

(* Wherever the body breaks off after it has begun to come, and though the
   parser takes a text that ends early for a good one (mjson.c:259,
   readcbw.c:104), a temperature is what the whole body would have given or
   nothing: never a part of that, nor what the targets or the memory hold of an
   earlier call. *)
THEOREM NothingElseIsTaken == OldSpec => []TakenFromThisBody
<1>1. ResultInv => TakenFromThisBody
  BY DEF ResultInv
<1> QED
  BY ResultInit, ResultStep, <1>1, PTL DEF OldSpec
=============================================================================
