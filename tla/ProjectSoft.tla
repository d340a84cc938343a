---------------------------- MODULE ProjectSoft ----------------------------
(***************************************************************************)
(* projectsoft_el_strut (projectsoft.c): one call opens a TCP connection   *)
(* to the PLC, asks for azimuth and elevation, then for eight              *)
(* temperatures, each with one write and one read, closes it and picks the *)
(* elevation and two temperatures out of what it has read.                 *)
(*                                                                         *)
(* TCP is a stream: a read returns some of the bytes that are there, and   *)
(* what it leaves is there for the next read.  The text is modelled as far *)
(* as that matters: a number is two symbols, since a read may end inside   *)
(* it, and its name stands for its value.                                  *)
(***************************************************************************)
EXTENDS Naturals, Sequences, FiniteSets

CONSTANTS
  MaxFds,        \* descriptors the process may have open
  PS_MAX,        \* what azel and temps hold
  MaxRefusal     \* words in the longest refusal of the PLC

ASSUME ProjectSoftAssumption == MaxFds \in Nat /\ PS_MAX \in Nat

(* Taken on trust of the PLC, for the code counts the words only after it has
   stored them: fazel has room for two numbers, and a third would be written
   past its end. *)
ASSUME RefusalsAreShort == MaxRefusal \in {1, 2}

VARIABLES
  pc,            \* the call's next blocking step, or "idle"
  fds,           \* sockets the driver has open
  refused,       \* connects that failed, ever: for the properties only
  azel, temps,   \* the two buffers
  fazel, ftemps, \* the numbers found in them
  ret,           \* what the last call returned, with *el and *tstrut
  asked,         \* requests the PLC has not answered
  wire,          \* symbols on their way to the driver
  broken         \* the PLC has closed, or reset, the connection

plcVars == <<asked, wire, broken>>
bufVars == <<azel, temps, fazel, ftemps>>
psVars == <<pc, fds, refused, bufVars, ret, plcVars>>

-----------------------------------------------------------------------------
(* The text *)

SP == <<" ", 0>>
NL == <<"\n", 0>>
Garbled == "garbled"  \* a value that is no field of an answer
Zero == "zero"        \* what *el and *tstrut hold at first

Head1(x) == <<x, 1>>
Tail1(x) == <<x, 2>>

(* Names, one number after the other with a space between, then a newline. *)
Line(names) ==
  [i \in 1..(3 * Len(names)) |->
     LET x == names[(i + 2) \div 3]
     IN  CASE i % 3 = 1 -> Head1(x)
           [] i % 3 = 2 -> Tail1(x)
           [] i = 3 * Len(names) -> NL
           [] OTHER -> SP]

Refusal(words) == Line([i \in 1..words |-> Garbled])

(* What the PLC may say to a request: the answer, or that it will not.     *)
Answers(request) ==
  {Refusal(words) : words \in 1..MaxRefusal} \union
  {IF request = "TRAA"
   THEN Line(<<"el", "az">>)
   ELSE Line(<<"t0", "t1", "t2", "t3", "t4", "t5", "t6", "t7">>)}

(* Taken on trust as well: a buffer is never filled to its end, where strtok
   would find no terminator.  The longest text one read can take is an answer
   with the rest of another. *)
ASSUME BuffersHaveRoom ==
  \A a \in Answers("TRAA"), b \in Answers("GLTE") : Len(a) + Len(b) < PS_MAX

(* Where the tokens of strtok(s, " ") begin.  A newline does not end one.  *)
TokenStarts(s) ==
  {i \in DOMAIN s : s[i] # SP /\ (i = 1 \/ s[i - 1] = SP)}

(* atof from position i on: it skips a newline and takes one number. *)
atof(s, i) ==
  LET j == IF s[i] = NL THEN i + 1 ELSE i
  IN  IF /\ j + 1 \in DOMAIN s
         /\ s[j] = Head1(s[j][1]) /\ s[j + 1] = Tail1(s[j][1])
      THEN s[j][1] ELSE Garbled

(* The numbers of a buffer, one for each token. *)
Numbers(s) ==
  [k \in 1..Cardinality(TokenStarts(s)) |->
     atof(s, CHOOSE i \in TokenStarts(s) :
               Cardinality({j \in TokenStarts(s) : j <= i}) = k)]

-----------------------------------------------------------------------------
Error == [ok |-> FALSE, el |-> Zero, tstrut |-> <<Zero, Zero>>]

PSInit ==
  /\ pc = "idle"
  /\ fds = 0 /\ refused = 0
  /\ azel = <<>> /\ temps = <<>> /\ fazel = <<>> /\ ftemps = <<>>
  /\ ret = Error
  /\ asked = <<>> /\ wire = <<>> /\ broken = FALSE

(* *el, *tstrut and the locals start afresh; socket() may find no descriptor. *)
Call ==
  /\ pc = "idle"
  /\ ret' = Error
  /\ azel' = <<>> /\ temps' = <<>> /\ fazel' = <<>> /\ ftemps' = <<>>
  /\ \/ fds < MaxFds /\ fds' = fds + 1 /\ pc' = "Connect"
     \/ fds = MaxFds /\ UNCHANGED <<fds, pc>>
  /\ UNCHANGED <<refused, plcVars>>

(* connect() fails: the function returns and leaves its socket open. *)
ConnectRefused ==
  /\ pc = "Connect"
  /\ refused' = refused + 1
  /\ pc' = "idle"
  /\ UNCHANGED <<fds, bufVars, ret, plcVars>>

Connected ==
  /\ pc = "Connect"
  /\ asked' = <<"TRAA">> /\ wire' = <<>> /\ broken' = FALSE
  /\ pc' = "ReadAzEl"
  /\ UNCHANGED <<fds, refused, bufVars, ret>>

(* read() waits for at least one symbol and takes as many as it likes, up to
   the length of the buffer; on a broken connection it comes back with none.
   What it takes, what it leaves. *)
Readable ==
  {<<SubSeq(wire, 1, n), SubSeq(wire, n + 1, Len(wire))>> :
     n \in {k \in 1..Len(wire) : k <= PS_MAX}}
    \union {r \in {<< <<>>, <<>> >>} : broken /\ wire = <<>>}

(* The first read, and the second request. *)
ReadAzEl ==
  /\ pc = "ReadAzEl"
  /\ \E r \in Readable : azel' = r[1] /\ wire' = r[2]
  /\ asked' = IF broken THEN asked ELSE Append(asked, "GLTE")
  /\ pc' = "ReadTemps"
  /\ UNCHANGED <<fds, refused, temps, fazel, ftemps, ret, broken>>

(* Mutant of Enough: one number of elevation and azimuth will do. *)
OneIsEnough(azelNumbers) == Len(azelNumbers) >= 1

Enough(azelNumbers) == Len(azelNumbers) >= 2

(* The temperatures are not looked at without elevation and azimuth. *)
TempNumbers(azelNumbers, s) ==
  IF Enough(azelNumbers) THEN Numbers(s) ELSE <<>>

(* *tstrut is the mean of two temperatures. *)
Parse ==
  /\ fazel' = Numbers(azel)
  /\ ftemps' = TempNumbers(fazel', temps')
  /\ ret' = IF Enough(fazel') /\ Len(ftemps') >= 8
            THEN [ok |-> TRUE, el |-> fazel'[1],
                  tstrut |-> <<ftemps'[2], ftemps'[3]>>]
            ELSE Error

(* Mutant of CloseSocket: not closed when there was no answer. *)
CloseAfterAnswer == fds' = IF temps' = <<>> THEN fds ELSE fds - 1

CloseSocket == fds' = fds - 1

(* The second read, close() and the parsing; what is still on its way is
   lost with the connection. *)
ReadTemps ==
  /\ pc = "ReadTemps"
  /\ \E r \in Readable : temps' = r[1]
  /\ CloseSocket
  /\ Parse
  /\ asked' = <<>> /\ wire' = <<>> /\ broken' = FALSE
  /\ pc' = "idle"
  /\ UNCHANGED <<refused, azel>>

-----------------------------------------------------------------------------
(* The PLC *)

PLCAnswers ==
  /\ asked # <<>> /\ ~broken
  /\ \E answer \in Answers(Head(asked)) : wire' = wire \o answer
  /\ asked' = Tail(asked)
  /\ UNCHANGED <<pc, fds, refused, bufVars, ret, broken>>

(* It closes the connection, or a reset takes along what is on its way. *)
PLCCloses ==
  /\ pc \in {"ReadAzEl", "ReadTemps"} /\ ~broken
  /\ broken' = TRUE
  /\ asked' = <<>> /\ wire' \in {wire, <<>>}
  /\ UNCHANGED <<pc, fds, refused, bufVars, ret>>

-----------------------------------------------------------------------------
Driver == ConnectRefused \/ Connected \/ ReadAzEl \/ ReadTemps
PLC == PLCAnswers \/ PLCCloses

PSNext == Call \/ Driver \/ PLC

(* Nothing obliges the PLC to answer a request or to close, and the code sets
   no time limit: the call may have no end. *)
PSSpec == PSInit /\ [][PSNext]_psVars

-----------------------------------------------------------------------------
(* Properties *)

Fields == {"el", "az", "t0", "t1", "t2", "t3", "t4", "t5", "t6", "t7", Garbled}
Symbols == {SP, NL} \union {Head1(x) : x \in Fields} \union {Tail1(x) : x \in Fields}

(* Every variable stays in its set. *)
PSTypeOK ==
  /\ pc \in {"idle", "Connect", "ReadAzEl", "ReadTemps"}
  /\ fds \in 0..MaxFds /\ refused \in Nat
  /\ azel \in Seq(Symbols) /\ temps \in Seq(Symbols)
  /\ fazel \in Seq(Fields) /\ ftemps \in Seq(Fields)
  /\ ret \in {Error} \union
       [ok : {TRUE}, el : Fields, tstrut : Fields \X Fields]
  /\ asked \in Seq({"TRAA", "GLTE"}) /\ wire \in Seq(Symbols)
  /\ broken \in BOOLEAN

(* The call has read the beginning of an answer, not of a refusal, where it
   looks for the elevation. *)
GaveElevation == azel # <<>> /\ azel[1][1] # Garbled

(* The driver has exactly those sockets open whose connect failed, and that
   of the call under way: whatever the PLC does, no other way out of the
   function keeps its socket. *)
SocketsAccounted == fds = refused + (IF pc = "idle" THEN 0 ELSE 1)
=============================================================================
