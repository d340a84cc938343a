------------------------------ MODULE Vatttel ------------------------------
(***************************************************************************)
(* query_vatttel (vatttel_com.c): one packet to the old telescope control  *)
(* system, one read of the packet that comes back, and one of its words    *)
(* out of it, a signed number of 32 bits with its highest byte first.      *)
(***************************************************************************)
EXTENDS Sockets

CONSTANT Words  \* what the telescope may report

(* 32 bits: above the lower three bytes there is one, with a sign. *)
ASSUME VatttelAssumption ==
  \A w \in Words : w \in Int /\ w \div 16777216 \in -128 .. 127

VARIABLE errmsg  \* the caller's buffer, which only failures write

STRUT_INDEX == 2
First == 8 + 4 * STRUT_INDEX  \* where the word begins

(* The packet the telescope sends; only the one word matters. *)
Byte(w, i) == (w \div <<16777216, 65536, 256, 1>>[i + 1]) % 256

Packet(w) ==
  [k \in 0..63 |-> IF k \in First .. First + 3 THEN Byte(w, k - First) ELSE 0]

(* recvBuff after a read of n bytes: '0' where nothing has come. *)
recvBuff(w, n) == [k \in 0..63 |-> IF k < n THEN Packet(w)[k] ELSE 48]

SignedByte(b) == IF b > 127 THEN b - 256 ELSE b

(* Mutant of read_value: a byte in the middle is taken with its sign. *)
SignInTheMiddle(pkt, index) ==
  LET b(i) == pkt[8 + index * 4 + i]
  IN  b(3) + b(2) * 256 + SignedByte(b(1)) * 65536 + SignedByte(b(0)) * 16777216

read_value(pkt, index) ==
  LET b(i) == pkt[8 + index * 4 + i]
  IN  b(3) + b(2) * 256 + b(1) * 65536 + SignedByte(b(0)) * 16777216

-----------------------------------------------------------------------------
VatttelInit == errmsg = "unset"

VatttelResult(w, n, v) ==
  [by |-> "vatttel", sent |-> w, value |-> v,
   got |-> IF n < 0 THEN "nothing" ELSE IF n < First + 4 THEN "part" ELSE "word"]

(* A value that has never been written. *)
Junk == 123456789

(* The call fails before there is a value; GetStrutTemp, and GetAlt, which
   differs from it in the command alone, return their own, unwritten,
   whatever query_vatttel says. *)
VatttelFails ==
  /\ errmsg' = "error"
  /\ Returns(VatttelResult(0, -1, Junk))

GetStrutTemp ==
  \/ Begin("VConnect") /\ Opened /\ UNCHANGED errmsg
  \/ pc = "idle" /\ NoneLeft /\ VatttelFails

(* connect fails: the socket stays open. *)
VatttelRefused == pc = "VConnect" /\ StaysOpen /\ VatttelFails

VatttelConnected ==
  /\ pc = "VConnect" /\ pc' = "VRead"
  /\ UNCHANGED <<sockVars, result, errmsg>>

(* One read, of as many bytes as there are, 0 when the telescope has closed,
   -1 for an error.  The word is taken out of the buffer in any case. *)
VatttelRead ==
  /\ pc = "VRead"
  /\ \E w \in Words, n \in -1 .. 64 :
       /\ errmsg' = IF n < 0 THEN "error" ELSE errmsg
       /\ Returns(VatttelResult(w, n, read_value(recvBuff(w, n), STRUT_INDEX)))
  /\ Closed

VatttelNext ==
  GetStrutTemp \/ VatttelRefused \/ VatttelConnected \/ VatttelRead

-----------------------------------------------------------------------------
(* Whatever is in the four bytes, and however many came after them, a word
   that has arrived is decoded to the number that was sent; and a call that
   got no bytes for want of a connection says so in errmsg, all its caller
   has to go by. *)
WordIsTrue ==
  result.by = "vatttel" =>
    /\ result.got = "word" => result.value = result.sent
    /\ result.got = "nothing" => errmsg = "error"
=============================================================================
