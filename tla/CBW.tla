-------------------------------- MODULE CBW --------------------------------
(***************************************************************************)
(* GetStrutTempCBW (readcbw.c): the strut temperature from the Control By  *)
(* Web.  libcurl hands the body over in chunks, to a callback that puts    *)
(* them together; what curl_easy_perform says is only printed, and then    *)
(* what is in the memory, all, part or none of the body, is parsed.        *)
(***************************************************************************)
EXTENDS Sockets, MicroJSON

CONSTANTS
  Reports,  \* what the two sensors may show when the device is asked
  atof(_)   \* the number a text is, zero for an empty one

(* The symbols of a value: no quotation mark, which would end it. *)
Characters == STRING \ {Quote}

ASSUME CBWAssumption ==
  /\ \A r \in Reports : r \in [Sensors -> Seq(Characters)]
  /\ atof(<<>>) = 0

VARIABLES
  report,   \* what the device shows in the call under way
  come,     \* symbols of the body that have come
  memory,   \* chunk.memory as far as it has been written, or the text parsed
  parse,    \* the parse of this text
  cp,       \* symbols of it that have been looked at
  sensor    \* oneWireSensor1 and 2: they outlive the call

parseVars == <<parse, cp>>
cbwVars == <<report, come, memory, parseVars, sensor>>

NoBody == <<"unwritten">>
NOTEMP == [s \in Sensors |-> <<"NOTEMP">>]

(* The device's answer, an object with one attribute nobody asks for. *)
Attribute(name, value) == <<Quote, name, Quote, Colon>> \o value
Quoted(value) == <<Quote>> \o value \o <<Quote>>

Body(r) ==
  <<LBrace>> \o Attribute("other", <<"0">>)
  \o <<Comma>> \o Attribute("oneWireSensor1", Quoted(r["oneWireSensor1"]))
  \o <<Comma>> \o Attribute("oneWireSensor2", Quoted(r["oneWireSensor2"]))
  \o <<Space, RBrace>>

(* What malloc's memory may read as before anything is written to it: a text
   that is no object, or as much of a body as an earlier call has freed there,
   be it nothing. *)
Freed == UNION {{SubSeq(Body(r), 1, n) : n \in 0 .. Len(Body(r))} : r \in Reports}

Unwritten == {<<"garbage">>} \union Freed

Written == IF memory = NoBody THEN <<>> ELSE memory

CBWInit ==
  /\ report \in Reports /\ come = 0 /\ memory = NoBody
  /\ sensor = [s \in Sensors |-> <<>>]
  /\ parse = Start(sensor) /\ cp = 0

GetStrutTempCBW ==
  /\ Begin("CPerform")
  /\ \E r \in Reports : report' = r
  /\ come' = 0 /\ memory' = NoBody
  /\ Opened
  /\ UNCHANGED <<parseVars, sensor>>

(* Mutant of WriteMemoryCallback: size is not advanced. *)
Overwrites(contents) == memory' = contents

(* A chunk goes behind what there is. *)
WriteMemoryCallback(contents) == memory' = Written \o contents

(* The next chunk, of any length. *)
CBWChunk ==
  /\ pc = "CPerform"
  /\ \E n \in come + 1 .. Len(Body(report)) :
       /\ come' = n
       /\ WriteMemoryCallback(SubSeq(Body(report), come + 1, n))
  /\ UNCHANGED <<pc, sockVars, result, report, parseVars, sensor>>

(* curl_easy_perform is over, at any point: the body is complete, the
   connection has failed or ended early, or realloc has.  The text is parsed,
   whatever it is, from its beginning. *)
Parsing == {"CParse", "CParseUnasked"}

json_read_object(text) ==
  /\ memory' = text /\ parse' = Start(sensor) /\ cp' = 0
  /\ UNCHANGED <<sockVars, sensor>>

CBWPerformed ==
  /\ pc = "CPerform" /\ pc' = "CParse"
  /\ \E text \in IF memory = NoBody THEN Unwritten ELSE {memory} :
       json_read_object(text)
  /\ UNCHANGED <<result, report, come>>

(* No handle, or no descriptor for the connection. *)
CBWNoHandle ==
  /\ Begin("CParseUnasked")
  /\ \E r \in Reports : report' = r
  /\ \E text \in Unwritten : json_read_object(text)
  /\ UNCHANGED come

(* The loop of the parser: one symbol. *)
CBWSymbol ==
  /\ pc \in Parsing /\ parse.state # "end" /\ cp < Len(memory)
  /\ parse' = Symbol(parse, memory[cp + 1])
  /\ cp' = cp + 1
  /\ UNCHANGED <<pc, sockVars, result, report, come, memory, sensor>>

(* Twice the mean of two values. *)
TwiceMean(temps) ==
  atof(temps["oneWireSensor1"]) + atof(temps["oneWireSensor2"])

(* What the call returns is half of "twice". *)
CBWResult(p) ==
  [by |-> "cbw", shown |-> report,
   begun |-> come > 0, whole |-> come = Len(Body(report)),
   status |-> p.status,
   temps |-> IF p.status = "parsed" THEN p.sensor ELSE NOTEMP,
   twice |-> TwiceMean(IF p.status = "parsed" THEN p.sensor ELSE NOTEMP)]

(* The parse is over: the text is freed, and the call returns. *)
CBWReturns ==
  /\ pc \in Parsing
  /\ parse.state = "end" \/ cp = Len(memory)
  /\ LET p == AtEnd(parse)
     IN  sensor' = p.sensor /\ Returns(CBWResult(p))
  /\ come' = 0 /\ memory' = NoBody
  /\ parse' = Start(sensor') /\ cp' = 0
  /\ IF pc = "CParse" THEN Closed ELSE UNCHANGED sockVars
  /\ UNCHANGED report

CBWNext ==
  \/ GetStrutTempCBW \/ CBWChunk \/ CBWPerformed \/ CBWNoHandle
  \/ CBWSymbol \/ CBWReturns

-----------------------------------------------------------------------------
AsStored(r) == [s \in Sensors |-> Stored(r[s])]

(* However the body is cut into chunks, one that has come whole gives the mean
   of both temperatures the device showed, as far as the targets have room for
   them, and a value they have no room for gives none at all. *)
WholeBodyIsRead ==
  result.by = "cbw" /\ result.whole =>
    IF \A s \in Sensors : Len(result.shown[s]) <= Len10
      THEN /\ result.temps = AsStored(result.shown)
           /\ result.twice = TwiceMean(AsStored(result.shown))
      ELSE result.temps = NOTEMP

(* A body that has begun to come and breaks off gives of each temperature what
   the whole body would, or nothing: no part of that, and nothing of what an
   earlier call has left in the targets or in the memory. *)
TakenFromThisBody ==
  result.by = "cbw" /\ result.begun /\ result.status = "parsed" =>
    \A s \in Sensors :
      result.temps[s] \in {<<>>, Stored(result.shown[s])}

=============================================================================
