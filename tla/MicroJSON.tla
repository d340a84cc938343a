----------------------------- MODULE MicroJSON -----------------------------
(***************************************************************************)
(* json_read_object (mjson.c) for the table of attributes readcbw.c gives  *)
(* it: two strings, and everything else ignored.  The text is a sequence   *)
(* of symbols; names are symbols, and so are the characters of values.     *)
(*                                                                         *)
(* The parser goes from state to state, one symbol after the other.  No    *)
(* escapes, and no names or ignored values that are too long.              *)
(***************************************************************************)
EXTENDS Integers, Sequences

CONSTANT Len10  \* sizeof oneWireSensor1 and 2: 10

ASSUME MicroJSONAssumption == Len10 \in Nat \ {0}

Quote    == "quote"
Space    == "space"
Colon    == "colon"
Comma    == "comma"
LBrace   == "lbrace"
RBrace   == "rbrace"
LBracket == "lbracket"

Sensors == {"oneWireSensor1", "oneWireSensor2"}

(* A parse: the parser's state, the attribute and the value it has read,
   whether the value is quoted, and what the two targets hold. *)
Goto(p, state) == [p EXCEPT !.state = state]
Fails(p, code) == [p EXCEPT !.state = "end", !.status = code]

(* Mutant of Defaults: the targets keep what they hold. *)
NoDefaults(sensor) == sensor

(* Targets not given in the text are to come out empty. *)
Defaults(sensor) == [s \in Sensors |-> <<>>]

Start(sensor) ==
  [state |-> "init", status |-> "parsed", attr |-> "", value |-> <<>>,
   quoted |-> FALSE, sensor |-> Defaults(sensor)]

init(p, c) ==
  IF c = Space THEN p
  ELSE IF c = LBrace THEN Goto(p, "await_attr") ELSE Fails(p, "OBSTART")

(* A closing brace here does not end the object. *)
await_attr(p, c) ==
  IF c \in {Space, RBrace} THEN p
  ELSE IF c = Quote THEN [Goto(p, "in_attr") EXCEPT !.attr = ""]
  ELSE Fails(p, "ATTRSTART")

in_attr(p, c) ==
  IF c = Quote THEN [Goto(p, "await_value") EXCEPT !.value = <<>>]
               ELSE [p EXCEPT !.attr = c]

await_value(p, c) ==
  IF c \in {Space, Colon} THEN p
  ELSE IF c \in {LBracket, LBrace} THEN Fails(p, "NOARRAY")
  ELSE IF c = Quote THEN [Goto(p, "in_val_string") EXCEPT !.quoted = TRUE]
  ELSE [Goto(p, "in_val_token") EXCEPT !.quoted = FALSE, !.value = <<c>>]

(* One symbol more than the target has room for is let through. *)
in_val_string(p, c) ==
  IF c = Quote THEN Goto(p, "post_val")
  ELSE IF p.attr \in Sensors /\ Len(p.value) > Len10 - 1
       THEN Fails(p, "STRLONG")
  ELSE [p EXCEPT !.value = Append(@, c)]

Stored(value) == SubSeq(value, 1, IF Len(value) < Len10 THEN Len(value)
                                                        ELSE Len10 - 1)

(* The value goes where it belongs; what follows it is looked at. *)
post_element(p, c) ==
  IF c = Comma THEN Goto(p, "await_attr")
  ELSE IF c = RBrace THEN Goto(p, "end")
  ELSE Fails(p, "BADTRAIL")

post_val(p, c) ==
  IF c = Space THEN Goto(p, "post_space")
  ELSE IF ~p.quoted /\ p.attr \in Sensors THEN Fails(p, "NONQSTRING")
  ELSE IF p.attr \in Sensors
       THEN post_element([p EXCEPT !.sensor[p.attr] = Stored(p.value)], c)
  ELSE post_element(p, c)

(* A comma or a brace that ends a token is looked at again. *)
in_val_token(p, c) ==
  IF c = Space THEN Goto(p, "post_val")
  ELSE IF c \in {Comma, RBrace} THEN post_val(p, c)
  ELSE [p EXCEPT !.value = Append(@, c)]

Symbol(p, c) ==
  CASE p.state = "init"          -> init(p, c)
    [] p.state = "await_attr"    -> await_attr(p, c)
    [] p.state = "in_attr"       -> in_attr(p, c)
    [] p.state = "await_value"   -> await_value(p, c)
    [] p.state = "in_val_string" -> in_val_string(p, c)
    [] p.state = "in_val_token"  -> in_val_token(p, c)
    [] p.state \in {"post_val", "post_space"} -> post_val(p, c)

(* The text may end anywhere but before the object has begun, or after the
   space behind a value. *)
AtEnd(p) ==
  CASE p.state = "init"       -> Fails(p, "EMPTY")
    [] p.state = "post_space" -> post_val(p, "NUL")
    [] OTHER                  -> p
=============================================================================
