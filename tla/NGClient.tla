------------------------------ MODULE NGClient ------------------------------
(***************************************************************************)
(* ng_send (ngclient.c): a request to the telescope control system TCS-NG. *)
(* Every call opens a socket into the global sd.  The request and the      *)
(* reply share one buffer, and the caller tells success by the output.     *)
(***************************************************************************)
EXTENDS Sockets

VARIABLES sd, output

ngVars == <<sd, output>>

NGInit == sd = "none" /\ output = ""

NGResult(r, reply) == [by |-> "ng", ret |-> r, reply |-> reply]

(* Mutant of ClearOutput: the output keeps what it held. *)
KeepOutput == UNCHANGED output

ClearOutput == output' = ""

(* Without a socket sd is -1; whether bind succeeds makes no difference. *)
initialize ==
  \/ Opened /\ sd' = "open"
  \/ NoneLeft /\ sd' = "none"

(* The result of initialize is ignored.  The request is put together. *)
ng_send == Begin("NConnect") /\ initialize /\ ClearOutput

(* connect fails, on a socket or on -1: a socket stays open. *)
NGRefused ==
  /\ pc = "NConnect"
  /\ IF sd = "open" THEN StaysOpen ELSE UNCHANGED sockVars
  /\ Returns(NGResult(1, "none"))
  /\ UNCHANGED ngVars

NGConnected ==
  /\ pc = "NConnect" /\ sd = "open" /\ pc' = "NSend"
  /\ UNCHANGED <<sockVars, result, ngVars>>

(* Mutant of NGSend: after a failure the call goes on. *)
NGSendGoesOn ==
  /\ pc = "NSend" /\ pc' = "NRecv" /\ UNCHANGED result
  /\ UNCHANGED sockVars \/ Closed
  /\ UNCHANGED ngVars

NGSend ==
  /\ pc = "NSend"
  /\ \/ pc' = "NRecv" /\ UNCHANGED <<sockVars, result>>
     \/ Closed /\ Returns(NGResult(1, "none"))
  /\ UNCHANGED ngVars

(* The text behind the preamble: the reply, or as much of it as has come
   with the rest of the request behind it. *)
Text(reply) ==
  IF reply = "whole" THEN {"reply"}
  ELSE IF reply = "part" THEN {"mixed", "request"} ELSE {"request"}

(* One recv: the reply with its terminator, a part of it, nothing from a
   server that has closed, or an error, which leaves the socket open. *)
NGRecv ==
  /\ pc = "NRecv"
  /\ \/ /\ \E reply \in {"whole", "part", "closed"} :
             /\ output' \in Text(reply)
             /\ Returns(NGResult(0, reply))
        /\ Closed
     \/ Returns(NGResult(1, "error")) /\ StaysOpen /\ UNCHANGED output
  /\ UNCHANGED sd

NGNext == ng_send \/ NGRefused \/ NGConnected \/ NGSend \/ NGRecv

-----------------------------------------------------------------------------
(* Nothing from an earlier call and none of the caller's own request passes
   for a reply after a failure: GetTempAndEl_old looks only at whether the
   output is empty (vatt_secondary.cpp:1319). *)
FailureIsEmpty ==
  result.by = "ng" =>
    /\ result.ret = 1 <=> output = ""
    /\ result.reply = "whole" => output = "reply"
=============================================================================
