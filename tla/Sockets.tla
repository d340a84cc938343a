------------------------------ MODULE Sockets ------------------------------
(* What the clients of the telescope's older instruments share: the one    *)
(* thread that calls them, the descriptors of the process, and the result  *)
(* of the last call.                                                       *)
EXTENDS Integers, Sequences

CONSTANT MaxFds  \* descriptors the process may have open

ASSUME SocketsAssumption == MaxFds \in Nat

VARIABLES
  pc,      \* the next blocking step of the call under way, or "idle"
  fds,     \* sockets of the process
  lost,    \* calls that ended without a close, ever: for the properties only
  result   \* of the last call, with what the instrument did in it

sockVars == <<fds, lost>>

NoResult == [by |-> "none"]

SocketsInit == pc = "idle" /\ fds = 0 /\ lost = 0 /\ result = NoResult

Begin(step) == pc = "idle" /\ pc' = step /\ result' = NoResult

Returns(r) == pc' = "idle" /\ result' = r

Opened    == fds < MaxFds /\ fds' = fds + 1 /\ UNCHANGED lost
NoneLeft  == fds = MaxFds /\ UNCHANGED sockVars
Closed    == fds' = fds - 1 /\ UNCHANGED lost
StaysOpen == lost' = lost + 1 /\ UNCHANGED fds
=============================================================================
