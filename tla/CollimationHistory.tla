------------------------- MODULE CollimationHistory -------------------------
(***************************************************************************)
(* Collimation with a history: of every position that the driver, its file *)
(* or the hexapod holds, what was asked for.  A position comes from the    *)
(* client, or is nominal; the driver writes it to a file and reads it      *)
(* back, corrects it, tells it to the hexapod, and after a reconnection    *)
(* takes it from there again as the position wanted.                       *)
(***************************************************************************)
EXTENDS Collimation

VARIABLES
  wanted,  \* what was asked for in NextPos
  saved,   \* in posfile
  told,    \* in target
  there    \* in actual

history == <<wanted, saved, told, there>>
allVars == <<vars, history>>

(* A position of an axis that was asked for.  taken: Connect has taken it
   from the hexapod since, as it was there, with or without a correction. *)
Asked(p) == [asked |-> p, taken |-> FALSE]
Taken(h) == [h EXCEPT !.taken = TRUE]

AskedNominal == [a \in Axes |-> Asked(Zero)]

(* As Restored is to NextPos and posfile. *)
AskedRestored ==
  IF posfile \in {NoFile, Corrupt}
    THEN AskedNominal
    ELSE [a \in Axes |-> IF a \in FileAxes THEN saved[a] ELSE wanted[a]]

AskedAtStart == [a \in Axes |-> Asked(0)]

HistoryInit ==
  /\ Init
  /\ wanted = AskedAtStart
  /\ saved = [a \in FileAxes |-> Asked(0)]
  /\ told = AskedNominal /\ there = AskedNominal

(* The history goes where the position goes; origins: what was asked for in
   the positions the step tells the hexapod. *)
Follows(origins) ==
  /\ saved' = IF pc = "Save" /\ posfile' # posfile
                THEN [a \in FileAxes |-> wanted[a]] ELSE saved
  /\ told' = [a \in Axes |-> IF target'[a] # target[a] THEN origins[a]
                                                       ELSE told[a]]
  /\ there' = [a \in Axes |-> IF actual'[a] # actual[a] THEN told[a]
                                                        ELSE there[a]]

(* A position read that is the one wanted already changes nothing. *)
ConnectH ==
  /\ Connect
  /\ wanted' = [a \in Axes |-> IF NextPos'[a] = NextPos[a]
                                 THEN wanted[a] ELSE Taken(there[a])]
  /\ Follows(wanted)

NewNumberH(a, v) ==
  /\ NewNumber(a, v)
  /\ wanted' = [wanted EXCEPT ![a] = Asked(v)]
  /\ Follows(wanted')

CorrectOnH ==
  /\ CorrectOn
  /\ wanted' = AskedRestored
  /\ Follows(AskedRestored)

(* The loop that is cut short is that of a tick or of CorrectOn. *)
RestartH ==
  /\ Restart
  /\ wanted' = AskedAtStart
  /\ Follows(IF pc = "TickMove" THEN wanted ELSE AskedRestored)

WantsTheSame ==
  /\ \/ Disconnect \/ CorrectOff \/ Save \/ TickRead \/ TickMove
     \/ \E a \in Axes : Arrive(a)
     \/ SkyMoves \/ Calm
  /\ UNCHANGED wanted
  /\ Follows(wanted)

HistoryNext ==
  \/ ConnectH \/ CorrectOnH \/ RestartH \/ WantsTheSame
  \/ \E a \in Axes, v \in Requests : NewNumberH(a, v)

HistorySpec == HistoryInit /\ [][HistoryNext]_allVars

-----------------------------------------------------------------------------
(* Properties *)

(* However switching on and off, requests, failures, lost connections and
   restarts follow on each other, and whether the position comes from the
   client or by way of the file: the hexapod is told what was asked for with
   the correction added once or not at all.  Excepted is a position that
   Connect has taken from the hexapod on the way (222): it may have a
   correction in it already, and nothing in the driver says so. *)
CorrectedOnce ==
  \A a \in Axes :
    ~told[a].taken => target[a] - told[a].asked \in Corrections(a)

=============================================================================
