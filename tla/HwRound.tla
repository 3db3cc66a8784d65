------------------------------- MODULE HwRound --------------------------------
(***************************************************************************)
(* What the game promises a fixed table of players, without controllers,   *)
(* clocks, secrets or messages: attempts are taken in seat order, a game   *)
(* is drawn exactly when every seat has used all its attempts, and one     *)
(* attempt after another is taken for ever.                                *)
(***************************************************************************)
EXTENDS Naturals

CONSTANTS Seats, Attempts

VARIABLES open, turn, used

vars == <<open, turn, used>>

Init == open = FALSE /\ turn = 0 /\ used = 0

Open == ~open /\ open' = TRUE /\ UNCHANGED <<turn, used>>

Miss ==
  /\ open /\ used + 1 < Seats * Attempts
  /\ used' = used + 1
  /\ turn' = (turn + 1) % Seats
  /\ UNCHANGED open

\* The attempt that makes the draw; the next game begins with the second seat.
Draw ==
  /\ open /\ used + 1 = Seats * Attempts
  /\ used' = 0
  /\ turn' = 1 % Seats
  /\ UNCHANGED open

Win == open /\ used' = 0 /\ turn' = 0 /\ UNCHANGED open

Attempt == Miss \/ Draw \/ Win

Next == Open \/ Attempt

Spec == Init /\ [][Next]_vars /\ WF_vars(Attempt)
===============================================================================
