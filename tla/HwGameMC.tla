------------------------------- MODULE HwGameMC -------------------------------
(***************************************************************************)
(* HwGame for TLC.  TLC explores it with a fixed table (FixedSpec) and     *)
(* with players who come and go (Spec).                                    *)
(***************************************************************************)
EXTENDS HwGame

\* The attempts used by all players together, when cnt are their guess counts.
UsedBy(cnt) == {a \in Controllers \X (1 .. MaxGuessCount) : a[2] <= cnt[a[1]]}

Table == INSTANCE HwRound WITH
           Seats <- Cardinality(Controllers),
           Attempts <- MaxGuessCount,
           open <- AllSeated /\ phase = "playing",
           turn <- turn,
           used <- Cardinality(UsedBy(count))

\* The game implements HwRound: attempts in seat order, a draw exactly when all
\* are used, and never an end to the attempts.
ImplementsRound == Table!Spec
===============================================================================
