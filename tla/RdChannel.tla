------------------------------- MODULE RdChannel -------------------------------
(***************************************************************************)
(* What a wire promises the messages put into it: they arrive in the order *)
(* they were put and none is skipped.  The only repetition is to start     *)
(* over from the first message, the mark of a sender that has restarted.   *)
(***************************************************************************)
EXTENDS Naturals

VARIABLES
  sent,   \* messages sent by the present sender, numbered from 1
  got     \* the message that arrived last, 0 for none

vars == <<sent, got>>

Init == sent = 0 /\ got = 0

Send == sent' = sent + 1 /\ UNCHANGED got

Deliver == got \in 1 .. sent - 1 /\ got' = got + 1 /\ UNCHANGED sent

DeliverFirst == sent > 0 /\ got' = 1 /\ UNCHANGED sent

Restart == sent' = 0 /\ UNCHANGED got

Next == Send \/ Deliver \/ DeliverFirst \/ Restart

Spec == Init /\ [][Next]_vars
===============================================================================
