-------------------------------- MODULE RdEnds ---------------------------------
(***************************************************************************)
(* What the replicated entities of the RD protocol share: two ends, each   *)
(* with its replica of every entity, and per entity and direction a wire   *)
(* that delivers in order (RdChannel; the broker keeps the order of one    *)
(* entity's messages).  An entity's handlers run on its end's scheduler,   *)
(* one at a time.                                                          *)
(***************************************************************************)
EXTENDS Integers, Sequences

CONSTANTS
  Masters,       \* the ends whose maps and properties have is_master set
  Values,        \* what an entity may hold
  Absent,        \* no value: an entry that is not there, a property never set
  MaxChanges     \* bound on the local changes made at both ends together

Ends == {1, 2}

ASSUME EndsAssumption ==
  /\ Masters \subseteq Ends
  /\ Absent \notin Values
  /\ MaxChanges \in Nat

VARIABLE changes

Peer(e) == 3 - e

EndsInit == changes = 0

\* The application changes something at one end.
LocalChange == changes < MaxChanges /\ changes' = changes + 1

\* A wire holds what each end has sent and the other has not handled yet.
Wires(Message) == [Ends -> Seq(Message)]
EmptyWire == [e \in Ends |-> << >>]
Quiet(wire) == \A e \in Ends : wire[e] = << >>
Send(wire, e, messages) == [wire EXCEPT ![e] = @ \o messages]
Arrived(wire, e) == wire[Peer(e)] # << >>
Message(wire, e) == Head(wire[Peer(e)])
Take(wire, e) == [wire EXCEPT ![Peer(e)] = Tail(@)]
===============================================================================
