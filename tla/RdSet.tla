--------------------------------- MODULE RdSet ---------------------------------
(***************************************************************************)
(* RdSet of the RD protocol library over ViewableSet: two replicas of one  *)
(* set.  Its messages carry no number: an end that takes out what the      *)
(* other puts in is not noticed.                                           *)
(***************************************************************************)
EXTENDS RdEnds, FiniteSets, SequencesExt

VARIABLES
  set,            \* the replica of each end
  setWire,
  setCrossed      \* history: elements changed with a change of the same on its way

setVars == <<set, setWire, setCrossed>>

SetMessages == [op : {"ADD", "REMOVE"}, value : Values]

SetInit ==
  /\ set = [e \in Ends |-> {}]
  /\ setWire = EmptyWire
  /\ setCrossed = {}

OnItsWay(e) == {setWire[Peer(e)][i].value : i \in DOMAIN setWire[Peer(e)]}

\* add, remove and clear tell the other end of what changes and of nothing else; addAll
\* repeats add.
SetAdd(e) ==
  /\ LocalChange
  /\ \E v \in Values \ set[e] :
       /\ set' = [set EXCEPT ![e] = @ \cup {v}]
       /\ setWire' = Send(setWire, e, <<[op |-> "ADD", value |-> v]>>)
       /\ setCrossed' = setCrossed \cup ({v} \cap OnItsWay(e))

\* Fault: clear() empties the replica and tells nobody.
RemovalsForgotten(order) == << >>

RemovalsOf(order) == [i \in DOMAIN order |-> [op |-> "REMOVE", value |-> order[i]]]

SetRemove(e) ==
  /\ LocalChange
  /\ \E gone \in {{v} : v \in set[e]} \cup ({set[e]} \ {{}}) :
       /\ set' = [set EXCEPT ![e] = @ \ gone]
       /\ \E order \in SetToSeqs(gone) : setWire' = Send(setWire, e, RemovalsOf(order))
       /\ setCrossed' = setCrossed \cup (gone \cap OnItsWay(e))

\* on_wire_received.
ReceiveSetChange(e) ==
  /\ Arrived(setWire, e)
  /\ LET m == Message(setWire, e)
     IN  set' = [set EXCEPT ![e] = IF m.op = "ADD" THEN @ \cup {m.value} ELSE @ \ {m.value}]
  /\ setWire' = Take(setWire, e)
  /\ UNCHANGED <<setCrossed, changes>>

SetNext == \E e \in Ends : SetAdd(e) \/ SetRemove(e) \/ ReceiveSetChange(e)

-------------------------------------------------------------------------------
\* Once everything has arrived both ends have the same elements, save those that one end
\* changed while the other's change of the same element was on its way to it.
SetsAgree == Quiet(setWire) => set[1] \ setCrossed = set[2] \ setCrossed
===============================================================================
