-------------------------------- MODULE RdList ---------------------------------
(***************************************************************************)
(* RdList of the RD protocol library over ViewableList: two replicas of    *)
(* one list.  Every change carries a number that both ends count on, so    *)
(* that changes that cross are noticed; nothing settles them.              *)
(***************************************************************************)
EXTENDS RdEnds, SequencesExt

VARIABLES
  list,          \* the replica of each end
  listVersion,   \* next_version
  listWire,
  crossed,       \* history: an end has changed the list with a change on its way to it
  conflict       \* the version assertion has failed; what follows is not modelled

listVars == <<list, listVersion, listWire, crossed, conflict>>

ListMessages ==
  [op : {"ADD", "UPDATE"}, index : Nat, value : Values, version : Nat]
    \cup [op : {"REMOVE"}, index : Nat, value : {Absent}, version : Nat]

ListInit ==
  /\ list = [e \in Ends |-> << >>]
  /\ listVersion = [e \in Ends |-> 1]
  /\ listWire = EmptyWire
  /\ crossed = FALSE /\ conflict = FALSE

\* add, set and removeAt of ViewableList; the indices begin at 0.
Apply(content, op, index, v) ==
  CASE op = "ADD" -> InsertAt(content, index + 1, v)
    [] op = "UPDATE" -> ReplaceAt(content, index + 1, v)
    [] op = "REMOVE" -> RemoveAt(content, index + 1)

-------------------------------------------------------------------------------
ListMessage(e, op, index, v) ==
  [op |-> op, index |-> index, value |-> v, version |-> listVersion[e]]

\* One change, with the handler that init() advises.
ChangeList(e, op, index, v) ==
  /\ LocalChange /\ ~conflict
  /\ list' = [list EXCEPT ![e] = Apply(@, op, index, v)]
  /\ listVersion' = [listVersion EXCEPT ![e] = @ + 1]
  /\ listWire' = Send(listWire, e, <<ListMessage(e, op, index, v)>>)
  /\ crossed' = (crossed \/ Arrived(listWire, e))
  /\ UNCHANGED conflict

\* add, at the end or at an index, set, removeAt; remove finds the index itself, addAll
\* and removeAll repeat these.
ListChange(e) ==
  LET size == Len(list[e])
  IN  \/ \E i \in 0 .. size, v \in Values : ChangeList(e, "ADD", i, v)
      \/ \E i \in 0 .. size - 1, v \in Values : ChangeList(e, "UPDATE", i, v)
      \/ \E i \in 0 .. size - 1 : ChangeList(e, "REMOVE", i, Absent)

\* Fault: clear() sends the removals from the front.
RemovalsFromTheFront(e) ==
  [n \in DOMAIN list[e] |->
     [op |-> "REMOVE", index |-> n - 1, value |-> Absent,
      version |-> listVersion[e] + n - 1]]

\* Fault: clear() counts the elements to remove from one too few.
RemovalsOneOff(e) ==
  [n \in DOMAIN list[e] |->
     [op |-> "REMOVE", index |-> Len(list[e]) - n - 1, value |-> Absent,
      version |-> listVersion[e] + n - 1]]

Removals(e) ==
  [n \in DOMAIN list[e] |->
     [op |-> "REMOVE", index |-> Len(list[e]) - n, value |-> Absent,
      version |-> listVersion[e] + n - 1]]

\* clear(): a removal for every element, the last one first.
ListClear(e) ==
  /\ LocalChange /\ ~conflict
  /\ list[e] # << >>
  /\ list' = [list EXCEPT ![e] = << >>]
  /\ listVersion' = [listVersion EXCEPT ![e] = @ + Len(list[e])]
  /\ listWire' = Send(listWire, e, Removals(e))
  /\ crossed' = (crossed \/ Arrived(listWire, e))
  /\ UNCHANGED conflict

\* on_wire_received: a version other than the next fails the assertion.
ReceiveListChange(e) ==
  /\ Arrived(listWire, e) /\ ~conflict
  /\ LET m == Message(listWire, e)
     IN  IF m.version = listVersion[e]
         THEN /\ listVersion' = [listVersion EXCEPT ![e] = @ + 1]
              /\ list' = [list EXCEPT ![e] = Apply(@, m.op, m.index, m.value)]
              /\ UNCHANGED conflict
         ELSE conflict' = TRUE /\ UNCHANGED <<list, listVersion>>
  /\ listWire' = Take(listWire, e)
  /\ UNCHANGED <<crossed, changes>>

ListNext ==
  \E e \in Ends : ListChange(e) \/ ListClear(e) \/ ReceiveListChange(e)

-------------------------------------------------------------------------------
\* "Are you modifying a list from two sides?": ends that change the list in turn, each
\* only once it has all the other's changes, never fail the assertion and have the same
\* elements in the same order once everything has arrived.  Changes that cross always
\* fail it, before everything has arrived.
ListsAgree ==
  /\ conflict => crossed
  /\ Quiet(listWire) =>
       IF crossed THEN conflict
       ELSE list[1] = list[2] /\ listVersion[1] = listVersion[2]
===============================================================================
