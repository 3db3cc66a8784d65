------------------------------- MODULE RdReplicas ------------------------------
(***************************************************************************)
(* The replicated entities of one protocol at both its ends: a map, a      *)
(* property, a list and a set, changed by the applications of both, and a  *)
(* call from the first end to the second.                                  *)
(***************************************************************************)
EXTENDS RdMap, RdProperty, RdList, RdSet, RdCall

replicaVars == <<changes, mapVars, propertyVars, listVars, setVars, callVars>>

ReplicasInit == EndsInit /\ MapInit /\ PropertyInit /\ ListInit /\ SetInit /\ CallInit

ReplicasNext ==
  \/ MapNext /\ UNCHANGED <<propertyVars, listVars, setVars, callVars>>
  \/ PropertyNext /\ UNCHANGED <<mapVars, listVars, setVars, callVars>>
  \/ ListNext /\ UNCHANGED <<mapVars, propertyVars, setVars, callVars>>
  \/ SetNext /\ UNCHANGED <<mapVars, propertyVars, listVars, callVars>>
  \/ CallNext /\ UNCHANGED <<mapVars, propertyVars, listVars, setVars>>

ReplicasSpec == ReplicasInit /\ [][ReplicasNext]_replicaVars

-------------------------------------------------------------------------------
ReplicasTypeOK ==
  /\ changes \in 0 .. MaxChanges
  /\ map \in [Ends -> Entries]
  /\ nextVersion \in [Ends -> Nat]
  /\ pending \in [Ends -> SUBSET Pendings]
  /\ mapWire \in Wires(MapMessages)
  /\ disputed \subseteq Keys /\ missed \subseteq Keys
  /\ value \in [Ends -> Values \cup {Absent}]
  /\ masterVersion \in [Ends -> Nat]
  /\ propertyWire \in Wires(PropertyMessages)
  /\ list \in [Ends -> Seq(Values)]
  /\ listVersion \in [Ends -> Nat]
  /\ listWire \in Wires(ListMessages)
  /\ crossed \in BOOLEAN /\ conflict \in BOOLEAN
  /\ set \in [Ends -> SUBSET Values]
  /\ setWire \in Wires(SetMessages)
  /\ setCrossed \subseteq Values
  /\ terminated \in BOOLEAN /\ crashed \in BOOLEAN /\ failed \in BOOLEAN
  /\ tasks \in 0 .. MaxCalls
  /\ subscribed \subseteq TaskIds /\ destroyed \subseteq TaskIds /\ awaiting \subseteq TaskIds
  /\ toCancel \subseteq TaskIds /\ contested \subseteq TaskIds
  /\ checked \in [Threads -> TaskIds \cup {NoTask}]
  /\ result \in [TaskIds -> TaskIds \cup {Empty, Fault, Cancelled}]
  /\ syncTask \in TaskIds \cup {NoTask} /\ spinning \in TaskIds \cup {NoTask}
  /\ scheduled \in Seq(Answers)
  /\ callWire \in [Ends -> Seq(Requests) \cup Seq(Answers)]
===============================================================================
