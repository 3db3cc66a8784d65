------------------------------- MODULE RdProperty ------------------------------
(***************************************************************************)
(* RdProperty of the RD protocol library over Property: two replicas of    *)
(* one value, set by either end.  The master counts its changes; what      *)
(* comes from the other end carries the count that end knew, and is        *)
(* rejected if the master has changed the value since.                     *)
(***************************************************************************)
EXTENDS RdEnds

VARIABLES value, masterVersion, propertyWire

propertyVars == <<value, masterVersion, propertyWire>>

PropertyMessages == [value : Values, version : Nat]

PropertyInit ==
  /\ value = [e \in Ends |-> Absent]
  /\ masterVersion = [e \in Ends |-> 0]
  /\ propertyWire = EmptyWire

VersionOfChange(e) == IF e \in Masters THEN masterVersion[e] + 1 ELSE masterVersion[e]

\* set(): the handler advised in init() runs only if the value changes.
SetProperty(e) ==
  /\ LocalChange
  /\ \E v \in Values \ {value[e]} :
       /\ value' = [value EXCEPT ![e] = v]
       /\ masterVersion' = [masterVersion EXCEPT ![e] = VersionOfChange(e)]
       /\ propertyWire' = Send(propertyWire, e,
                               <<[value |-> v, version |-> VersionOfChange(e)]>>)

\* Fault: a change that was made before the master's last is taken too.
AcceptsEarlier(e, m) == TRUE

AcceptsProperty(e, m) == e \notin Masters \/ m.version >= masterVersion[e]

\* on_wire_received.
ReceiveProperty(e) ==
  /\ Arrived(propertyWire, e)
  /\ LET m == Message(propertyWire, e)
     IN  IF AcceptsProperty(e, m)
         THEN /\ value' = [value EXCEPT ![e] = m.value]
              /\ masterVersion' = [masterVersion EXCEPT ![e] = m.version]
         ELSE UNCHANGED <<value, masterVersion>>
  /\ propertyWire' = Take(propertyWire, e)
  /\ UNCHANGED changes

PropertyNext == \E e \in Ends : SetProperty(e) \/ ReceiveProperty(e)

-------------------------------------------------------------------------------
\* Once everything has arrived both ends have the same value and the same count, however
\* their changes crossed.
PropertiesAgree ==
  Quiet(propertyWire) => value[1] = value[2] /\ masterVersion[1] = masterVersion[2]
===============================================================================
