--------------------------------- MODULE RdMap ---------------------------------
(***************************************************************************)
(* RdMap of the RD protocol library over ViewableMap: two replicas of one  *)
(* map, each changed by its own end.  A master numbers its changes and     *)
(* rejects the other end's change of a key while one of its own to that    *)
(* key is not acknowledged.                                                *)
(*                                                                         *)
(* pendingForAck holds pointers to keys.  The key of an entry of the map   *)
(* is an object of its own, which stays where it is until that entry is    *)
(* erased; the pointer of a removal is the caller's argument.  So once an  *)
(* entry of the map is erased at the master the pointer to its key         *)
(* dangles, and whether a lookup of the key still finds it is left open.   *)
(***************************************************************************)
EXTENDS RdEnds, FiniteSets, SequencesExt

CONSTANT Keys

ASSUME MapAssumption == IsFiniteSet(Keys)

VARIABLES
  map,           \* the replica of each end
  nextVersion,   \* next_version
  pending,       \* pendingForAck
  mapWire,
  disputed,      \* history: keys a master changed while an earlier change of the key was
                 \* not acknowledged
  missed         \* history: keys whose entry in pendingForAck a lookup did not find

mapVars == <<map, nextVersion, pending, mapWire, disputed, missed>>

Unversioned == 0

Entries == [Keys -> Values \cup {Absent}]
Pendings == [key : Keys, version : Nat, dangling : BOOLEAN]
MapMessages ==
  [op : {"PUT"}, key : Keys, value : Values, version : Nat]
    \cup [op : {"REMOVE", "ACK"}, key : Keys, value : {Absent}, version : Nat]

MapInit ==
  /\ map = [e \in Ends |-> [k \in Keys |-> Absent]]
  /\ nextVersion = [e \in Ends |-> 0]
  /\ pending = [e \in Ends |-> {}]
  /\ mapWire = EmptyWire
  /\ disputed = {} /\ missed = {}

-------------------------------------------------------------------------------
\* What a lookup of a key may find: no entry, or one.
Lookups(e, k) ==
  LET own == {p \in pending[e] : p.key = k}
  IN  {{p} : p \in own} \cup (IF \E p \in own : ~p.dangling THEN {} ELSE {{}})

\* The lookup of k finds nothing though there is an entry.
Missed(e, k, found) == IF found = {} /\ \E p \in pending[e] : p.key = k THEN {k} ELSE {}

\* pendingForAck.emplace: an entry that is found keeps its version.
Emplace(entries, found, k, version) ==
  IF found # {} THEN entries
  ELSE entries \cup {[key |-> k, version |-> version, dangling |-> FALSE]}

\* The keys erased from the map are gone.
Dangle(entries, keys) ==
  {IF p.key \in keys THEN [p EXCEPT !.dangling = TRUE] ELSE p : p \in entries}

Change(k, v, version) ==
  [op |-> IF v = Absent THEN "REMOVE" ELSE "PUT", key |-> k, value |-> v,
   version |-> version]

\* A change of k that the master has sent and has not seen acknowledged.
Unacknowledged(e, k) ==
  \/ \E i \in DOMAIN mapWire[e] : mapWire[e][i].key = k
  \/ \E i \in DOMAIN mapWire[Peer(e)] :
       mapWire[Peer(e)][i].op = "ACK" /\ mapWire[Peer(e)][i].key = k

\* set and remove, with the handler that init() advises: an event, and a message, only
\* if something changes.
SetEntry(e, k, v) ==
  /\ v # map[e][k]
  /\ map' = [map EXCEPT ![e][k] = v]
  /\ IF e \in Masters
     THEN LET version == nextVersion[e] + 1
          IN  \E found \in Lookups(e, k) :
                LET entries == Emplace(pending[e], found, k, version)
                    erased == IF v = Absent THEN {k} ELSE {}
                IN  /\ nextVersion' = [nextVersion EXCEPT ![e] = version]
                    /\ pending' = [pending EXCEPT ![e] = Dangle(entries, erased)]
                    /\ mapWire' = Send(mapWire, e, <<Change(k, v, version)>>)
                    /\ disputed' = disputed \cup {key \in {k} : Unacknowledged(e, key)}
                    /\ missed' = missed \cup Missed(e, k, found)
     ELSE /\ mapWire' = Send(mapWire, e, <<Change(k, v, Unversioned)>>)
          /\ UNCHANGED <<nextVersion, pending, disputed, missed>>

MapChange(e) ==
  /\ LocalChange
  /\ \E k \in Keys, v \in Values \cup {Absent} : SetEntry(e, k, v)

\* clear(): a removal is sent for every entry, then the entries go.  Of one entry it is
\* what remove does.
MapClear(e) ==
  LET present == {k \in Keys : map[e][k] # Absent}
      number == Cardinality(present)
      version(i) == IF e \in Masters THEN nextVersion[e] + i ELSE Unversioned
  IN  /\ LocalChange
      /\ number > 1
      /\ map' = [map EXCEPT ![e] = [k \in Keys |-> Absent]]
      /\ \E order \in SetToSeqs(present) :
           /\ mapWire' = Send(mapWire, e,
                [i \in 1 .. number |-> Change(order[i], Absent, version(i))])
           /\ IF e \in Masters
              THEN \E found \in [1 .. number -> SUBSET pending[e]] :
                     LET entries == pending[e] \cup UNION {
                           Emplace({}, found[i], order[i], version(i)) : i \in 1 .. number}
                     IN  /\ \A i \in 1 .. number : found[i] \in Lookups(e, order[i])
                         /\ nextVersion' = [nextVersion EXCEPT ![e] = @ + number]
                         /\ pending' = [pending EXCEPT ![e] = Dangle(entries, present)]
                         /\ disputed' = disputed \cup {k \in present : Unacknowledged(e, k)}
                         /\ missed' = missed \cup UNION {
                              Missed(e, order[i], found[i]) : i \in 1 .. number}
              ELSE UNCHANGED <<nextVersion, pending, disputed, missed>>

-------------------------------------------------------------------------------
\* Fault: an acknowledgement clears older changes only.
ClearsOlder(found, version) == {p \in found : p.version < version}

Clears(found, version) == {p \in found : p.version = version}

\* on_wire_received, an acknowledgement: an entry with another version stays; all other
\* cases are logged.
ReceiveAck(e) ==
  /\ Arrived(mapWire, e)
  /\ LET m == Message(mapWire, e)
     IN  /\ m.op = "ACK"
         /\ IF e \in Masters
            THEN \E found \in Lookups(e, m.key) :
                   /\ pending' = [pending EXCEPT ![e] = @ \ Clears(found, m.version)]
                   /\ missed' = missed \cup Missed(e, m.key, found)
            ELSE UNCHANGED <<pending, missed>>
  /\ mapWire' = Take(mapWire, e)
  /\ UNCHANGED <<map, nextVersion, disputed, changes>>

\* Fault: whatever comes from the other end is taken.
AcceptsAnything(e, m, found) == TRUE

Accepts(e, m, found) == m.version # Unversioned \/ e \notin Masters \/ found = {}

\* on_wire_received, a change: taken or rejected, and acknowledged if it is versioned.
\* What is received is not sent back.
ReceiveChange(e) ==
  /\ Arrived(mapWire, e)
  /\ LET m == Message(mapWire, e)
         ack == [op |-> "ACK", key |-> m.key, value |-> Absent, version |-> m.version]
     IN  /\ m.op # "ACK"
         /\ \E found \in Lookups(e, m.key) :
              LET accepted == Accepts(e, m, found)
                  erased == IF accepted /\ m.value = Absent /\ map[e][m.key] # Absent
                            THEN {m.key} ELSE {}
              IN  /\ map' = IF accepted THEN [map EXCEPT ![e][m.key] = m.value] ELSE map
                  /\ pending' = [pending EXCEPT ![e] = Dangle(@, erased)]
                  /\ missed' = IF m.version = Unversioned /\ e \in Masters
                               THEN missed \cup Missed(e, m.key, found) ELSE missed
         /\ mapWire' = IF m.version # Unversioned
                       THEN Send(Take(mapWire, e), e, <<ack>>)
                       ELSE Take(mapWire, e)
  /\ UNCHANGED <<nextVersion, disputed, changes>>

MapNext ==
  \E e \in Ends : MapChange(e) \/ MapClear(e) \/ ReceiveAck(e) \/ ReceiveChange(e)

-------------------------------------------------------------------------------
\* Once everything has arrived both ends have the same entries, whoever changed what at
\* the same time, except where RdMap's bookkeeping gives out: the master changed a key
\* again before its last change was acknowledged (the first acknowledgement clears the
\* entry of both), or a lookup of a key that was erased missed its entry.  It takes
\* exactly one master.
MapsAgree ==
  Quiet(mapWire) => \A k \in Keys \ (disputed \cup missed) : map[1][k] = map[2][k]

\* Once everything has arrived no key is locked against the other end's changes, save
\* by an entry left behind when a lookup missed it, the key of which was erased.
NoKeyStaysLocked ==
  Quiet(mapWire) =>
    \A e \in Ends : \A p \in pending[e] :
      p.key \in missed /\ \E q \in pending[e] : q.key = p.key /\ q.dangling
===============================================================================
