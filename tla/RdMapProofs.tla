------------------------------ MODULE RdMapProofs ------------------------------
(***************************************************************************)
(* Maps for any keys, any changes and any order of deliveries, and the     *)
(* types of all the entities of a protocol.                                *)
(***************************************************************************)
EXTENDS RdReplicasProofs

-------------------------------------------------------------------------------
(***************************************************************************)
(* A map.  Of a master's changes some are on their way to the other end,   *)
(* and then their acknowledgements on the way back, in the order of their  *)
(* numbers.                                                                *)
(***************************************************************************)
MapTypeOK ==
  /\ map \in [Ends -> Entries]
  /\ nextVersion \in [Ends -> Nat]
  /\ pending \in [Ends -> SUBSET Pendings]
  /\ mapWire \in [Ends -> Seq(MapMessages)]
  /\ disputed \in SUBSET Keys /\ missed \in SUBSET Keys

\* The messages of a wire, and those of one kind.
Handed(q) == {q[i] : i \in DOMAIN q}
Changes(q) == {x \in Handed(q) : x.op # "ACK"}
Acks(q) == {x \in Handed(q) : x.op = "ACK"}

\* Later ones of one kind have higher numbers.
Ascends(q, ack) ==
  \A i, j \in DOMAIN q :
    i < j /\ (q[i].op = "ACK" <=> ack) /\ (q[j].op = "ACK" <=> ack) =>
      q[i].version < q[j].version

\* Only a master numbers its changes and waits for their acknowledgements.
MastersNumber ==
  \A e \in Ends :
    /\ \A x \in Changes(mapWire[e]) : x.version # Unversioned <=> e \in Masters
    /\ Acks(mapWire[e]) # {} => Peer(e) \in Masters
    /\ e \notin Masters => pending[e] = {}

\* A version older than all that are on their way.
Settled(version, under) == \A x \in under : version < x.version

\* The entry p waits for an acknowledgement that comes.
Awaited(p, under) == \E x \in under : x.key = p.key /\ x.version = p.version

\* The pointer of p dangles, or that of an older entry of its key that no acknowledgement
\* will clear and the lookup may hit on.
Stuck(p, entries, under) ==
  \E q \in entries : q.key = p.key /\ q.dangling /\ (q = p \/ Settled(q.version, under))

\* A master's books: changes are on their way and acks on the way back, n is the last
\* number, entries are pendingForAck and gone the keys a lookup has missed.
Books(sent, acks, n, entries, gone) ==
  /\ \A x \in sent, y \in acks : y.version < x.version
  /\ \A x \in sent \cup acks : x.version <= n
  /\ \A p \in entries : p.version <= n
  /\ \A p, q \in entries : p.key = q.key /\ p # q =>
       p.key \in gone /\ (~p.dangling => q.dangling /\ q.version < p.version)
  /\ \A p \in entries :
       Awaited(p, sent \cup acks) \/ (p.key \in gone /\ Stuck(p, entries, sent \cup acks))

MasterInv(e) ==
  /\ Ascends(mapWire[e], FALSE) /\ Ascends(mapWire[Peer(e)], TRUE)
  /\ Books(Changes(mapWire[e]), Acks(mapWire[Peer(e)]), nextVersion[e], pending[e], missed)

MapInv == MapTypeOK /\ MastersNumber /\ \A e \in Masters : MasterInv(e)

LEMMA Kinds ==
  ASSUME NEW q \in Seq(MapMessages)
  PROVE  /\ Handed(q) = Changes(q) \cup Acks(q)
         /\ Handed(q) \in SUBSET MapMessages
         /\ Changes(q) \in SUBSET MapMessages /\ Acks(q) \in SUBSET MapMessages
<1>1. \A i \in DOMAIN q : q[i] \in MapMessages
  BY Lengths
<1> QED
  BY <1>1 DEF Handed, Changes, Acks

LEMMA MessageParts ==
  ASSUME NEW x \in MapMessages
  PROVE  /\ x.key \in Keys /\ x.version \in Nat /\ x.value \in Values \cup {Absent}
         /\ x.op \in {"PUT", "REMOVE", "ACK"}
  BY DEF MapMessages

\* The messages of one kind in q have lower numbers than those in r.
Precedes(q, r, ack) ==
  \A x \in Handed(q), y \in Handed(r) :
    (x.op = "ACK" <=> ack) /\ (y.op = "ACK" <=> ack) => x.version < y.version

\* What a wire holds once something is sent.
LEMMA Joined ==
  ASSUME NEW q \in Seq(MapMessages), NEW r \in Seq(MapMessages)
  PROVE  /\ q \o r \in Seq(MapMessages)
         /\ Changes(q \o r) = Changes(q) \cup Changes(r)
         /\ Acks(q \o r) = Acks(q) \cup Acks(r)
         /\ \A ack : Ascends(q, ack) /\ Ascends(r, ack) /\ Precedes(q, r, ack)
                      => Ascends(q \o r, ack)
<1>1. PICK t \in Seq(MapMessages) : t = q \o r
  BY ConcatProperties
<1>2. /\ Len(t) = Len(q) + Len(r)
      /\ \A i \in 1 .. Len(q) + Len(r) : t[i] = IF i <= Len(q) THEN q[i] ELSE r[i - Len(q)]
  BY <1>1, ConcatProperties
<1>3. /\ Len(q) \in Nat /\ Len(r) \in Nat
      /\ DOMAIN q = 1 .. Len(q) /\ DOMAIN r = 1 .. Len(r) /\ DOMAIN t = 1 .. Len(q) + Len(r)
  BY <1>2, Lengths
<1>4. \A i \in DOMAIN q : i \in DOMAIN t /\ t[i] = q[i]
  BY <1>2, <1>3
<1>5. \A i \in DOMAIN r : i + Len(q) \in DOMAIN t /\ t[i + Len(q)] = r[i]
  BY <1>2, <1>3
<1>6. \A i \in DOMAIN t :
        \/ i \in DOMAIN q /\ t[i] = q[i]
        \/ i > Len(q) /\ i - Len(q) \in DOMAIN r /\ t[i] = r[i - Len(q)]
  BY <1>2, <1>3
<1>7. Handed(t) = Handed(q) \cup Handed(r)
  <2>1. Handed(t) \subseteq Handed(q) \cup Handed(r)
    BY <1>6 DEF Handed
  <2>2. Handed(q) \subseteq Handed(t)
    BY <1>4 DEF Handed
  <2>3. Handed(r) \subseteq Handed(t)
    BY <1>5 DEF Handed
  <2> QED
    BY <2>1, <2>2, <2>3
<1>8. Changes(t) = Changes(q) \cup Changes(r) /\ Acks(t) = Acks(q) \cup Acks(r)
  BY <1>7 DEF Changes, Acks
<1>9. ASSUME NEW ack, Ascends(q, ack), Ascends(r, ack), Precedes(q, r, ack)
      PROVE  Ascends(t, ack)
  <2> SUFFICES ASSUME NEW i \in DOMAIN t, NEW j \in DOMAIN t, i < j,
                      t[i].op = "ACK" <=> ack, t[j].op = "ACK" <=> ack
               PROVE  t[i].version < t[j].version
    BY DEF Ascends
  <2>1. CASE j \in DOMAIN q
    <3>1. i \in DOMAIN q
      BY <1>3, <2>1
    <3> QED
      BY <1>4, <1>9, <2>1, <3>1 DEF Ascends
  <2>2. CASE i \in DOMAIN q /\ j \notin DOMAIN q
    <3>1. t[i] \in Handed(q) /\ t[j] \in Handed(r)
      BY <1>4, <1>6, <2>2 DEF Handed
    <3> QED
      BY <1>9, <3>1 DEF Precedes
  <2>3. CASE i \notin DOMAIN q /\ j \notin DOMAIN q
    <3>1. /\ i - Len(q) \in DOMAIN r /\ t[i] = r[i - Len(q)]
          /\ j - Len(q) \in DOMAIN r /\ t[j] = r[j - Len(q)]
      BY <1>6, <2>3
    <3>2. i - Len(q) < j - Len(q)
      BY <1>3
    <3> QED
      BY <1>9, <3>1, <3>2 DEF Ascends
  <2>4. CASE i \notin DOMAIN q /\ j \in DOMAIN q
    BY <1>3, <2>4
  <2> QED
    BY <2>1, <2>2, <2>3, <2>4
<1> QED
  BY <1>1, <1>8, <1>9

\* What a wire holds once its first message is handled.
LEMMA Handled ==
  ASSUME NEW q \in Seq(MapMessages), NEW x \in MapMessages, NEW left \in Seq(MapMessages),
         TakenOff(q, x, left)
  PROVE  /\ Handed(q) = Handed(left) \cup {x}
         /\ \A ack : Ascends(q, ack) => Ascends(left, ack)
         /\ x.op = "ACK" =>
              /\ x \in Acks(q) /\ Changes(left) = Changes(q)
              /\ Ascends(q, TRUE) =>
                   /\ Acks(left) = Acks(q) \ {x}
                   /\ \A y \in Acks(left) : x.version < y.version
         /\ x.op # "ACK" =>
              /\ x \in Changes(q) /\ Acks(left) = Acks(q)
              /\ Ascends(q, FALSE) =>
                   /\ Changes(left) = Changes(q) \ {x}
                   /\ \A y \in Changes(left) : x.version < y.version
<1>1. /\ Len(q) \in Nat \ {0} /\ DOMAIN q = 1 .. Len(q) /\ DOMAIN left = 1 .. Len(q) - 1
      /\ x = q[1] /\ \A i \in 1 .. Len(q) - 1 : left[i] = q[i + 1]
  BY DEF TakenOff
<1>2. \A i \in DOMAIN left :
        i \in Nat /\ i + 1 \in DOMAIN q /\ left[i] = q[i + 1] /\ 1 < i + 1
  BY <1>1
<1>3. \A i \in DOMAIN q : i = 1 \/ (i - 1 \in DOMAIN left /\ left[i - 1] = q[i])
  BY <1>1
<1>4. 1 \in DOMAIN q /\ x = q[1]
  BY <1>1
<1>5. Handed(q) = Handed(left) \cup {x}
  <2>1. Handed(left) \subseteq Handed(q)
    BY <1>2 DEF Handed
  <2>2. x \in Handed(q)
    BY <1>4 DEF Handed
  <2>3. Handed(q) \subseteq Handed(left) \cup {x}
    BY <1>3, <1>4 DEF Handed
  <2> QED
    BY <2>1, <2>2, <2>3
<1>6. ASSUME NEW ack, Ascends(q, ack) PROVE Ascends(left, ack)
  <2> SUFFICES ASSUME NEW i \in DOMAIN left, NEW j \in DOMAIN left, i < j,
                      left[i].op = "ACK" <=> ack, left[j].op = "ACK" <=> ack
               PROVE  left[i].version < left[j].version
    BY DEF Ascends
  <2>1. i + 1 < j + 1
    BY <1>2
  <2> QED
    BY <1>2, <1>6, <2>1 DEF Ascends
<1>7. ASSUME NEW ack, Ascends(q, ack), x.op = "ACK" <=> ack, NEW y \in Handed(left),
             y.op = "ACK" <=> ack
      PROVE  x.version < y.version /\ y # x
  <2>1. PICK i \in DOMAIN left : y = left[i]
    BY DEF Handed
  <2>2. x.version < y.version
    BY <1>2, <1>4, <1>7, <2>1 DEF Ascends
  <2>3. x.version \in Nat
    BY MessageParts
  <2> QED
    BY <2>2, <2>3
<1>8. CASE x.op = "ACK"
  <2>1. x \in Acks(q) /\ Changes(left) = Changes(q)
    BY <1>5, <1>8 DEF Changes, Acks
  <2>2. ASSUME Ascends(q, TRUE)
        PROVE  /\ Acks(left) = Acks(q) \ {x}
               /\ \A y \in Acks(left) : x.version < y.version
    <3>1. \A y \in Acks(left) : x.version < y.version /\ y # x
      BY <1>7, <1>8, <2>2 DEF Acks
    <3>2. Acks(q) = Acks(left) \cup {x}
      BY <1>5, <1>8 DEF Acks
    <3> QED
      BY <3>1, <3>2
  <2> QED
    BY <1>5, <1>6, <1>8, <2>1, <2>2
<1>9. CASE x.op # "ACK"
  <2>1. x \in Changes(q) /\ Acks(left) = Acks(q)
    BY <1>5, <1>9 DEF Changes, Acks
  <2>2. ASSUME Ascends(q, FALSE)
        PROVE  /\ Changes(left) = Changes(q) \ {x}
               /\ \A y \in Changes(left) : x.version < y.version
    <3>1. \A y \in Changes(left) : x.version < y.version /\ y # x
      BY <1>7, <1>9, <2>2 DEF Changes
    <3>2. Changes(q) = Changes(left) \cup {x}
      BY <1>5, <1>9 DEF Changes
    <3> QED
      BY <3>1, <3>2
  <2> QED
    BY <1>5, <1>6, <1>9, <2>1, <2>2
<1> QED
  BY <1>8, <1>9

\* What books are kept of.
Kept(sent, acks, n, entries) ==
  /\ sent \in SUBSET MapMessages /\ acks \in SUBSET MapMessages
  /\ n \in Nat /\ entries \in SUBSET Pendings

LEMMA Numbers ==
  ASSUME NEW sent, NEW acks, NEW n, NEW entries, Kept(sent, acks, n, entries)
  PROVE  /\ \A x \in sent \cup acks : x.version \in Nat /\ x.key \in Keys
         /\ \A p \in entries : p.version \in Nat /\ p.key \in Keys /\ p.dangling \in BOOLEAN
  BY MessageParts DEF Kept, Pendings

\* What the changes new add to the entries old: one entry for each of which the lookup
\* found none.
Adds(old, entries, new, gone) ==
  /\ old \subseteq entries
  /\ \A p \in entries : p \in old \/ Awaited(p, new)
  /\ \A p \in entries \ old, q \in entries : q.key = p.key /\ q # p =>
       q \in old /\ q.dangling /\ p.key \in gone

\* More changes are sent, with the numbers that follow.
LEMMA MoreSent ==
  ASSUME NEW sent, NEW acks, NEW n, NEW old, NEW gone, Kept(sent, acks, n, old),
         Books(sent, acks, n, old, gone),
         NEW new, NEW n2, NEW entries, NEW gone2, Kept(new, acks, n2, entries), n <= n2,
         \A x \in new : n < x.version /\ x.version <= n2,
         gone \subseteq gone2, Adds(old, entries, new, gone2)
  PROVE  Books(sent \cup new, acks, n2, entries, gone2)
<1>1. /\ \A x \in sent \cup acks : x.version \in Nat /\ x.version <= n
      /\ \A x \in new : x.version \in Nat
      /\ \A p \in entries : p.version \in Nat
      /\ n \in Nat /\ n2 \in Nat
  BY Numbers DEF Kept, Books
<1>2. PICK under : under = (sent \cup new) \cup acks
  OBVIOUS
<1>3. \A x \in sent \cup new, y \in acks : y.version < x.version
  BY <1>1 DEF Books
<1>4. \A x \in under : x.version <= n2
  BY <1>1, <1>2
<1>5. \A p \in entries \ old : n < p.version /\ p.version <= n2 /\ Awaited(p, under)
  BY <1>2 DEF Adds, Awaited
<1>6. \A p \in old : p \in entries /\ p.version <= n /\ p.version <= n2
  BY <1>1 DEF Adds, Books
<1>7. ASSUME NEW p \in entries, NEW q \in entries, p.key = q.key, p # q
      PROVE  p.key \in gone2 /\ (~p.dangling => q.dangling /\ q.version < p.version)
  <2>1. CASE p \in old /\ q \in old
    BY <1>7, <2>1 DEF Books
  <2>2. CASE p \notin old
    <3>1. q \in old /\ q.dangling /\ p.key \in gone2
      BY <1>7, <2>2 DEF Adds
    <3>2. q.version < p.version
      BY <1>1, <1>5, <1>6, <2>2, <3>1
    <3> QED
      BY <3>1, <3>2
  <2>3. CASE q \notin old
    BY <1>7, <2>3 DEF Adds
  <2> QED
    BY <2>1, <2>2, <2>3
<1>8. ASSUME NEW p \in entries
      PROVE  Awaited(p, under) \/ (p.key \in gone2 /\ Stuck(p, entries, under))
  <2>1. CASE p \in old /\ Awaited(p, sent \cup acks)
    BY <1>2, <2>1 DEF Awaited
  <2>2. CASE p \in old /\ p.key \in gone /\ Stuck(p, old, sent \cup acks)
    <3>1. PICK q \in old : /\ q.key = p.key /\ q.dangling
                           /\ q = p \/ Settled(q.version, sent \cup acks)
      BY <2>2 DEF Stuck
    <3>2. Settled(q.version, sent \cup acks) => Settled(q.version, under)
      BY <1>1, <1>2, <1>6 DEF Settled
    <3> QED
      BY <1>6, <2>2, <3>1, <3>2 DEF Stuck
  <2> QED
    BY <1>5, <2>1, <2>2 DEF Books
<1> QED
  BY <1>2, <1>3, <1>4, <1>5, <1>6, <1>7, <1>8 DEF Books

\* A lookup that found nothing makes an entry.
LEMMA OneMore ==
  ASSUME NEW old \in SUBSET Pendings, NEW x, NEW found \in SUBSET old, NEW gone,
         found = {} => \A p \in old : p.key = x.key => p.dangling /\ x.key \in gone
  PROVE  Adds(old, Emplace(old, found, x.key, x.version), {x}, gone)
<1>1. CASE found # {}
  BY <1>1 DEF Emplace, Adds
<1>2. CASE found = {}
  <2>1. PICK p2 : p2 = [key |-> x.key, version |-> x.version, dangling |-> FALSE]
    OBVIOUS
  <2>2. p2.key = x.key /\ p2.version = x.version
    BY <2>1
  <2>3. PICK entries : entries = old \cup {p2}
    OBVIOUS
  <2>4. Emplace(old, found, x.key, x.version) = entries
    BY <1>2, <2>1, <2>3 DEF Emplace
  <2>5. Awaited(p2, {x})
    BY <2>2 DEF Awaited
  <2>6. Adds(old, entries, {x}, gone)
    BY <1>2, <2>2, <2>3, <2>5 DEF Adds
  <2> QED
    BY <2>4, <2>6
<1> QED
  BY <1>1, <1>2

\* The oldest change is handled and its acknowledgement sent.
LEMMA TurnsBack ==
  ASSUME NEW sent, NEW acks, NEW n, NEW entries, NEW gone, Kept(sent, acks, n, entries),
         Books(sent, acks, n, entries, gone),
         NEW x \in sent, \A y \in sent \ {x} : x.version < y.version,
         NEW ack, ack.key = x.key, ack.version = x.version
  PROVE  Books(sent \ {x}, acks \cup {ack}, n, entries, gone)
<1>1. PICK under : under = (sent \ {x}) \cup (acks \cup {ack})
  OBVIOUS
<1>2. \A y \in under : \E z \in sent \cup acks : z.key = y.key /\ z.version = y.version
  BY <1>1
<1>3. \A z \in sent \cup acks : \E y \in under : z.key = y.key /\ z.version = y.version
  BY <1>1
<1>4. \A p : Awaited(p, sent \cup acks) => Awaited(p, under)
  BY <1>3 DEF Awaited
<1>5. \A v : Settled(v, sent \cup acks) => Settled(v, under)
  BY <1>2 DEF Settled
<1>6. \A p : Stuck(p, entries, sent \cup acks) => Stuck(p, entries, under)
  BY <1>5 DEF Stuck
<1>7. \A y \in under : y.version <= n
  BY <1>2 DEF Books
<1>8. \A y \in sent \ {x}, z \in acks \cup {ack} : z.version < y.version
  BY DEF Books
<1> QED
  BY <1>1, <1>4, <1>6, <1>7, <1>8 DEF Books

\* The oldest acknowledgement is handled.  It clears the entry that waits for it, unless
\* the lookup misses it or hits on another.
LEMMA Cleared ==
  ASSUME NEW sent, NEW acks, NEW n, NEW old, NEW gone, Kept(sent, acks, n, old),
         Books(sent, acks, n, old, gone),
         NEW x \in acks, \A y \in acks \ {x} : x.version < y.version,
         NEW gone2, gone \subseteq gone2,
         NEW found, \/ \E p \in old : p.key = x.key /\ found = {p}
                    \/ found = {} /\ \A p \in old : p.key = x.key =>
                                       p.dangling /\ p.key \in gone2
  PROVE  Books(sent, acks \ {x}, n, old \ Clears(found, x.version), gone2)
<1>1. /\ \A y \in sent \cup acks : y.version \in Nat
      /\ \A p \in old : p.version \in Nat
  BY Numbers
<1>2. PICK under : under = sent \cup (acks \ {x})
  OBVIOUS
<1>3. PICK entries : entries = old \ Clears(found, x.version)
  OBVIOUS
<1>4. \A y \in under : y \in sent \cup acks /\ x.version < y.version
  BY <1>2 DEF Books
<1>5. \A y \in sent \cup acks : y \in under \/ y = x
  BY <1>2
<1>6. \A p \in old : p \in entries \/ (found = {p} /\ p.version = x.version
                                         /\ p.key = x.key)
  BY <1>3 DEF Clears
<1>7. ASSUME NEW q \in old, q.version < x.version
      PROVE  q \in entries /\ Settled(q.version, under)
  <2>1. q \in entries
    BY <1>1, <1>6, <1>7
  <2>2. Settled(q.version, under)
    BY <1>1, <1>4, <1>7 DEF Settled
  <2> QED
    BY <2>1, <2>2
<1>8. ASSUME NEW p \in entries
      PROVE  Awaited(p, under) \/ (p.key \in gone2 /\ Stuck(p, entries, under))
  <2>1. p \in old
    BY <1>3
  <2>2. CASE \E y \in sent \cup acks : y.key = p.key /\ y.version = p.version
    <3>1. PICK y \in sent \cup acks : y.key = p.key /\ y.version = p.version
      BY <2>2
    <3>2. CASE y \in under
      BY <3>1, <3>2 DEF Awaited
    <3>3. CASE y = x /\ p.dangling
      <4>1. found # {p}
        BY <1>3, <3>1, <3>3 DEF Clears
      <4>2. CASE found = {}
        BY <2>1, <3>1, <3>3, <4>2 DEF Stuck
      <4>3. CASE \E q \in old : q.key = x.key /\ found = {q}
        <5>1. PICK q \in old : q.key = p.key /\ q # p
          BY <3>1, <3>3, <4>1, <4>3
        <5>2. p.key \in gone
          BY <2>1, <5>1 DEF Books
        <5> QED
          BY <3>3, <5>2 DEF Stuck
      <4> QED
        BY <4>2, <4>3
    <3>4. CASE y = x /\ ~p.dangling
      <4>1. found # {p}
        BY <1>3, <3>1, <3>4 DEF Clears
      <4>2. PICK q \in old : q.key = p.key /\ found = {q} /\ q # p
        BY <2>1, <3>1, <3>4, <4>1
      <4>3. p.key \in gone /\ q.dangling /\ q.version < x.version
        BY <2>1, <3>1, <3>4, <4>2 DEF Books
      <4> QED
        BY <1>7, <4>2, <4>3 DEF Stuck
    <3> QED
      BY <1>5, <3>2, <3>3, <3>4
  <2>3. CASE p.key \in gone /\ Stuck(p, old, sent \cup acks)
    <3>1. PICK q \in old : /\ q.key = p.key /\ q.dangling
                           /\ q = p \/ Settled(q.version, sent \cup acks)
      BY <2>3 DEF Stuck
    <3>2. CASE q = p
      BY <2>3, <3>1, <3>2 DEF Stuck
    <3>3. CASE Settled(q.version, sent \cup acks)
      <4>1. q.version < x.version
        BY <3>3 DEF Settled
      <4> QED
        BY <1>7, <2>3, <3>1, <4>1 DEF Stuck
    <3> QED
      BY <3>1, <3>2, <3>3
  <2> QED
    BY <2>1, <2>2, <2>3 DEF Books, Awaited
<1>9. \A y \in under : y.version <= n
  BY <1>4 DEF Books
<1>10. entries \subseteq old
  BY <1>3
<1>11. /\ \A y \in sent, z \in acks \ {x} : z.version < y.version
       /\ \A p \in entries : p.version <= n
       /\ \A p, q \in entries : p.key = q.key /\ p # q =>
            p.key \in gone2 /\ (~p.dangling => q.dangling /\ q.version < p.version)
  BY <1>10 DEF Books
<1> QED
  BY <1>2, <1>3, <1>8, <1>9, <1>11 DEF Books

\* What dangles keeps its version and its key, and no other entry changes.
LEMMA Dangling ==
  ASSUME NEW entries \in SUBSET Pendings, NEW keys
  PROVE  /\ Dangle(entries, keys) \in SUBSET Pendings
         /\ \A p \in Dangle(entries, keys) :
              \E q \in entries : /\ q.key = p.key /\ q.version = p.version
                                 /\ p = q \/ (p.key \in keys /\ p.dangling)
         /\ \A q \in entries :
              \E p \in Dangle(entries, keys) : /\ q.key = p.key /\ q.version = p.version
                                               /\ p = q \/ (p.key \in keys /\ p.dangling)
<1>1. PICK erased : erased = [q \in entries |-> [q EXCEPT !.dangling = TRUE]]
  OBVIOUS
<1>2. ASSUME NEW q \in entries
      PROVE  /\ erased[q] \in Pendings /\ erased[q].dangling
             /\ erased[q].key = q.key /\ erased[q].version = q.version
  <2>1. q \in Pendings
    OBVIOUS
  <2> QED
    BY <1>1, <2>1 DEF Pendings
<1>3. Dangle(entries, keys) = {IF q.key \in keys THEN erased[q] ELSE q : q \in entries}
  BY <1>1 DEF Dangle
<1>4. ASSUME NEW q \in entries
      PROVE  (IF q.key \in keys THEN erased[q] ELSE q) \in Dangle(entries, keys)
  BY <1>3
<1>5. ASSUME NEW p \in Dangle(entries, keys)
      PROVE  \E q \in entries : p = IF q.key \in keys THEN erased[q] ELSE q
  BY <1>3, <1>5
<1>6. \A q \in entries :
              \E p \in Dangle(entries, keys) : /\ q.key = p.key /\ q.version = p.version
                                               /\ p = q \/ (p.key \in keys /\ p.dangling)
  <2> SUFFICES ASSUME NEW q \in entries
               PROVE  \E p \in Dangle(entries, keys) :
                        /\ q.key = p.key /\ q.version = p.version
                        /\ p = q \/ (p.key \in keys /\ p.dangling)
    OBVIOUS
  <2>1. CASE q.key \in keys
    BY <1>2, <1>4, <2>1
  <2>2. CASE q.key \notin keys
    BY <1>4, <2>2
  <2> QED
    BY <2>1, <2>2
<1> QED
  BY <1>2, <1>5, <1>6

\* Keys are erased and nothing is sent.
LEMMA Erased ==
  ASSUME NEW sent, NEW acks, NEW n, NEW old \in SUBSET Pendings, NEW gone, NEW keys,
         Books(sent, acks, n, old, gone)
  PROVE  Books(sent, acks, n, Dangle(old, keys), gone)
<1>1. PICK entries, under : entries = Dangle(old, keys) /\ under = sent \cup acks
  OBVIOUS
<1>2. \A p \in entries : \E q \in old : /\ q.key = p.key /\ q.version = p.version
                                        /\ p = q \/ (p.key \in keys /\ p.dangling)
  BY <1>1, Dangling
<1>3. \A q \in old : \E p \in entries : /\ q.key = p.key /\ q.version = p.version
                                        /\ p = q \/ (p.key \in keys /\ p.dangling)
  BY <1>1, Dangling
<1>4. \A p \in entries : p.version <= n
  BY <1>2 DEF Books
<1>5. ASSUME NEW p \in entries, NEW q \in entries, p.key = q.key, p # q
      PROVE  p.key \in gone /\ (~p.dangling => q.dangling /\ q.version < p.version)
  <2>1. \A r \in old : /\ [r EXCEPT !.dangling = TRUE].key = r.key
                       /\ [r EXCEPT !.dangling = TRUE].dangling
    BY DEF Pendings
  <2>2. PICK p0 \in old, q0 \in old :
          /\ p = IF p0.key \in keys THEN [p0 EXCEPT !.dangling = TRUE] ELSE p0
          /\ q = IF q0.key \in keys THEN [q0 EXCEPT !.dangling = TRUE] ELSE q0
    BY <1>1 DEF Dangle
  <2>3. p0.key = p.key /\ q0.key = q.key /\ p0 # q0
    BY <1>5, <2>1, <2>2
  <2>4. p0.key \in gone /\ (~p0.dangling => q0.dangling /\ q0.version < p0.version)
    BY <1>5, <2>3 DEF Books
  <2>5. CASE p.key \in keys
    BY <2>1, <2>2, <2>3, <2>4, <2>5
  <2>6. CASE p.key \notin keys
    BY <1>5, <2>2, <2>3, <2>4, <2>6
  <2> QED
    BY <2>5, <2>6
<1>6. ASSUME NEW p \in entries
      PROVE  Awaited(p, under) \/ (p.key \in gone /\ Stuck(p, entries, under))
  <2>1. PICK p0 \in old : /\ p0.key = p.key /\ p0.version = p.version
                          /\ p = p0 \/ (p.key \in keys /\ p.dangling)
    BY <1>2
  <2>2. CASE Awaited(p0, under)
    BY <2>1, <2>2 DEF Awaited
  <2>3. CASE p0.key \in gone /\ Stuck(p0, old, under)
    <3>1. CASE p.dangling
      BY <2>1, <2>3, <3>1 DEF Stuck
    <3>2. CASE ~p.dangling
      <4>1. p = p0
        BY <2>1, <3>2
      <4>2. PICK q0 \in old : q0.key = p.key /\ q0.dangling /\ Settled(q0.version, under)
        BY <2>3, <3>2, <4>1 DEF Stuck
      <4>3. PICK q \in entries : /\ q.key = p.key /\ q.version = q0.version
                                 /\ q = q0 \/ q.dangling
        BY <1>3, <4>2
      <4> QED
        BY <2>3, <4>1, <4>2, <4>3 DEF Stuck
    <3> QED
      BY <3>1, <3>2
  <2> QED
    BY <1>1, <2>1, <2>2, <2>3 DEF Books
<1> QED
  BY <1>1, <1>4, <1>5, <1>6 DEF Books

LEMMA MissesGrow ==
  ASSUME NEW sent, NEW acks, NEW n, NEW entries, NEW gone, Books(sent, acks, n, entries, gone),
         NEW gone2, gone \subseteq gone2
  PROVE  Books(sent, acks, n, entries, gone2)
  BY DEF Books

LEMMA SentOne ==
  ASSUME NEW q \in Seq(MapMessages), NEW x \in MapMessages
  PROVE  /\ q \o <<x>> \in Seq(MapMessages)
         /\ x.op # "ACK" =>
              /\ Changes(q \o <<x>>) = Changes(q) \cup {x} /\ Acks(q \o <<x>>) = Acks(q)
              /\ Ascends(q, TRUE) => Ascends(q \o <<x>>, TRUE)
              /\ Ascends(q, FALSE) /\ (\A y \in Changes(q) : y.version < x.version)
                   => Ascends(q \o <<x>>, FALSE)
         /\ x.op = "ACK" =>
              /\ Changes(q \o <<x>>) = Changes(q) /\ Acks(q \o <<x>>) = Acks(q) \cup {x}
              /\ Ascends(q, FALSE) => Ascends(q \o <<x>>, FALSE)
              /\ Ascends(q, TRUE) /\ (\A y \in Acks(q) : y.version < x.version)
                   => Ascends(q \o <<x>>, TRUE)
<1>1. PICK r \in Seq(MapMessages) : r = <<x>>
  <2>1. <<x>> \in Seq(MapMessages)
    OBVIOUS
  <2> QED
    BY <2>1
<1>2. DOMAIN r = {1} /\ r[1] = x
  <2>1. Len(<<x>>) = 1 /\ DOMAIN <<x>> = 1 .. 1 /\ <<x>>[1] = x
    OBVIOUS
  <2> QED
    BY <1>1, <2>1
<1>3. Handed(r) = {x}
  BY <1>2 DEF Handed
<1>4. Changes(r) = (IF x.op = "ACK" THEN {} ELSE {x}) /\ Acks(r) = (IF x.op = "ACK" THEN {x} ELSE {})
  BY <1>3 DEF Changes, Acks
<1>5. \A ack : Ascends(r, ack)
  BY <1>2 DEF Ascends
<1>6. /\ q \o r \in Seq(MapMessages)
      /\ Changes(q \o r) = Changes(q) \cup Changes(r)
      /\ Acks(q \o r) = Acks(q) \cup Acks(r)
      /\ \A ack : Ascends(q, ack) /\ Precedes(q, r, ack) => Ascends(q \o r, ack)
  BY <1>5, Joined
<1>7. ASSUME x.op # "ACK"
      PROVE  /\ Precedes(q, r, TRUE)
             /\ (\A y \in Changes(q) : y.version < x.version) => Precedes(q, r, FALSE)
  BY <1>3, <1>7 DEF Precedes, Changes
<1>8. ASSUME x.op = "ACK"
      PROVE  /\ Precedes(q, r, FALSE)
             /\ (\A y \in Acks(q) : y.version < x.version) => Precedes(q, r, TRUE)
  BY <1>3, <1>8 DEF Precedes, Acks
<1> QED
  BY <1>1, <1>4, <1>6, <1>7, <1>8

LEMMA MapInitKeeps == ASSUME MapInit PROVE MapInv
<1>1. << >> \in Seq(MapMessages)
  BY EmptySeq
<1>2. DOMAIN << >> = {}
  OBVIOUS
<1>3. Handed(<< >>) = {} /\ \A ack : Ascends(<< >>, ack)
  BY <1>2 DEF Handed, Ascends
<1>4. Changes(<< >>) = {} /\ Acks(<< >>) = {}
  BY <1>3 DEF Changes, Acks
<1>5. \A e \in Ends : /\ mapWire[e] = << >> /\ mapWire[Peer(e)] = << >>
                      /\ pending[e] = {} /\ nextVersion[e] = 0
  BY Peers DEF MapInit, EmptyWire
<1>6. MapTypeOK
  BY <1>1 DEF MapInit, MapTypeOK, EmptyWire, Entries
<1>7. MastersNumber
  BY <1>4, <1>5 DEF MastersNumber
<1>8. \A e \in Ends : MasterInv(e)
  BY <1>3, <1>4, <1>5 DEF MasterInv, Books
<1> QED
  BY <1>6, <1>7, <1>8, EndsAssumption DEF MapInv

\* What holds of an end and its peer, by name.
LEMMA EndTypes ==
  ASSUME MapTypeOK, NEW e \in Ends
  PROVE  /\ mapWire[e] \in Seq(MapMessages) /\ nextVersion[e] \in Nat
         /\ pending[e] \in SUBSET Pendings
         /\ map[e] \in Entries
         /\ \A acks : acks \in SUBSET MapMessages =>
              Kept(Changes(mapWire[e]), acks, nextVersion[e], pending[e])
<1>1. mapWire[e] \in Seq(MapMessages) /\ nextVersion[e] \in Nat
      /\ pending[e] \in SUBSET Pendings /\ map[e] \in Entries
  BY DEF MapTypeOK
<1>2. Changes(mapWire[e]) \in SUBSET MapMessages
  BY <1>1, Kinds
<1> QED
  BY <1>1, <1>2 DEF Kept

LEMMA ChangeMade ==
  ASSUME NEW k \in Keys, NEW v \in Values \cup {Absent}, NEW n \in Nat
  PROVE  /\ Change(k, v, n) \in MapMessages
         /\ Change(k, v, n).key = k /\ Change(k, v, n).value = v
         /\ Change(k, v, n).version = n /\ Change(k, v, n).op # "ACK"
<1>1. CASE v = Absent
  <2>1. Change(k, v, n) = [op |-> "REMOVE", key |-> k, value |-> v, version |-> n]
    BY <1>1 DEF Change
  <2> QED
    BY <1>1, <2>1 DEF MapMessages
<1>2. CASE v # Absent
  <2>1. Change(k, v, n) = [op |-> "PUT", key |-> k, value |-> v, version |-> n]
    BY <1>2 DEF Change
  <2> QED
    BY <1>2, <2>1 DEF MapMessages
<1> QED
  BY <1>1, <1>2

LEMMA SlaveChangeKeeps ==
  ASSUME MapInv, NEW e \in Ends, e \notin Masters,
         NEW map2 \in Entries, map' = [map EXCEPT ![e] = map2],
         NEW r \in Seq(MapMessages), mapWire' = Send(mapWire, e, r),
         Acks(r) = {}, \A x \in Changes(r) : x.version = Unversioned,
         UNCHANGED <<nextVersion, pending, disputed, missed>>
  PROVE  MapInv'
<1>1. PICK f \in Ends : f = Peer(e) /\ f # e /\ e = Peer(f)
  BY Peers
<1>2. mapWire[e] \in Seq(MapMessages) /\ MapTypeOK
  BY EndTypes DEF MapInv
<1>3. PICK t \in Seq(MapMessages) :
        /\ t = mapWire[e] \o r
        /\ Changes(t) = Changes(mapWire[e]) \cup Changes(r)
        /\ Acks(t) = Acks(mapWire[e])
        /\ Ascends(mapWire[e], TRUE) => Ascends(t, TRUE)
  <2>1. PICK q \in Seq(MapMessages) : q = mapWire[e]
    BY <1>2
  <2>2. PICK t \in Seq(MapMessages) :
          /\ t = q \o r
          /\ Changes(t) = Changes(q) \cup Changes(r)
          /\ Acks(t) = Acks(q) \cup Acks(r)
          /\ Ascends(q, TRUE) /\ Ascends(r, TRUE) /\ Precedes(q, r, TRUE)
               => Ascends(t, TRUE)
    BY Joined
  <2>3. \A y \in Handed(r) : y.op # "ACK"
    BY DEF Acks
  <2>4. \A i \in DOMAIN r : r[i].op # "ACK"
    BY <2>3 DEF Handed
  <2>5. Ascends(r, TRUE) /\ Precedes(q, r, TRUE)
    BY <2>3, <2>4 DEF Ascends, Precedes
  <2> QED
    BY <2>1, <2>2, <2>5
<1>4. mapWire' = [mapWire EXCEPT ![e] = t]
  BY <1>3 DEF Send
<1>5. mapWire'[e] = t /\ mapWire'[f] = mapWire[f]
  BY <1>1, <1>2, <1>4 DEF MapTypeOK
<1>6. MapTypeOK'
  BY <1>2, <1>4 DEF MapTypeOK
<1>7. \A g \in Ends : g = e \/ g = f
  BY <1>1, Peers
<1>8. MastersNumber'
  <2>1. \A x \in Changes(t) : x.version = Unversioned
    BY <1>3 DEF MapInv, MastersNumber
  <2> QED
    BY <1>1, <1>3, <1>5, <1>7, <2>1 DEF MapInv, MastersNumber
<1>9. f \in Masters => MasterInv(f)'
  BY <1>1, <1>3, <1>5 DEF MapInv, MasterInv
<1>10. \A g \in Masters : g = f
  BY <1>7, EndsAssumption
<1> QED
  BY <1>6, <1>8, <1>9, <1>10 DEF MapInv

\* A master's own change: the books are kept for what it sends.
LEMMA MasterChangeKeeps ==
  ASSUME MapInv, NEW e \in Masters,
         NEW map2 \in Entries, map' = [map EXCEPT ![e] = map2],
         NEW t \in Seq(MapMessages), mapWire' = [mapWire EXCEPT ![e] = t],
         Acks(t) = Acks(mapWire[e]), \A x \in Changes(t) : x.version # Unversioned,
         Ascends(t, FALSE), Ascends(mapWire[e], TRUE) => Ascends(t, TRUE),
         NEW n \in Nat, nextVersion' = [nextVersion EXCEPT ![e] = n],
         NEW entries \in SUBSET Pendings, pending' = [pending EXCEPT ![e] = entries],
         disputed' \in SUBSET Keys, missed' \in SUBSET Keys, missed \subseteq missed',
         Books(Changes(t), Acks(mapWire[Peer(e)]), n, entries, missed')
  PROVE  MapInv'
<1>0. e \in Ends
  BY EndsAssumption
<1>1. PICK f \in Ends : f = Peer(e) /\ f # e /\ e = Peer(f)
  BY <1>0, Peers
<1>2. MapTypeOK
  BY DEF MapInv
<1>3. /\ mapWire'[e] = t /\ mapWire'[f] = mapWire[f]
      /\ nextVersion'[e] = n /\ nextVersion'[f] = nextVersion[f]
      /\ pending'[e] = entries /\ pending'[f] = pending[f]
  BY <1>0, <1>1, <1>2 DEF MapTypeOK
<1>4. MapTypeOK'
  BY <1>0, <1>2 DEF MapTypeOK
<1>5. \A g \in Ends : g = e \/ g = f
  BY <1>0, <1>1, Peers
<1>6. MastersNumber'
  BY <1>0, <1>1, <1>3, <1>5 DEF MapInv, MastersNumber
<1>7. MasterInv(e)'
  BY <1>0, <1>1, <1>3 DEF MapInv, MasterInv
<1>8. f \in Masters => MasterInv(f)'
  <2> SUFFICES ASSUME f \in Masters PROVE MasterInv(f)'
    OBVIOUS
  <2>1. /\ Ascends(mapWire[f], FALSE) /\ Ascends(mapWire[e], TRUE)
        /\ Books(Changes(mapWire[f]), Acks(mapWire[e]), nextVersion[f], pending[f], missed)
    BY <1>1 DEF MapInv, MasterInv
  <2>2. Books(Changes(mapWire[f]), Acks(t), nextVersion[f], pending[f], missed')
    BY <2>1, MissesGrow
  <2> QED
    BY <1>1, <1>3, <2>1, <2>2 DEF MasterInv
<1>9. \A g \in Masters : g = e \/ g = f
  BY <1>5, EndsAssumption
<1> QED
  BY <1>4, <1>6, <1>7, <1>8, <1>9 DEF MapInv

LEMMA LookedUp ==
  ASSUME NEW e \in Ends, NEW k, NEW found \in Lookups(e, k)
  PROVE  /\ found \in SUBSET pending[e]
         /\ \/ \E p \in pending[e] : p.key = k /\ found = {p}
            \/ found = {} /\ \A p \in pending[e] : p.key = k =>
                               p.dangling /\ p.key \in Missed(e, k, found)
         /\ \A k2 \in Missed(e, k, found) : k2 = k
  BY DEF Lookups, Missed

LEMMA EntryKeeps ==
  ASSUME MapInv, NEW e \in Ends, NEW k \in Keys, NEW v \in Values \cup {Absent}, SetEntry(e, k, v)
  PROVE  MapInv'
<1>1. MapTypeOK /\ MastersNumber
  BY DEF MapInv
<1>2. PICK map2 \in Entries : map2 = [map[e] EXCEPT ![k] = v]
  BY <1>1, EndTypes DEF Entries
<1>3. map' = [map EXCEPT ![e] = map2]
  BY <1>2 DEF SetEntry
<1>4. CASE e \notin Masters
  <2>1. PICK x \in MapMessages : x = Change(k, v, Unversioned) /\ x.version = Unversioned
                                 /\ x.op # "ACK"
    BY ChangeMade DEF Unversioned
  <2>2. PICK r \in Seq(MapMessages) : r = <<x>>
    <3>1. <<x>> \in Seq(MapMessages)
      OBVIOUS
    <3> QED
      BY <3>1
  <2>3. DOMAIN r = {1} /\ r[1] = x
    <3>1. DOMAIN <<x>> = 1 .. 1 /\ <<x>>[1] = x
      OBVIOUS
    <3> QED
      BY <2>2, <3>1
  <2>4. Acks(r) = {} /\ \A y \in Changes(r) : y.version = Unversioned
    BY <2>1, <2>3 DEF Acks, Changes, Handed
  <2>5. mapWire' = Send(mapWire, e, r) /\ UNCHANGED <<nextVersion, pending, disputed, missed>>
    BY <1>4, <2>1, <2>2 DEF SetEntry
  <2> QED
    BY <1>3, <1>4, <2>4, <2>5, SlaveChangeKeeps
<1>5. CASE e \in Masters
  <2>1. PICK n \in Nat : n = nextVersion[e]
    BY <1>1, EndTypes
  <2>2. n + 1 \in Nat /\ n + 1 # Unversioned
    BY DEF Unversioned
  <2>3. PICK x \in MapMessages :
          x = Change(k, v, n + 1) /\ x.version = n + 1 /\ x.op # "ACK" /\ x.key = k
    BY <2>2, ChangeMade
  <2>4. PICK entries : entries = pending[e]
    OBVIOUS
  <2>5. entries \in SUBSET Pendings
    BY <1>1, <2>4, EndTypes
  <2>6. PICK found \in Lookups(e, k) :
          LET more == Emplace(entries, found, k, n + 1)
          IN  /\ nextVersion' = [nextVersion EXCEPT ![e] = n + 1]
              /\ \E keys : pending' = [pending EXCEPT ![e] = Dangle(more, keys)]
              /\ mapWire' = Send(mapWire, e, <<x>>)
              /\ disputed' = disputed \cup {key \in {k} : Unacknowledged(e, key)}
              /\ missed' = missed \cup Missed(e, k, found)
    BY <1>5, <2>1, <2>3, <2>4 DEF SetEntry
  <2>7. PICK more : more = Emplace(entries, found, k, n + 1)
    OBVIOUS
  <2>8. more \in SUBSET Pendings
    <3>1. [key |-> k, version |-> n + 1, dangling |-> FALSE] \in Pendings
      BY <2>2 DEF Pendings
    <3> QED
      BY <2>5, <2>7, <3>1 DEF Emplace
  <2>9. PICK entries2, keys :
          entries2 = Dangle(more, keys) /\ pending' = [pending EXCEPT ![e] = entries2]
    BY <2>6, <2>7
  <2>10. entries2 \in SUBSET Pendings
    BY <2>8, <2>9, Dangling
  <2>11. /\ nextVersion' = [nextVersion EXCEPT ![e] = n + 1]
         /\ pending' = [pending EXCEPT ![e] = entries2]
         /\ mapWire' = Send(mapWire, e, <<x>>)
    BY <2>6, <2>9
  <2>12. /\ disputed' \in SUBSET Keys /\ missed' \in SUBSET Keys
         /\ missed \subseteq missed' /\ Missed(e, k, found) \subseteq missed'
    <3>1. Missed(e, k, found) \subseteq Keys
      BY LookedUp
    <3> QED
      BY <1>1, <2>6, <3>1 DEF MapTypeOK
  <2>13. PICK q \in Seq(MapMessages) : q = mapWire[e]
    BY <1>1, EndTypes
  <2>14. PICK acks : acks = Acks(mapWire[Peer(e)])
    OBVIOUS
  <2>15. /\ Ascends(q, FALSE)
         /\ Books(Changes(q), acks, n, entries, missed)
         /\ Kept(Changes(q), acks, n, entries)
    <3>1. acks \in SUBSET MapMessages
      <4>1. Peer(e) \in Ends
        BY Peers
      <4> QED
        BY <1>1, <2>14, <4>1, EndTypes, Kinds
    <3>2. MasterInv(e)
      BY <1>5 DEF MapInv
    <3> QED
      BY <1>1, <2>1, <2>4, <2>13, <2>14, <3>1, <3>2, EndTypes DEF MasterInv
  <2>16. \A y \in Changes(q) : y.version < x.version
    <3>1. \A y \in Changes(q) : y.version \in Nat /\ y.version <= n
      BY <2>15, Numbers DEF Books
    <3> QED
      BY <2>3, <3>1
  <2>17. PICK t \in Seq(MapMessages) :
           /\ t = q \o <<x>> /\ Changes(t) = Changes(q) \cup {x} /\ Acks(t) = Acks(q)
           /\ Ascends(t, FALSE) /\ (Ascends(q, TRUE) => Ascends(t, TRUE))
    BY <2>3, <2>15, <2>16, SentOne
  <2>18. mapWire' = [mapWire EXCEPT ![e] = t]
    BY <2>11, <2>13, <2>17 DEF Send
  <2>19. \A y \in Changes(t) : y.version # Unversioned
    BY <1>1, <1>5, <2>2, <2>3, <2>13, <2>17 DEF MastersNumber
  <2>20. Books(Changes(t), acks, n + 1, more, missed')
    <3>1. Adds(entries, more, {x}, missed')
      <4>1. /\ found \in SUBSET entries
            /\ \/ \E p \in entries : p.key = k /\ found = {p}
               \/ found = {} /\ \A p \in entries : p.key = k =>
                                   p.dangling /\ p.key \in Missed(e, k, found)
        BY <2>4, LookedUp
      <4>2. found = {} => \A p \in entries : p.key = x.key => p.dangling /\ x.key \in missed'
        BY <2>3, <2>12, <4>1
      <4>3. Adds(entries, Emplace(entries, found, x.key, x.version), {x}, missed')
        BY <2>5, <4>1, <4>2, OneMore
      <4> QED
        BY <2>3, <2>7, <4>3
    <3>2. PICK sent, new, n2 : sent = Changes(q) /\ new = {x} /\ n2 = n + 1
      OBVIOUS
    <3>3. Kept(new, acks, n2, more) /\ n <= n2 /\ \A y \in new : n < y.version /\ y.version <= n2
      BY <2>2, <2>3, <2>8, <2>15, <3>2 DEF Kept
    <3>4. Books(sent, acks, n, entries, missed) /\ Kept(sent, acks, n, entries)
      BY <2>15, <3>2
    <3>5. Books(sent \cup new, acks, n2, more, missed')
      BY <2>12, <3>1, <3>2, <3>3, <3>4, MoreSent
    <3> QED
      BY <2>17, <3>2, <3>5
  <2>21. Books(Changes(t), acks, n + 1, entries2, missed')
    BY <2>8, <2>9, <2>20, Erased
  <2> QED
    BY <1>3, <1>5, <2>2, <2>10, <2>11, <2>12, <2>13, <2>14, <2>17, <2>18, <2>19, <2>21,
       MasterChangeKeeps
<1> QED
  BY <1>4, <1>5

\* Whatever their order, the removals of a clear name every key that was there once.
LEMMA Ordered ==
  ASSUME NEW present \in SUBSET Keys, NEW order \in SetToSeqs(present)
  PROVE  /\ Cardinality(present) \in Nat
         /\ order \in [1 .. Cardinality(present) -> present]
         /\ \A i, j \in 1 .. Cardinality(present) : i # j => order[i] # order[j]
         /\ \A k \in present : \E i \in 1 .. Cardinality(present) : order[i] = k
<1> DEFINE n == Cardinality(present)
<1>0. IsFiniteSet(present)
  BY MapAssumption, FS_Subset
<1>1. n \in Nat /\ IsFiniteSet(1 .. n) /\ Cardinality(1 .. n) = n
  BY <1>0, FS_CardinalityType, FS_Interval
<1>2. order \in [1 .. n -> present] /\ \A i, j \in 1 .. n : i # j => order[i] # order[j]
  BY DEF SetToSeqs
<1>3. order \in Injection(1 .. n, present)
  BY <1>2 DEF Injection, IsInjective
<1>4. order \in Surjection(1 .. n, present)
  BY <1>0, <1>1, <1>3, FS_Injection
<1>5. \A k \in present : \E i \in 1 .. n : order[i] = k
  BY <1>4 DEF Surjection
<1> QED
  BY <1>1, <1>2, <1>5

\* The messages of a clear.
ClearMessages(n, order, number) == [i \in 1 .. n |-> Change(order[i], Absent, number[i])]

LEMMA Removed ==
  ASSUME NEW n \in Nat, NEW order, NEW number,
         \A i \in 1 .. n : order[i] \in Keys /\ number[i] \in Nat,
         NEW r, r = ClearMessages(n, order, number)
  PROVE  /\ r \in Seq(MapMessages) /\ Len(r) = n /\ DOMAIN r = 1 .. n
         /\ Acks(r) = {}
         /\ \A i \in 1 .. n : /\ r[i].version = number[i] /\ r[i].op # "ACK"
                              /\ r[i].key = order[i] /\ r[i].value = Absent
         /\ \A x \in Changes(r) : \E i \in 1 .. n : x.version = number[i]
<1>1. r = [i \in 1 .. n |-> Change(order[i], Absent, number[i])]
  BY DEF ClearMessages
<1>2. ASSUME NEW i \in 1 .. n
      PROVE  /\ r[i] \in MapMessages
             /\ r[i].version = number[i] /\ r[i].op # "ACK"
             /\ r[i].key = order[i] /\ r[i].value = Absent
  <2>1. PICK k \in Keys, v \in Nat : k = order[i] /\ v = number[i]
    OBVIOUS
  <2>2. r[i] = Change(k, Absent, v)
    BY <1>1, <2>1
  <2>3. Absent \in Values \cup {Absent}
    OBVIOUS
  <2>4. /\ Change(k, Absent, v) \in MapMessages
        /\ Change(k, Absent, v).key = k /\ Change(k, Absent, v).value = Absent
        /\ Change(k, Absent, v).version = v /\ Change(k, Absent, v).op # "ACK"
    BY <2>3, ChangeMade
  <2> QED
    BY <2>1, <2>2, <2>4
<1>3. r \in [1 .. n -> MapMessages]
  BY <1>1, <1>2
<1>4. r \in Seq(MapMessages) /\ Len(r) = n /\ DOMAIN r = 1 .. n
  BY <1>3
<1>5. \A x \in Handed(r) : \E i \in 1 .. n : x = r[i]
  BY <1>4 DEF Handed
<1> QED
  BY <1>2, <1>4, <1>5 DEF Acks, Changes

Present(e) == {k \in Keys : map[e][k] # Absent}

\* What a clear does of which its proof needs to know.
Cleans(e, n, order, number) ==
  /\ \A k \in Present(e) : \E i \in 1 .. n : order[i] = k
  /\ \A i, j \in 1 .. n : i # j => order[i] # order[j]
  /\ \A i \in 1 .. n : number[i] = IF e \in Masters THEN nextVersion[e] + i ELSE Unversioned
  /\ map' = [map EXCEPT ![e] = [k \in Keys |-> Absent]]
  /\ mapWire' = Send(mapWire, e, ClearMessages(n, order, number))
  /\ e \notin Masters => UNCHANGED <<nextVersion, pending, disputed, missed>>
  /\ e \in Masters =>
       /\ nextVersion' = [nextVersion EXCEPT ![e] = nextVersion[e] + n]
       /\ \E entries \in SUBSET Pendings :
            /\ Adds(pending[e], entries, Changes(ClearMessages(n, order, number)), missed')
            /\ \A k \in Present(e) : \E p \in entries : p.key = k
            /\ pending' = [pending EXCEPT ![e] = Dangle(entries, Present(e))]
       /\ disputed' = disputed \cup {k \in Present(e) : Unacknowledged(e, k)}
       /\ missed \subseteq missed' /\ missed' \in SUBSET Keys

LEMMA ClearFacts ==
  ASSUME MapTypeOK, NEW e \in Ends, MapClear(e)
  PROVE  \E n \in Nat :
           \E order \in [1 .. n -> Present(e)], number \in [1 .. n -> Nat] :
             Cleans(e, n, order, number)
<1> DEFINE version(i) == IF e \in Masters THEN nextVersion[e] + i ELSE Unversioned
           all(n, order, found) == pending[e] \cup UNION {
             Emplace({}, found[i], order[i], version(i)) : i \in 1 .. n}
           lost(n, order, found) == UNION {Missed(e, order[i], found[i]) : i \in 1 .. n}
<1>0. Present(e) \in SUBSET Keys
  BY DEF Present
<1>1. PICK n : n = Cardinality(Present(e))
  OBVIOUS
<1>2. PICK order \in SetToSeqs(Present(e)) :
        /\ map' = [map EXCEPT ![e] = [k \in Keys |-> Absent]]
        /\ mapWire' = Send(mapWire, e, [i \in 1 .. n |-> Change(order[i], Absent, version(i))])
        /\ IF e \in Masters
           THEN \E found \in [1 .. n -> SUBSET pending[e]] :
                  /\ \A i \in 1 .. n : found[i] \in Lookups(e, order[i])
                  /\ nextVersion' = [nextVersion EXCEPT ![e] = @ + n]
                  /\ pending' = [pending EXCEPT ![e] =
                                   Dangle(all(n, order, found), Present(e))]
                  /\ disputed' = disputed \cup {k \in Present(e) : Unacknowledged(e, k)}
                  /\ missed' = missed \cup lost(n, order, found)
           ELSE UNCHANGED <<nextVersion, pending, disputed, missed>>
  BY <1>1 DEF MapClear, Present
<1>3. n \in Nat /\ order \in [1 .. n -> Present(e)]
      /\ (\A i, j \in 1 .. n : i # j => order[i] # order[j])
      /\ \A k \in Present(e) : \E i \in 1 .. n : order[i] = k
  BY <1>0, <1>1, <1>2, Ordered
<1>4. nextVersion[e] \in Nat /\ pending[e] \in SUBSET Pendings
  BY EndTypes
<1>5. \A i \in 1 .. n : version(i) \in Nat
  BY <1>3, <1>4 DEF Unversioned
<1> HIDE DEF version
<1>6. PICK number : number = [i \in 1 .. n |-> version(i)]
  OBVIOUS
<1>7. number \in [1 .. n -> Nat] /\ \A i \in 1 .. n : number[i] = version(i)
  BY <1>5, <1>6
<1>8. mapWire' = Send(mapWire, e, ClearMessages(n, order, number))
  <2>1. [i \in 1 .. n |-> Change(order[i], Absent, version(i))]
          = [i \in 1 .. n |-> Change(order[i], Absent, number[i])]
    BY <1>7
  <2> QED
    BY <1>2, <2>1 DEF ClearMessages
<1>9. \A i \in 1 .. n : number[i] = IF e \in Masters THEN nextVersion[e] + i ELSE Unversioned
  BY <1>7 DEF version
<1>10. CASE e \notin Masters
  <2>1. Cleans(e, n, order, number)
    BY <1>2, <1>3, <1>8, <1>9, <1>10 DEF Cleans
  <2> QED
    BY <1>3, <1>7, <2>1
<1>11. CASE e \in Masters
  <2>1. PICK found \in [1 .. n -> SUBSET pending[e]] :
          /\ \A i \in 1 .. n : found[i] \in Lookups(e, order[i])
          /\ nextVersion' = [nextVersion EXCEPT ![e] = @ + n]
          /\ pending' = [pending EXCEPT ![e] = Dangle(all(n, order, found), Present(e))]
          /\ disputed' = disputed \cup {k \in Present(e) : Unacknowledged(e, k)}
          /\ missed' = missed \cup lost(n, order, found)
    BY <1>2, <1>11
  <2>2. PICK entries, r, old :
          /\ entries = all(n, order, found) /\ r = ClearMessages(n, order, number)
          /\ old = pending[e]
    OBVIOUS
  <2>3. \A i \in 1 .. n : Emplace({}, found[i], order[i], version(i)) =
          IF found[i] # {} THEN {}
          ELSE {[key |-> order[i], version |-> version(i), dangling |-> FALSE]}
    BY DEF Emplace
  <2>4. \A i \in 1 .. n :
          [key |-> order[i], version |-> version(i), dangling |-> FALSE] \in Pendings
    BY <1>0, <1>3, <1>5 DEF Pendings
  <2>5. \A p : p \in entries <=>
          p \in old \/ \E i \in 1 .. n : p \in Emplace({}, found[i], order[i], version(i))
    BY <2>2
  <2>6. ASSUME NEW p \in entries, p \notin old
        PROVE  /\ p \in Pendings
               /\ \E i \in 1 .. n :
                    /\ found[i] = {}
                    /\ p = [key |-> order[i], version |-> version(i), dangling |-> FALSE]
    <3>1. PICK i \in 1 .. n : p \in Emplace({}, found[i], order[i], version(i))
      BY <2>5, <2>6
    <3>2. found[i] = {} /\ p = [key |-> order[i], version |-> version(i), dangling |-> FALSE]
      BY <2>3, <3>1
    <3> QED
      BY <2>4, <3>2
  <2>7. entries \in SUBSET Pendings
    BY <1>4, <2>2, <2>6
  <2>8. ASSUME NEW i \in 1 .. n, found[i] = {}
        PROVE  /\ \A q \in old : q.key = order[i] => q.dangling /\ q.key \in missed'
    <3>1. found[i] \in Lookups(e, order[i])
      BY <2>1
    <3>2. \A q \in old : q.key = order[i] =>
            q.dangling /\ q.key \in Missed(e, order[i], found[i])
      BY <2>2, <2>8, <3>1, LookedUp
    <3>3. Missed(e, order[i], found[i]) \subseteq missed'
      BY <2>1
    <3> QED
      BY <3>2, <3>3
  <2>9. \A i \in 1 .. n : \E x \in Changes(r) : x.key = order[i] /\ x.version = number[i]
    <3>1. \A i \in 1 .. n : order[i] \in Keys /\ number[i] \in Nat
      BY <1>0, <1>3, <1>7
    <3>2. /\ DOMAIN r = 1 .. n
          /\ \A i \in 1 .. n : /\ r[i].version = number[i] /\ r[i].op # "ACK"
                               /\ r[i].key = order[i]
      BY <1>3, <2>2, <3>1, Removed
    <3> QED
      BY <3>2 DEF Changes, Handed
  <2>10. Adds(old, entries, Changes(r), missed')
    <3>1. ASSUME NEW p \in entries, p \notin old PROVE Awaited(p, Changes(r))
      <4>1. PICK i \in 1 .. n :
              p = [key |-> order[i], version |-> version(i), dangling |-> FALSE]
        BY <2>6, <3>1
      <4> QED
        BY <1>7, <2>9, <4>1 DEF Awaited
    <3>2. ASSUME NEW p \in entries \ old, NEW q \in entries, q.key = p.key, q # p
          PROVE  q \in old /\ q.dangling /\ p.key \in missed'
      <4>1. PICK i \in 1 .. n :
              /\ found[i] = {}
              /\ p = [key |-> order[i], version |-> version(i), dangling |-> FALSE]
        BY <2>6
      <4>2. ASSUME q \notin old PROVE FALSE
        <5>1. PICK j \in 1 .. n :
                q = [key |-> order[j], version |-> version(j), dangling |-> FALSE]
          BY <2>6, <4>2
        <5>2. order[i] = order[j]
          BY <3>2, <4>1, <5>1
        <5>3. i = j
          BY <1>3, <5>2
        <5> QED
          BY <3>2, <4>1, <5>1, <5>3
      <4>3. p.key = order[i]
        BY <4>1
      <4> QED
        BY <2>8, <3>2, <4>1, <4>2, <4>3
    <3> QED
      BY <2>5, <3>1, <3>2 DEF Adds
  <2>11. ASSUME NEW k \in Present(e) PROVE \E p \in entries : p.key = k
    <3>1. PICK i \in 1 .. n : order[i] = k
      BY <1>3
    <3>2. CASE found[i] = {}
      <4>1. [key |-> k, version |-> version(i), dangling |-> FALSE]
              \in Emplace({}, found[i], order[i], version(i))
        BY <2>3, <3>1, <3>2
      <4>2. [key |-> k, version |-> version(i), dangling |-> FALSE] \in entries
        BY <2>5, <4>1
      <4> QED
        BY <4>2
    <3>3. CASE found[i] # {}
      <4>1. found[i] \in Lookups(e, k)
        BY <2>1, <3>1
      <4>2. \E p \in pending[e] : p.key = k /\ found[i] = {p}
        BY <3>3, <4>1, LookedUp
      <4> QED
        BY <2>2, <2>5, <4>2
    <3> QED
      BY <3>2, <3>3
  <2>12. missed \subseteq missed' /\ missed' \in SUBSET Keys
    <3>1. \A i \in 1 .. n : Missed(e, order[i], found[i]) \subseteq Keys
      <4> SUFFICES ASSUME NEW i \in 1 .. n PROVE Missed(e, order[i], found[i]) \subseteq Keys
        OBVIOUS
      <4>1. order[i] \in Keys /\ found[i] \in Lookups(e, order[i])
        BY <1>0, <1>3, <2>1
      <4> QED
        BY <4>1, LookedUp
    <3>2. lost(n, order, found) \subseteq Keys
      BY <3>1
    <3> QED
      BY <2>1, <3>2 DEF MapTypeOK
  <2>13. Cleans(e, n, order, number)
    BY <1>2, <1>3, <1>8, <1>9, <1>11, <2>1, <2>2, <2>7, <2>10, <2>11, <2>12 DEF Cleans
  <2> QED
    BY <1>3, <1>7, <2>13
<1> QED
  BY <1>10, <1>11

LEMMA MapClearKeeps == ASSUME MapInv, NEW e \in Ends, MapClear(e) PROVE MapInv'
<1>1. MapTypeOK /\ MastersNumber
  BY DEF MapInv
<1>2. PICK n \in Nat :
        \E order \in [1 .. n -> Present(e)], number \in [1 .. n -> Nat] :
          Cleans(e, n, order, number)
  BY <1>1, ClearFacts
<1>3. PICK order \in [1 .. n -> Present(e)], number \in [1 .. n -> Nat] :
        Cleans(e, n, order, number)
  BY <1>2
<1>4. PICK r : r = ClearMessages(n, order, number)
  OBVIOUS
<1>5. /\ r \in Seq(MapMessages) /\ DOMAIN r = 1 .. n /\ Acks(r) = {}
      /\ \A i \in 1 .. n : r[i].version = number[i] /\ r[i].op # "ACK"
      /\ \A x \in Changes(r) : \E i \in 1 .. n : x.version = number[i]
  <2>1. \A i \in 1 .. n : order[i] \in Keys /\ number[i] \in Nat
    BY DEF Present
  <2> QED
    BY <1>4, <2>1, Removed
<1>6. PICK map2 \in Entries : map2 = [k \in Keys |-> Absent]
  BY DEF Entries
<1>7. map' = [map EXCEPT ![e] = map2] /\ mapWire' = Send(mapWire, e, r)
  BY <1>3, <1>4, <1>6 DEF Cleans
<1>8. CASE e \notin Masters
  <2>1. \A x \in Changes(r) : x.version = Unversioned
    BY <1>3, <1>5, <1>8 DEF Cleans
  <2>2. UNCHANGED <<nextVersion, pending, disputed, missed>>
    BY <1>3, <1>8 DEF Cleans
  <2> QED
    BY <1>5, <1>7, <1>8, <2>1, <2>2, SlaveChangeKeeps
<1>9. CASE e \in Masters
  <2>1. PICK v \in Nat : v = nextVersion[e]
    BY <1>1, EndTypes
  <2>2. \A i \in 1 .. n : number[i] = v + i
    BY <1>3, <1>9, <2>1 DEF Cleans
  <2>3. PICK entries \in SUBSET Pendings :
          /\ Adds(pending[e], entries, Changes(r), missed')
          /\ pending' = [pending EXCEPT ![e] = Dangle(entries, Present(e))]
    BY <1>3, <1>4, <1>9 DEF Cleans
  <2>4. nextVersion' = [nextVersion EXCEPT ![e] = v + n]
    BY <1>3, <1>9, <2>1 DEF Cleans
  <2>8. PICK q \in Seq(MapMessages) : q = mapWire[e]
    BY <1>1, EndTypes
  <2>9. PICK acks \in SUBSET MapMessages : acks = Acks(mapWire[Peer(e)])
    <3>1. Peer(e) \in Ends
      BY Peers
    <3> QED
      BY <1>1, <3>1, EndTypes, Kinds
  <2>10. PICK old \in SUBSET Pendings : old = pending[e]
    BY <1>1, EndTypes
  <2>11. /\ Ascends(q, FALSE)
         /\ Books(Changes(q), acks, v, old, missed) /\ Kept(Changes(q), acks, v, old)
    <3>1. MasterInv(e)
      BY <1>9 DEF MapInv
    <3> QED
      BY <1>1, <2>1, <2>8, <2>9, <2>10, <3>1, EndTypes DEF MasterInv
  <2>12. v + n \in Nat /\ v <= v + n
    OBVIOUS
  <2>13. \A x \in Changes(r) : /\ x.version \in Nat /\ v < x.version /\ x.version <= v + n
                               /\ x.version # Unversioned
    <3>1. \A i \in 1 .. n : v + i \in Nat /\ v < v + i /\ v + i <= v + n /\ v + i # Unversioned
      BY DEF Unversioned
    <3> QED
      BY <1>5, <2>2, <3>1, ZenonT(30)
  <2>14. Ascends(r, FALSE) /\ Ascends(r, TRUE)
    <3>1. \A i, j \in 1 .. n : i < j => number[i] < number[j]
      BY <2>2
    <3> QED
      BY <1>5, <3>1 DEF Ascends
  <2>15. Precedes(q, r, FALSE) /\ Precedes(q, r, TRUE)
    <3>1. \A x \in Changes(q) : x.version \in Nat /\ x.version <= v
      BY <2>11, Numbers DEF Books
    <3>2. \A y \in Handed(r) : y.op # "ACK"
      BY <1>5 DEF Acks
    <3>3. \A x \in Changes(q), y \in Changes(r) : x.version < y.version
      BY <2>13, <3>1
    <3> QED
      BY <3>2, <3>3 DEF Precedes, Changes
  <2>16. PICK t \in Seq(MapMessages) :
           /\ t = q \o r /\ Changes(t) = Changes(q) \cup Changes(r)
           /\ Acks(t) = Acks(q) \cup Acks(r)
           /\ Ascends(q, TRUE) /\ Ascends(r, TRUE) /\ Precedes(q, r, TRUE)
                => Ascends(t, TRUE)
           /\ Ascends(q, FALSE) /\ Ascends(r, FALSE) /\ Precedes(q, r, FALSE)
                => Ascends(t, FALSE)
    BY <1>5, Joined
  <2>17. /\ Acks(t) = Acks(q) /\ Ascends(t, FALSE) /\ (Ascends(q, TRUE) => Ascends(t, TRUE))
    BY <1>5, <2>11, <2>14, <2>15, <2>16
  <2>18. mapWire' = [mapWire EXCEPT ![e] = t]
    BY <1>7, <2>8, <2>16 DEF Send
  <2>19. \A x \in Changes(t) : x.version # Unversioned
    BY <1>1, <1>9, <2>8, <2>13, <2>16 DEF MastersNumber
  <2>20. PICK entries2 \in SUBSET Pendings : entries2 = Dangle(entries, Present(e))
    BY Dangling
  <2>21. /\ disputed' \in SUBSET Keys /\ missed' \in SUBSET Keys /\ missed \subseteq missed'
    BY <1>1, <1>3, <1>9 DEF Cleans, MapTypeOK, Present
  <2>22. Books(Changes(t), acks, v + n, entries2, missed')
    <3>1. PICK sent, new, n2 : sent = Changes(q) /\ new = Changes(r) /\ n2 = v + n
      OBVIOUS
    <3>2. Kept(new, acks, n2, entries) /\ v <= n2
      BY <1>5, <2>9, <2>12, <3>1, Kinds DEF Kept
    <3>3. \A x \in new : v < x.version /\ x.version <= n2
      BY <2>13, <3>1
    <3>4. Books(sent, acks, v, old, missed) /\ Kept(sent, acks, v, old)
      BY <2>11, <3>1
    <3>5. Adds(old, entries, new, missed')
      BY <2>3, <2>10, <3>1
    <3>6. Books(sent \cup new, acks, n2, entries, missed')
      BY <2>21, <3>2, <3>3, <3>4, <3>5, MoreSent
    <3>7. Books(sent \cup new, acks, n2, entries2, missed')
      BY <2>20, <3>6, Erased
    <3> QED
      BY <2>16, <3>1, <3>7
  <2>23. pending' = [pending EXCEPT ![e] = entries2]
    BY <2>3, <2>20
  <2> QED
    BY <1>7, <1>9, <2>4, <2>8, <2>9, <2>12, <2>17, <2>18, <2>19, <2>21, <2>22, <2>23,
       MasterChangeKeeps
<1> QED
  BY <1>8, <1>9

LEMMA AckKeeps == ASSUME MapInv, NEW e \in Ends, ReceiveAck(e) PROVE MapInv'
<1>1. MapTypeOK /\ MastersNumber
  BY DEF MapInv
<1>2. PICK f \in Ends : f = Peer(e) /\ f # e /\ e = Peer(f)
  BY Peers
<1>3. PICK q \in Seq(MapMessages) : q = mapWire[f] /\ q # << >>
  BY <1>1, <1>2, EndTypes DEF ReceiveAck, Arrived
<1>4. PICK x \in MapMessages, left \in Seq(MapMessages) : TakenOff(q, x, left)
  BY <1>3, TakingOff
<1>5. /\ x.op = "ACK" /\ mapWire' = [mapWire EXCEPT ![f] = left]
      /\ UNCHANGED <<map, nextVersion, disputed>>
      /\ e \in Masters => \E found \in Lookups(e, x.key) :
           /\ pending' = [pending EXCEPT ![e] = @ \ Clears(found, x.version)]
           /\ missed' = missed \cup Missed(e, x.key, found)
  BY <1>2, <1>3, <1>4 DEF ReceiveAck, TakenOff, Message, Take
<1>6. /\ Handed(q) = Handed(left) \cup {x}
      /\ x \in Acks(q) /\ Changes(left) = Changes(q)
      /\ Ascends(q, FALSE) => Ascends(left, FALSE)
      /\ Ascends(q, TRUE) =>
           /\ Ascends(left, TRUE) /\ Acks(left) = Acks(q) \ {x}
           /\ \A y \in Acks(left) : x.version < y.version
  BY <1>4, <1>5, Handled
<1>7. e \in Masters
  BY <1>1, <1>2, <1>3, <1>6 DEF MastersNumber
<1>8. PICK found \in Lookups(e, x.key) :
        /\ pending' = [pending EXCEPT ![e] = pending[e] \ Clears(found, x.version)]
        /\ missed' = missed \cup Missed(e, x.key, found)
  BY <1>5, <1>7
<1>9. PICK entries \in SUBSET Pendings : entries = pending[e] \ Clears(found, x.version)
  BY <1>1, EndTypes
<1>10. /\ mapWire'[f] = left /\ mapWire'[e] = mapWire[e]
       /\ pending'[e] = entries /\ pending'[f] = pending[f]
  BY <1>1, <1>2, <1>5, <1>8, <1>9 DEF MapTypeOK
<1>11. MapTypeOK' /\ missed \subseteq missed'
  <2>1. Missed(e, x.key, found) \subseteq Keys
    BY LookedUp, MessageParts
  <2> QED
    BY <1>1, <1>5, <1>8, <1>9, <2>1 DEF MapTypeOK
<1>12. \A g \in Ends : g = e \/ g = f
  BY <1>2, Peers
<1>13. MastersNumber'
  <2>1. Acks(left) \subseteq Acks(q)
    BY <1>6 DEF Acks
  <2> QED
    BY <1>1, <1>2, <1>3, <1>6, <1>7, <1>10, <1>12, <2>1 DEF MastersNumber
<1>14. MasterInv(e)'
  <2>1. PICK sent, acks, n, old :
          sent = Changes(mapWire[e]) /\ acks = Acks(q) /\ n = nextVersion[e] /\ old = pending[e]
    OBVIOUS
  <2>2. /\ Ascends(mapWire[e], FALSE) /\ Ascends(q, TRUE) /\ Books(sent, acks, n, old, missed)
    BY <1>2, <1>3, <1>7, <2>1 DEF MapInv, MasterInv
  <2>3. Kept(sent, acks, n, old)
    BY <1>1, <2>1, EndTypes, Kinds
  <2>4. Acks(left) = acks \ {x} /\ \A y \in acks \ {x} : x.version < y.version
    BY <1>6, <2>1, <2>2
  <2>5. \/ \E p \in old : p.key = x.key /\ found = {p}
        \/ found = {} /\ \A p \in old : p.key = x.key => p.dangling /\ p.key \in missed'
    BY <1>8, <2>1, LookedUp
  <2>6. Books(sent, acks \ {x}, n, old \ Clears(found, x.version), missed')
    BY <1>6, <1>11, <2>1, <2>2, <2>3, <2>4, <2>5, Cleared
  <2>7. Books(sent, Acks(left), n, entries, missed')
    BY <1>9, <2>1, <2>4, <2>6
  <2> QED
    BY <1>2, <1>5, <1>6, <1>10, <2>1, <2>2, <2>7 DEF MasterInv
<1>15. f \in Masters => MasterInv(f)'
  <2> SUFFICES ASSUME f \in Masters PROVE MasterInv(f)'
    OBVIOUS
  <2>1. /\ Ascends(q, FALSE) /\ Ascends(mapWire[e], TRUE)
        /\ Books(Changes(q), Acks(mapWire[e]), nextVersion[f], pending[f], missed)
    BY <1>2, <1>3 DEF MapInv, MasterInv
  <2>2. Books(Changes(q), Acks(mapWire[e]), nextVersion[f], pending[f], missed')
    BY <1>11, <2>1, MissesGrow
  <2> QED
    BY <1>2, <1>5, <1>6, <1>10, <2>1, <2>2 DEF MasterInv
<1>16. \A g \in Masters : g = e \/ g = f
  BY <1>12, EndsAssumption
<1> QED
  BY <1>11, <1>13, <1>14, <1>15, <1>16 DEF MapInv

Acknowledgement(x) == [op |-> "ACK", key |-> x.key, value |-> Absent, version |-> x.version]

\* What handling a change does to an end's wire and the other's.
LEMMA ChangeHandled ==
  ASSUME MapTypeOK, NEW e \in Ends, ReceiveChange(e)
  PROVE  \E x \in MapMessages, left \in Seq(MapMessages), t \in Seq(MapMessages) :
           /\ TakenOff(mapWire[Peer(e)], x, left) /\ x.op # "ACK" /\ x = Message(mapWire, e)
           /\ mapWire' = [mapWire EXCEPT ![Peer(e)] = left, ![e] = t]
           /\ x.version = Unversioned => t = mapWire[e]
           /\ x.version # Unversioned => t = mapWire[e] \o <<Acknowledgement(x)>>
<1>1. PICK f \in Ends : f = Peer(e) /\ f # e
  BY Peers
<1>2. PICK q \in Seq(MapMessages) : q = mapWire[f] /\ q # << >>
  BY <1>1, EndTypes DEF ReceiveChange, Arrived
<1>3. PICK x \in MapMessages, left \in Seq(MapMessages) : TakenOff(q, x, left)
  BY <1>2, TakingOff
<1>4. x = Message(mapWire, e) /\ Take(mapWire, e) = [mapWire EXCEPT ![f] = left]
  BY <1>1, <1>2, <1>3 DEF TakenOff, Message, Take
<1>5. PICK taken : taken = [mapWire EXCEPT ![f] = left]
  OBVIOUS
<1>6. /\ x.op # "ACK"
      /\ x.version = Unversioned => mapWire' = taken
      /\ x.version # Unversioned => mapWire' = Send(taken, e, <<Acknowledgement(x)>>)
  BY <1>4, <1>5 DEF ReceiveChange, Acknowledgement
<1>7. PICK w \in Seq(MapMessages) : w = mapWire[e]
  BY EndTypes
<1>8. taken[e] = w /\ taken \in [Ends -> Seq(MapMessages)]
  BY <1>1, <1>5, <1>7 DEF MapTypeOK
<1>9. CASE x.version = Unversioned
  <2>1. [mapWire EXCEPT ![f] = left, ![e] = w] = taken
    BY <1>1, <1>5, <1>7, <1>8 DEF MapTypeOK
  <2> QED
    BY <1>1, <1>2, <1>3, <1>4, <1>6, <1>7, <1>9, <2>1
<1>10. CASE x.version # Unversioned
  <2>1. PICK ack \in MapMessages : ack = Acknowledgement(x)
    BY MessageParts DEF Acknowledgement, MapMessages
  <2>2. PICK t \in Seq(MapMessages) : t = w \o <<ack>>
    BY SentOne
  <2>3. mapWire' = [taken EXCEPT ![e] = t]
    BY <1>6, <1>8, <1>10, <2>1, <2>2 DEF Send
  <2>4. mapWire' = [mapWire EXCEPT ![f] = left, ![e] = t]
    BY <1>5, <2>3
  <2> QED
    BY <1>1, <1>2, <1>3, <1>4, <1>6, <1>7, <1>10, <2>1, <2>2, <2>4
<1> QED
  BY <1>9, <1>10

LEMMA TakingKeeps == ASSUME MapInv, NEW e \in Ends, ReceiveChange(e) PROVE MapInv'
<1>1. MapTypeOK /\ MastersNumber
  BY DEF MapInv
<1>2. PICK f \in Ends : f = Peer(e) /\ f # e /\ e = Peer(f)
  BY Peers
<1>3. PICK x \in MapMessages, left \in Seq(MapMessages), t \in Seq(MapMessages) :
        /\ TakenOff(mapWire[f], x, left) /\ x.op # "ACK" /\ x = Message(mapWire, e)
        /\ mapWire' = [mapWire EXCEPT ![f] = left, ![e] = t]
        /\ x.version = Unversioned => t = mapWire[e]
        /\ x.version # Unversioned => t = mapWire[e] \o <<Acknowledgement(x)>>
  BY <1>1, <1>2, ChangeHandled
<1>4. PICK q \in Seq(MapMessages), w \in Seq(MapMessages) : q = mapWire[f] /\ w = mapWire[e]
  BY <1>1, EndTypes
<1>5. x.key \in Keys /\ x.version \in Nat /\ x.value \in Values \cup {Absent}
  BY MessageParts
<1>6. /\ x \in Changes(q) /\ Acks(left) = Acks(q)
      /\ Ascends(q, TRUE) => Ascends(left, TRUE)
      /\ Ascends(q, FALSE) =>
           /\ Ascends(left, FALSE) /\ Changes(left) = Changes(q) \ {x}
           /\ \A y \in Changes(left) : x.version < y.version
  BY <1>3, <1>4, Handled
<1>7. x.version # Unversioned <=> f \in Masters
  BY <1>1, <1>4, <1>6 DEF MastersNumber
<1>8. /\ map' = map \/ map' = [map EXCEPT ![e][x.key] = x.value]
      /\ \E keys : pending' = [pending EXCEPT ![e] = Dangle(pending[e], keys)]
      /\ missed' = missed
         \/ \E found \in Lookups(e, x.key) : missed' = missed \cup Missed(e, x.key, found)
      /\ UNCHANGED <<nextVersion, disputed>>
  BY <1>3 DEF ReceiveChange
<1>9. PICK entries \in SUBSET Pendings :
        /\ pending' = [pending EXCEPT ![e] = entries]
        /\ \A sent, acks, n : Books(sent, acks, n, pending[e], missed) =>
             Books(sent, acks, n, entries, missed)
        /\ pending[e] = {} => entries = {}
  <2>1. PICK keys : pending' = [pending EXCEPT ![e] = Dangle(pending[e], keys)]
    BY <1>8
  <2>2. pending[e] \in SUBSET Pendings
    BY <1>1, EndTypes
  <2>3. Dangle(pending[e], keys) \in SUBSET Pendings
    BY <2>2, Dangling
  <2>4. \A sent, acks, n : Books(sent, acks, n, pending[e], missed) =>
          Books(sent, acks, n, Dangle(pending[e], keys), missed)
    BY <2>2, Erased
  <2>5. pending[e] = {} => Dangle(pending[e], keys) = {}
    BY DEF Dangle
  <2> QED
    BY <2>1, <2>3, <2>4, <2>5
<1>10. missed \subseteq missed' /\ missed' \in SUBSET Keys
  <2>1. \A found \in Lookups(e, x.key) : Missed(e, x.key, found) \subseteq Keys
    BY <1>5, LookedUp
  <2> QED
    BY <1>1, <1>8, <2>1 DEF MapTypeOK
<1>11. MapTypeOK'
  <2>1. map' \in [Ends -> Entries]
    <3>1. PICK map2 \in Entries : map2 = [map[e] EXCEPT ![x.key] = x.value]
      BY <1>1, <1>5, EndTypes DEF Entries
    <3>2. CASE map' = [map EXCEPT ![e][x.key] = x.value]
      <4>1. map' = [map EXCEPT ![e] = map2]
        BY <3>1, <3>2
      <4> QED
        BY <1>1, <4>1 DEF MapTypeOK
    <3> QED
      BY <1>1, <1>8, <3>2 DEF MapTypeOK
  <2> QED
    BY <1>1, <1>3, <1>8, <1>9, <1>10, <2>1 DEF MapTypeOK
<1>12. /\ mapWire'[f] = left /\ mapWire'[e] = t
       /\ pending'[e] = entries /\ pending'[f] = pending[f]
       /\ nextVersion'[e] = nextVersion[e] /\ nextVersion'[f] = nextVersion[f]
  BY <1>1, <1>2, <1>3, <1>8, <1>9 DEF MapTypeOK
<1>13. PICK ack \in MapMessages : ack = Acknowledgement(x) /\ ack.op = "ACK"
                                  /\ ack.key = x.key /\ ack.version = x.version
  <2>1. Acknowledgement(x) \in MapMessages
    BY <1>5 DEF Acknowledgement, MapMessages
  <2> QED
    BY <2>1 DEF Acknowledgement
<1>14. /\ f \notin Masters => t = w
       /\ f \in Masters => t = w \o <<ack>>
  BY <1>3, <1>4, <1>7, <1>13
<1>15. /\ Changes(t) = Changes(w)
       /\ Ascends(w, FALSE) => Ascends(t, FALSE)
       /\ f \in Masters =>
            /\ Acks(t) = Acks(w) \cup {ack}
            /\ Ascends(w, TRUE) /\ (\A y \in Acks(w) : y.version < x.version)
                 => Ascends(t, TRUE)
  <2>1. CASE f \notin Masters
    BY <1>14, <2>1
  <2>2. CASE f \in Masters
    <3>1. /\ Changes(w \o <<ack>>) = Changes(w) /\ Acks(w \o <<ack>>) = Acks(w) \cup {ack}
          /\ Ascends(w, FALSE) => Ascends(w \o <<ack>>, FALSE)
          /\ Ascends(w, TRUE) /\ (\A y \in Acks(w) : y.version < ack.version)
               => Ascends(w \o <<ack>>, TRUE)
      BY <1>13, SentOne
    <3>2. ack.version = x.version
      BY <1>13
    <3> QED
      BY <1>14, <2>2, <3>1, <3>2
  <2> QED
    BY <2>1, <2>2
<1>16. \A g \in Ends : g = e \/ g = f
  BY <1>2, Peers
<1>17. MastersNumber'
  <2>1. Changes(left) \subseteq Changes(q)
    <3>1. Handed(q) = Handed(left) \cup {x}
      BY <1>3, <1>4, Handled
    <3> QED
      BY <3>1 DEF Changes
  <2> QED
    BY <1>1, <1>2, <1>4, <1>6, <1>9, <1>12, <1>14, <1>15, <1>16, <2>1 DEF MastersNumber
<1>18. e \in Masters => MasterInv(e)'
  <2> SUFFICES ASSUME e \in Masters PROVE MasterInv(e)'
    OBVIOUS
  <2>1. /\ Ascends(w, FALSE) /\ Ascends(q, TRUE)
        /\ Books(Changes(w), Acks(q), nextVersion[e], pending[e], missed)
    BY <1>2, <1>4 DEF MapInv, MasterInv
  <2>2. Books(Changes(w), Acks(q), nextVersion[e], entries, missed')
    BY <1>9, <1>10, <2>1, MissesGrow
  <2> QED
    BY <1>2, <1>6, <1>12, <1>15, <2>1, <2>2 DEF MasterInv
<1>19. f \in Masters => MasterInv(f)'
  <2> SUFFICES ASSUME f \in Masters PROVE MasterInv(f)'
    OBVIOUS
  <2>1. PICK sent, acks, n, old :
          sent = Changes(q) /\ acks = Acks(w) /\ n = nextVersion[f] /\ old = pending[f]
    OBVIOUS
  <2>2. Ascends(q, FALSE) /\ Ascends(w, TRUE) /\ Books(sent, acks, n, old, missed)
    BY <1>2, <1>4, <2>1 DEF MapInv, MasterInv
  <2>3. Kept(sent, acks, n, old)
    BY <1>1, <1>4, <2>1, EndTypes, Kinds
  <2>4. x \in sent /\ \A y \in sent \ {x} : x.version < y.version
    BY <1>6, <2>1, <2>2
  <2>5. Books(sent \ {x}, acks \cup {ack}, n, old, missed)
    BY <1>13, <2>2, <2>3, <2>4, TurnsBack
  <2>6. Books(sent \ {x}, acks \cup {ack}, n, old, missed')
    BY <1>10, <2>5, MissesGrow
  <2>7. \A y \in acks : y.version < x.version
    BY <2>2, <2>4 DEF Books
  <2> QED
    BY <1>2, <1>6, <1>12, <1>15, <2>1, <2>2, <2>6, <2>7 DEF MasterInv
<1>20. \A g \in Masters : g = e \/ g = f
  BY <1>16, EndsAssumption
<1> QED
  BY <1>11, <1>17, <1>18, <1>19, <1>20 DEF MapInv

LEMMA MapStep == ASSUME MapInv, [ReplicasNext]_replicaVars PROVE MapInv'
<1>1. CASE UNCHANGED mapVars
  BY <1>1 DEF mapVars, MapInv, MapTypeOK, MastersNumber, MasterInv
<1>2. CASE MapNext
  BY <1>2, EntryKeeps, MapClearKeeps, AckKeeps, TakingKeeps DEF MapNext, MapChange
<1> QED
  BY <1>1, <1>2 DEF ReplicasNext, replicaVars

LEMMA MapInvariant == ReplicasSpec => []MapInv
<1>1. ReplicasInit => MapInv
  BY MapInitKeeps DEF ReplicasInit
<1>2. MapInv /\ [ReplicasNext]_replicaVars => MapInv'
  BY MapStep
<1> QED
  BY <1>1, <1>2, PTL DEF ReplicasSpec

\* With one master or two, every entry that waits for an acknowledgement is cleared by
\* the time everything has arrived, save those of a key that was erased and whose entry a
\* lookup then missed (RdMap.h, on_wire_received).
THEOREM KeysAreUnlocked == ReplicasSpec => []NoKeyStaysLocked
<1>1. MapInv => NoKeyStaysLocked
  <2> SUFFICES ASSUME MapInv, Quiet(mapWire), NEW e \in Ends, NEW p \in pending[e]
               PROVE  p.key \in missed /\ \E q \in pending[e] : q.key = p.key /\ q.dangling
    BY DEF NoKeyStaysLocked
  <2>1. Changes(mapWire[e]) = {} /\ Acks(mapWire[Peer(e)]) = {}
    <3>1. DOMAIN << >> = {}
      OBVIOUS
    <3>2. mapWire[e] = << >> /\ mapWire[Peer(e)] = << >>
      BY Peers DEF Quiet
    <3> QED
      BY <3>1, <3>2 DEF Changes, Acks, Handed
  <2>2. e \in Masters
    BY DEF MapInv, MastersNumber
  <2>3. MasterInv(e)
    BY <2>2 DEF MapInv
  <2>4. p.key \in missed /\ Stuck(p, pending[e], {})
    BY <2>1, <2>3 DEF MasterInv, Books, Awaited
  <2> QED
    BY <2>4 DEF Stuck
<1> QED
  BY <1>1, MapInvariant, PTL

-------------------------------------------------------------------------------
(***************************************************************************)
(* A map with one master m and the other end s.  Of a key that is not      *)
(* disputed, and that no lookup has missed, at most one change of the      *)
(* master's is under way, there or back, and until its acknowledgement is  *)
(* handled the master rejects what the other end sends of the key.         *)
(***************************************************************************)

\* The keys RdMap keeps in step.
Tracked == Keys \ (disputed \cup missed)

\* At the master, key k of which sent and acks are under way.
Single(sent, acks, entries, k) ==
  /\ \A x \in sent \cup acks : x.key = k => \E p \in entries : p.key = k
  /\ \A x, y \in sent \cup acks : x.key = k /\ y.key = k => x = y

\* What the last message of k in q says of k's value here at the master, mine, and at
\* the other end, yours.
LastWord(q, k, mine, yours) ==
  /\ \A j \in DOMAIN q :
       q[j].key = k /\ (\A i \in DOMAIN q : j < i => q[i].key # k) =>
         IF q[j].op = "ACK" THEN mine = yours ELSE q[j].value = yours
  /\ (\A j \in DOMAIN q : q[j].key # k) => mine = yours

Agreeing(m, s, k) ==
  /\ Single(Changes(mapWire[m]), Acks(mapWire[s]), pending[m], k)
  /\ \A x \in Changes(mapWire[m]) : x.key = k => x.value = map[m][k]
  /\ (\A x \in Changes(mapWire[m]) : x.key # k) =>
       LastWord(mapWire[s], k, map[m][k], map[s][k])

AgreeInv(m, s) == MapInv /\ \A k \in Tracked : Agreeing(m, s, k)

LEMMA LastWordSent ==
  ASSUME NEW q \in Seq(MapMessages), NEW r \in Seq(MapMessages), NEW k, NEW mine, NEW yours
  PROVE  /\ (\A i \in DOMAIN r : r[i].key # k) /\ LastWord(q, k, mine, yours) =>
              LastWord(q \o r, k, mine, yours)
         /\ /\ \E i \in DOMAIN r : r[i].key = k
            /\ \A i \in DOMAIN r : r[i].key = k =>
                 IF r[i].op = "ACK" THEN mine = yours ELSE r[i].value = yours
            => LastWord(q \o r, k, mine, yours)
<1>1. PICK t \in Seq(MapMessages) : t = q \o r
  BY ConcatProperties
<1>2. /\ Len(t) = Len(q) + Len(r)
      /\ \A i \in 1 .. Len(q) + Len(r) : t[i] = IF i <= Len(q) THEN q[i] ELSE r[i - Len(q)]
  BY <1>1, ConcatProperties
<1>3. /\ Len(q) \in Nat /\ Len(r) \in Nat
      /\ DOMAIN q = 1 .. Len(q) /\ DOMAIN r = 1 .. Len(r) /\ DOMAIN t = 1 .. Len(q) + Len(r)
  BY <1>2, Lengths
<1>4. \A i \in DOMAIN q : i \in DOMAIN t /\ t[i] = q[i]
  BY <1>2, <1>3
<1>5. \A i \in DOMAIN r : i + Len(q) \in DOMAIN t /\ t[i + Len(q)] = r[i]
  BY <1>2, <1>3
<1>6. \A i \in DOMAIN t :
        \/ i \in DOMAIN q /\ t[i] = q[i]
        \/ i > Len(q) /\ i - Len(q) \in DOMAIN r /\ t[i] = r[i - Len(q)]
  BY <1>2, <1>3
<1>7. ASSUME \A i \in DOMAIN r : r[i].key # k, LastWord(q, k, mine, yours)
      PROVE  LastWord(t, k, mine, yours)
  <2>1. \A i \in DOMAIN t : t[i].key = k => i \in DOMAIN q /\ t[i] = q[i]
    BY <1>6, <1>7
  <2>2. \A j \in DOMAIN t :
          t[j].key = k /\ (\A i \in DOMAIN t : j < i => t[i].key # k) =>
            j \in DOMAIN q /\ q[j].key = k /\ \A i \in DOMAIN q : j < i => q[i].key # k
    BY <1>4, <2>1
  <2>3. (\A j \in DOMAIN t : t[j].key # k) => \A j \in DOMAIN q : q[j].key # k
    BY <1>4
  <2> QED
    BY <1>7, <2>1, <2>2, <2>3 DEF LastWord
<1>8. ASSUME \E i \in DOMAIN r : r[i].key = k,
             \A i \in DOMAIN r : r[i].key = k =>
               IF r[i].op = "ACK" THEN mine = yours ELSE r[i].value = yours
      PROVE  LastWord(t, k, mine, yours)
  <2>1. PICK z \in DOMAIN r : r[z].key = k
    BY <1>8
  <2>2. z + Len(q) \in DOMAIN t /\ t[z + Len(q)].key = k
    BY <1>5, <2>1
  <2>3. ASSUME NEW j \in DOMAIN t, t[j].key = k, \A i \in DOMAIN t : j < i => t[i].key # k
        PROVE  IF t[j].op = "ACK" THEN mine = yours ELSE t[j].value = yours
    <3>1. j \notin DOMAIN q
      BY <1>3, <2>2, <2>3
    <3>2. j - Len(q) \in DOMAIN r /\ t[j] = r[j - Len(q)]
      BY <1>6, <3>1
    <3> QED
      BY <1>8, <2>3, <3>2
  <2> QED
    BY <2>2, <2>3 DEF LastWord
<1> QED
  BY <1>1, <1>7, <1>8

LEMMA LastWordTaken ==
  ASSUME NEW q \in Seq(MapMessages), NEW x \in MapMessages, NEW left \in Seq(MapMessages),
         TakenOff(q, x, left), NEW k, NEW mine, NEW yours, LastWord(q, k, mine, yours)
  PROVE  /\ x.key # k \/ x.op = "ACK" => LastWord(left, k, mine, yours)
         /\ (\E y \in Handed(left) : y.key = k) => LastWord(left, k, mine, yours)
         /\ x.key = k /\ x.op # "ACK" /\ (\A y \in Acks(left) : y.key # k) =>
              LastWord(left, k, x.value, yours)
<1>1. /\ Len(q) \in Nat \ {0} /\ DOMAIN q = 1 .. Len(q) /\ DOMAIN left = 1 .. Len(q) - 1
      /\ x = q[1] /\ \A i \in 1 .. Len(q) - 1 : left[i] = q[i + 1]
  BY DEF TakenOff
<1>2. \A i \in DOMAIN left : i \in Nat /\ i + 1 \in DOMAIN q /\ left[i] = q[i + 1]
  BY <1>1
<1>3. \A i \in DOMAIN q : i \in Nat /\
        (i = 1 \/ (1 < i /\ i - 1 \in DOMAIN left /\ left[i - 1] = q[i]))
  BY <1>1
<1>4. 1 \in DOMAIN q /\ x = q[1]
  BY <1>1
<1>5. ASSUME NEW j \in DOMAIN left, left[j].key = k,
             \A i \in DOMAIN left : j < i => left[i].key # k
      PROVE  IF left[j].op = "ACK" THEN mine = yours ELSE left[j].value = yours
  <2>1. \A i \in DOMAIN q : j + 1 < i => q[i].key # k
    <3> SUFFICES ASSUME NEW i \in DOMAIN q, j + 1 < i PROVE q[i].key # k
      OBVIOUS
    <3>1. i # 1
      BY <1>2
    <3>2. i \in Nat /\ i - 1 \in DOMAIN left /\ left[i - 1] = q[i]
      BY <1>3, <3>1
    <3>3. j < i - 1
      BY <1>2, <3>2
    <3> QED
      BY <1>5, <3>2, <3>3
  <2>2. j + 1 \in DOMAIN q /\ left[j] = q[j + 1]
    BY <1>2
  <2> QED
    BY <1>5, <2>1, <2>2 DEF LastWord
<1>6. ASSUME \A j \in DOMAIN left : left[j].key # k
      PROVE  IF x.key = k THEN IF x.op = "ACK" THEN mine = yours ELSE x.value = yours
                          ELSE mine = yours
  <2>1. \A i \in DOMAIN q : 1 < i => q[i].key # k
    BY <1>3, <1>6
  <2>2. CASE x.key = k
    BY <1>4, <2>1, <2>2 DEF LastWord
  <2>3. CASE x.key # k
    <3>1. \A i \in DOMAIN q : q[i].key # k
      BY <1>3, <1>4, <2>1, <2>3
    <3> QED
      BY <2>3, <3>1 DEF LastWord
  <2> QED
    BY <2>2, <2>3
<1>7. x.key # k \/ x.op = "ACK" => LastWord(left, k, mine, yours)
  BY <1>5, <1>6 DEF LastWord
<1>8. (\E y \in Handed(left) : y.key = k) => LastWord(left, k, mine, yours)
  BY <1>5 DEF LastWord, Handed
<1>9. ASSUME x.key = k, x.op # "ACK", \A y \in Acks(left) : y.key # k
      PROVE  LastWord(left, k, x.value, yours)
  <2>1. \A j \in DOMAIN left : left[j].key = k => left[j].op # "ACK"
    BY <1>9 DEF Acks, Handed
  <2> QED
    BY <1>5, <1>6, <1>9, <2>1 DEF LastWord
<1> QED
  BY <1>7, <1>8, <1>9

LEMMA Roles ==
  ASSUME NEW m, NEW s, OneMaster(m, s), MapInv
  PROVE  /\ m \in Ends /\ s \in Ends /\ m # s /\ s = Peer(m) /\ m = Peer(s)
         /\ m \in Masters /\ s \notin Masters
         /\ Ends = {m, s}
         /\ MapTypeOK
         /\ Acks(mapWire[m]) = {} /\ Handed(mapWire[m]) = Changes(mapWire[m])
         /\ pending[s] = {}
         /\ mapWire[m] \in Seq(MapMessages) /\ mapWire[s] \in Seq(MapMessages)
         /\ pending[m] \in SUBSET Pendings
         /\ Ascends(mapWire[m], FALSE) /\ Ascends(mapWire[s], TRUE)
         /\ Books(Changes(mapWire[m]), Acks(mapWire[s]), nextVersion[m], pending[m], missed)
<1>1. /\ m \in Ends /\ s \in Ends /\ m # s /\ s = Peer(m) /\ m = Peer(s)
      /\ m \in Masters /\ s \notin Masters
      /\ MapTypeOK
  BY Peers DEF OneMaster, MapInv
<1>2. Ends = {m, s}
  BY DEF OneMaster, Ends, Peer
<1>3. Acks(mapWire[m]) = {} /\ pending[s] = {}
  BY <1>1 DEF MapInv, MastersNumber
<1>4. mapWire[m] \in Seq(MapMessages) /\ mapWire[s] \in Seq(MapMessages)
      /\ pending[m] \in SUBSET Pendings
  BY <1>1, EndTypes
<1>5. Handed(mapWire[m]) = Changes(mapWire[m])
  BY <1>3, <1>4, Kinds
<1>6. MasterInv(m)
  BY <1>1 DEF MapInv
<1> QED
  BY <1>1, <1>2, <1>3, <1>4, <1>5, <1>6 DEF MasterInv

\* A key of which nothing changed but what goes on around it.
LEMMA NotOfKey ==
  ASSUME NEW m, NEW s, NEW k, Agreeing(m, s, k),
         \A x \in Changes(mapWire'[m]) : x.key = k => x \in Changes(mapWire[m]),
         \A x \in Changes(mapWire[m]) : x.key = k => x \in Changes(mapWire'[m]),
         \A x \in Acks(mapWire'[s]) : x.key = k => x \in Acks(mapWire[s]),
         \A p \in pending[m] : p.key = k => \E p2 \in pending'[m] : p2.key = k,
         map'[m][k] = map[m][k], map'[s][k] = map[s][k],
         LastWord(mapWire[s], k, map[m][k], map[s][k]) =>
           LastWord(mapWire'[s], k, map[m][k], map[s][k])
  PROVE  Agreeing(m, s, k)'
<1>1. Single(Changes(mapWire'[m]), Acks(mapWire'[s]), pending'[m], k)
  <2>1. \A x \in Changes(mapWire'[m]) \cup Acks(mapWire'[s]) :
          x.key = k => x \in Changes(mapWire[m]) \cup Acks(mapWire[s])
    OBVIOUS
  <2> QED
    BY <2>1 DEF Agreeing, Single
<1> QED
  BY <1>1 DEF Agreeing

\* What dangles stays in the books.
LEMMA Remains ==
  ASSUME NEW entries \in SUBSET Pendings, NEW keys
  PROVE  \A p \in entries : \E p2 \in Dangle(entries, keys) : p2.key = p.key
<1>1. \A q \in entries : \E p \in Dangle(entries, keys) : q.key = p.key
  BY Dangling
<1> QED
  BY <1>1

LEMMA MasterEntryAgrees ==
  ASSUME NEW m, NEW s, OneMaster(m, s), AgreeInv(m, s),
         NEW k0 \in Keys, NEW v \in Values \cup {Absent}, SetEntry(m, k0, v),
         NEW k \in Tracked'
  PROVE  Agreeing(m, s, k)'
<1>1. /\ m \in Ends /\ s \in Ends /\ m # s /\ s = Peer(m) /\ m \in Masters
      /\ MapTypeOK /\ pending[m] \in SUBSET Pendings
      /\ Acks(mapWire[m]) = {} /\ Handed(mapWire[m]) = Changes(mapWire[m])
  BY Roles DEF AgreeInv
<1>2. PICK q \in Seq(MapMessages) : q = mapWire[m]
  BY <1>1, EndTypes
<1>3. PICK n \in Nat : n = nextVersion[m] + 1
  BY <1>1, EndTypes
<1>4. PICK x \in MapMessages : x = Change(k0, v, n) /\ x.key = k0 /\ x.value = v /\ x.op # "ACK"
  BY ChangeMade
<1>5. PICK found \in Lookups(m, k0) :
        LET more == Emplace(pending[m], found, k0, n)
        IN  /\ \E keys : pending' = [pending EXCEPT ![m] = Dangle(more, keys)]
            /\ mapWire' = Send(mapWire, m, <<x>>)
            /\ disputed' = disputed \cup {key \in {k0} : Unacknowledged(m, key)}
            /\ missed \subseteq missed'
  BY <1>1, <1>3, <1>4 DEF SetEntry
<1>6. PICK more : more = Emplace(pending[m], found, k0, n)
  OBVIOUS
<1>7. pending[m] \subseteq more /\ more \in SUBSET Pendings /\ \E p \in more : p.key = k0
  <2>1. pending[m] \subseteq more /\ more \in SUBSET Pendings
    <3>1. [key |-> k0, version |-> n, dangling |-> FALSE] \in Pendings
      BY DEF Pendings
    <3> QED
      BY <1>1, <1>6, <3>1 DEF Emplace
  <2>2. CASE found = {}
    <3>1. [key |-> k0, version |-> n, dangling |-> FALSE] \in more
      BY <1>6, <2>2 DEF Emplace
    <3> QED
      BY <2>1, <3>1
  <2>3. CASE found # {}
    <3>1. \E p \in pending[m] : p.key = k0
      BY <1>1, <2>3, LookedUp
    <3> QED
      BY <2>1, <3>1
  <2> QED
    BY <2>2, <2>3
<1>8. \A p \in more : \E p2 \in pending'[m] : p2.key = p.key
  <2>1. PICK keys : pending' = [pending EXCEPT ![m] = Dangle(more, keys)]
    BY <1>5, <1>6
  <2>2. pending'[m] = Dangle(more, keys)
    BY <1>1, <2>1 DEF MapTypeOK
  <2> QED
    BY <1>7, <2>2, Remains
<1>9. k \in Tracked /\ (k = k0 => ~Unacknowledged(m, k0))
  BY <1>5 DEF Tracked
<1>10. PICK t \in Seq(MapMessages) :
         t = q \o <<x>> /\ Changes(t) = Changes(q) \cup {x}
  BY <1>4, SentOne
<1>11. mapWire'[m] = t /\ mapWire'[s] = mapWire[s]
  BY <1>1, <1>2, <1>5, <1>10 DEF Send, MapTypeOK
<1>12. map' = [map EXCEPT ![m][k0] = v]
  BY DEF SetEntry
<1>13. map'[s] = map[s] /\ map'[m] = [map[m] EXCEPT ![k0] = v] /\ map[m] \in [Keys -> Values \cup {Absent}]
  BY <1>1, <1>12, EndTypes DEF MapTypeOK, Entries
<1>14. Agreeing(m, s, k)
  BY <1>9 DEF AgreeInv
<1>15. CASE k # k0
  <2>1. \A p \in pending[m] : p.key = k => \E p2 \in pending'[m] : p2.key = k
    BY <1>7, <1>8
  <2>2. map'[m][k] = map[m][k] /\ map'[s][k] = map[s][k]
    BY <1>13, <1>15 DEF Tracked
  <2>3. \A y \in Changes(t) : y.key = k => y \in Changes(q)
    BY <1>4, <1>10, <1>15
  <2> QED
    BY <1>2, <1>10, <1>11, <1>14, <2>1, <2>2, <2>3, NotOfKey
<1>16. CASE k = k0
  <2>1. \A y \in Changes(q) : y.key # k
    <3>1. \A i \in DOMAIN q : q[i].key # k
      BY <1>2, <1>9, <1>16 DEF Unacknowledged
    <3> QED
      BY <3>1 DEF Changes, Handed
  <2>2. \A y \in Acks(mapWire[s]) : y.key # k
    <3>1. \A i \in DOMAIN mapWire[s] : mapWire[s][i].op = "ACK" => mapWire[s][i].key # k
      BY <1>1, <1>9, <1>16 DEF Unacknowledged
    <3> QED
      BY <3>1 DEF Acks, Handed
  <2>3. \E p \in pending'[m] : p.key = k
    BY <1>7, <1>8, <1>16
  <2>4. Single(Changes(t), Acks(mapWire[s]), pending'[m], k)
    BY <1>10, <2>1, <2>2, <2>3 DEF Single
  <2>5. map'[m][k] = v
    BY <1>13, <1>16
  <2>6. \A y \in Changes(t) : y.key = k => y.value = v
    BY <1>4, <1>10, <2>1
  <2>7. x \in Changes(t) /\ x.key = k
    BY <1>4, <1>10, <1>16
  <2> QED
    BY <1>11, <2>4, <2>5, <2>6, <2>7 DEF Agreeing
<1> QED
  BY <1>15, <1>16

LEMMA SlaveSends ==
  ASSUME NEW m, NEW s, OneMaster(m, s), AgreeInv(m, s),
         NEW r \in Seq(MapMessages), mapWire' = Send(mapWire, s, r),
         \A i \in DOMAIN r : r[i].op # "ACK",
         NEW row, map' = [map EXCEPT ![s] = row],
         UNCHANGED <<pending, disputed, missed>>,
         NEW k \in Tracked,
         \A i \in DOMAIN r : r[i].key = k => r[i].value = row[k],
         (\A i \in DOMAIN r : r[i].key # k) => row[k] = map[s][k]
  PROVE  Agreeing(m, s, k)'
<1>1. /\ m \in Ends /\ s \in Ends /\ m # s /\ MapTypeOK
  BY Roles DEF AgreeInv
<1>2. PICK q \in Seq(MapMessages) : q = mapWire[s]
  BY <1>1, EndTypes
<1>3. PICK t \in Seq(MapMessages) : t = q \o r /\ Acks(t) = Acks(q) \cup Acks(r)
  BY Joined
<1>4. Acks(t) = Acks(q)
  BY <1>3 DEF Acks, Handed
<1>5. mapWire'[s] = t /\ mapWire'[m] = mapWire[m] /\ map'[s] = row /\ map'[m] = map[m]
  BY <1>1, <1>2, <1>3 DEF Send, MapTypeOK
<1>6. Agreeing(m, s, k)
  BY DEF AgreeInv
<1>7. LastWord(q, k, map[m][k], map[s][k]) => LastWord(t, k, map[m][k], row[k])
  <2>1. PICK mine, yours, new : mine = map[m][k] /\ yours = map[s][k] /\ new = row[k]
    OBVIOUS
  <2>2. CASE \A i \in DOMAIN r : r[i].key # k
    <3>1. LastWord(q, k, mine, yours) => LastWord(t, k, mine, yours)
      BY <1>3, <2>2, LastWordSent
    <3> QED
      BY <2>1, <2>2, <3>1
  <2>3. CASE \E i \in DOMAIN r : r[i].key = k
    <3>1. LastWord(t, k, mine, new)
      BY <1>3, <2>1, <2>3, LastWordSent
    <3> QED
      BY <2>1, <3>1
  <2> QED
    BY <2>2, <2>3
<1> QED
  BY <1>2, <1>4, <1>5, <1>6, <1>7 DEF Agreeing

LEMMA SlaveEntryAgrees ==
  ASSUME NEW m, NEW s, OneMaster(m, s), AgreeInv(m, s),
         NEW k0 \in Keys, NEW v \in Values \cup {Absent}, SetEntry(s, k0, v),
         NEW k \in Tracked'
  PROVE  Agreeing(m, s, k)'
<1>1. s \in Ends /\ s \notin Masters /\ MapTypeOK
  BY Roles DEF AgreeInv
<1>2. PICK x \in MapMessages :
        x = Change(k0, v, Unversioned) /\ x.key = k0 /\ x.value = v /\ x.op # "ACK"
  BY ChangeMade DEF Unversioned
<1>3. PICK r \in Seq(MapMessages) : r = <<x>>
  <2>1. <<x>> \in Seq(MapMessages)
    OBVIOUS
  <2> QED
    BY <2>1
<1>4. DOMAIN r = {1} /\ r[1] = x
  <2>1. DOMAIN <<x>> = 1 .. 1 /\ <<x>>[1] = x
    OBVIOUS
  <2> QED
    BY <1>3, <2>1
<1>5. mapWire' = Send(mapWire, s, r) /\ UNCHANGED <<pending, disputed, missed>>
      /\ map' = [map EXCEPT ![s][k0] = v]
  BY <1>1, <1>2, <1>3 DEF SetEntry
<1>6. PICK row : row = [map[s] EXCEPT ![k0] = v]
  OBVIOUS
<1>7. map' = [map EXCEPT ![s] = row] /\ map[s] \in [Keys -> Values \cup {Absent}]
  BY <1>1, <1>5, <1>6, EndTypes DEF Entries
<1>8. row[k0] = v /\ (k # k0 => row[k] = map[s][k])
  BY <1>6, <1>7 DEF Tracked
<1>9. /\ \A i \in DOMAIN r : r[i].op # "ACK"
      /\ \A i \in DOMAIN r : r[i].key = k => r[i].value = row[k]
      /\ (\A i \in DOMAIN r : r[i].key # k) => row[k] = map[s][k]
  BY <1>2, <1>4, <1>8
<1>10. k \in Tracked
  BY <1>5 DEF Tracked
<1>11. mapWire' = Send(mapWire, s, r) /\ UNCHANGED <<pending, disputed, missed>>
  BY <1>5
<1>12. map' = [map EXCEPT ![s] = row]
  BY <1>7
<1> QED
  BY <1>3, <1>9, <1>10, <1>11, <1>12, SlaveSends

LEMMA ClearAgrees ==
  ASSUME NEW m, NEW s, OneMaster(m, s), AgreeInv(m, s), NEW e \in Ends, MapClear(e),
         NEW k \in Tracked'
  PROVE  Agreeing(m, s, k)'
<1>1. /\ m \in Ends /\ s \in Ends /\ m # s /\ s = Peer(m) /\ m \in Masters /\ s \notin Masters
      /\ MapTypeOK /\ (e = m \/ e = s)
      /\ pending[m] \in SUBSET Pendings
      /\ Handed(mapWire[m]) = Changes(mapWire[m])
  BY Roles DEF AgreeInv
<1>2. PICK n \in Nat :
        \E order \in [1 .. n -> Present(e)], number \in [1 .. n -> Nat] :
          Cleans(e, n, order, number)
  BY <1>1, ClearFacts
<1>3. PICK order \in [1 .. n -> Present(e)], number \in [1 .. n -> Nat] :
        Cleans(e, n, order, number)
  BY <1>2
<1>4. PICK r : r = ClearMessages(n, order, number)
  OBVIOUS
<1>5. /\ r \in Seq(MapMessages) /\ DOMAIN r = 1 .. n
      /\ \A i \in 1 .. n : /\ r[i].op # "ACK" /\ r[i].key = order[i]
                           /\ r[i].value = Absent
  <2>1. \A i \in 1 .. n : order[i] \in Keys /\ number[i] \in Nat
    BY DEF Present
  <2> QED
    BY <1>4, <2>1, Removed
<1>6. PICK row : row = [i \in Keys |-> Absent]
  OBVIOUS
<1>7. map' = [map EXCEPT ![e] = row] /\ mapWire' = Send(mapWire, e, r)
  BY <1>3, <1>4, <1>6 DEF Cleans
<1>8. k \in Keys /\ row[k] = Absent
  BY <1>6 DEF Tracked
<1>9. CASE e = s
  <2>1. UNCHANGED <<pending, disputed, missed>>
    BY <1>1, <1>3, <1>9 DEF Cleans
  <2>2. (\A i \in DOMAIN r : r[i].key # k) => map[s][k] = Absent
    <3> SUFFICES ASSUME map[s][k] # Absent PROVE \E i \in DOMAIN r : r[i].key = k
      OBVIOUS
    <3>1. k \in Present(s)
      BY <1>8 DEF Present
    <3>2. \E i \in 1 .. n : order[i] = k
      BY <1>3, <1>9, <3>1 DEF Cleans
    <3> QED
      BY <1>5, <3>2
  <2>3. k \in Tracked
    BY <2>1 DEF Tracked
  <2>4. /\ \A i \in DOMAIN r : r[i].op # "ACK"
        /\ \A i \in DOMAIN r : r[i].key = k => r[i].value = row[k]
        /\ (\A i \in DOMAIN r : r[i].key # k) => row[k] = map[s][k]
    BY <1>5, <1>8, <2>2
  <2>5. map' = [map EXCEPT ![s] = row] /\ mapWire' = Send(mapWire, s, r)
    BY <1>7, <1>9
  <2> QED
    BY <1>5, <2>1, <2>3, <2>4, <2>5, SlaveSends
<1>10. CASE e = m
  <2>1. PICK entries \in SUBSET Pendings :
          /\ Adds(pending[m], entries, Changes(r), missed')
          /\ \A k2 \in Present(m) : \E p \in entries : p.key = k2
          /\ pending' = [pending EXCEPT ![m] = Dangle(entries, Present(m))]
    BY <1>1, <1>3, <1>4, <1>10 DEF Cleans
  <2>2. /\ disputed' = disputed \cup {k2 \in Present(m) : Unacknowledged(m, k2)}
        /\ missed \subseteq missed'
        /\ \A i, j \in 1 .. n : i # j => order[i] # order[j]
        /\ \A k2 \in Present(m) : \E i \in 1 .. n : order[i] = k2
    BY <1>1, <1>3, <1>10 DEF Cleans
  <2>3. k \in Tracked /\ Agreeing(m, s, k)
    BY <2>2 DEF Tracked, AgreeInv
  <2>4. PICK q \in Seq(MapMessages) : q = mapWire[m]
    BY <1>1, EndTypes
  <2>5. PICK t \in Seq(MapMessages) : t = q \o r /\ Changes(t) = Changes(q) \cup Changes(r)
    BY <1>5, Joined
  <2>6. /\ mapWire'[m] = t /\ mapWire'[s] = mapWire[s]
        /\ map'[m][k] = Absent /\ map'[s] = map[s]
    BY <1>1, <1>7, <1>8, <1>10, <2>4, <2>5 DEF Send, MapTypeOK
  <2>7. \A p \in entries : \E p2 \in pending'[m] : p2.key = p.key
    <3>1. pending'[m] = Dangle(entries, Present(m))
      BY <1>1, <2>1 DEF MapTypeOK
    <3> QED
      BY <3>1, Remains
  <2>8. CASE k \notin Present(m)
    <3>1. map'[m][k] = map[m][k]
      BY <1>8, <2>6, <2>8 DEF Present
    <3>2. \A x \in Changes(r) : x.key # k
      BY <1>5, <1>10, <2>8 DEF Changes, Handed
    <3>3. \A x \in Changes(t) : x.key = k => x \in Changes(q)
      BY <2>5, <3>2
    <3>4. \A p \in pending[m] : p.key = k => \E p2 \in pending'[m] : p2.key = k
      BY <2>1, <2>7 DEF Adds
    <3> QED
      BY <2>3, <2>4, <2>5, <2>6, <3>1, <3>3, <3>4, NotOfKey
  <2>9. CASE k \in Present(m)
    <3>1. ~Unacknowledged(m, k)
      BY <2>2, <2>9 DEF Tracked
    <3>2. \A y \in Changes(q) : y.key # k
      <4>1. \A i \in DOMAIN q : q[i].key # k
        BY <2>4, <3>1 DEF Unacknowledged
      <4> QED
        BY <4>1 DEF Changes, Handed
    <3>3. \A y \in Acks(mapWire[s]) : y.key # k
      <4>1. \A i \in DOMAIN mapWire[s] : mapWire[s][i].op = "ACK" => mapWire[s][i].key # k
        BY <1>1, <3>1 DEF Unacknowledged
      <4> QED
        BY <4>1 DEF Acks, Handed
    <3>4. PICK i \in 1 .. n : order[i] = k
      BY <2>2, <2>9
    <3>5. r[i] \in Changes(r) /\ r[i].key = k
      BY <1>5, <3>4 DEF Changes, Handed
    <3>6. \A y \in Changes(r) : y.key = k => y = r[i] /\ y.value = Absent
      BY <1>5, <2>2, <3>4 DEF Changes, Handed
    <3>7. \E p \in pending'[m] : p.key = k
      BY <2>1, <2>7, <2>9
    <3>8. Single(Changes(t), Acks(mapWire[s]), pending'[m], k)
      BY <2>5, <3>2, <3>3, <3>6, <3>7 DEF Single
    <3>9. \A y \in Changes(t) : y.key = k => y.value = Absent
      BY <2>5, <3>2, <3>6
    <3>10. r[i] \in Changes(t)
      BY <2>5, <3>5
    <3> QED
      BY <2>6, <3>5, <3>8, <3>9, <3>10 DEF Agreeing
  <2> QED
    BY <2>8, <2>9
<1> QED
  BY <1>1, <1>9, <1>10

\* A key with an entry at the master, which no lookup has missed, has a change under way.
LEMMA Locked ==
  ASSUME NEW m, NEW s, OneMaster(m, s), AgreeInv(m, s), NEW k \in Tracked,
         NEW p \in pending[m], p.key = k
  PROVE  \E x \in Changes(mapWire[m]) \cup Acks(mapWire[s]) : x.key = k
<1>1. Books(Changes(mapWire[m]), Acks(mapWire[s]), nextVersion[m], pending[m], missed)
  BY Roles DEF AgreeInv
<1>2. Awaited(p, Changes(mapWire[m]) \cup Acks(mapWire[s]))
  BY <1>1 DEF Books, Tracked
<1> QED
  BY <1>2 DEF Awaited

LEMMA AckAgrees ==
  ASSUME NEW m, NEW s, OneMaster(m, s), AgreeInv(m, s), NEW e \in Ends, ReceiveAck(e),
         NEW k \in Tracked'
  PROVE  Agreeing(m, s, k)'
<1>1. /\ m \in Ends /\ s \in Ends /\ m # s /\ s = Peer(m) /\ m = Peer(s)
      /\ m \in Masters /\ (e = m \/ e = s) /\ MapTypeOK
      /\ Acks(mapWire[m]) = {} /\ Ascends(mapWire[s], TRUE)
  BY Roles DEF AgreeInv
<1>2. PICK q \in Seq(MapMessages) : q = mapWire[Peer(e)] /\ q # << >>
  BY <1>1, EndTypes DEF ReceiveAck, Arrived
<1>3. PICK x \in MapMessages, left \in Seq(MapMessages) : TakenOff(q, x, left)
  BY <1>2, TakingOff
<1>4. /\ x.op = "ACK" /\ mapWire' = [mapWire EXCEPT ![Peer(e)] = left]
      /\ UNCHANGED <<map, disputed>>
      /\ e \in Masters => \E found \in Lookups(e, x.key) :
           /\ pending' = [pending EXCEPT ![e] = @ \ Clears(found, x.version)]
           /\ missed \subseteq missed'
  BY <1>2, <1>3 DEF ReceiveAck, TakenOff, Message, Take
<1>5. /\ x \in Acks(q)
      /\ Ascends(q, TRUE) => Acks(left) = Acks(q) \ {x}
  BY <1>3, <1>4, Handled
<1>6. e = m
  BY <1>1, <1>2, <1>5
<1>7. PICK found \in Lookups(m, x.key) :
        /\ pending' = [pending EXCEPT ![m] = pending[m] \ Clears(found, x.version)]
        /\ missed \subseteq missed'
  BY <1>1, <1>4, <1>6
<1>8. /\ mapWire'[s] = left /\ mapWire'[m] = mapWire[m] /\ q = mapWire[s]
      /\ pending'[m] = pending[m] \ Clears(found, x.version)
  BY <1>1, <1>2, <1>4, <1>6, <1>7 DEF MapTypeOK
<1>9. Acks(left) = Acks(q) \ {x}
  BY <1>1, <1>5, <1>8
<1>10. Agreeing(m, s, k)
  BY <1>4, <1>7 DEF AgreeInv, Tracked
<1>11. PICK mine, yours : mine = map[m][k] /\ yours = map[s][k]
  OBVIOUS
<1>12. LastWord(q, k, mine, yours) => LastWord(left, k, mine, yours)
  BY <1>2, <1>3, <1>4, LastWordTaken
<1>13. CASE x.key # k
  <2>1. \A p \in pending[m] : p.key = k => p \in pending'[m]
    <3>1. \A p \in Clears(found, x.version) : p.key = x.key
      BY <1>1, <1>7, LookedUp DEF Clears
    <3> QED
      BY <1>8, <1>13, <3>1
  <2> QED
    BY <1>4, <1>8, <1>9, <1>10, <1>11, <1>12, <2>1, NotOfKey
<1>14. CASE x.key = k
  <2>1. x \in Acks(mapWire[s])
    BY <1>5, <1>8
  <2>2. \A y \in Changes(mapWire[m]) \cup Acks(mapWire[s]) : y.key = k => y = x
    BY <1>10, <1>14, <2>1 DEF Agreeing, Single
  <2>3. \A y \in Changes(mapWire[m]) : y.key # k
    BY <1>4, <2>2 DEF Changes
  <2>4. \A y \in Acks(left) : y.key # k
    BY <1>8, <1>9, <2>2
  <2>5. LastWord(left, k, mine, yours)
    BY <1>8, <1>10, <1>11, <1>12, <2>3 DEF Agreeing
  <2>6. Single(Changes(mapWire[m]), Acks(left), pending'[m], k)
    BY <2>3, <2>4 DEF Single
  <2> QED
    BY <1>4, <1>8, <1>11, <2>3, <2>5, <2>6 DEF Agreeing
<1> QED
  BY <1>13, <1>14

\* The master handles a change of the other end's.
LEMMA MasterTakes ==
  ASSUME NEW m, NEW s, OneMaster(m, s), AgreeInv(m, s), ReceiveChange(m),
         NEW k \in Tracked'
  PROVE  Agreeing(m, s, k)'
<1>1. /\ m \in Ends /\ s \in Ends /\ m # s /\ s = Peer(m) /\ s \notin Masters /\ m \in Masters
      /\ MapTypeOK /\ MastersNumber
      /\ mapWire[m] \in Seq(MapMessages) /\ mapWire[s] \in Seq(MapMessages)
      /\ pending[m] \in SUBSET Pendings
  BY Roles DEF AgreeInv, MapInv
<1>2. PICK x \in MapMessages, left \in Seq(MapMessages), t \in Seq(MapMessages) :
        /\ TakenOff(mapWire[s], x, left) /\ x.op # "ACK" /\ x = Message(mapWire, m)
        /\ mapWire' = [mapWire EXCEPT ![s] = left, ![m] = t]
        /\ x.version = Unversioned => t = mapWire[m]
        /\ x.version # Unversioned => t = mapWire[m] \o <<Acknowledgement(x)>>
  BY <1>1, ChangeHandled
<1>3. PICK q \in Seq(MapMessages) : q = mapWire[s]
  BY <1>1
<1>4. x \in Changes(q) /\ Acks(left) = Acks(q) /\ Handed(q) = Handed(left) \cup {x}
  BY <1>2, <1>3, Handled
<1>5. x.version = Unversioned
  BY <1>1, <1>3, <1>4 DEF MastersNumber
<1>6. mapWire'[s] = left /\ mapWire'[m] = mapWire[m]
  BY <1>1, <1>2, <1>5 DEF MapTypeOK
<1>7. PICK found \in Lookups(m, x.key) :
        /\ map' = IF found = {} THEN [map EXCEPT ![m][x.key] = x.value] ELSE map
        /\ \E keys : pending' = [pending EXCEPT ![m] = Dangle(pending[m], keys)]
        /\ disputed' = disputed /\ missed' = missed \cup Missed(m, x.key, found)
  BY <1>1, <1>2, <1>5 DEF ReceiveChange, Accepts
<1>8. \A p \in pending[m] : \E p2 \in pending'[m] : p2.key = p.key
  <2>1. PICK keys : pending' = [pending EXCEPT ![m] = Dangle(pending[m], keys)]
    BY <1>7
  <2>2. pending'[m] = Dangle(pending[m], keys)
    BY <1>1, <2>1 DEF MapTypeOK
  <2> QED
    BY <1>1, <2>2, Remains
<1>9. k \in Keys /\ k \in Tracked /\ Agreeing(m, s, k) /\ k \notin Missed(m, x.key, found)
  BY <1>7 DEF AgreeInv, Tracked
<1>10. x.key \in Keys /\ x.value \in Values \cup {Absent}
  BY MessageParts
<1>11. map[m] \in [Keys -> Values \cup {Absent}]
  BY <1>1, EndTypes DEF Entries
<1>12. /\ map'[s] = map[s]
       /\ map'[m] = IF found = {} THEN [map[m] EXCEPT ![x.key] = x.value] ELSE map[m]
  BY <1>1, <1>7 DEF MapTypeOK
<1>13. PICK mine, yours : mine = map[m][k] /\ yours = map[s][k]
  OBVIOUS
<1>14. CASE x.key # k
  <2>1. map'[m][k] = map[m][k]
    BY <1>11, <1>12, <1>14
  <2>2. LastWord(q, k, mine, yours) => LastWord(left, k, mine, yours)
    BY <1>2, <1>3, <1>14, LastWordTaken
  <2> QED
    BY <1>3, <1>4, <1>6, <1>8, <1>9, <1>12, <1>13, <2>1, <2>2, NotOfKey
<1>15. CASE x.key = k /\ \E p \in pending[m] : p.key = k
  <2>1. /\ \E y \in Changes(mapWire[m]) \cup Acks(mapWire[s]) : y.key = k
        /\ found # {}
    BY <1>9, <1>15, Locked DEF Missed
  <2>2. map'[m][k] = map[m][k]
    BY <1>12, <2>1
  <2>3. Single(Changes(mapWire[m]), Acks(left), pending'[m], k)
    BY <1>3, <1>4, <1>8, <1>9 DEF Agreeing, Single
  <2>4. (\A y \in Changes(mapWire[m]) : y.key # k) => LastWord(left, k, mine, yours)
    <3> SUFFICES ASSUME \A y \in Changes(mapWire[m]) : y.key # k
                 PROVE  LastWord(left, k, mine, yours)
      OBVIOUS
    <3>1. LastWord(q, k, mine, yours)
      BY <1>3, <1>9, <1>13 DEF Agreeing
    <3>2. \E y \in Handed(left) : y.key = k
      BY <1>3, <1>4, <2>1 DEF Acks
    <3> QED
      BY <1>2, <1>3, <3>1, <3>2, LastWordTaken
  <2> QED
    BY <1>6, <1>9, <1>12, <1>13, <2>2, <2>3, <2>4 DEF Agreeing
<1>16. CASE x.key = k /\ \A p \in pending[m] : p.key # k
  <2>1. found = {}
    BY <1>1, <1>7, <1>16, LookedUp
  <2>2. map'[m][k] = x.value
    BY <1>10, <1>11, <1>12, <1>16, <2>1
  <2>3. /\ \A y \in Changes(mapWire[m]) : y.key # k
        /\ \A y \in Acks(q) : y.key # k
    BY <1>3, <1>9, <1>16 DEF Agreeing, Single
  <2>4. Single(Changes(mapWire[m]), Acks(left), pending'[m], k)
    BY <1>4, <2>3 DEF Single
  <2>5. LastWord(q, k, mine, yours)
    BY <1>3, <1>9, <1>13, <2>3 DEF Agreeing
  <2>6. LastWord(left, k, x.value, yours)
    BY <1>2, <1>3, <1>4, <1>16, <2>3, <2>5, LastWordTaken
  <2> QED
    BY <1>6, <1>12, <1>13, <2>2, <2>3, <2>4, <2>6 DEF Agreeing
<1> QED
  BY <1>14, <1>15, <1>16

\* The other end handles a change of the master's and acknowledges it.
LEMMA SlaveTakes ==
  ASSUME NEW m, NEW s, OneMaster(m, s), AgreeInv(m, s), ReceiveChange(s),
         NEW k \in Tracked'
  PROVE  Agreeing(m, s, k)'
<1>1. /\ m \in Ends /\ s \in Ends /\ m # s /\ m = Peer(s) /\ s \notin Masters /\ m \in Masters
      /\ MapTypeOK /\ MastersNumber
      /\ mapWire[m] \in Seq(MapMessages) /\ mapWire[s] \in Seq(MapMessages)
      /\ pending[m] \in SUBSET Pendings
      /\ Ascends(mapWire[m], FALSE)
  BY Roles DEF AgreeInv, MapInv
<1>2. PICK x \in MapMessages, left \in Seq(MapMessages), t \in Seq(MapMessages) :
        /\ TakenOff(mapWire[m], x, left) /\ x.op # "ACK" /\ x = Message(mapWire, s)
        /\ mapWire' = [mapWire EXCEPT ![m] = left, ![s] = t]
        /\ x.version = Unversioned => t = mapWire[s]
        /\ x.version # Unversioned => t = mapWire[s] \o <<Acknowledgement(x)>>
  BY <1>1, ChangeHandled
<1>3. PICK w \in Seq(MapMessages) : w = mapWire[m]
  BY <1>1
<1>4. /\ x \in Changes(w)
      /\ Ascends(w, FALSE) => Changes(left) = Changes(w) \ {x}
  BY <1>2, <1>3, Handled
<1>5. x.version # Unversioned /\ Changes(left) = Changes(w) \ {x}
  BY <1>1, <1>3, <1>4 DEF MastersNumber
<1>6. x.key \in Keys /\ x.version \in Nat /\ x.value \in Values \cup {Absent}
  BY MessageParts
<1>7. PICK ack \in MapMessages : ack = Acknowledgement(x) /\ ack.op = "ACK" /\ ack.key = x.key
  <2>1. Acknowledgement(x) \in MapMessages
    BY <1>6 DEF Acknowledgement, MapMessages
  <2> QED
    BY <2>1 DEF Acknowledgement
<1>8. PICK r \in Seq(MapMessages) : r = <<ack>> /\ DOMAIN r = {1} /\ r[1] = ack
  <2>1. <<ack>> \in Seq(MapMessages)
    BY <1>7
  <2>2. DOMAIN <<ack>> = 1 .. 1 /\ <<ack>>[1] = ack /\ 1 .. 1 = {1}
    OBVIOUS
  <2> QED
    BY <2>1, <2>2
<1>9. PICK u \in Seq(MapMessages) : u = mapWire[s]
  BY <1>1
<1>10. t = u \o r /\ Acks(t) = Acks(u) \cup {ack}
  <2>1. Acks(u \o <<ack>>) = Acks(u) \cup {ack}
    BY <1>7, SentOne
  <2> QED
    BY <1>2, <1>5, <1>7, <1>8, <1>9, <2>1
<1>11. mapWire'[m] = left /\ mapWire'[s] = t
  BY <1>1, <1>2 DEF MapTypeOK
<1>12. /\ map' = [map EXCEPT ![s][x.key] = x.value]
       /\ pending'[m] = pending[m]
       /\ UNCHANGED <<disputed, missed>>
  BY <1>1, <1>2 DEF ReceiveChange, Accepts, MapTypeOK
<1>13. k \in Keys /\ Agreeing(m, s, k)
  BY <1>12 DEF AgreeInv, Tracked
<1>14. map[s] \in [Keys -> Values \cup {Absent}]
  BY <1>1, EndTypes DEF Entries
<1>15. map'[m] = map[m] /\ map'[s] = [map[s] EXCEPT ![x.key] = x.value]
  BY <1>1, <1>12 DEF MapTypeOK
<1>16. PICK mine, yours : mine = map[m][k] /\ yours = map[s][k]
  OBVIOUS
<1>17. CASE x.key # k
  <2>1. map'[s][k] = map[s][k]
    BY <1>14, <1>15, <1>17
  <2>2. \A i \in DOMAIN r : r[i].key # k
    BY <1>7, <1>8, <1>17
  <2>3. LastWord(u, k, mine, yours) => LastWord(t, k, mine, yours)
    BY <1>8, <1>9, <1>10, <2>2, LastWordSent
  <2>4. \A y \in Acks(t) : y.key = k => y \in Acks(u)
    BY <1>7, <1>10, <1>17
  <2>5. \A y \in Changes(w) : y.key = k => y \in Changes(left)
    BY <1>5, <1>17
  <2> QED
    BY <1>3, <1>5, <1>9, <1>11, <1>12, <1>13, <1>15, <1>16, <2>1, <2>3, <2>4, <2>5, NotOfKey
<1>18. CASE x.key = k
  <2>1. \A y \in Changes(w) \cup Acks(u) : y.key = k => y = x
    BY <1>3, <1>4, <1>9, <1>13, <1>18 DEF Agreeing, Single
  <2>2. \A y \in Changes(left) : y.key # k
    BY <1>5, <2>1
  <2>3. \A y \in Acks(u) : y.key # k
    BY <1>2, <2>1 DEF Acks
  <2>4. \E p \in pending[m] : p.key = k
    BY <1>3, <1>4, <1>13, <1>18 DEF Agreeing, Single
  <2>5. Single(Changes(left), Acks(t), pending[m], k)
    BY <1>10, <2>2, <2>3, <2>4 DEF Single
  <2>6. mine = x.value
    BY <1>3, <1>4, <1>13, <1>16, <1>18 DEF Agreeing
  <2>7. map'[s][k] = mine /\ map'[m][k] = mine
    BY <1>6, <1>14, <1>15, <1>16, <1>18, <2>6
  <2>8. LastWord(t, k, mine, mine)
    <3>1. \E i \in DOMAIN r : r[i].key = k
      BY <1>7, <1>8, <1>18
    <3>2. \A i \in DOMAIN r : r[i].op = "ACK"
      BY <1>7, <1>8
    <3> QED
      BY <1>8, <1>9, <1>10, <3>1, <3>2, LastWordSent
  <2> QED
    BY <1>11, <1>12, <2>2, <2>5, <2>7, <2>8 DEF Agreeing
<1> QED
  BY <1>17, <1>18

LEMMA AgreeStep ==
  ASSUME NEW m, NEW s, OneMaster(m, s), AgreeInv(m, s), [ReplicasNext]_replicaVars
  PROVE  AgreeInv(m, s)'
<1>1. MapInv'
  BY MapStep DEF AgreeInv
<1>2. CASE UNCHANGED mapVars
  BY <1>1, <1>2 DEF mapVars, AgreeInv, Agreeing, Tracked
<1>3. CASE MapNext
  <2> SUFFICES ASSUME NEW k \in Tracked' PROVE Agreeing(m, s, k)'
    BY <1>1 DEF AgreeInv
  <2>1. Ends = {m, s}
    BY Roles DEF AgreeInv
  <2> QED
    BY <1>3, <2>1, MasterEntryAgrees, SlaveEntryAgrees, ClearAgrees, AckAgrees, MasterTakes,
       SlaveTakes DEF MapNext, MapChange
<1> QED
  BY <1>2, <1>3 DEF ReplicasNext, replicaVars

\* With one master the ends come to the same entries, whoever changed what at the same
\* time, but for the keys that are disputed or that a lookup has missed (RdMap.h,
\* on_wire_received and the handler that init advises).
THEOREM MapsConverge ==
  ASSUME NEW CONSTANT m, NEW CONSTANT s, OneMaster(m, s)
  PROVE  ReplicasSpec => []MapsAgree
<1>1. ReplicasInit => AgreeInv(m, s)
  <2> SUFFICES ASSUME ReplicasInit PROVE AgreeInv(m, s)
    OBVIOUS
  <2>1. MapInit /\ MapInv
    BY MapInitKeeps DEF ReplicasInit
  <2>2. m \in Ends /\ s \in Ends
    BY <2>1, Roles
  <2>3. DOMAIN << >> = {}
    OBVIOUS
  <2>4. /\ mapWire[m] = << >> /\ mapWire[s] = << >>
        /\ \A k \in Keys : map[m][k] = Absent /\ map[s][k] = Absent
    BY <2>1, <2>2 DEF MapInit, EmptyWire
  <2>5. Changes(<< >>) = {} /\ Acks(<< >>) = {}
    BY <2>3 DEF Changes, Acks, Handed
  <2> QED
    BY <2>1, <2>3, <2>4, <2>5 DEF AgreeInv, Agreeing, Tracked, Single, LastWord
<1>2. AgreeInv(m, s) /\ [ReplicasNext]_replicaVars => AgreeInv(m, s)'
  BY AgreeStep
<1>3. AgreeInv(m, s) => MapsAgree
  <2> SUFFICES ASSUME AgreeInv(m, s), Quiet(mapWire), NEW k \in Tracked
               PROVE  map[1][k] = map[2][k]
    BY DEF MapsAgree, Tracked
  <2>1. Ends = {m, s} /\ Ends = {1, 2} /\ m \in Ends /\ s \in Ends
    BY Roles DEF AgreeInv, Ends
  <2>2. mapWire[m] = << >> /\ mapWire[s] = << >>
    BY <2>1 DEF Quiet
  <2>3. DOMAIN << >> = {}
    OBVIOUS
  <2>4. Changes(<< >>) = {}
    BY <2>3 DEF Changes, Handed
  <2>5. map[m][k] = map[s][k]
    BY <2>2, <2>3, <2>4 DEF AgreeInv, Agreeing, LastWord
  <2> QED
    BY <2>1, <2>5
<1> QED
  BY <1>1, <1>2, <1>3, PTL DEF ReplicasSpec

-------------------------------------------------------------------------------
(***************************************************************************)
(* Types.  Those of the map, the list, the set and of what calls send are  *)
(* parts of the invariants above.                                          *)
(***************************************************************************)
LEMMA ChangesCounted ==
  ASSUME changes \in 0 .. MaxChanges, [ReplicasNext]_replicaVars
  PROVE  changes' \in 0 .. MaxChanges
<1>1. LocalChange => changes' \in 0 .. MaxChanges
  BY EndsAssumption DEF LocalChange
<1>2. LocalChange \/ UNCHANGED changes
  <2>1. MapNext => LocalChange \/ UNCHANGED changes
    BY DEF MapNext, MapChange, MapClear, ReceiveAck, ReceiveChange
  <2>2. PropertyNext => LocalChange \/ UNCHANGED changes
    BY DEF PropertyNext, SetProperty, ReceiveProperty
  <2>3. ListNext => LocalChange \/ UNCHANGED changes
    BY DEF ListNext, ListChange, ChangeList, ListClear, ReceiveListChange
  <2>4. SetNext => LocalChange \/ UNCHANGED changes
    BY DEF SetNext, SetAdd, SetRemove, ReceiveSetChange
  <2>5. CallNext => LocalChange \/ UNCHANGED changes
    BY DEF CallNext, StartCall, SyncCall, RefuseSync, SyncReturns, SyncThrows, BeginUnbind,
           CancelTask, SetCancelled, Unsubscribe, ReceiveAnswer, SetReceived, TestAnswer,
           SetAnswer, ReceiveRequest, AnswerLater
  <2> QED
    BY <2>1, <2>2, <2>3, <2>4, <2>5 DEF ReplicasNext, replicaVars
<1> QED
  BY <1>1, <1>2

LEMMA PropertyTyped ==
  ASSUME PropertyTypeOK, [ReplicasNext]_replicaVars PROVE PropertyTypeOK'
<1>1. CASE UNCHANGED propertyVars
  BY <1>1 DEF propertyVars, PropertyTypeOK
<1>2. ASSUME NEW e \in Ends, SetProperty(e) PROVE PropertyTypeOK'
  <2>1. PICK v \in Values :
          /\ value' = [value EXCEPT ![e] = v]
          /\ masterVersion' = [masterVersion EXCEPT ![e] = VersionOfChange(e)]
          /\ propertyWire' = Send(propertyWire, e,
                                  <<[value |-> v, version |-> VersionOfChange(e)]>>)
    BY <1>2 DEF SetProperty
  <2>2. PICK n \in Nat : n = VersionOfChange(e)
    BY DEF VersionOfChange, PropertyTypeOK
  <2>3. PICK p \in PropertyMessages : p = [value |-> v, version |-> n]
    BY <2>1, <2>2 DEF PropertyMessages
  <2>4. PICK sent \in Seq(PropertyMessages) : sent = propertyWire[e] \o <<p>>
    BY <2>3, Sent DEF PropertyTypeOK
  <2>5. propertyWire' = [propertyWire EXCEPT ![e] = sent]
    BY <2>1, <2>2, <2>3, <2>4 DEF Send
  <2> QED
    BY <2>1, <2>2, <2>4, <2>5 DEF PropertyTypeOK
<1>3. ASSUME NEW e \in Ends, ReceiveProperty(e) PROVE PropertyTypeOK'
  <2>1. PICK f \in Ends : f = Peer(e)
    BY Peers
  <2>2. propertyWire[f] \in Seq(PropertyMessages) /\ propertyWire[f] # << >>
    BY <1>3, <2>1 DEF PropertyTypeOK, ReceiveProperty, Arrived
  <2>3. PICK p \in PropertyMessages, left \in Seq(PropertyMessages) :
          p = Head(propertyWire[f]) /\ left = Tail(propertyWire[f])
    BY <2>2, Taken
  <2>4. p.value \in Values /\ p.version \in Nat
    BY <2>3 DEF PropertyMessages
  <2>5. /\ propertyWire' = [propertyWire EXCEPT ![f] = left]
        /\ \/ /\ value' = [value EXCEPT ![e] = p.value]
              /\ masterVersion' = [masterVersion EXCEPT ![e] = p.version]
           \/ UNCHANGED <<value, masterVersion>>
    BY <1>3, <2>1, <2>3 DEF ReceiveProperty, Message, Take
  <2> QED
    BY <2>3, <2>4, <2>5 DEF PropertyTypeOK
<1> QED
  BY <1>1, <1>2, <1>3 DEF ReplicasNext, replicaVars, PropertyNext

LEMMA CrossedTyped ==
  ASSUME SetInv, setCrossed \in SUBSET Values, [ReplicasNext]_replicaVars
  PROVE  setCrossed' \in SUBSET Values
<1>1. ASSUME NEW e \in Ends, SetRemove(e) PROVE setCrossed' \in SUBSET Values
  <2>1. PICK gone \in {{v} : v \in set[e]} \cup ({set[e]} \ {{}}) :
          setCrossed' = setCrossed \cup (gone \cap OnItsWay(e))
    BY <1>1 DEF SetRemove
  <2>2. set[e] \in SUBSET Values
    BY DEF SetInv, SetTypeOK
  <2> QED
    BY <2>1, <2>2
<1>2. ASSUME NEW e \in Ends, SetAdd(e) PROVE setCrossed' \in SUBSET Values
  BY <1>2 DEF SetAdd
<1>3. ASSUME NEW e \in Ends, ReceiveSetChange(e) PROVE setCrossed' \in SUBSET Values
  BY <1>3 DEF ReceiveSetChange
<1> QED
  BY <1>1, <1>2, <1>3 DEF ReplicasNext, replicaVars, SetNext, setVars

CallTypes ==
  /\ terminated \in BOOLEAN /\ crashed \in BOOLEAN
  /\ subscribed \subseteq TaskIds /\ destroyed \subseteq TaskIds /\ contested \subseteq TaskIds
  /\ syncTask \in TaskIds \cup {NoTask}

LEMMA CallTyped ==
  ASSUME CallTypes, CallInv, [ReplicasNext]_replicaVars PROVE CallTypes'
<1>1. spinning \in TaskIds \cup {NoTask} /\ checked \in [Threads -> TaskIds \cup {NoTask}]
  BY DEF CallInv, CallTypeOK
<1>2. NewTask => tasks + 1 \in TaskIds /\ subscribed' \subseteq TaskIds
  BY CallAssumption DEF CallInv, CallTypeOK, CallTypes, NewTask, TaskIds
<1>3. ASSUME NEW t \in Threads, NEW id, FindEmpty(t, id), id \in TaskIds
      PROVE  contested' \subseteq TaskIds
  BY <1>3 DEF FindEmpty, CallTypes
<1>4. ASSUME NEW t \in Threads, NEW id, NEW r, SetResult(t, id, r)
      PROVE  crashed' \in BOOLEAN /\ UNCHANGED contested
  BY <1>4 DEF SetResult
<1>5. "receiver" \in Threads /\ "scheduler" \in Threads /\ "terminator" \in Threads
  BY DEF Threads
<1>6. CASE UNCHANGED callVars
  BY <1>6 DEF callVars, lifetimeVars, settingVars, CallTypes
<1>7. CASE StartCall \/ SyncCall \/ RefuseSync
  BY <1>2, <1>7 DEF StartCall, SyncCall, RefuseSync, lifetimeVars, settingVars, CallTypes
<1>8. CASE SyncReturns \/ SyncThrows
  BY <1>1, <1>8 DEF SyncReturns, SyncThrows, SyncTaskAfterReturn, lifetimeVars, settingVars,
                    CallTypes
<1>9. CASE BeginUnbind \/ Unsubscribe
  BY <1>9 DEF BeginUnbind, Unsubscribe, lifetimeVars, settingVars, CallTypes
<1>10. CASE CancelTask
  <2>1. toCancel \subseteq TaskIds
    BY DEF CallInv, CallTypeOK
  <2>2. crashed' \in BOOLEAN /\ contested' \subseteq TaskIds
    BY <1>3, <1>5, <1>10, <2>1 DEF CancelTask, settingVars, CallTypes
  <2> QED
    BY <1>10, <2>2 DEF CancelTask, CallTypes
<1>11. CASE SetCancelled \/ SetReceived \/ SetAnswer
  <2>1. crashed' \in BOOLEAN /\ UNCHANGED contested
    BY <1>4, <1>5, <1>11 DEF SetCancelled, SetReceived, SetAnswer
  <2> QED
    BY <1>11, <2>1 DEF SetCancelled, SetReceived, SetAnswer, lifetimeVars, CallTypes
<1>12. CASE ReceiveAnswer
  <2>1. crashed' \in BOOLEAN /\ contested' \subseteq TaskIds
    BY <1>3, <1>5, <1>12 DEF ReceiveAnswer, GivenTo, settingVars, CallTypes
  <2> QED
    BY <1>12, <2>1 DEF ReceiveAnswer, lifetimeVars, CallTypes
<1>13. CASE TestAnswer
  <2>1. Head(scheduled).id \in TaskIds
    <3>1. scheduled \in Seq(TrueAnswers) /\ scheduled # << >>
      BY <1>13 DEF CallInv, OnTheWay, TestAnswer
    <3>2. Head(scheduled) \in TrueAnswers
      BY <3>1, Taken
    <3> QED
      BY <3>2 DEF TrueAnswers, Answers
  <2>2. contested' \subseteq TaskIds
    BY <1>3, <1>5, <1>13, <2>1 DEF TestAnswer, settingVars, CallTypes
  <2> QED
    BY <1>13, <2>2 DEF TestAnswer, lifetimeVars, CallTypes
<1>14. CASE ReceiveRequest \/ AnswerLater
  BY <1>14 DEF ReceiveRequest, AnswerLater, lifetimeVars, settingVars, CallTypes
<1> QED
  BY <1>6, <1>7, <1>8, <1>9, <1>10, <1>11, <1>12, <1>13, <1>14
     DEF ReplicasNext, replicaVars, CallNext

LEMMA SeqsGrow ==
  ASSUME NEW S, NEW T, S \subseteq T, NEW s \in Seq(S) PROVE s \in Seq(T)
<1>1. \A i \in 1 .. Len(s) : s[i] \in T
  BY Lengths
<1>2. Len(s) \in Nat /\ s = [i \in 1 .. Len(s) |-> s[i]]
  BY LenProperties
<1> QED
  BY <1>1, <1>2

\* What all the entities of a protocol may hold, for any masters and any bounds.
THEOREM ReplicasTypeCorrect == ReplicasSpec => []ReplicasTypeOK
<1> DEFINE Types == /\ changes \in 0 .. MaxChanges /\ PropertyTypeOK
                    /\ setCrossed \in SUBSET Values /\ CallTypes
                    /\ SetInv /\ ListInv /\ MapInv /\ CallInv
<1>1. ReplicasInit => Types
  <2> SUFFICES ASSUME ReplicasInit PROVE Types
    OBVIOUS
  <2>1. changes \in 0 .. MaxChanges
    BY EndsAssumption DEF ReplicasInit, EndsInit
  <2>2. PropertyTypeOK
    <3>1. << >> \in Seq(PropertyMessages)
      BY EmptySeq
    <3> QED
      BY <3>1 DEF ReplicasInit, PropertyInit, EmptyWire, PropertyTypeOK
  <2>3. setCrossed \in SUBSET Values
    BY DEF ReplicasInit, SetInit
  <2>4. CallTypes
    BY DEF ReplicasInit, CallInit, CallTypes
  <2> QED
    BY <2>1, <2>2, <2>3, <2>4, SetInitKeeps, ListInitKeeps, MapInitKeeps, CallInitKeeps
       DEF ReplicasInit
<1>2. Types /\ [ReplicasNext]_replicaVars => Types'
  BY ChangesCounted, PropertyTyped, CrossedTyped, CallTyped, SetStep, ListStep, MapStep, CallStep
<1>3. Types => ReplicasTypeOK
  <2> SUFFICES ASSUME Types PROVE ReplicasTypeOK
    OBVIOUS
  <2>1. /\ map \in [Ends -> Entries] /\ nextVersion \in [Ends -> Nat]
        /\ pending \in [Ends -> SUBSET Pendings]
        /\ mapWire \in Wires(MapMessages) /\ disputed \subseteq Keys /\ missed \subseteq Keys
    BY DEF MapInv, MapTypeOK, Wires
  <2>2. /\ value \in [Ends -> Values \cup {Absent}] /\ masterVersion \in [Ends -> Nat]
        /\ propertyWire \in Wires(PropertyMessages)
    BY DEF PropertyTypeOK, Wires
  <2>3. /\ list \in [Ends -> Seq(Values)] /\ listVersion \in [Ends -> Nat]
        /\ listWire \in Wires(ListMessages)
        /\ crossed \in BOOLEAN /\ conflict \in BOOLEAN
    BY DEF ListInv, ListTypeOK, Wires
  <2>4. /\ set \in [Ends -> SUBSET Values] /\ setWire \in Wires(SetMessages)
        /\ setCrossed \subseteq Values
    BY DEF SetInv, SetTypeOK, Wires
  <2>5. /\ terminated \in BOOLEAN /\ crashed \in BOOLEAN
        /\ subscribed \subseteq TaskIds /\ destroyed \subseteq TaskIds
        /\ contested \subseteq TaskIds
        /\ syncTask \in TaskIds \cup {NoTask}
    BY DEF CallTypes
  <2>6. /\ failed \in BOOLEAN /\ tasks \in 0 .. MaxCalls /\ awaiting \subseteq TaskIds
        /\ toCancel \subseteq TaskIds /\ spinning \in TaskIds \cup {NoTask}
        /\ checked \in [Threads -> TaskIds \cup {NoTask}]
        /\ result \in [TaskIds -> TaskIds \cup {Empty, Fault, Cancelled}]
    BY DEF CallInv, CallTypeOK, OnTheWay
  <2>7. TrueAnswers \subseteq Answers
    BY DEF TrueAnswers
  <2>8. scheduled \in Seq(Answers)
    BY <2>7, SeqsGrow DEF CallInv, OnTheWay
  <2>9. callWire \in [Ends -> Seq(Requests) \cup Seq(Answers)]
    <3>1. Queues \subseteq Seq(Requests) \cup Seq(Answers)
      BY <2>7, SeqsGrow DEF Queues
    <3> QED
      BY <3>1 DEF CallInv, OnTheWay
  <2> QED
    BY <2>1, <2>2, <2>3, <2>4, <2>5, <2>6, <2>8, <2>9 DEF ReplicasTypeOK
<1> QED
  BY <1>1, <1>2, <1>3, PTL DEF ReplicasSpec
===============================================================================
