------------------------------ MODULE RdExtProofs ------------------------------
(***************************************************************************)
(* The extension and its member over the broker, for any bounds on         *)
(* bindings and messages.                                                  *)
(***************************************************************************)
EXTENDS RdExt, SequenceTheorems, FiniteSetTheorems, TLAPS

USE DEF Receiver, Scheduler, Threads, Flush

-------------------------------------------------------------------------------
(***************************************************************************)
(* Sequences: what is appended and what is taken off.                      *)
(***************************************************************************)
LEMMA Lengths ==
  ASSUME NEW T, NEW s \in Seq(T)
  PROVE  /\ Len(s) \in Nat /\ DOMAIN s = 1 .. Len(s)
         /\ s = << >> <=> Len(s) = 0
         /\ \A i \in 1 .. Len(s) : s[i] \in T
  BY LenProperties, EmptySeq, ElementOfSeq

LEMMA Joined ==
  ASSUME NEW T, NEW s \in Seq(T), NEW r \in Seq(T)
  PROVE  /\ s \o r \in Seq(T) /\ Len(s \o r) = Len(s) + Len(r)
         /\ DOMAIN (s \o r) = 1 .. (Len(s) + Len(r))
         /\ \A i \in 1 .. Len(s) : (s \o r)[i] = s[i]
         /\ \A i \in 1 .. Len(r) : (s \o r)[Len(s) + i] = r[i]
<1>1. /\ s \o r \in Seq(T) /\ Len(s \o r) = Len(s) + Len(r)
      /\ \A i \in 1 .. (Len(s) + Len(r)) :
           (s \o r)[i] = IF i <= Len(s) THEN s[i] ELSE r[i - Len(s)]
  BY ConcatProperties
<1>2. Len(s) \in Nat /\ Len(r) \in Nat /\ DOMAIN (s \o r) = 1 .. Len(s \o r)
  BY <1>1, Lengths
<1>3. ASSUME NEW i \in 1 .. Len(r) PROVE (s \o r)[Len(s) + i] = r[i]
  BY <1>1, <1>2
<1> QED
  BY <1>1, <1>2, <1>3

\* One more at the end.
LEMMA Added ==
  ASSUME NEW T, NEW s \in Seq(T), NEW m \in T
  PROVE  /\ Append(s, m) \in Seq(T) /\ s \o <<m>> = Append(s, m)
         /\ Len(Append(s, m)) = Len(s) + 1 /\ DOMAIN Append(s, m) = 1 .. (Len(s) + 1)
         /\ \A i \in 1 .. Len(s) : Append(s, m)[i] = s[i]
         /\ Append(s, m)[Len(s) + 1] = m
<1>1. /\ Append(s, m) \in Seq(T) /\ s \o <<m>> = Append(s, m)
      /\ Len(Append(s, m)) = Len(s) + 1
      /\ \A i \in 1 .. Len(s) : Append(s, m)[i] = s[i]
      /\ Append(s, m)[Len(s) + 1] = m
  BY AppendIsConcat, AppendProperties
<1> QED
  BY <1>1, Lengths

\* And the first one gone.
LEMMA TakenOff ==
  ASSUME NEW T, NEW s \in Seq(T), s # << >>
  PROVE  /\ Head(s) \in T /\ Tail(s) \in Seq(T) /\ Head(s) = s[1]
         /\ Len(s) \in Nat \ {0} /\ DOMAIN s = 1 .. Len(s)
         /\ Len(Tail(s)) = Len(s) - 1 /\ DOMAIN Tail(s) = 1 .. (Len(s) - 1)
         /\ \A i \in 1 .. (Len(s) - 1) : Tail(s)[i] = s[i + 1]
<1>1. /\ Head(s) \in T /\ Tail(s) \in Seq(T)
      /\ Len(Tail(s)) = Len(s) - 1
      /\ \A i \in 1 .. Len(Tail(s)) : Tail(s)[i] = s[i + 1]
      /\ Head(s) = s[1]
  BY HeadTailProperties
<1>2. Len(s) \in Nat \ {0} /\ DOMAIN s = 1 .. Len(s)
  BY Lengths
<1>3. DOMAIN Tail(s) = 1 .. Len(Tail(s))
  BY <1>1, Lengths
<1> QED
  BY <1>1, <1>2, <1>3

-------------------------------------------------------------------------------
(***************************************************************************)
(* Types, and where the threads can be.                                    *)
(***************************************************************************)
ExtMessages == [id : {Ext}, body : States]
MemberMessages == [id : {Member}, body : Nat]
Sendable == ExtMessages \cup MemberMessages

ExtQueues == [default : Seq(ExtMessages), custom : Seq(ExtMessages)]
MemberQueues == [default : Seq(MemberMessages), custom : {<< >>}]

HandOverTasks == [kind : {"handOver"}, id : Entities]
InvokeTasks == [kind : {"invoke"}, message : MemberMessages, era : Nat]
Tasks == HandOverTasks \cup InvokeTasks

Places == {"test", "move", "erase", "custom"}
ExtHands == [at : Places, id : {Ext}, custom : Seq(ExtMessages)]
MemberHands == [at : Places, id : {Member}, custom : {<< >>}]
Hands == ExtHands \cup MemberHands

\* Only the extension's messages are executed by the thread that reads the wire, and only
\* they wait behind what the broker hands over.
BrokerTypes ==
  /\ incoming \in Seq(Sendable)
  /\ subscribed \subseteq Entities
  /\ era \in [Entities -> Nat]
  /\ broker \in [Entities -> ExtQueues \cup MemberQueues \cup {Nothing}]
  /\ broker[Ext] \in ExtQueues \cup {Nothing}
  /\ broker[Member] \in MemberQueues \cup {Nothing}
  /\ tasks \in Seq(Tasks)
  /\ running \in [Threads -> Messages \cup {Nothing}]
  /\ running["receiver"] # Nothing => running["receiver"].id = Ext
  /\ hand \in Hands \cup {Nothing}
  /\ undefined \in BOOLEAN /\ raced \in BOOLEAN

Peers == [bindings : Nat, bound : BOOLEAN, connected : BOOLEAN, sendQ : Seq(Nat),
          sent : Nat, heard : Seq(Nat)]

ExtTypes ==
  /\ binding \in {"unbound", "advised", "ready", "bound", "leaving", "left"}
  /\ connected \in BOOLEAN
  /\ sendQ \in Seq(Nat) /\ outgoing \in Seq(Sendable) /\ sent \in Nat /\ heard \in Seq(Nat)
  /\ peer \in Peers
  /\ due \subseteq Nat /\ peerDue \subseteq Nat

\* The subscriptions follow the binding; the scheduler executes and hands over between
\* bindings only, and executes only while the extension is bound.
Stands ==
  /\ Ext \in subscribed <=> binding # "unbound"
  /\ Member \in subscribed <=> binding = "bound"
  /\ hand # Nothing => OutOfTasks
  /\ running["scheduler"] # Nothing => binding = "bound"
  /\ running["scheduler"] # Nothing /\ running["scheduler"].id = Ext =>
       hand # Nothing /\ hand.id = Ext

\* An entry is there until its action has erased it.
HandAt ==
  hand # Nothing =>
    /\ hand.at # "custom" => Known(hand.id)
    /\ hand.at \in {"test", "move"} => hand.custom = << >>
    /\ ~undefined /\ hand.custom # << >> => binding = "bound"

TypeInv == BrokerTypes /\ ExtTypes /\ Stands /\ HandAt

LEMMA Names ==
  /\ Ext # Member /\ Entities = {Ext, Member} /\ OnWire = {Ext}
  /\ Ext \in Entities /\ Member \in Entities
BY ExtAssumption

LEMMA Somethings ==
  /\ \A m \in Messages : m # Nothing
  /\ ExtMessages \subseteq Messages /\ MemberMessages \subseteq Messages
  /\ \A n \in Nat : ToMember(n) \in MemberMessages
  /\ \A s \in States : ToExt(s) \in ExtMessages
  /\ ToExt(Flush) \in Messages
  /\ \A q \in ExtQueues \cup MemberQueues : q # Nothing
  /\ \A h \in Hands : h # Nothing
<1>1. ExtMessages \subseteq Messages /\ MemberMessages \subseteq Messages
  BY DEF ExtMessages, MemberMessages, Messages
<1>2. Seq(ExtMessages) \subseteq Seq(Messages) /\ Seq(MemberMessages) \subseteq Seq(Messages)
  BY <1>1
<1>3. << >> \in Seq(Messages)
  BY EmptySeq
<1>4. ExtQueues \cup MemberQueues \subseteq [default : Seq(Messages), custom : Seq(Messages)]
  BY <1>2, <1>3 DEF ExtQueues, MemberQueues
<1>5. Hands \subseteq [at : Places, id : Entities, custom : Seq(Messages)]
  <2>1. ExtHands \subseteq [at : Places, id : Entities, custom : Seq(Messages)]
    BY <1>2, Names DEF ExtHands
  <2>2. MemberHands \subseteq [at : Places, id : Entities, custom : Seq(Messages)]
    BY <1>3, Names DEF MemberHands
  <2> QED  BY <2>1, <2>2 DEF Hands
<1>6. /\ \A n \in Nat : ToMember(n) \in MemberMessages
      /\ \A s \in States : ToExt(s) \in ExtMessages
      /\ ToExt(Flush) \in Messages
  BY DEF ToMember, ToExt, MemberMessages, ExtMessages, Messages, States
<1> QED
  BY <1>1, <1>4, <1>5, <1>6, NothingAssumption DEF Places

LEMMA KeptTypes ==
  ASSUME BrokerTypes
  PROVE  Kept(Ext) \in ExtQueues /\ Kept(Member) \in MemberQueues
<1>1. << >> \in Seq(ExtMessages) /\ << >> \in Seq(MemberMessages)
  BY EmptySeq
<1> QED
  BY <1>1 DEF BrokerTypes, Kept, Known, EmptyMq, ExtQueues, MemberQueues

LEMMA InitTypes == ASSUME ExtInit PROVE TypeInv
<1>1. \A T : << >> \in Seq(T)
  BY EmptySeq
<1>2. BrokerTypes
  BY <1>1, Names DEF ExtInit, BrokerInit, BrokerTypes
<1>3. ExtTypes
  BY <1>1 DEF ExtInit, ExtTypes, Peers
<1> QED
  BY <1>2, <1>3 DEF ExtInit, BrokerInit, TypeInv, Stands, HandAt

LEMMA DispatchTypes == ASSUME TypeInv, Dispatch, UNCHANGED extVars PROVE TypeInv'
<1> DEFINE m == Head(incoming)
<1>1. m \in Sendable /\ incoming' \in Seq(Sendable) /\ Deliver(m)
  BY TakenOff DEF Dispatch, TypeInv, BrokerTypes
<1>2. UNCHANGED <<subscribed, era, hand, undefined, binding>> /\ running["receiver"] = Nothing
  BY DEF Dispatch, extVars, hostVars, Unlocked
<1> HIDE DEF m
<1>3. m.id \in Entities /\ m \in Messages /\ m # Nothing
  BY <1>1, Names, Somethings DEF Sendable, ExtMessages, MemberMessages
<1>4. ExtTypes'
  BY DEF TypeInv, ExtTypes, extVars, hostVars
<1>5. CASE Keep(m)
  <2> DEFINE q == [Kept(m.id) EXCEPT !.default = Append(@, m)]
             t == [kind |-> "handOver", id |-> m.id]
  <2>1. /\ m.id = Ext => q \in ExtQueues
        /\ m.id = Member => q \in MemberQueues
    <3>1. CASE m.id = Ext
      BY <1>1, <3>1, KeptTypes, Added, Names DEF TypeInv, ExtQueues, Sendable, MemberMessages
    <3>2. CASE m.id = Member
      BY <1>1, <3>2, KeptTypes, Added, Names DEF TypeInv, MemberQueues, Sendable, ExtMessages
    <3> QED  BY <1>3, <3>1, <3>2, Names
  <2>2. tasks' \in Seq(Tasks)
    <3>1. t \in Tasks
      BY <1>3 DEF Tasks, HandOverTasks
    <3> QED  BY <1>5, <3>1, Added DEF Keep, TypeInv, BrokerTypes
  <2> HIDE DEF q
  <2>3. broker' = [broker EXCEPT ![m.id] = q] /\ q # Nothing /\ raced' \in BOOLEAN
    BY <1>3, <1>5, <2>1, Names, Somethings DEF Keep, TypeInv, BrokerTypes, q
  <2>4. BrokerTypes'
    BY <1>1, <1>2, <1>3, <1>5, <2>1, <2>2, <2>3, Names DEF Keep, TypeInv, BrokerTypes
  <2>5. \A id \in Entities : Known(id) => Known(id)'
    BY <1>3, <2>3 DEF Known, TypeInv, BrokerTypes
  <2> QED
    BY <1>2, <1>4, <1>5, <2>4, <2>5, Names
       DEF Keep, TypeInv, Stands, HandAt, OutOfTasks, BrokerTypes, Hands, ExtHands, MemberHands
<1>6. CASE Queue(m)
  <2> DEFINE t == [kind |-> "invoke", message |-> m, era |-> era[m.id]]
  <2>1. t \in Tasks
    BY <1>1, <1>6, Names DEF Queue, Tasks, InvokeTasks, Sendable, ExtMessages, MemberMessages,
                             TypeInv, BrokerTypes
  <2>2. tasks' \in Seq(Tasks)
    BY <1>6, <2>1, Added DEF Queue, TypeInv, BrokerTypes
  <2> QED
    BY <1>1, <1>2, <1>4, <1>6, <2>2
       DEF Queue, TypeInv, BrokerTypes, Stands, HandAt, OutOfTasks, Known
<1>7. CASE Invoke(m)
  <2>1. /\ running' = [running EXCEPT !["receiver"] = m] /\ m.id = Ext
        /\ UNCHANGED <<broker, tasks>> /\ raced' \in BOOLEAN
    BY <1>7, Names DEF Invoke, Run, TypeInv, BrokerTypes
  <2>2. running' \in [Threads -> Messages \cup {Nothing}] /\ running'["receiver"] = m
        /\ running'["scheduler"] = running["scheduler"]
    BY <1>3, <2>1 DEF TypeInv, BrokerTypes
  <2>3. BrokerTypes'
    BY <1>1, <1>2, <2>1, <2>2 DEF TypeInv, BrokerTypes
  <2> QED
    BY <1>2, <1>4, <2>1, <2>2, <2>3 DEF TypeInv, Stands, HandAt, OutOfTasks, Known
<1>8. CASE Follow(m)
  <2> DEFINE q == [broker[m.id] EXCEPT !.custom = Append(@, m)]
  <2>1. m.id = Ext /\ m \in ExtMessages
    BY <1>1, <1>8, Names DEF Follow, Sendable, MemberMessages
  <2>2. q \in ExtQueues
    BY <1>8, <2>1, Added DEF Follow, Known, TypeInv, BrokerTypes, ExtQueues
  <2>3. broker' = [broker EXCEPT ![Ext] = q]
    BY <1>8, <2>1 DEF Follow
  <2> HIDE DEF q
  <2>4. BrokerTypes'
    BY <1>1, <1>2, <1>8, <2>2, <2>3, Names DEF Follow, TypeInv, BrokerTypes
  <2>5. \A id \in Entities : Known(id) => Known(id)'
    BY <2>2, <2>3, Somethings DEF Known, TypeInv, BrokerTypes
  <2> QED
    BY <1>2, <1>4, <1>8, <2>4, <2>5, Names
       DEF Follow, TypeInv, Stands, HandAt, OutOfTasks, BrokerTypes, Hands, ExtHands, MemberHands
<1> QED  BY <1>1, <1>5, <1>6, <1>7, <1>8 DEF Deliver

-------------------------------------------------------------------------------
(***************************************************************************)
(* The messages that wait in the broker and the actions queued for them.   *)
(***************************************************************************)
HandsOver(task, id) == task.kind = "handOver" /\ task.id = id

\* In the tasks q, at tells where the actions are that hand over n messages of id.
Enumerates(at, n, q, id) ==
  /\ at \in [1 .. n -> DOMAIN q]
  /\ \A k, l \in 1 .. n : k < l => at[k] < at[l]
  /\ \A i \in DOMAIN q : HandsOver(q[i], id) <=> \E k \in 1 .. n : at[k] = i

OneMore(at, n, place) == [k \in 1 .. (n + 1) |-> IF k = n + 1 THEN place ELSE at[k]]
FirstGone(at, n) == [k \in 1 .. (n - 1) |-> at[k + 1] - 1]
MovedUp(at, n) == [k \in 1 .. n |-> at[k] - 1]

LEMMA OneMoreHandOver ==
  ASSUME NEW q \in Seq(Tasks), NEW t \in Tasks, NEW id, NEW n \in Nat, NEW at,
         HandsOver(t, id), Enumerates(at, n, q, id)
  PROVE  Enumerates(OneMore(at, n, Len(q) + 1), n + 1, Append(q, t), id)
<1> DEFINE r == Append(q, t)
           new == OneMore(at, n, Len(q) + 1)
<1>1. /\ Len(q) \in Nat /\ DOMAIN q = 1 .. Len(q) /\ DOMAIN r = 1 .. (Len(q) + 1)
      /\ \A i \in 1 .. Len(q) : r[i] = q[i]
      /\ r[Len(q) + 1] = t
  BY Added, Lengths
<1> HIDE DEF r
<1>2. /\ new[n + 1] = Len(q) + 1
      /\ \A k \in 1 .. n : new[k] = at[k] /\ new[k] \in 1 .. Len(q)
      /\ new \in [1 .. (n + 1) -> DOMAIN r]
  BY <1>1 DEF Enumerates, OneMore
<1> HIDE DEF new
<1>3. \A k, l \in 1 .. (n + 1) : k < l => new[k] < new[l]
  <2> SUFFICES ASSUME NEW k \in 1 .. (n + 1), NEW l \in 1 .. (n + 1), k < l
               PROVE  new[k] < new[l]
    OBVIOUS
  <2>1. k \in 1 .. n /\ new[k] = at[k] /\ at[k] \in 1 .. Len(q)
    BY <1>2
  <2>2. CASE l \in 1 .. n
    BY <1>2, <2>1, <2>2 DEF Enumerates
  <2>3. CASE l = n + 1
    BY <1>1, <1>2, <2>1, <2>3
  <2> QED  BY <2>2, <2>3
<1>4. ASSUME NEW i \in DOMAIN r PROVE HandsOver(r[i], id) <=> \E k \in 1 .. (n + 1) : new[k] = i
  <2>1. CASE i \in 1 .. Len(q)
    <3>1. HandsOver(q[i], id) <=> \E k \in 1 .. n : at[k] = i
      BY <1>1, <2>1 DEF Enumerates
    <3>2. (\E k \in 1 .. n : at[k] = i) <=> \E k \in 1 .. (n + 1) : new[k] = i
      BY <1>1, <1>2, <2>1
    <3> QED  BY <1>1, <2>1, <3>1, <3>2
  <2>2. CASE i = Len(q) + 1
    BY <1>1, <1>2, <2>2
  <2> QED  BY <1>1, <1>4, <2>1, <2>2
<1> QED  BY <1>2, <1>3, <1>4 DEF Enumerates, r, new

LEMMA OneMoreTask ==
  ASSUME NEW q \in Seq(Tasks), NEW t \in Tasks, NEW id, NEW n \in Nat, NEW at,
         ~HandsOver(t, id), Enumerates(at, n, q, id)
  PROVE  Enumerates(at, n, Append(q, t), id)
<1> DEFINE r == Append(q, t)
<1>1. /\ Len(q) \in Nat /\ DOMAIN q = 1 .. Len(q) /\ DOMAIN r = 1 .. (Len(q) + 1)
      /\ \A i \in 1 .. Len(q) : r[i] = q[i]
      /\ r[Len(q) + 1] = t
  BY Added, Lengths
<1> HIDE DEF r
<1>2. at \in [1 .. n -> DOMAIN r]
  BY <1>1 DEF Enumerates
<1>3. ASSUME NEW i \in DOMAIN r PROVE HandsOver(r[i], id) <=> \E k \in 1 .. n : at[k] = i
  <2>1. CASE i \in 1 .. Len(q)
    BY <1>1, <2>1 DEF Enumerates
  <2>2. CASE i = Len(q) + 1
    BY <1>1, <2>2 DEF Enumerates
  <2> QED  BY <1>1, <1>3, <2>1, <2>2
<1> QED  BY <1>2, <1>3 DEF Enumerates, r

LEMMA HandOverTaken ==
  ASSUME NEW q \in Seq(Tasks), q # << >>, NEW id, NEW n \in Nat, NEW at,
         HandsOver(Head(q), id), Enumerates(at, n, q, id)
  PROVE  0 < n /\ at[1] = 1 /\ Enumerates(FirstGone(at, n), n - 1, Tail(q), id)
<1> DEFINE r == Tail(q)
           new == FirstGone(at, n)
<1>1. /\ Len(q) \in Nat \ {0} /\ DOMAIN q = 1 .. Len(q) /\ DOMAIN r = 1 .. (Len(q) - 1)
      /\ Head(q) = q[1] /\ \A i \in 1 .. (Len(q) - 1) : r[i] = q[i + 1]
  BY TakenOff
<1> HIDE DEF r
<1>2. /\ at \in [1 .. n -> 1 .. Len(q)] /\ \A k, l \in 1 .. n : k < l => at[k] < at[l]
      /\ \A i \in 1 .. Len(q) : HandsOver(q[i], id) <=> \E k \in 1 .. n : at[k] = i
  BY <1>1 DEF Enumerates
<1>3. 0 < n /\ at[1] = 1
  <2>1. PICK k \in 1 .. n : at[k] = 1
    BY <1>1, <1>2
  <2>2. k = 1
    BY <1>2, <2>1
  <2> QED  BY <2>1, <2>2
<1>4. ASSUME NEW k \in 1 .. (n - 1)
      PROVE  k + 1 \in 1 .. n /\ at[k + 1] \in 2 .. Len(q) /\ new[k] = at[k + 1] - 1
  <2>1. k + 1 \in 1 .. n /\ 1 \in 1 .. n /\ 1 < k + 1 /\ at[k + 1] \in 1 .. Len(q)
    BY <1>2, <1>3
  <2>2. at[1] < at[k + 1]
    BY <1>2, <2>1
  <2> QED  BY <1>1, <1>3, <2>1, <2>2 DEF FirstGone
<1>5. new \in [1 .. (n - 1) -> DOMAIN r]
  <2>1. ASSUME NEW k \in 1 .. (n - 1) PROVE at[k + 1] - 1 \in 1 .. (Len(q) - 1)
    <3>1. at[k + 1] \in 2 .. Len(q)
      BY <1>4
    <3> QED  BY <1>1, <3>1
  <2> QED  BY <1>1, <2>1 DEF FirstGone
<1> HIDE DEF new
<1>6. \A k, l \in 1 .. (n - 1) : k < l => new[k] < new[l]
  <2> SUFFICES ASSUME NEW k \in 1 .. (n - 1), NEW l \in 1 .. (n - 1), k < l
               PROVE  new[k] < new[l]
    OBVIOUS
  <2>1. at[k + 1] < at[l + 1]
    BY <1>2, <1>4
  <2> QED  BY <1>1, <1>4, <2>1
<1>7. ASSUME NEW i \in 1 .. (Len(q) - 1)
      PROVE  HandsOver(r[i], id) <=> \E k \in 1 .. (n - 1) : new[k] = i
  <2>1. r[i] = q[i + 1] /\ i + 1 \in 1 .. Len(q)
    BY <1>1
  <2>2. HandsOver(r[i], id) <=> \E k \in 1 .. n : at[k] = i + 1
    BY <1>2, <2>1
  <2>3. ASSUME NEW k \in 1 .. n, at[k] = i + 1 PROVE \E l \in 1 .. (n - 1) : new[l] = i
    <3>1. k # 1
      BY <1>3, <2>3
    <3>2. PICK l \in 1 .. (n - 1) : l + 1 = k
      <4>1. k - 1 \in 1 .. (n - 1) /\ (k - 1) + 1 = k
        BY <3>1
      <4> QED  BY <4>1
    <3>3. new[l] = at[k] - 1
      BY <1>4, <3>2
    <3>4. new[l] = i
      BY <2>3, <3>3
    <3> QED  BY <3>4
  <2>4. ASSUME NEW k \in 1 .. (n - 1), new[k] = i PROVE \E l \in 1 .. n : at[l] = i + 1
    <3>1. k + 1 \in 1 .. n /\ at[k + 1] \in 2 .. Len(q) /\ i = at[k + 1] - 1
      BY <1>4, <2>4
    <3>2. at[k + 1] = i + 1
      BY <1>1, <3>1
    <3> QED  BY <3>1, <3>2
  <2> QED  BY <2>2, <2>3, <2>4
<1> QED  BY <1>1, <1>3, <1>5, <1>6, <1>7 DEF Enumerates, r, new

LEMMA OtherTaken ==
  ASSUME NEW q \in Seq(Tasks), q # << >>, NEW id, NEW n \in Nat, NEW at,
         ~HandsOver(Head(q), id), Enumerates(at, n, q, id)
  PROVE  /\ \A k \in 1 .. n : at[k] > 1
         /\ Enumerates(MovedUp(at, n), n, Tail(q), id)
<1> DEFINE r == Tail(q)
           new == MovedUp(at, n)
<1>1. /\ Len(q) \in Nat \ {0} /\ DOMAIN q = 1 .. Len(q) /\ DOMAIN r = 1 .. (Len(q) - 1)
      /\ Head(q) = q[1] /\ \A i \in 1 .. (Len(q) - 1) : r[i] = q[i + 1]
  BY TakenOff
<1> HIDE DEF r
<1>2. /\ at \in [1 .. n -> 1 .. Len(q)] /\ \A k, l \in 1 .. n : k < l => at[k] < at[l]
      /\ \A i \in 1 .. Len(q) : HandsOver(q[i], id) <=> \E k \in 1 .. n : at[k] = i
  BY <1>1 DEF Enumerates
<1>3. \A k \in 1 .. n : at[k] > 1
  BY <1>1, <1>2
<1>4. ASSUME NEW k \in 1 .. n PROVE at[k] \in 2 .. Len(q) /\ new[k] = at[k] - 1
  <2>1. at[k] \in 1 .. Len(q) /\ at[k] > 1
    BY <1>2, <1>3
  <2> QED  BY <1>1, <2>1 DEF MovedUp
<1>5. new \in [1 .. n -> DOMAIN r]
  <2>1. ASSUME NEW k \in 1 .. n PROVE at[k] - 1 \in 1 .. (Len(q) - 1)
    BY <1>1, <1>4
  <2> QED  BY <1>1, <2>1 DEF MovedUp
<1> HIDE DEF new
<1>6. \A k, l \in 1 .. n : k < l => new[k] < new[l]
  <2> SUFFICES ASSUME NEW k \in 1 .. n, NEW l \in 1 .. n, k < l PROVE new[k] < new[l]
    OBVIOUS
  <2>1. at[k] < at[l]
    BY <1>2
  <2> QED  BY <1>1, <1>4, <2>1
<1>7. ASSUME NEW i \in 1 .. (Len(q) - 1)
      PROVE  HandsOver(r[i], id) <=> \E k \in 1 .. n : new[k] = i
  <2>1. r[i] = q[i + 1] /\ i + 1 \in 1 .. Len(q)
    BY <1>1
  <2>2. HandsOver(r[i], id) <=> \E k \in 1 .. n : at[k] = i + 1
    BY <1>2, <2>1
  <2>3. ASSUME NEW k \in 1 .. n PROVE at[k] = i + 1 <=> new[k] = i
    BY <1>1, <1>4
  <2> QED  BY <2>2, <2>3
<1> QED  BY <1>1, <1>3, <1>5, <1>6, <1>7 DEF Enumerates, r, new

\* As many as the messages they hand over.
LEMMA Counting ==
  ASSUME NEW q \in Seq(Tasks), NEW id, NEW n \in Nat, NEW at, Enumerates(at, n, q, id)
  PROVE  Cardinality({i \in DOMAIN q : HandsOver(q[i], id)}) = n
<1> DEFINE S == {i \in DOMAIN q : HandsOver(q[i], id)}
<1>1. at \in [1 .. n -> S]
  BY DEF Enumerates
<1>2. \A k, l \in 1 .. n : at[k] = at[l] => k = l
  <2> SUFFICES ASSUME NEW k \in 1 .. n, NEW l \in 1 .. n, at[k] = at[l] PROVE k = l
    OBVIOUS
  <2>1. at[k] \in Nat
    BY Lengths DEF Enumerates
  <2>2. ~(at[k] < at[l]) /\ ~(at[l] < at[k])
    BY <2>1
  <2> QED  BY <2>2 DEF Enumerates
<1>3. \A s \in S : \E k \in 1 .. n : at[k] = s
  BY DEF Enumerates
<1> HIDE DEF S
<1>4. ExistsBijection(1 .. n, S)
  BY <1>1, <1>2, <1>3 DEF ExistsBijection, Bijection, Injection, IsInjective, Surjection
<1> QED  BY <1>4, FS_CountingElements DEF S

Counted == \A id \in Entities : \E at : Enumerates(at, Len(Kept(id).default), tasks, id)

BaseInv == TypeInv /\ (~undefined => Counted)

LEMMA KeptLengths ==
  ASSUME TypeInv, NEW id \in Entities
  PROVE  Len(Kept(id).default) \in Nat /\ tasks \in Seq(Tasks)
BY KeptTypes, Names, Lengths DEF TypeInv, BrokerTypes, ExtQueues, MemberQueues

LEMMA InitCounted == ASSUME ExtInit PROVE Counted
<1> SUFFICES ASSUME NEW id \in Entities
             PROVE  \E at : Enumerates(at, Len(Kept(id).default), tasks, id)
  BY DEF Counted
<1>1. Len(Kept(id).default) = 0 /\ tasks = << >> /\ DOMAIN tasks = {}
  BY DEF ExtInit, BrokerInit, Kept, Known, EmptyMq
<1>2. Enumerates([k \in 1 .. 0 |-> 1], 0, tasks, id)
  BY <1>1 DEF Enumerates
<1> QED  BY <1>1, <1>2

LEMMA DispatchCounted ==
  ASSUME TypeInv, Dispatch, UNCHANGED extVars, Counted
  PROVE  Counted'
<1> DEFINE m == Head(incoming)
<1>1. m \in Sendable /\ Deliver(m)
  BY TakenOff DEF Dispatch, TypeInv, BrokerTypes
<1> HIDE DEF m
<1>2. m.id \in Entities
  BY <1>1, Names DEF Sendable, ExtMessages, MemberMessages
<1> SUFFICES ASSUME NEW id \in Entities
             PROVE  (\E at : Enumerates(at, Len(Kept(id).default), tasks, id))'
  BY DEF Counted
<1> DEFINE n == Len(Kept(id).default)
<1>3. n \in Nat /\ tasks \in Seq(Tasks)
  BY KeptLengths
<1>4. PICK at : Enumerates(at, n, tasks, id)
  BY DEF Counted
<1>5. CASE Keep(m)
  <2> DEFINE t == [kind |-> "handOver", id |-> m.id]
             q == [Kept(m.id) EXCEPT !.default = Append(@, m)]
  <2>1. t \in Tasks /\ t.kind = "handOver" /\ t.id = m.id
    BY <1>2 DEF Tasks, HandOverTasks
  <2>2. q # Nothing /\ q.default = Append(Kept(m.id).default, m)
        /\ Len(q.default) = Len(Kept(m.id).default) + 1
    <3>1. CASE m.id = Ext
      <4>1. m \in ExtMessages /\ Kept(m.id) \in ExtQueues
        BY <1>1, <3>1, KeptTypes, Names DEF TypeInv, Sendable, MemberMessages
      <4>2. /\ Append(Kept(m.id).default, m) \in Seq(ExtMessages)
            /\ Len(Append(Kept(m.id).default, m)) = Len(Kept(m.id).default) + 1
        BY <4>1, Added DEF ExtQueues
      <4>3. q \in ExtQueues /\ q.default = Append(Kept(m.id).default, m)
        BY <4>1, <4>2 DEF ExtQueues
      <4> QED  BY <4>2, <4>3, Somethings
    <3>2. CASE m.id = Member
      <4>1. m \in MemberMessages /\ Kept(m.id) \in MemberQueues
        BY <1>1, <3>2, KeptTypes, Names DEF TypeInv, Sendable, ExtMessages
      <4>2. /\ Append(Kept(m.id).default, m) \in Seq(MemberMessages)
            /\ Len(Append(Kept(m.id).default, m)) = Len(Kept(m.id).default) + 1
        BY <4>1, Added DEF MemberQueues
      <4>3. q \in MemberQueues /\ q.default = Append(Kept(m.id).default, m)
        BY <4>1, <4>2 DEF MemberQueues
      <4> QED  BY <4>2, <4>3, Somethings
    <3> QED  BY <1>2, <3>1, <3>2, Names
  <2> HIDE DEF t, q
  <2>3. broker' = [broker EXCEPT ![m.id] = q] /\ tasks' = Append(tasks, t)
    <3>1. Known(m.id) \/ ~Known(m.id)
      OBVIOUS
    <3> QED  BY <1>5 DEF Keep, t, q
  <2>4. CASE m.id = id
    <3>1. Kept(id)' = q /\ Len(Kept(id)'.default) = n + 1
      BY <2>2, <2>3, <2>4 DEF Kept, Known, TypeInv, BrokerTypes
    <3>2. Enumerates(OneMore(at, n, Len(tasks) + 1), n + 1, tasks', id)
      BY <1>3, <1>4, <2>1, <2>3, <2>4, OneMoreHandOver DEF HandsOver
    <3> QED  BY <3>1, <3>2
  <2>5. CASE m.id # id
    <3>1. Kept(id)' = Kept(id)
      BY <2>3, <2>5 DEF Kept, Known, TypeInv, BrokerTypes
    <3>2. Enumerates(at, n, tasks', id)
      BY <1>3, <1>4, <2>1, <2>3, <2>5, OneMoreTask DEF HandsOver
    <3> QED  BY <3>1, <3>2
  <2> QED  BY <2>4, <2>5
<1>6. CASE Queue(m)
  <2> DEFINE t == [kind |-> "invoke", message |-> m, era |-> era[m.id]]
  <2>1. t \in Tasks /\ ~HandsOver(t, id)
    BY <1>1, <1>6, Names DEF Queue, Tasks, InvokeTasks, Sendable, ExtMessages, MemberMessages,
                             TypeInv, BrokerTypes, HandsOver
  <2>2. Kept(id)' = Kept(id) /\ tasks' = Append(tasks, t)
    BY <1>6 DEF Queue, Kept, Known
  <2> HIDE DEF t
  <2>3. Enumerates(at, n, tasks', id)
    BY <1>3, <1>4, <2>1, <2>2, OneMoreTask
  <2> QED  BY <2>2, <2>3
<1>7. CASE Invoke(m)
  <2>1. Kept(id)' = Kept(id) /\ tasks' = tasks
    BY <1>7 DEF Invoke, Kept, Known
  <2> QED  BY <1>4, <2>1
<1>8. CASE Follow(m)
  <2> DEFINE q == [broker[m.id] EXCEPT !.custom = Append(@, m)]
  <2>1. m.id = Ext /\ m \in ExtMessages
    BY <1>1, <1>8, Names DEF Follow, Sendable, MemberMessages
  <2>2. q \in ExtQueues /\ q.default = broker[Ext].default
    BY <1>8, <2>1, Added DEF Follow, Known, TypeInv, BrokerTypes, ExtQueues
  <2>3. broker' = [broker EXCEPT ![Ext] = q] /\ tasks' = tasks
    BY <1>8, <2>1 DEF Follow
  <2> HIDE DEF q
  <2>4. Kept(id)'.default = Kept(id).default
    BY <1>8, <2>1, <2>2, <2>3, Somethings DEF Follow, Kept, Known, TypeInv, BrokerTypes
  <2> QED  BY <1>4, <2>3, <2>4
<1> QED  BY <1>1, <1>5, <1>6, <1>7, <1>8 DEF Deliver

\* Steps of the scheduler's tasks leave the extension alone.
LEMMA TasksLeaveTypes ==
  ASSUME TypeInv, UNCHANGED extVars
  PROVE  ExtTypes' /\ UNCHANGED <<binding, connected>> /\ (OutOfTasks' <=> OutOfTasks)
BY DEF TypeInv, ExtTypes, extVars, hostVars, OutOfTasks

LEMMA RunInvokeTypes ==
  ASSUME TypeInv, RunInvoke, UNCHANGED extVars
  PROVE  TypeInv' /\ (Counted => Counted')
<1> DEFINE t == Head(tasks)
<1>1. /\ t \in Tasks /\ tasks' = Tail(tasks) /\ tasks' \in Seq(Tasks) /\ t.kind = "invoke"
      /\ tasks # << >> /\ tasks \in Seq(Tasks)
      /\ hand = Nothing /\ running["scheduler"] = Nothing
      /\ UNCHANGED <<incoming, subscribed, era, broker, hand, undefined, raced>>
  BY TakenOff DEF RunInvoke, NextTask, Idle, TypeInv, BrokerTypes
<1> HIDE DEF t
<1>2. t \in InvokeTasks /\ t.message \in Messages \cap MemberMessages /\ t.message.id = Member
  BY <1>1, Somethings DEF Tasks, HandOverTasks, InvokeTasks, MemberMessages
<1>3. \/ running' = [running EXCEPT !["scheduler"] = t.message] /\ Member \in subscribed
      \/ running' = running
  BY <1>2 DEF RunInvoke, Run, StillThere, t
<1>4. /\ running' \in [Threads -> Messages \cup {Nothing}]
      /\ running'["receiver"] = running["receiver"]
      /\ running'["scheduler"] # Nothing =>
           Member \in subscribed /\ running'["scheduler"].id = Member
  BY <1>1, <1>2, <1>3 DEF TypeInv, BrokerTypes
<1>5. TypeInv'
  <2>1. BrokerTypes'
    BY <1>1, <1>4 DEF TypeInv, BrokerTypes
  <2> QED
    BY <1>1, <1>4, <2>1, TasksLeaveTypes, Names DEF TypeInv, Stands, HandAt
<1>6. ASSUME Counted PROVE Counted'
  <2> SUFFICES ASSUME NEW id \in Entities
               PROVE  (\E at : Enumerates(at, Len(Kept(id).default), tasks, id))'
    BY DEF Counted
  <2>1. PICK at : Enumerates(at, Len(Kept(id).default), tasks, id)
    BY <1>6 DEF Counted
  <2>2. Kept(id)' = Kept(id) /\ ~HandsOver(t, id)
    BY <1>1 DEF Kept, Known, HandsOver
  <2>3. Enumerates(MovedUp(at, Len(Kept(id).default)), Len(Kept(id).default), tasks', id)
    BY <1>1, <2>1, <2>2, KeptLengths, OtherTaken DEF t
  <2> QED  BY <2>2, <2>3
<1> QED  BY <1>5, <1>6

LEMMA HandOverTypes ==
  ASSUME TypeInv, HandOver, UNCHANGED extVars, OutOfTasks, Counted
  PROVE  TypeInv' /\ Counted'
<1> DEFINE id == Head(tasks).id
           waiting == broker[id].default
           q == [broker[id] EXCEPT !.default = Tail(waiting)]
           h == [at |-> "test", id |-> id, custom |-> << >>]
<1>1. /\ Head(tasks) \in Tasks /\ tasks' = Tail(tasks) /\ tasks' \in Seq(Tasks)
      /\ HandsOver(Head(tasks), id) /\ tasks # << >> /\ tasks \in Seq(Tasks)
      /\ hand = Nothing /\ running["scheduler"] = Nothing /\ ~undefined
      /\ UNCHANGED <<incoming, subscribed, era, undefined, raced>>
  BY TakenOff DEF HandOver, NextTask, Idle, TypeInv, BrokerTypes, HandsOver
<1>2. id \in Entities
  BY <1>1 DEF Tasks, HandOverTasks, InvokeTasks, HandsOver
<1>3. PICK at : Enumerates(at, Len(Kept(id).default), tasks, id)
  BY <1>2 DEF Counted
<1>4. /\ 0 < Len(Kept(id).default)
      /\ Enumerates(FirstGone(at, Len(Kept(id).default)), Len(Kept(id).default) - 1, tasks', id)
  BY <1>1, <1>2, <1>3, KeptLengths, HandOverTaken
<1>5. Known(id) /\ Kept(id) = broker[id]
  <2>1. Len(EmptyMq.default) = 0
    BY DEF EmptyMq
  <2> QED  BY <1>4, <2>1 DEF Kept
<1> HIDE DEF id
<1>6. /\ id = Ext => q \in ExtQueues /\ Head(waiting) \in ExtMessages
      /\ id = Member => q \in MemberQueues /\ Head(waiting) \in MemberMessages
      /\ q.default = Tail(waiting) /\ Len(q.default) = Len(Kept(id).default) - 1 /\ q # Nothing
  <2>1. CASE id = Ext
    <3>1. broker[id] \in ExtQueues /\ waiting \in Seq(ExtMessages) /\ waiting # << >>
      BY <1>4, <1>5, <2>1, KeptTypes, Lengths DEF TypeInv, ExtQueues
    <3>2. Tail(waiting) \in Seq(ExtMessages) /\ Head(waiting) \in ExtMessages
          /\ Len(Tail(waiting)) = Len(waiting) - 1
      BY <3>1, TakenOff
    <3>3. q \in ExtQueues /\ q.default = Tail(waiting)
      BY <3>1, <3>2 DEF ExtQueues
    <3> QED  BY <1>5, <2>1, <3>2, <3>3, Names, Somethings
  <2>2. CASE id = Member
    <3>1. broker[id] \in MemberQueues /\ waiting \in Seq(MemberMessages) /\ waiting # << >>
      BY <1>4, <1>5, <2>2, KeptTypes, Lengths DEF TypeInv, MemberQueues
    <3>2. Tail(waiting) \in Seq(MemberMessages) /\ Head(waiting) \in MemberMessages
          /\ Len(Tail(waiting)) = Len(waiting) - 1
      BY <3>1, TakenOff
    <3>3. q \in MemberQueues /\ q.default = Tail(waiting)
      BY <3>1, <3>2 DEF MemberQueues
    <3> QED  BY <1>5, <2>2, <3>2, <3>3, Names, Somethings
  <2> QED  BY <1>2, <2>1, <2>2, Names
<1>7. /\ broker' = [broker EXCEPT ![id] = q] /\ hand' = h
      /\ \/ running' = [running EXCEPT !["scheduler"] = Head(waiting)] /\ id \in subscribed
         \/ running' = running
  BY DEF HandOver, Run, id
<1>8. h \in Hands /\ h # Nothing /\ h.at = "test" /\ h.id = id /\ h.custom = << >>
  <2>1. h \in Hands
    BY <1>2, Names, EmptySeq DEF Hands, ExtHands, MemberHands, Places
  <2> QED  BY <2>1, Somethings
<1>9. /\ Head(waiting) \in Messages /\ Head(waiting).id = id
  BY <1>2, <1>6, Names, Somethings DEF ExtMessages, MemberMessages
<1> DEFINE first == Head(waiting)
<1> HIDE DEF q, h, first
<1>10. /\ running' \in [Threads -> Messages \cup {Nothing}]
       /\ running'["receiver"] = running["receiver"]
       /\ running'["scheduler"] # Nothing => id \in subscribed /\ running'["scheduler"].id = id
  BY <1>1, <1>7, <1>9 DEF TypeInv, BrokerTypes
<1>11. BrokerTypes'
  BY <1>1, <1>2, <1>6, <1>7, <1>8, <1>10, Names DEF TypeInv, BrokerTypes
<1>12. broker'[id] # Nothing
  BY <1>2, <1>6, <1>7 DEF TypeInv, BrokerTypes
<1>13. binding # "unbound" => binding = "bound"
  BY DEF OutOfTasks
<1>14. TypeInv'
  BY <1>1, <1>2, <1>7, <1>8, <1>10, <1>11, <1>12, <1>13, TasksLeaveTypes, Names
     DEF TypeInv, Stands, HandAt, Known
<1>15. Counted'
  <2> SUFFICES ASSUME NEW x \in Entities
               PROVE  (\E f : Enumerates(f, Len(Kept(x).default), tasks, x))'
    BY DEF Counted
  <2>1. CASE x = id
    <3>1. Kept(x)' = q
      BY <1>2, <1>6, <1>7, <2>1 DEF Kept, Known, TypeInv, BrokerTypes
    <3> QED  BY <1>4, <1>6, <2>1, <3>1
  <2>2. CASE x # id
    <3>1. Kept(x)' = Kept(x)
      BY <1>2, <1>7, <2>2 DEF Kept, Known, TypeInv, BrokerTypes
    <3>2. PICK f : Enumerates(f, Len(Kept(x).default), tasks, x)
      BY DEF Counted
    <3>3. ~HandsOver(Head(tasks), x)
      BY <1>1, <2>2 DEF HandsOver
    <3>4. Enumerates(MovedUp(f, Len(Kept(x).default)), Len(Kept(x).default), tasks', x)
      BY <1>1, <3>2, <3>3, KeptLengths, OtherTaken
    <3> QED  BY <3>1, <3>4
  <2> QED  BY <2>1, <2>2
<1> QED  BY <1>14, <1>15

\* What the steps of a hand-over work on.
LEMMA HandTypes ==
  ASSUME TypeInv, hand # Nothing
  PROVE  /\ hand.id \in Entities /\ hand.at \in Places
         /\ hand.id = Ext => hand \in ExtHands /\ hand.custom \in Seq(ExtMessages)
         /\ hand.id = Member => hand \in MemberHands /\ hand.custom = << >>
         /\ Known(hand.id) => Kept(hand.id) = broker[hand.id]
BY Names DEF TypeInv, BrokerTypes, Hands, ExtHands, MemberHands, Kept

LEMMA TestEmptyTypes ==
  ASSUME TypeInv, TestEmpty, UNCHANGED extVars
  PROVE  TypeInv' /\ (Counted => Counted')
<1>1. /\ hand # Nothing /\ hand.at = "test"
      /\ hand' \in {Nothing, [hand EXCEPT !.at = "move"]}
      /\ UNCHANGED <<incoming, subscribed, era, broker, tasks, running, undefined, raced>>
      /\ running["scheduler"] = Nothing
  BY DEF TestEmpty, At
<1>2. hand' # Nothing => hand' \in Hands /\ hand'.id = hand.id /\ hand'.custom = << >>
                         /\ hand'.at = "move"
  <2>1. hand.id = Ext \/ hand.id = Member
    BY <1>1, HandTypes, Names
  <2> QED
    BY <1>1, <2>1, HandTypes DEF Hands, ExtHands, MemberHands, Places, TypeInv, HandAt
<1>3. BrokerTypes'
  BY <1>1, <1>2 DEF TypeInv, BrokerTypes
<1>4. TypeInv'
  BY <1>1, <1>2, <1>3, TasksLeaveTypes DEF TypeInv, Stands, HandAt, Known
<1> QED  BY <1>1, <1>4 DEF Counted, Kept, Known

LEMMA MoveOutTypes ==
  ASSUME TypeInv, MoveOut, UNCHANGED extVars, OutOfTasks
  PROVE  TypeInv' /\ (Counted /\ ~undefined' => Counted')
<1> DEFINE id == hand.id
           mq == broker[id]
           h == [hand EXCEPT !.at = "erase", !.custom = mq.custom]
<1>1. /\ hand # Nothing /\ hand.at = "move" /\ running["scheduler"] = Nothing
      /\ broker' = [broker EXCEPT ![id] = EmptyMq] /\ hand' = h
      /\ undefined' \in BOOLEAN
      /\ ~undefined' => mq.default = << >> /\ (mq.custom # << >> => id \in subscribed)
      /\ UNCHANGED <<incoming, subscribed, era, tasks, running, raced>>
  BY DEF MoveOut, At
<1>2. id \in Entities /\ Known(id) /\ Kept(id) = mq
  BY <1>1, HandTypes DEF TypeInv, HandAt
<1>3. /\ h \in Hands /\ h.id = id /\ h.at = "erase" /\ h.custom = mq.custom
  <2>1. CASE id = Ext
    <3>1. hand \in ExtHands /\ mq \in ExtQueues
      BY <1>1, <1>2, <2>1, HandTypes, KeptTypes DEF TypeInv
    <3> QED  BY <2>1, <3>1 DEF Hands, ExtHands, ExtQueues, Places
  <2>2. CASE id = Member
    <3>1. hand \in MemberHands /\ mq \in MemberQueues
      BY <1>1, <1>2, <2>2, HandTypes, KeptTypes DEF TypeInv
    <3> QED  BY <2>2, <3>1 DEF Hands, MemberHands, MemberQueues, Places
  <2> QED  BY <1>2, <2>1, <2>2, Names
<1>4. EmptyMq \in ExtQueues /\ EmptyMq \in MemberQueues /\ EmptyMq # Nothing
  <2>1. EmptyMq \in ExtQueues /\ EmptyMq \in MemberQueues
    BY EmptySeq DEF EmptyMq, ExtQueues, MemberQueues
  <2> QED  BY <2>1, Somethings
<1> HIDE DEF h, mq
<1>5. BrokerTypes'
  BY <1>1, <1>2, <1>3, <1>4 DEF TypeInv, BrokerTypes
<1>6. /\ \A x \in Entities : x # id => broker'[x] = broker[x]
      /\ broker'[id] = EmptyMq
  BY <1>1, <1>2 DEF TypeInv, BrokerTypes
<1>7. binding # "unbound" => binding = "bound"
  BY DEF OutOfTasks
<1>8. TypeInv'
  <2>1. ~undefined' /\ h.custom # << >> => binding = "bound"
    BY <1>1, <1>2, <1>3, <1>7, Names DEF TypeInv, Stands
  <2>2. HandAt'
    BY <1>1, <1>3, <1>4, <1>6, <2>1, TasksLeaveTypes DEF HandAt, Known
  <2> QED
    BY <1>1, <1>3, <1>5, <2>2, TasksLeaveTypes DEF TypeInv, Stands
<1>9. ASSUME Counted, ~undefined' PROVE Counted'
  <2> SUFFICES ASSUME NEW x \in Entities
               PROVE  Len(Kept(x)'.default) = Len(Kept(x).default) /\ tasks' = tasks
    BY <1>9 DEF Counted
  <2>1. CASE x = id
    BY <1>1, <1>2, <1>4, <1>6, <1>9, <2>1 DEF Kept, Known, EmptyMq
  <2>2. CASE x # id
    BY <1>1, <1>6, <2>2 DEF Kept, Known
  <2> QED  BY <2>1, <2>2
<1> QED  BY <1>8, <1>9

LEMMA EraseTypes ==
  ASSUME TypeInv, Erase, UNCHANGED extVars
  PROVE  TypeInv' /\ (Counted /\ ~undefined' => Counted')
<1> DEFINE id == hand.id
           h == [hand EXCEPT !.at = "custom"]
<1>1. /\ hand # Nothing /\ hand.at = "erase" /\ running["scheduler"] = Nothing /\ ~undefined
      /\ broker' = [broker EXCEPT ![id] = Nothing] /\ hand' = h
      /\ undefined' \in BOOLEAN /\ raced' \in BOOLEAN
      /\ ~undefined' => broker[id].default = << >>
      /\ UNCHANGED <<incoming, subscribed, era, tasks, running>>
  BY DEF Erase, At, TypeInv, BrokerTypes
<1>2. id \in Entities /\ Known(id) /\ Kept(id) = broker[id]
  BY <1>1, HandTypes DEF TypeInv, HandAt
<1>3. h \in Hands /\ h.id = id /\ h.at = "custom" /\ h.custom = hand.custom
  BY <1>1, <1>2, HandTypes, Names DEF Hands, ExtHands, MemberHands, Places
<1> HIDE DEF h
<1>4. BrokerTypes'
  BY <1>1, <1>2, <1>3 DEF TypeInv, BrokerTypes
<1>5. /\ \A x \in Entities : x # id => broker'[x] = broker[x]
      /\ broker'[id] = Nothing
  BY <1>1, <1>2 DEF TypeInv, BrokerTypes
<1>6. TypeInv'
  BY <1>1, <1>3, <1>4, TasksLeaveTypes DEF TypeInv, Stands, HandAt
<1>7. ASSUME Counted, ~undefined' PROVE Counted'
  <2> SUFFICES ASSUME NEW x \in Entities
               PROVE  Len(Kept(x)'.default) = Len(Kept(x).default) /\ tasks' = tasks
    BY <1>7 DEF Counted
  <2>1. CASE x = id
    BY <1>1, <1>2, <1>5, <1>7, <2>1 DEF Kept, Known, EmptyMq
  <2>2. CASE x # id
    BY <1>1, <1>5, <2>2 DEF Kept, Known
  <2> QED  BY <2>1, <2>2
<1> QED  BY <1>6, <1>7

LEMMA InvokeCustomTypes ==
  ASSUME TypeInv, InvokeCustom, UNCHANGED extVars
  PROVE  TypeInv' /\ (Counted => Counted')
<1> DEFINE first == Head(hand.custom)
           h == [hand EXCEPT !.custom = Tail(hand.custom)]
<1>1. /\ hand # Nothing /\ hand.at = "custom" /\ hand.custom # << >> /\ ~undefined
      /\ running' = [running EXCEPT !["scheduler"] = first] /\ hand' = h
      /\ UNCHANGED <<incoming, subscribed, era, broker, tasks, undefined, raced>>
  BY DEF InvokeCustom, At, Run
<1>2. hand.id = Ext /\ hand \in ExtHands /\ hand.custom \in Seq(ExtMessages) /\ binding = "bound"
  BY <1>1, HandTypes, Names DEF TypeInv, HandAt
<1>3. first \in ExtMessages /\ Tail(hand.custom) \in Seq(ExtMessages)
  BY <1>1, <1>2, TakenOff
<1>4. h \in Hands /\ h # Nothing /\ h.id = Ext /\ h.at = "custom"
  <2>1. h \in ExtHands /\ h.id = Ext /\ h.at = "custom"
    BY <1>1, <1>2, <1>3 DEF ExtHands
  <2> QED  BY <2>1, Somethings DEF Hands
<1> HIDE DEF first, h
<1>5. /\ running' \in [Threads -> Messages \cup {Nothing}]
      /\ running'["receiver"] = running["receiver"]
      /\ running'["scheduler"] = first
  BY <1>1, <1>3, Somethings DEF TypeInv, BrokerTypes
<1>6. BrokerTypes'
  BY <1>1, <1>4, <1>5 DEF TypeInv, BrokerTypes
<1>7. TypeInv'
  BY <1>1, <1>2, <1>4, <1>5, <1>6, TasksLeaveTypes DEF TypeInv, Stands, HandAt, OutOfTasks
<1> QED  BY <1>1, <1>7 DEF Counted, Kept, Known

LEMMA HandedOverTypes ==
  ASSUME TypeInv, HandedOver, UNCHANGED extVars
  PROVE  TypeInv' /\ (Counted => Counted')
<1>1. /\ hand' = Nothing /\ running["scheduler"] = Nothing
      /\ UNCHANGED <<incoming, subscribed, era, broker, tasks, running, undefined, raced>>
  BY DEF HandedOver, At
<1>2. BrokerTypes'
  BY <1>1 DEF TypeInv, BrokerTypes
<1> QED  BY <1>1, <1>2, TasksLeaveTypes DEF TypeInv, Stands, HandAt, Counted, Kept, Known

LEMMA TasksTypes ==
  ASSUME BaseInv, RunTasks, OutOfTasks, UNCHANGED extVars
  PROVE  BaseInv'
<1>1. ~undefined /\ Counted
  BY DEF BaseInv, RunTasks, RunInvoke, HandOver, NextTask, Idle, TestEmpty, MoveOut, Erase,
         InvokeCustom, HandedOver, At
<1> QED
  BY <1>1, RunInvokeTypes, HandOverTypes, TestEmptyTypes, MoveOutTypes, EraseTypes,
     InvokeCustomTypes, HandedOverTypes DEF BaseInv, RunTasks

-------------------------------------------------------------------------------
(***************************************************************************)
(* The other steps leave what waits in the broker alone.                   *)
(***************************************************************************)
LEMMA CarryTypes ==
  ASSUME NEW s \in Seq(Nat)
  PROVE  /\ Carry(s) \in Seq(Sendable) /\ Len(Carry(s)) = Len(s)
         /\ DOMAIN Carry(s) = 1 .. Len(s)
         /\ \A i \in 1 .. Len(s) : Carry(s)[i] = ToMember(s[i]) /\ s[i] \in Nat
<1>1. Len(s) \in Nat /\ DOMAIN s = 1 .. Len(s) /\ \A i \in 1 .. Len(s) : s[i] \in Nat
  BY Lengths
<1>2. \A i \in 1 .. Len(s) : ToMember(s[i]) \in Sendable
  BY <1>1, Somethings DEF Sendable
<1>3. Carry(s) \in [1 .. Len(s) -> Sendable]
  BY <1>1, <1>2 DEF Carry
<1>4. Carry(s) \in Seq(Sendable)
  BY <1>1, <1>3
<1>5. DOMAIN Carry(s) = 1 .. Len(Carry(s)) /\ Len(Carry(s)) \in Nat
  BY <1>4, Lengths
<1>6. Len(Carry(s)) = Len(s)
  BY <1>1, <1>3, <1>5
<1> QED  BY <1>1, <1>3, <1>4, <1>6 DEF Carry

LEMMA PutTypes ==
  /\ \A s \in States : <<ToExt(s)>> \in Seq(Sendable)
  /\ \A n \in Nat : <<ToMember(n)>> \in Seq(Sendable)
  /\ << >> \in Seq(Sendable)
BY Somethings, EmptySeq DEF Sendable

\* What the broker keeps and the actions queued for it stay.
BrokerRests == UNCHANGED <<broker, tasks, hand, undefined, raced>>

LEMMA RestKeepsCount ==
  ASSUME BaseInv, BrokerRests, TypeInv'
  PROVE  BaseInv'
BY DEF BaseInv, BrokerRests, Counted, Kept, Known

Binds ==
  AdviseExt \/ SendReady \/ BindMember \/ UnbindMember \/ SendDisconnected \/ UnbindExt

LEMMA BindTypes == ASSUME TypeInv, Binds PROVE TypeInv' /\ BrokerRests
<1> USE DEF TypeInv, BrokerRests
<1>1. CASE AdviseExt
  <2>0. era' \in [Entities -> Nat]
    <3>1. era' = [era EXCEPT ![Ext] = era[Ext] + 1] /\ era[Ext] + 1 \in Nat
      BY <1>1, Names DEF AdviseExt, AdviseOn, BrokerTypes
    <3> QED  BY <3>1 DEF BrokerTypes
  <2>1. /\ subscribed' = subscribed \cup {Ext}
        /\ connected' = FALSE /\ sendQ' = << >>
        /\ hand = Nothing /\ running["scheduler"] = Nothing
        /\ binding = "unbound" /\ binding' = "advised"
        /\ UNCHANGED <<incoming, broker, tasks, running, hand, undefined, raced,
                       outgoing, sent, heard, peer, due, peerDue>>
    BY <1>1 DEF AdviseExt, AdviseOn, Idle
  <2>2. BrokerTypes'
    BY <2>0, <2>1, Names DEF BrokerTypes
  <2>3. ExtTypes'
    BY <2>1, EmptySeq DEF ExtTypes
  <2>4. HandAt'
    BY <2>1 DEF HandAt
  <2> QED  BY <2>1, <2>2, <2>3, <2>4, Names DEF Stands
<1>2. CASE SendReady
  <2>1. outgoing' \in Seq(Sendable)
    BY <1>2, PutTypes, Joined DEF SendReady, Put, ExtTypes, States
  <2>2. BrokerTypes' /\ ExtTypes'
    BY <1>2, <2>1 DEF SendReady, BrokerTypes, ExtTypes, brokerVars
  <2> QED
    BY <1>2, <2>2 DEF SendReady, brokerVars, Stands, HandAt, OutOfTasks, Known
<1>3. CASE BindMember
  <2>0. era' \in [Entities -> Nat]
    <3>1. era' = [era EXCEPT ![Member] = era[Member] + 1] /\ era[Member] + 1 \in Nat
      BY <1>3, Names DEF BindMember, AdviseOn, BrokerTypes
    <3> QED  BY <3>1 DEF BrokerTypes
  <2>1. /\ subscribed' = subscribed \cup {Member}
        /\ binding = "ready" /\ binding' = "bound"
        /\ UNCHANGED <<incoming, broker, tasks, running, hand, undefined, raced, connected,
                       sendQ, outgoing, sent, heard, peer, due, peerDue>>
    BY <1>3 DEF BindMember, AdviseOn
  <2>2. BrokerTypes' /\ ExtTypes'
    BY <2>0, <2>1, Names DEF BrokerTypes, ExtTypes
  <2> QED
    BY <2>1, <2>2, Names DEF Stands, HandAt, OutOfTasks, Known
<1>4. CASE UnbindMember
  <2>1. /\ subscribed' = subscribed \ {Member}
        /\ due' \subseteq Nat /\ peerDue' \subseteq Nat
        /\ hand = Nothing /\ running["scheduler"] = Nothing
        /\ binding = "bound" /\ binding' = "leaving"
        /\ UNCHANGED <<incoming, era, broker, tasks, running, hand, undefined, raced,
                       connected, sendQ, outgoing, sent, heard, peer>>
    BY <1>4 DEF UnbindMember, Unsubscribe, Idle, ExtTypes
  <2>2. BrokerTypes' /\ ExtTypes'
    BY <2>1, Names DEF BrokerTypes, ExtTypes
  <2> QED
    BY <2>1, <2>2, Names DEF Stands, HandAt, OutOfTasks, Known
<1>5. CASE SendDisconnected
  <2>1. outgoing' \in Seq(Sendable)
    BY <1>5, PutTypes, Joined DEF SendDisconnected, Put, ExtTypes, States
  <2>2. BrokerTypes' /\ ExtTypes'
    BY <1>5, <2>1 DEF SendDisconnected, BrokerTypes, ExtTypes, brokerVars
  <2> QED
    BY <1>5, <2>2 DEF SendDisconnected, brokerVars, Stands, HandAt, OutOfTasks, Known
<1>6. CASE UnbindExt
  <2>1. /\ subscribed' = subscribed \ {Ext}
        /\ binding = "left" /\ binding' = "unbound"
        /\ UNCHANGED <<incoming, era, broker, tasks, running, hand, undefined, raced,
                       connected, sendQ, outgoing, sent, heard, peer, due, peerDue>>
    BY <1>6 DEF UnbindExt, Unsubscribe
  <2>2. BrokerTypes' /\ ExtTypes'
    BY <2>1, Names DEF BrokerTypes, ExtTypes
  <2> QED
    BY <2>1, <2>2, Names DEF Stands, HandAt, OutOfTasks, Known
<1> QED  BY <1>1, <1>2, <1>3, <1>4, <1>5, <1>6 DEF Binds

Handles(t) ==
  ReceiveReady(t) \/ ReceiveCounterpart(t) \/ ReceiveDisconnected(t) \/ FlushQueue(t)

\* The message a thread executes is gone, or goes on as the flush of what is queued.
LEMMA HandlesTypes ==
  ASSUME TypeInv, NEW t \in Threads, Handles(t)
  PROVE  /\ TypeInv' /\ BrokerRests /\ UNCHANGED <<incoming, binding, subscribed, era>>
         /\ running[t] # Nothing /\ running[t].id = Ext
         /\ running' \in {[running EXCEPT ![t] = x] : x \in {Nothing, ToExt(Flush)}}
         /\ \E q \in Seq(Sendable) : outgoing' = outgoing \o q
<1> USE DEF TypeInv
<1>1. Unmoved /\ UNCHANGED <<binding, sent, heard, peer, peerDue>> /\ connected' \in BOOLEAN
  BY DEF Handles, ReceiveReady, ReceiveCounterpart, ReceiveDisconnected, FlushQueue, SetConnected,
         ExtTypes
<1>2. running[t] # Nothing /\ running[t].id = Ext
  BY DEF Handles, ReceiveReady, ReceiveCounterpart, ReceiveDisconnected, FlushQueue, Executing, Is
<1>3. PICK x \in {Nothing, ToExt(Flush)} : running' = [running EXCEPT ![t] = x]
  BY DEF Handles, ReceiveReady, ReceiveCounterpart, ReceiveDisconnected, FlushQueue, SetConnected,
         Run
<1>4. PICK q \in Seq(Sendable) : outgoing' = outgoing \o q
  <2>1. CASE ReceiveReady(t)
    BY <2>1, PutTypes DEF ReceiveReady, Put, States
  <2>2. CASE FlushQueue(t)
    BY <2>2, CarryTypes DEF FlushQueue, Put, ExtTypes
  <2>3. CASE ReceiveCounterpart(t) \/ ReceiveDisconnected(t)
    <3>1. outgoing' = outgoing \o << >>
      BY <2>3, EmptySeq, ConcatEmptySeq DEF ReceiveCounterpart, ReceiveDisconnected, ExtTypes
    <3> QED  BY <3>1, PutTypes
  <2> QED  BY <2>1, <2>2, <2>3 DEF Handles
<1>5. outgoing' \in Seq(Sendable)
  BY <1>4, Joined DEF ExtTypes
<1>6. sendQ' \in Seq(Nat) /\ due' \subseteq Nat
  BY EmptySeq DEF Handles, ReceiveReady, ReceiveCounterpart, ReceiveDisconnected, FlushQueue,
                  ExtTypes
<1>7. /\ running' \in [Threads -> Messages \cup {Nothing}]
      /\ \A u \in Threads : running'[u] # Nothing =>
           running[u] # Nothing /\ (running'[u] = running[u] \/ (running'[u].id = Ext /\ u = t))
  <2>1. x \in Messages \cup {Nothing} /\ (x # Nothing => x.id = Ext)
    BY Somethings DEF ToExt
  <2>2. /\ running' \in [Threads -> Messages \cup {Nothing}]
        /\ \A u \in Threads : running'[u] = IF u = t THEN x ELSE running[u]
    BY <1>3, <2>1 DEF BrokerTypes
  <2> QED  BY <1>2, <2>1, <2>2
<1>8. BrokerTypes'
  BY <1>1, <1>7 DEF BrokerTypes, Unmoved
<1>9. ExtTypes'
  BY <1>1, <1>5, <1>6 DEF ExtTypes
<1>10. Stands'
  BY <1>1, <1>2, <1>7 DEF Stands, Unmoved, OutOfTasks
<1>11. HandAt'
  BY <1>1 DEF HandAt, Known, Unmoved
<1> QED
  BY <1>1, <1>2, <1>3, <1>4, <1>8, <1>9, <1>10, <1>11 DEF BrokerRests, Unmoved

LEMMA ReceiveMemberTypes == ASSUME TypeInv, ReceiveMember PROVE TypeInv' /\ BrokerRests
<1> USE DEF TypeInv
<1>1. running["scheduler"].body \in Nat
  BY Names DEF ReceiveMember, BrokerTypes, Messages
<1>2. heard' \in Seq(Nat) /\ peerDue' \subseteq Nat
  BY <1>1, Added DEF ReceiveMember, ExtTypes
<1>3. running' = [running EXCEPT !["scheduler"] = Nothing] /\ Unmoved
      /\ UNCHANGED <<binding, connected, sendQ, outgoing, sent, peer, due>>
  BY DEF ReceiveMember, Run, hostVars
<1>4. BrokerTypes'
  BY <1>3 DEF BrokerTypes, Unmoved
<1>5. ExtTypes'
  BY <1>2, <1>3 DEF ExtTypes
<1>6. running'["scheduler"] = Nothing
  BY <1>3 DEF BrokerTypes
<1> QED
  BY <1>3, <1>4, <1>5, <1>6 DEF Unmoved, BrokerRests, Stands, HandAt, OutOfTasks, Known

LEMMA MemberSendsTypes == ASSUME TypeInv, MemberSends PROVE TypeInv' /\ BrokerRests
<1> USE DEF TypeInv
<1>1. sent' \in Nat /\ due' \subseteq Nat
  BY DEF MemberSends, ExtTypes
<1>2. sendQ' \in Seq(Nat) /\ outgoing' \in Seq(Sendable)
  <2>1. Append(sendQ, sent') \in Seq(Nat)
    BY <1>1, Added DEF ExtTypes
  <2>2. outgoing \o <<ToMember(sent')>> \in Seq(Sendable)
    BY <1>1, PutTypes, Joined DEF ExtTypes
  <2> QED  BY <2>1, <2>2 DEF MemberSends, Put, ExtTypes
<1>3. UNCHANGED <<brokerVars, binding, connected, heard, peer, peerDue>>
  BY DEF MemberSends
<1> QED
  BY <1>1, <1>2, <1>3
     DEF BrokerTypes, ExtTypes, brokerVars, BrokerRests, Stands, HandAt, OutOfTasks, Known

LEMMA PeerUpdates ==
  ASSUME NEW p \in Peers
  PROVE  /\ \A n \in Nat, on \in BOOLEAN, q \in Seq(Nat) :
              [p EXCEPT !.bindings = n, !.bound = on, !.connected = FALSE, !.sendQ = q] \in Peers
         /\ \A on \in BOOLEAN : [p EXCEPT !.bound = on] \in Peers
         /\ \A on \in BOOLEAN : [p EXCEPT !.connected = on] \in Peers
         /\ \A on \in BOOLEAN, q \in Seq(Nat) : [p EXCEPT !.connected = on, !.sendQ = q] \in Peers
         /\ \A n \in Nat : [p EXCEPT !.sent = n] \in Peers
         /\ \A n \in Nat, q \in Seq(Nat) : [p EXCEPT !.sent = n, !.sendQ = q] \in Peers
         /\ \A q \in Seq(Nat) : [p EXCEPT !.heard = q] \in Peers
<1> USE DEF Peers
<1>1. \A n \in Nat, on \in BOOLEAN, q \in Seq(Nat) :
        [p EXCEPT !.bindings = n, !.bound = on, !.connected = FALSE, !.sendQ = q] \in Peers
  OBVIOUS
<1>2. \A on \in BOOLEAN : [p EXCEPT !.bound = on] \in Peers
  OBVIOUS
<1>3. \A on \in BOOLEAN : [p EXCEPT !.connected = on] \in Peers
  OBVIOUS
<1>4. \A on \in BOOLEAN, q \in Seq(Nat) : [p EXCEPT !.connected = on, !.sendQ = q] \in Peers
  OBVIOUS
<1>5. \A n \in Nat : [p EXCEPT !.sent = n] \in Peers
  OBVIOUS
<1>6. \A n \in Nat, q \in Seq(Nat) : [p EXCEPT !.sent = n, !.sendQ = q] \in Peers
  OBVIOUS
<1>7. \A q \in Seq(Nat) : [p EXCEPT !.heard = q] \in Peers
  OBVIOUS
<1> QED  BY <1>1, <1>2, <1>3, <1>4, <1>5, <1>6, <1>7

LEMMA PeerTypes == ASSUME TypeInv, PeerNext PROVE TypeInv' /\ BrokerRests
<1> USE DEF TypeInv
<1>1. UNCHANGED <<subscribed, era, broker, tasks, running, hand, undefined, raced>>
      /\ UNCHANGED <<binding, connected, sendQ, sent, heard>>
  BY DEF PeerNext, PeerBinds, PeerUnbinds, PeerSends, PeerReceives, hostVars
<1>2. peer \in Peers /\ peer.sendQ \in Seq(Nat) /\ peer.sent \in Nat /\ peer.heard \in Seq(Nat)
  BY DEF ExtTypes, Peers
<1> DEFINE Goal == /\ incoming' \in Seq(Sendable) /\ outgoing' \in Seq(Sendable)
                   /\ peer' \in Peers /\ due' \subseteq Nat /\ peerDue' \subseteq Nat
<1>3. ASSUME NEW q \in Seq(Sendable), Reply(q) PROVE incoming' \in Seq(Sendable)
  BY <1>3, Joined DEF Reply, BrokerTypes
<1>4. ASSUME PeerBinds PROVE Goal
  <2>1. <<ToExt("Ready")>> \in Seq(Sendable) /\ Reply(<<ToExt("Ready")>>)
    BY <1>4, PutTypes DEF PeerBinds, States
  <2>2. incoming' \in Seq(Sendable)
    BY <1>3, <2>1
  <2>3. peer' \in Peers
    <3>1. /\ peer' = [peer EXCEPT !.bindings = peer.bindings + 1, !.bound = TRUE,
                                  !.connected = FALSE, !.sendQ = << >>]
          /\ peer.bindings + 1 \in Nat
      BY <1>2, <1>4 DEF PeerBinds, Peers
    <3> QED  BY <1>2, <3>1, EmptySeq, PeerUpdates
  <2> QED  BY <1>4, <2>2, <2>3 DEF PeerBinds, ExtTypes
<1>5. ASSUME PeerUnbinds PROVE Goal
  <2>1. <<ToExt("Disconnected")>> \in Seq(Sendable) /\ Reply(<<ToExt("Disconnected")>>)
    BY <1>5, PutTypes DEF PeerUnbinds, States
  <2>2. incoming' \in Seq(Sendable)
    BY <1>3, <2>1
  <2>3. peer' \in Peers
    <3>1. peer' = [peer EXCEPT !.bound = FALSE]
      BY <1>5 DEF PeerUnbinds
    <3> QED  BY <1>2, <3>1, EmptySeq, PeerUpdates
  <2> QED  BY <1>5, <2>2, <2>3 DEF PeerUnbinds, ExtTypes
<1>6. ASSUME PeerSends PROVE Goal
  <2> DEFINE n == peer.sent + 1
  <2>1. n \in Nat
    BY <1>2
  <2>2. <<ToMember(n)>> \in Seq(Sendable) /\ Append(peer.sendQ, n) \in Seq(Nat)
    BY <1>2, <2>1, PutTypes, Added
  <2>3. \/ /\ peer' = [peer EXCEPT !.sent = n, !.sendQ = Append(peer.sendQ, n)]
           /\ UNCHANGED incoming
        \/ /\ peer' = [peer EXCEPT !.sent = n]
           /\ Reply(<<ToMember(n)>>)
    BY <1>6 DEF PeerSends
  <2>4. incoming' \in Seq(Sendable)
    BY <1>3, <2>2, <2>3 DEF BrokerTypes
  <2>5. peerDue' \subseteq Nat /\ UNCHANGED <<outgoing, due>>
    BY <1>6, <2>1 DEF PeerSends, ExtTypes
  <2>6. peer' \in Peers
    <3>1. /\ [peer EXCEPT !.sent = n, !.sendQ = Append(peer.sendQ, n)] \in Peers
          /\ [peer EXCEPT !.sent = n] \in Peers
      <4> HIDE DEF n
      <4> QED  BY <1>2, <2>1, <2>2, PeerUpdates
    <3> QED  BY <2>3, <3>1
  <2> QED  BY <2>4, <2>5, <2>6 DEF ExtTypes
<1>7. ASSUME PeerReceives PROVE Goal
  <2>1. /\ outgoing # << >> /\ outgoing' = Tail(outgoing)
        /\ Head(outgoing) \in Sendable /\ outgoing' \in Seq(Sendable)
    BY <1>7, TakenOff DEF PeerReceives, ExtTypes
  <2>2. ASSUME NEW a \in Seq(Sendable), PeerConnects(a) PROVE Goal
    <3>1. Carry(peer.sendQ) \in Seq(Sendable)
      BY <1>2, CarryTypes
    <3>2. a \o Carry(peer.sendQ) \in Seq(Sendable)
      BY <3>1, Joined
    <3>3. incoming' \in Seq(Sendable)
      BY <1>3, <2>2, <3>2 DEF PeerConnects
    <3>4. peer' \in Peers
      <4>1. peer' = [peer EXCEPT !.connected = TRUE, !.sendQ = << >>]
        BY <2>2 DEF PeerConnects
      <4> QED  BY <1>2, <4>1, EmptySeq, PeerUpdates
    <3> QED  BY <2>1, <2>2, <3>3, <3>4 DEF PeerConnects, ExtTypes
  <2>3. ASSUME Head(outgoing).id = Member, PeerHears(Head(outgoing).body) PROVE Goal
    <3>1. Head(outgoing).body \in Nat
      BY <2>1, <2>3, Names DEF Sendable, ExtMessages, MemberMessages
    <3>2. Append(peer.heard, Head(outgoing).body) \in Seq(Nat)
      BY <1>2, <3>1, Added
    <3>3. peer' \in Peers
      <4>1. peer' = [peer EXCEPT !.heard = Append(peer.heard, Head(outgoing).body)]
        BY <2>3 DEF PeerHears
      <4> QED  BY <1>2, <3>2, <4>1, PeerUpdates
    <3> QED  BY <2>1, <2>3, <3>3 DEF PeerHears, ExtTypes, BrokerTypes
  <2>4. ASSUME peer' = [peer EXCEPT !.connected = FALSE], UNCHANGED <<incoming, due, peerDue>>
        PROVE  Goal
    <3>1. peer' \in Peers
      BY <1>2, <2>4, EmptySeq, PeerUpdates
    <3> QED  BY <2>1, <2>4, <3>1 DEF ExtTypes, BrokerTypes
  <2>5. ASSUME UNCHANGED <<incoming, peer, due, peerDue>> PROVE Goal
    BY <2>1, <2>5 DEF ExtTypes, BrokerTypes
  <2>6. <<ToExt("ReceivedCounterpart")>> \in Seq(Sendable) /\ << >> \in Seq(Sendable)
    BY PutTypes DEF States
  <2> HIDE DEF Goal
  <2>7. \/ PeerConnects(<<ToExt("ReceivedCounterpart")>>) \/ PeerConnects(<< >>)
        \/ Head(outgoing).id = Member /\ PeerHears(Head(outgoing).body)
        \/ peer' = [peer EXCEPT !.connected = FALSE] /\ UNCHANGED <<incoming, due, peerDue>>
        \/ UNCHANGED <<incoming, peer, due, peerDue>>
    BY <1>7 DEF PeerReceives
  <2> QED  BY <2>2, <2>3, <2>4, <2>5, <2>6, <2>7
<1>8. Goal
  BY <1>4, <1>5, <1>6, <1>7 DEF PeerNext
<1>9. BrokerTypes' /\ ExtTypes'
  BY <1>1, <1>8 DEF BrokerTypes, ExtTypes
<1> QED
  BY <1>1, <1>9 DEF BrokerRests, Stands, HandAt, OutOfTasks, Known

LEMMA BaseKeeps == ASSUME BaseInv, [ExtNext]_vars PROVE BaseInv'
<1>1. CASE Dispatch /\ UNCHANGED extVars
  BY <1>1, DispatchTypes, DispatchCounted DEF BaseInv, Dispatch
<1>2. CASE OutOfTasks /\ RunTasks /\ UNCHANGED extVars
  BY <1>2, TasksTypes
<1>3. CASE Binds
  BY <1>3, BindTypes, RestKeepsCount DEF BaseInv
<1>4. ASSUME NEW t \in Threads, Handles(t) PROVE BaseInv'
  BY <1>4, HandlesTypes, RestKeepsCount DEF BaseInv
<1>5. CASE ReceiveMember \/ MemberSends
  BY <1>5, ReceiveMemberTypes, MemberSendsTypes, RestKeepsCount DEF BaseInv
<1>6. CASE PeerNext
  BY <1>6, PeerTypes, RestKeepsCount DEF BaseInv
<1>7. CASE UNCHANGED vars
  BY <1>7 DEF vars, brokerVars, extVars, hostVars, BaseInv, TypeInv, BrokerTypes, ExtTypes, Stands,
              HandAt, OutOfTasks, Counted, Kept, Known
<1> QED
  BY <1>1, <1>2, <1>3, <1>4, <1>5, <1>6, <1>7 DEF ExtNext, Binds, Handles

LEMMA BaseHolds == ExtSpec => []BaseInv
<1>1. ExtInit => BaseInv
  BY InitTypes, InitCounted DEF BaseInv
<1> QED  BY <1>1, BaseKeeps, PTL DEF ExtSpec

\* Every action that dispatch queues for a message it has no subscription for finds that
\* message: as many actions wait for an identity as messages (MessageBroker.cpp:64-104).
THEOREM HandOversFind == ExtSpec => []HandOversFindTheirMessage
<1>1. BaseInv => HandOversFindTheirMessage
  <2> SUFFICES ASSUME BaseInv, ~undefined, NEW id \in Entities
               PROVE  Cardinality({i \in DOMAIN tasks : HandsOver(tasks[i], id)})
                        = Len(Kept(id).default)
    BY DEF HandOversFindTheirMessage, HandsOver
  <2>1. PICK at : Enumerates(at, Len(Kept(id).default), tasks, id)
    BY DEF BaseInv, Counted
  <2> QED  BY <2>1, KeptLengths, Counting DEF BaseInv
<1> QED  BY <1>1, BaseHolds, PTL

-------------------------------------------------------------------------------
(***************************************************************************)
(* The order of the member's messages, from one end to the other.          *)
(***************************************************************************)
\* The messages of the member of one end, which has sent n: those before have arrived, those
\* in q are on their way and those in kept wait for the connection.
Flows(before, q, kept, n) ==
  /\ before \subseteq Nat
  /\ \A i, j \in DOMAIN q :
       i < j /\ q[i].id = Member /\ q[j].id = Member => q[i].body < q[j].body
  /\ Increasing(kept)
  /\ \A a \in before, i \in DOMAIN q : q[i].id = Member => a < q[i].body
  /\ \A a \in before, k \in DOMAIN kept : a < kept[k]
  /\ \A i \in DOMAIN q, k \in DOMAIN kept : q[i].id = Member => q[i].body < kept[k]
  /\ \A a \in before : a <= n
  /\ \A i \in DOMAIN q : q[i].id = Member => q[i].body <= n
  /\ \A k \in DOMAIN kept : kept[k] <= n

LEMMA SendableTypes ==
  ASSUME NEW q \in Seq(Sendable)
  PROVE  /\ Len(q) \in Nat /\ DOMAIN q = 1 .. Len(q)
         /\ \A i \in DOMAIN q : q[i] \in Sendable
         /\ \A i \in DOMAIN q : q[i].id = Member => q[i] \in MemberMessages /\ q[i].body \in Nat
         /\ \A i \in DOMAIN q : q[i].id # Member => q[i] \in ExtMessages /\ q[i].id = Ext
<1>1. Len(q) \in Nat /\ DOMAIN q = 1 .. Len(q) /\ \A i \in DOMAIN q : q[i] \in Sendable
  BY Lengths
<1>2. \A m \in Sendable : /\ m.id = Member => m \in MemberMessages /\ m.body \in Nat
                          /\ m.id # Member => m \in ExtMessages /\ m.id = Ext
  BY Names DEF Sendable, ExtMessages, MemberMessages
<1> QED  BY <1>1, <1>2

LEMMA FlowsFewer ==
  ASSUME NEW before, NEW fewer, fewer \subseteq before, NEW q, NEW kept, NEW n,
         Flows(before, q, kept, n)
  PROVE  Flows(fewer, q, kept, n)
BY DEF Flows

LEMMA FlowsTaken ==
  ASSUME NEW before, NEW q \in Seq(Sendable), NEW kept \in Seq(Nat), NEW n \in Nat,
         Flows(before, q, kept, n), q # << >>
  PROVE  /\ Flows(before, Tail(q), kept, n)
         /\ Head(q).id = Member =>
              /\ Head(q).body \in Nat
              /\ \A a \in before : a < Head(q).body
              /\ Flows(before \cup {Head(q).body}, Tail(q), kept, n)
<1> DEFINE r == Tail(q)
<1>1. /\ Head(q) = q[1] /\ Len(q) \in Nat \ {0} /\ DOMAIN q = 1 .. Len(q)
      /\ DOMAIN r = 1 .. (Len(q) - 1) /\ \A i \in 1 .. (Len(q) - 1) : r[i] = q[i + 1]
  BY TakenOff
<1> HIDE DEF r
<1>2. \A i \in DOMAIN r : /\ r[i] = q[i + 1] /\ i + 1 \in DOMAIN q /\ 1 < i + 1
                          /\ \A j \in DOMAIN r : i < j => i + 1 < j + 1
  BY <1>1
<1>3. 1 \in DOMAIN q
  BY <1>1
<1>4. Flows(before, r, kept, n)
  BY <1>2 DEF Flows
<1>5. ASSUME q[1].id = Member
      PROVE  /\ q[1].body \in Nat
             /\ \A a \in before : a < q[1].body
             /\ Flows(before \cup {q[1].body}, r, kept, n)
  <2>1. q[1].body \in Nat
    BY <1>3, <1>5, SendableTypes
  <2>2. \A i \in DOMAIN r : r[i].id = Member => q[1].body < r[i].body
    BY <1>2, <1>3, <1>5 DEF Flows
  <2>3. /\ \A k \in DOMAIN kept : q[1].body < kept[k]
        /\ q[1].body <= n
        /\ \A a \in before : a < q[1].body
    BY <1>3, <1>5 DEF Flows
  <2>4. before \cup {q[1].body} \subseteq Nat
    BY <2>1 DEF Flows
  <2> QED  BY <1>4, <2>1, <2>2, <2>3, <2>4 DEF Flows
<1> QED  BY <1>1, <1>4, <1>5 DEF r

LEMMA FlowsDrop ==
  ASSUME NEW before, NEW q, NEW kept, NEW n, Flows(before, q, kept, n)
  PROVE  Flows(before, q, << >>, n)
BY DEF Flows, Increasing

\* A message of the extension.
LEMMA FlowsState ==
  ASSUME NEW before, NEW q \in Seq(Sendable), NEW kept, NEW n,
         Flows(before, q, kept, n), NEW s \in States
  PROVE  Flows(before, q \o <<ToExt(s)>>, kept, n)
<1> DEFINE r == q \o <<ToExt(s)>>
<1>1. ToExt(s) \in Sendable /\ ToExt(s).id # Member
  BY Somethings, Names DEF Sendable, ToExt
<1>2. /\ Len(q) \in Nat /\ DOMAIN q = 1 .. Len(q) /\ DOMAIN r = 1 .. (Len(q) + 1)
      /\ \A i \in 1 .. Len(q) : r[i] = q[i]
      /\ r[Len(q) + 1] = ToExt(s)
  BY <1>1, Lengths, Added
<1> HIDE DEF r
<1>3. \A i \in DOMAIN r : r[i].id = Member => i \in DOMAIN q /\ r[i] = q[i]
  BY <1>1, <1>2
<1> QED  BY <1>3 DEF Flows, r

\* One more is sent, at once if nothing waits.
LEMMA FlowsKept ==
  ASSUME NEW before, NEW q \in Seq(Sendable), NEW kept \in Seq(Nat), NEW n \in Nat,
         Flows(before, q, kept, n)
  PROVE  Flows(before, q, Append(kept, n + 1), n + 1)
<1> DEFINE r == Append(kept, n + 1)
<1>1. /\ Len(kept) \in Nat /\ DOMAIN kept = 1 .. Len(kept) /\ DOMAIN r = 1 .. (Len(kept) + 1)
      /\ \A i \in 1 .. Len(kept) : r[i] = kept[i] /\ kept[i] \in Nat
      /\ r[Len(kept) + 1] = n + 1
  BY Lengths, Added
<1> HIDE DEF r
<1>2. \A k \in DOMAIN r : \/ k \in DOMAIN kept /\ r[k] = kept[k] /\ r[k] \in Nat /\ r[k] <= n
                          \/ k = Len(kept) + 1 /\ r[k] = n + 1
  BY <1>1 DEF Flows
<1>3. Increasing(r)
  <2> SUFFICES ASSUME NEW i \in DOMAIN r, NEW j \in DOMAIN r, i < j PROVE r[i] < r[j]
    BY DEF Increasing
  <2>1. i \in DOMAIN kept /\ r[i] = kept[i] /\ r[i] <= n /\ r[i] \in Nat
    BY <1>1, <1>2
  <2>2. CASE j \in DOMAIN kept
    BY <1>1, <2>1, <2>2 DEF Flows, Increasing
  <2>3. CASE j = Len(kept) + 1
    BY <1>1, <2>1, <2>3
  <2> QED  BY <1>2, <2>2, <2>3
<1>4. \A a \in before : a \in Nat /\ a <= n /\ a <= n + 1 /\ a < n + 1
  BY DEF Flows
<1>5. \A i \in DOMAIN q : q[i].id = Member => q[i].body <= n + 1 /\ q[i].body < n + 1
  BY SendableTypes DEF Flows
<1>6. \A k \in DOMAIN r : r[k] <= n + 1
  BY <1>2
<1>7. /\ \A a \in before, k \in DOMAIN r : a < r[k]
      /\ \A i \in DOMAIN q, k \in DOMAIN r : q[i].id = Member => q[i].body < r[k]
  BY <1>2, <1>4, <1>5 DEF Flows
<1> QED  BY <1>3, <1>4, <1>5, <1>6, <1>7 DEF Flows, r

LEMMA FlowsAtOnce ==
  ASSUME NEW before, NEW q \in Seq(Sendable), NEW n \in Nat, Flows(before, q, << >>, n)
  PROVE  Flows(before, q \o <<ToMember(n + 1)>>, << >>, n + 1)
<1> DEFINE r == q \o <<ToMember(n + 1)>>
<1>1. ToMember(n + 1) \in Sendable /\ ToMember(n + 1).body = n + 1
  BY Somethings DEF Sendable, ToMember
<1>2. /\ Len(q) \in Nat /\ DOMAIN q = 1 .. Len(q) /\ DOMAIN r = 1 .. (Len(q) + 1)
      /\ \A i \in 1 .. Len(q) : r[i] = q[i]
      /\ r[Len(q) + 1].body = n + 1
  BY <1>1, Lengths, Added
<1> HIDE DEF r
<1>3. \A a \in before : a \in Nat /\ a < n + 1 /\ a <= n + 1
  BY DEF Flows
<1>4. \A i \in DOMAIN q : q[i].id = Member =>
        q[i].body \in Nat /\ q[i].body < n + 1 /\ q[i].body <= n + 1
  BY SendableTypes DEF Flows
<1>5. \A i \in DOMAIN r : \/ i \in DOMAIN q /\ r[i] = q[i]
                          \/ i = Len(q) + 1 /\ r[i].body = n + 1
  BY <1>2
<1>6. \A i, j \in DOMAIN r :
        i < j /\ r[i].id = Member /\ r[j].id = Member => r[i].body < r[j].body
  <2> SUFFICES ASSUME NEW i \in DOMAIN r, NEW j \in DOMAIN r, i < j, r[i].id = Member,
                      r[j].id = Member
               PROVE  r[i].body < r[j].body
    OBVIOUS
  <2>1. i \in DOMAIN q /\ r[i] = q[i]
    BY <1>2
  <2>2. CASE j \in DOMAIN q /\ r[j] = q[j]
    BY <2>1, <2>2 DEF Flows
  <2>3. CASE j = Len(q) + 1 /\ r[j].body = n + 1
    BY <1>4, <2>1, <2>3
  <2> QED  BY <1>5, <2>2, <2>3
<1>7. \A a \in before, i \in DOMAIN r : r[i].id = Member => a < r[i].body
  BY <1>3, <1>5 DEF Flows
<1>8. \A i \in DOMAIN r : r[i].id = Member => r[i].body <= n + 1
  BY <1>4, <1>5
<1> QED  BY <1>3, <1>6, <1>7, <1>8 DEF Flows, Increasing, r

\* What has waited goes out.
LEMMA FlowsOut ==
  ASSUME NEW before, NEW q \in Seq(Sendable), NEW kept \in Seq(Nat), NEW n \in Nat,
         Flows(before, q, kept, n)
  PROVE  Flows(before, q \o Carry(kept), << >>, n)
<1> DEFINE r == q \o Carry(kept)
<1>1. /\ Carry(kept) \in Seq(Sendable) /\ Len(Carry(kept)) = Len(kept)
      /\ \A i \in 1 .. Len(kept) : Carry(kept)[i] = ToMember(kept[i]) /\ kept[i] \in Nat
      /\ Len(kept) \in Nat /\ DOMAIN kept = 1 .. Len(kept)
  BY CarryTypes, Lengths
<1>2. /\ Len(q) \in Nat /\ DOMAIN q = 1 .. Len(q) /\ DOMAIN r = 1 .. (Len(q) + Len(kept))
      /\ \A i \in 1 .. Len(q) : r[i] = q[i]
      /\ \A i \in 1 .. Len(kept) : r[Len(q) + i] = ToMember(kept[i])
  <2> DEFINE c == Carry(kept)
  <2>1. c \in Seq(Sendable) /\ Len(c) = Len(kept)
    BY <1>1
  <2> HIDE DEF c
  <2>2. DOMAIN (q \o c) = 1 .. (Len(q) + Len(c))
    BY <2>1, Joined
  <2>5. \A i \in 1 .. Len(q) : (q \o c)[i] = q[i]
    BY <2>1, Joined
  <2>6. \A i \in 1 .. Len(c) : (q \o c)[Len(q) + i] = c[i]
    BY <2>1, Joined
  <2>3. \A i \in 1 .. Len(kept) : c[i] = ToMember(kept[i])
    BY <1>1 DEF c
  <2>4. Len(q) \in Nat /\ DOMAIN q = 1 .. Len(q)
    BY Lengths
  <2> QED  BY <2>1, <2>2, <2>3, <2>4, <2>5, <2>6 DEF c
<1> HIDE DEF r
<1>3. \A i \in DOMAIN r : \/ i \in DOMAIN q /\ r[i] = q[i]
                          \/ /\ Len(q) < i /\ i - Len(q) \in DOMAIN kept
                             /\ r[i].body = kept[i - Len(q)]
  <2> SUFFICES ASSUME NEW i \in DOMAIN r, i \notin DOMAIN q
               PROVE  /\ Len(q) < i /\ i - Len(q) \in DOMAIN kept
                      /\ r[i].body = kept[i - Len(q)]
    BY <1>2
  <2>1. Len(q) < i /\ i - Len(q) \in 1 .. Len(kept) /\ Len(q) + (i - Len(q)) = i
    BY <1>1, <1>2
  <2>2. r[Len(q) + (i - Len(q))] = ToMember(kept[i - Len(q)])
    BY <1>2, <2>1
  <2> QED  BY <1>1, <2>1, <2>2 DEF ToMember
<1>4. \A i, j \in DOMAIN r :
        i < j /\ r[i].id = Member /\ r[j].id = Member => r[i].body < r[j].body
  <2> SUFFICES ASSUME NEW i \in DOMAIN r, NEW j \in DOMAIN r, i < j, r[i].id = Member,
                      r[j].id = Member
               PROVE  r[i].body < r[j].body
    OBVIOUS
  <2>1. CASE j \in DOMAIN q /\ r[j] = q[j]
    <3>1. i \in DOMAIN q /\ r[i] = q[i]
      BY <1>2, <2>1
    <3> QED  BY <2>1, <3>1 DEF Flows
  <2>2. CASE /\ Len(q) < j /\ j - Len(q) \in DOMAIN kept
             /\ r[j].body = kept[j - Len(q)]
    <3>1. CASE i \in DOMAIN q /\ r[i] = q[i]
      BY <2>2, <3>1 DEF Flows
    <3>2. CASE /\ Len(q) < i /\ i - Len(q) \in DOMAIN kept
               /\ r[i].body = kept[i - Len(q)]
      <4>1. i - Len(q) < j - Len(q)
        BY <1>2
      <4> QED  BY <2>2, <3>2, <4>1 DEF Flows, Increasing
    <3> QED  BY <1>3, <3>1, <3>2
  <2> QED  BY <1>3, <2>1, <2>2
<1>5. ASSUME NEW i \in DOMAIN r, r[i].id = Member
      PROVE  r[i].body <= n /\ \A a \in before : a < r[i].body
  <2>1. CASE i \in DOMAIN q /\ r[i] = q[i]
    BY <1>5, <2>1 DEF Flows
  <2>2. CASE \E k \in DOMAIN kept : r[i].body = kept[k]
    BY <2>2 DEF Flows
  <2> QED  BY <1>3, <2>1, <2>2
<1> QED  BY <1>4, <1>5 DEF Flows, Increasing, r

LEMMA SetMore ==
  ASSUME NEW T, NEW s \in Seq(T), NEW v \in T
  PROVE  ToSet(Append(s, v)) = ToSet(s) \cup {v}
<1> DEFINE r == Append(s, v)
<1>1. /\ Len(s) \in Nat /\ DOMAIN s = 1 .. Len(s) /\ DOMAIN r = 1 .. (Len(s) + 1)
      /\ \A i \in 1 .. Len(s) : r[i] = s[i]
      /\ r[Len(s) + 1] = v
  BY Lengths, Added
<1> HIDE DEF r
<1>2. \A i \in DOMAIN s : i \in DOMAIN r /\ r[i] = s[i]
  BY <1>1
<1>3. \A i \in DOMAIN r : i \in DOMAIN s \/ i = Len(s) + 1
  BY <1>1
<1>4. Len(s) + 1 \in DOMAIN r
  BY <1>1
<1> QED  BY <1>1, <1>2, <1>3, <1>4 DEF ToSet, r

LEMMA IncreasingMore ==
  ASSUME NEW s \in Seq(Nat), NEW v \in Nat, Increasing(s), \A a \in ToSet(s) : a < v
  PROVE  /\ Increasing(Append(s, v)) /\ ToSet(Append(s, v)) = ToSet(s) \cup {v}
         /\ Append(s, v) \in Seq(Nat)
<1> DEFINE r == Append(s, v)
<1>1. /\ Len(s) \in Nat /\ DOMAIN s = 1 .. Len(s) /\ DOMAIN r = 1 .. (Len(s) + 1)
      /\ \A i \in 1 .. Len(s) : r[i] = s[i]
      /\ r[Len(s) + 1] = v /\ r \in Seq(Nat)
  BY Lengths, Added
<1> HIDE DEF r
<1>2. \A i \in DOMAIN s : s[i] < v
  BY DEF ToSet
<1>3. Increasing(r)
  <2> SUFFICES ASSUME NEW i \in DOMAIN r, NEW j \in DOMAIN r, i < j PROVE r[i] < r[j]
    BY DEF Increasing
  <2>1. i \in DOMAIN s /\ r[i] = s[i]
    BY <1>1
  <2>2. CASE j \in DOMAIN s
    BY <1>1, <2>1, <2>2 DEF Increasing
  <2>3. CASE j = Len(s) + 1
    BY <1>1, <1>2, <2>1, <2>3
  <2> QED  BY <1>1, <2>2, <2>3
<1>4. ToSet(r) = ToSet(s) \cup {v}
  BY SetMore DEF r
<1> QED  BY <1>1, <1>3, <1>4 DEF r

\* The actions that execute one of the member's messages.
OfMember(task) == task.kind = "invoke" \/ HandsOver(task, Member)

ToCome(number, q) == {number[i] : i \in {j \in DOMAIN q : OfMember(q[j])}}

\* number tells which of the member's messages each of the tasks q executes, when those
\* of waiting wait in the broker.
Executes(number, at, waiting, q) ==
  /\ number \in [DOMAIN q -> Nat]
  /\ Enumerates(at, Len(waiting), q, Member)
  /\ \A i \in DOMAIN q : q[i].kind = "invoke" => number[i] = q[i].message.body
  /\ \A k \in 1 .. Len(waiting) : number[at[k]] = waiting[k].body

Increase(number, q) ==
  \A i, j \in DOMAIN q : i < j /\ OfMember(q[i]) /\ OfMember(q[j]) => number[i] < number[j]

NumberAdded(number, q, v) == [i \in 1 .. (Len(q) + 1) |-> IF i = Len(q) + 1 THEN v ELSE number[i]]
NumbersLeft(number, q) == [i \in 1 .. (Len(q) - 1) |-> number[i + 1]]

\* What becomes of the numbers when t comes behind the tasks q.
Grown(number, q, t, v) ==
  LET r == Append(q, t)
      new == NumberAdded(number, q, v)
  IN /\ new \in [DOMAIN r -> Nat] /\ Increase(new, r)
     /\ \A i \in DOMAIN q : r[i] = q[i] /\ new[i] = number[i] /\ i \in DOMAIN r
     /\ DOMAIN r = DOMAIN q \cup {Len(q) + 1}
     /\ r[Len(q) + 1] = t /\ new[Len(q) + 1] = v
     /\ OfMember(t) => ToCome(new, r) = ToCome(number, q) \cup {v}
     /\ ~OfMember(t) => ToCome(new, r) = ToCome(number, q)

LEMMA TaskAdded ==
  ASSUME NEW q \in Seq(Tasks), NEW t \in Tasks, NEW v \in Nat, NEW number \in [DOMAIN q -> Nat],
         Increase(number, q), OfMember(t) => \A a \in ToCome(number, q) : a < v
  PROVE  Grown(number, q, t, v)
<1> DEFINE r == Append(q, t)
           new == NumberAdded(number, q, v)
<1>1. /\ Len(q) \in Nat /\ DOMAIN q = 1 .. Len(q) /\ DOMAIN r = 1 .. (Len(q) + 1)
      /\ \A i \in 1 .. Len(q) : r[i] = q[i]
      /\ r[Len(q) + 1] = t
  BY Added, Lengths
<1> HIDE DEF r
<1>2. /\ new \in [DOMAIN r -> Nat]
      /\ \A i \in 1 .. Len(q) : new[i] = number[i]
      /\ new[Len(q) + 1] = v
  BY <1>1 DEF NumberAdded
<1> HIDE DEF new
<1>3. \A i \in DOMAIN r : \/ i \in DOMAIN q /\ r[i] = q[i] /\ new[i] = number[i]
                          \/ i = Len(q) + 1 /\ r[i] = t /\ new[i] = v
  BY <1>1, <1>2
<1>4. Increase(new, r)
  <2> SUFFICES ASSUME NEW i \in DOMAIN r, NEW j \in DOMAIN r, i < j, OfMember(r[i]),
                      OfMember(r[j])
               PROVE  new[i] < new[j]
    BY DEF Increase
  <2>1. i \in DOMAIN q /\ r[i] = q[i] /\ new[i] = number[i]
    BY <1>1, <1>2
  <2>2. CASE j \in DOMAIN q /\ r[j] = q[j] /\ new[j] = number[j]
    BY <2>1, <2>2 DEF Increase
  <2>3. CASE j = Len(q) + 1 /\ r[j] = t /\ new[j] = v
    BY <2>1, <2>3 DEF ToCome
  <2> QED  BY <1>3, <2>2, <2>3
<1>5. ToCome(new, r) = ToCome(number, q) \cup (IF OfMember(t) THEN {v} ELSE {})
  <2>1. \A i \in DOMAIN q : i \in DOMAIN r /\ r[i] = q[i] /\ new[i] = number[i]
    BY <1>1, <1>2
  <2>2. Len(q) + 1 \in DOMAIN r
    BY <1>1
  <2>3. ASSUME NEW a \in ToCome(new, r)
        PROVE  a \in ToCome(number, q) \cup (IF OfMember(t) THEN {v} ELSE {})
    <3>1. PICK i \in DOMAIN r : OfMember(r[i]) /\ a = new[i]
      BY DEF ToCome
    <3> QED  BY <1>3, <3>1 DEF ToCome
  <2>4. ToCome(number, q) \subseteq ToCome(new, r)
    BY <2>1 DEF ToCome
  <2>5. OfMember(t) => v \in ToCome(new, r)
    BY <1>1, <1>2, <2>2 DEF ToCome
  <2> QED  BY <2>3, <2>4, <2>5
<1>6. DOMAIN r = DOMAIN q \cup {Len(q) + 1}
  BY <1>1
<1> QED  BY <1>1, <1>2, <1>4, <1>5, <1>6 DEF Grown, r, new

LEMMA TaskTaken ==
  ASSUME NEW q \in Seq(Tasks), q # << >>, NEW number \in [DOMAIN q -> Nat], Increase(number, q)
  PROVE  LET r == Tail(q)
             new == NumbersLeft(number, q)
         IN /\ new \in [DOMAIN r -> Nat] /\ Increase(new, r)
            /\ \A i \in DOMAIN r : r[i] = q[i + 1] /\ new[i] = number[i + 1] /\ i + 1 \in DOMAIN q
            /\ 1 \in DOMAIN q /\ Head(q) = q[1]
            /\ ToCome(new, r) \subseteq ToCome(number, q)
            /\ OfMember(Head(q)) =>
                 /\ number[1] \in ToCome(number, q) /\ number[1] \in Nat
                 /\ \A a \in ToCome(new, r) : number[1] < a
<1> DEFINE r == Tail(q)
           new == NumbersLeft(number, q)
<1>1. /\ Len(q) \in Nat \ {0} /\ DOMAIN q = 1 .. Len(q) /\ DOMAIN r = 1 .. (Len(q) - 1)
      /\ Head(q) = q[1] /\ \A i \in 1 .. (Len(q) - 1) : r[i] = q[i + 1]
  BY TakenOff
<1> HIDE DEF r
<1>2. \A i \in DOMAIN r : i + 1 \in DOMAIN q /\ 1 < i + 1
  BY <1>1
<1>3. new \in [DOMAIN r -> Nat] /\ \A i \in DOMAIN r : new[i] = number[i + 1]
  BY <1>1, <1>2 DEF NumbersLeft
<1> HIDE DEF new
<1>4. \A i \in DOMAIN r : r[i] = q[i + 1]
  BY <1>1
<1>5. 1 \in DOMAIN q
  BY <1>1
<1>6. Increase(new, r)
  <2> SUFFICES ASSUME NEW i \in DOMAIN r, NEW j \in DOMAIN r, i < j, OfMember(r[i]),
                      OfMember(r[j])
               PROVE  new[i] < new[j]
    BY DEF Increase
  <2>1. i + 1 < j + 1
    BY <1>1
  <2> QED  BY <1>2, <1>3, <1>4, <2>1 DEF Increase
<1>7. ToCome(new, r) \subseteq ToCome(number, q)
  BY <1>2, <1>3, <1>4 DEF ToCome
<1>8. ASSUME OfMember(q[1])
      PROVE  /\ number[1] \in ToCome(number, q) /\ number[1] \in Nat
             /\ \A a \in ToCome(new, r) : number[1] < a
  <2>1. ASSUME NEW a \in ToCome(new, r) PROVE number[1] < a
    <3>1. PICK i \in DOMAIN r : OfMember(r[i]) /\ a = new[i]
      BY DEF ToCome
    <3> QED  BY <1>2, <1>3, <1>4, <1>5, <1>8, <3>1 DEF Increase
  <2> QED  BY <1>5, <1>8, <2>1 DEF ToCome
<1> QED  BY <1>1, <1>2, <1>3, <1>4, <1>5, <1>6, <1>7, <1>8 DEF r, new

\* The message m comes to wait in the broker, with an action for it.
LEMMA KeepExecutes ==
  ASSUME NEW q \in Seq(Tasks), NEW waiting \in Seq(MemberMessages), NEW m \in MemberMessages,
         NEW t \in Tasks, HandsOver(t, Member), NEW number, NEW at,
         Executes(number, at, waiting, q), Increase(number, q),
         \A a \in ToCome(number, q) : a < m.body
  PROVE  Executes(NumberAdded(number, q, m.body), OneMore(at, Len(waiting), Len(q) + 1),
                  Append(waiting, m), Append(q, t))
<1> DEFINE n == Len(waiting)
           r == Append(q, t)
           new == NumberAdded(number, q, m.body)
           to == OneMore(at, n, Len(q) + 1)
           w == Append(waiting, m)
<1>1. n \in Nat /\ Len(w) = n + 1 /\ w[n + 1] = m /\ \A k \in 1 .. n : w[k] = waiting[k]
  BY Lengths, Added
<1>2. m.body \in Nat /\ number \in [DOMAIN q -> Nat] /\ Enumerates(at, n, q, Member)
      /\ at \in [1 .. n -> DOMAIN q] /\ t.kind = "handOver"
  BY DEF Executes, MemberMessages, Enumerates, HandsOver
<1>3. Enumerates(to, n + 1, r, Member)
  BY <1>1, <1>2, OneMoreHandOver
<1>4. /\ new \in [DOMAIN r -> Nat]
      /\ \A i \in DOMAIN q : r[i] = q[i] /\ new[i] = number[i]
      /\ DOMAIN r = DOMAIN q \cup {Len(q) + 1}
      /\ r[Len(q) + 1] = t /\ new[Len(q) + 1] = m.body
  <2>1. Grown(number, q, t, m.body)
    BY <1>2, TaskAdded
  <2> QED  BY <2>1 DEF Grown
<1>5. \A k \in 1 .. (n + 1) : to[k] = IF k = n + 1 THEN Len(q) + 1 ELSE at[k]
  BY DEF OneMore
<1> HIDE DEF n, r, new, to, w
<1>6. \A i \in DOMAIN r : r[i].kind = "invoke" => new[i] = r[i].message.body
  BY <1>2, <1>4 DEF Executes
<1>7. ASSUME NEW k \in 1 .. (n + 1) PROVE new[to[k]] = w[k].body
  <2>1. CASE k \in 1 .. n
    <3>1. to[k] = at[k] /\ at[k] \in DOMAIN q /\ w[k] = waiting[k]
      BY <1>1, <1>2, <1>5, <2>1
    <3>2. number[at[k]] = waiting[k].body
      BY <2>1 DEF Executes, n
    <3> QED  BY <1>4, <3>1, <3>2
  <2>2. CASE k = n + 1
    BY <1>1, <1>4, <1>5, <2>2
  <2> QED  BY <1>1, <2>1, <2>2
<1> QED  BY <1>1, <1>3, <1>4, <1>6, <1>7 DEF Executes, r, new, to, w, n

\* Another task is queued.
LEMMA QueueExecutes ==
  ASSUME NEW q \in Seq(Tasks), NEW waiting \in Seq(MemberMessages), NEW v \in Nat,
         NEW t \in Tasks, ~HandsOver(t, Member), t.kind = "invoke" => t.message.body = v,
         NEW number, NEW at, Executes(number, at, waiting, q), Increase(number, q),
         OfMember(t) => \A a \in ToCome(number, q) : a < v
  PROVE  Executes(NumberAdded(number, q, v), at, waiting, Append(q, t))
<1> DEFINE n == Len(waiting)
           r == Append(q, t)
           new == NumberAdded(number, q, v)
<1>1. n \in Nat
  BY Lengths
<1>2. number \in [DOMAIN q -> Nat] /\ Enumerates(at, n, q, Member)
      /\ at \in [1 .. n -> DOMAIN q]
  BY DEF Executes, Enumerates
<1>3. Enumerates(at, n, r, Member)
  BY <1>1, <1>2, OneMoreTask
<1>4. /\ new \in [DOMAIN r -> Nat]
      /\ \A i \in DOMAIN q : r[i] = q[i] /\ new[i] = number[i]
      /\ DOMAIN r = DOMAIN q \cup {Len(q) + 1}
      /\ r[Len(q) + 1] = t /\ new[Len(q) + 1] = v
  <2>1. Grown(number, q, t, v)
    BY <1>2, TaskAdded
  <2> QED  BY <2>1 DEF Grown
<1> HIDE DEF n, r, new
<1>5. \A i \in DOMAIN r : r[i].kind = "invoke" => new[i] = r[i].message.body
  BY <1>4 DEF Executes
<1>6. \A k \in 1 .. n : new[at[k]] = waiting[k].body
  BY <1>2, <1>4 DEF Executes, n
<1> QED  BY <1>3, <1>4, <1>5, <1>6 DEF Executes, r, new, n

\* The first task hands over the first message that waits.
LEMMA HandOverExecutes ==
  ASSUME NEW q \in Seq(Tasks), q # << >>, NEW waiting \in Seq(MemberMessages),
         HandsOver(Head(q), Member), NEW number, NEW at,
         Executes(number, at, waiting, q), Increase(number, q)
  PROVE  /\ waiting # << >> /\ number[1] = Head(waiting).body
         /\ Executes(NumbersLeft(number, q), FirstGone(at, Len(waiting)), Tail(waiting), Tail(q))
<1> DEFINE n == Len(waiting)
           r == Tail(q)
           new == NumbersLeft(number, q)
           to == FirstGone(at, n)
           w == Tail(waiting)
<1>1. n \in Nat
  BY Lengths
<1>2. number \in [DOMAIN q -> Nat] /\ Enumerates(at, n, q, Member) /\ at \in [1 .. n -> DOMAIN q]
  BY DEF Executes, Enumerates
<1>3. 0 < n /\ at[1] = 1 /\ Enumerates(to, n - 1, r, Member)
  BY <1>1, <1>2, HandOverTaken
<1>4. /\ new \in [DOMAIN r -> Nat]
      /\ \A i \in DOMAIN r : r[i] = q[i + 1] /\ new[i] = number[i + 1] /\ i + 1 \in DOMAIN q
  BY <1>2, TaskTaken
<1>5. waiting # << >>
  BY <1>3, Lengths
<1>6. /\ Head(waiting) = waiting[1] /\ Len(w) = n - 1
      /\ \A k \in 1 .. (n - 1) : w[k] = waiting[k + 1]
  BY <1>5, TakenOff
<1>7. \A k \in 1 .. (n - 1) : to[k] = at[k + 1] - 1 /\ to[k] \in DOMAIN r
  BY <1>3 DEF Enumerates, FirstGone
<1> HIDE DEF n, r, new, to, w
<1>8. \A i \in DOMAIN r : r[i].kind = "invoke" => new[i] = r[i].message.body
  BY <1>4 DEF Executes
<1>9. ASSUME NEW k \in 1 .. (n - 1) PROVE new[to[k]] = w[k].body
  <2>1. k + 1 \in 1 .. n /\ at[k + 1] \in DOMAIN q
    BY <1>1, <1>2
  <2>2. at[k + 1] \in Nat
    <3>1. DOMAIN q = 1 .. Len(q)
      BY Lengths
    <3> QED  BY <2>1, <3>1
  <2>3. to[k] \in DOMAIN r /\ to[k] + 1 = at[k + 1]
    <3>1. to[k] \in DOMAIN r /\ to[k] = at[k + 1] - 1
      BY <1>7
    <3> QED  BY <2>2, <3>1
  <2>4. new[to[k]] = number[at[k + 1]]
    BY <1>4, <2>3
  <2>5. number[at[k + 1]] = waiting[k + 1].body
    BY <2>1 DEF Executes, n
  <2> QED  BY <1>6, <2>4, <2>5
<1>10. number[1] = waiting[1].body
  BY <1>1, <1>3 DEF Executes, n
<1> QED  BY <1>3, <1>4, <1>5, <1>6, <1>8, <1>9, <1>10 DEF Executes, r, new, to, w, n

\* The first task is of another kind.
LEMMA OtherExecutes ==
  ASSUME NEW q \in Seq(Tasks), q # << >>, NEW waiting \in Seq(MemberMessages),
         ~HandsOver(Head(q), Member), NEW number, NEW at,
         Executes(number, at, waiting, q), Increase(number, q)
  PROVE  Executes(NumbersLeft(number, q), MovedUp(at, Len(waiting)), waiting, Tail(q))
<1> DEFINE n == Len(waiting)
           r == Tail(q)
           new == NumbersLeft(number, q)
           to == MovedUp(at, n)
<1>1. n \in Nat
  BY Lengths
<1>2. number \in [DOMAIN q -> Nat] /\ Enumerates(at, n, q, Member) /\ at \in [1 .. n -> DOMAIN q]
  BY DEF Executes, Enumerates
<1>3. Enumerates(to, n, r, Member)
  BY <1>1, <1>2, OtherTaken
<1>4. /\ new \in [DOMAIN r -> Nat]
      /\ \A i \in DOMAIN r : r[i] = q[i + 1] /\ new[i] = number[i + 1] /\ i + 1 \in DOMAIN q
  BY <1>2, TaskTaken
<1>5. \A k \in 1 .. n : to[k] = at[k] - 1 /\ to[k] \in DOMAIN r
  BY <1>3 DEF Enumerates, MovedUp
<1> HIDE DEF n, r, new, to
<1>6. \A i \in DOMAIN r : r[i].kind = "invoke" => new[i] = r[i].message.body
  BY <1>4 DEF Executes
<1>7. ASSUME NEW k \in 1 .. n PROVE new[to[k]] = waiting[k].body
  <2>1. at[k] \in DOMAIN q
    BY <1>1, <1>2
  <2>2. at[k] \in Nat
    BY <2>1, Lengths
  <2>3. to[k] \in DOMAIN r /\ to[k] + 1 = at[k]
    BY <1>5, <2>2
  <2>4. new[to[k]] = number[at[k]]
    BY <1>4, <2>3
  <2> QED  BY <2>4 DEF Executes, n
<1> QED  BY <1>3, <1>4, <1>6, <1>7 DEF Executes, r, new, to, n

\* What the member executes now.
InHand ==
  IF running["scheduler"] # Nothing /\ running["scheduler"].id = Member
    THEN {running["scheduler"].body} ELSE {}

Comes(number, at) ==
  /\ Executes(number, at, Kept(Member).default, tasks)
  /\ Increase(number, tasks)
  /\ \A a \in ToSet(heard), b \in InHand : a < b
  /\ \A a \in ToSet(heard) \cup InHand, b \in ToCome(number, tasks) : a < b

Ahead(number) == ToSet(heard) \cup InHand \cup ToCome(number, tasks)

HostFlows(number, at) ==
  Comes(number, at) /\ Flows(Ahead(number), incoming, peer.sendQ, peer.sent)

OrderInv == Increasing(heard) /\ (~undefined => \E number, at : HostFlows(number, at))

PeerOrderInv == Increasing(peer.heard) /\ Flows(ToSet(peer.heard), outgoing, sendQ, sent)

LEMMA ComesTypes ==
  ASSUME TypeInv, NEW number, NEW at, Comes(number, at)
  PROVE  /\ tasks \in Seq(Tasks) /\ Kept(Member).default \in Seq(MemberMessages)
         /\ number \in [DOMAIN tasks -> Nat]
         /\ incoming \in Seq(Sendable) /\ peer.sendQ \in Seq(Nat) /\ peer.sent \in Nat
BY KeptTypes DEF TypeInv, BrokerTypes, ExtTypes, Peers, MemberQueues, Comes, Executes

LEMMA InitOrder == ASSUME ExtInit PROVE OrderInv /\ PeerOrderInv
<1>1. PICK number, at : number = [i \in {} |-> 0] /\ at = [k \in 1 .. 0 |-> 1]
  OBVIOUS
<1>2. /\ heard = << >> /\ tasks = << >> /\ incoming = << >> /\ outgoing = << >> /\ sendQ = << >>
      /\ sent = 0 /\ peer.heard = << >> /\ peer.sendQ = << >> /\ peer.sent = 0
      /\ running["scheduler"] = Nothing /\ Kept(Member).default = << >>
  BY Names DEF ExtInit, BrokerInit, Kept, Known, EmptyMq
<1>3. ToSet(<< >>) = {} /\ DOMAIN << >> = {} /\ Len(<< >>) = 0
  BY DEF ToSet
<1>4. InHand = {} /\ ToCome(number, tasks) = {}
  BY <1>2, <1>3 DEF InHand, ToCome
<1>5. Comes(number, at)
  BY <1>1, <1>2, <1>3, <1>4 DEF Comes, Executes, Enumerates, Increase
<1>6. Flows({}, << >>, << >>, 0) /\ Increasing(<< >>)
  BY <1>3 DEF Flows, Increasing
<1>7. HostFlows(number, at)
  BY <1>2, <1>3, <1>4, <1>5, <1>6 DEF HostFlows, Ahead
<1> QED  BY <1>2, <1>3, <1>6, <1>7 DEF OrderInv, PeerOrderInv

\* What Keep leaves in the broker.
LEMMA KeepBroker ==
  ASSUME TypeInv, NEW m \in Sendable, Keep(m)
  PROVE  /\ m.id \in Entities
         /\ Kept(m.id)'.default = Append(Kept(m.id).default, m)
         /\ Kept(m.id)'.custom = Kept(m.id).custom
         /\ Known(m.id)'
         /\ \A id \in Entities : id # m.id => Kept(id)' = Kept(id) /\ (Known(id)' <=> Known(id))
         /\ tasks' = Append(tasks, [kind |-> "handOver", id |-> m.id])
         /\ [kind |-> "handOver", id |-> m.id] \in Tasks
         /\ running' = running
<1>1. m.id \in Entities
  BY Names DEF Sendable, ExtMessages, MemberMessages
<1> DEFINE q == [Kept(m.id) EXCEPT !.default = Append(@, m)]
<1>2. /\ q # Nothing /\ q.default = Append(Kept(m.id).default, m)
      /\ q.custom = Kept(m.id).custom
  <2>1. CASE m.id = Ext
    <3>1. m \in ExtMessages /\ Kept(m.id) \in ExtQueues
      BY <2>1, KeptTypes, Names DEF TypeInv, Sendable, MemberMessages
    <3>2. Append(Kept(m.id).default, m) \in Seq(ExtMessages)
      BY <3>1, Added DEF ExtQueues
    <3>3. /\ q \in ExtQueues /\ q.default = Append(Kept(m.id).default, m)
          /\ q.custom = Kept(m.id).custom
      BY <3>1, <3>2 DEF ExtQueues
    <3> QED  BY <3>3, Somethings
  <2>2. CASE m.id = Member
    <3>1. m \in MemberMessages /\ Kept(m.id) \in MemberQueues
      BY <2>2, KeptTypes, Names DEF TypeInv, Sendable, ExtMessages
    <3>2. Append(Kept(m.id).default, m) \in Seq(MemberMessages)
      BY <3>1, Added DEF MemberQueues
    <3>3. /\ q \in MemberQueues /\ q.default = Append(Kept(m.id).default, m)
          /\ q.custom = Kept(m.id).custom
      BY <3>1, <3>2 DEF MemberQueues
    <3> QED  BY <3>3, Somethings
  <2> QED  BY <1>1, <2>1, <2>2, Names
<1> HIDE DEF q
<1>3. broker' = [broker EXCEPT ![m.id] = q]
  BY DEF Keep, q
<1>4. broker'[m.id] = q /\ \A id \in Entities : id # m.id => broker'[id] = broker[id]
  BY <1>1, <1>3 DEF TypeInv, BrokerTypes
<1>5. [kind |-> "handOver", id |-> m.id] \in Tasks
  BY <1>1 DEF Tasks, HandOverTasks
<1> QED  BY <1>1, <1>2, <1>4, <1>5 DEF Keep, Kept, Known

LEMMA DispatchOrder ==
  ASSUME TypeInv, Dispatch, UNCHANGED extVars, NEW number, NEW at, HostFlows(number, at)
  PROVE  \E f, g : HostFlows(f, g)'
<1> DEFINE m == Head(incoming)
           waiting == Kept(Member).default
<1>1. /\ m \in Sendable /\ Deliver(m) /\ incoming' = Tail(incoming) /\ incoming # << >>
      /\ UNCHANGED <<heard, peer>>
  BY TakenOff DEF Dispatch, TypeInv, BrokerTypes, extVars, hostVars
<1>2. m.id \in Entities /\ (m.id = Member => m \in MemberMessages)
      /\ (m.id = Ext => m \in ExtMessages)
  BY <1>1, Names DEF Sendable, ExtMessages, MemberMessages
<1>3. /\ tasks \in Seq(Tasks) /\ waiting \in Seq(MemberMessages)
      /\ number \in [DOMAIN tasks -> Nat]
      /\ incoming \in Seq(Sendable) /\ peer.sendQ \in Seq(Nat) /\ peer.sent \in Nat
  BY ComesTypes DEF HostFlows
<1>4. /\ Executes(number, at, waiting, tasks) /\ Increase(number, tasks)
      /\ \A a \in ToSet(heard), b \in InHand : a < b
      /\ \A a \in ToSet(heard) \cup InHand, b \in ToCome(number, tasks) : a < b
      /\ Flows(Ahead(number), incoming, peer.sendQ, peer.sent)
  BY DEF HostFlows, Comes
<1>5. /\ Flows(Ahead(number), incoming', peer.sendQ, peer.sent)
      /\ m.id = Member =>
           /\ m.body \in Nat /\ \A a \in Ahead(number) : a < m.body
           /\ Flows(Ahead(number) \cup {m.body}, incoming', peer.sendQ, peer.sent)
  BY <1>1, <1>3, <1>4, FlowsTaken
<1>6. ASSUME running'["scheduler"] = running["scheduler"] PROVE InHand' = InHand
  BY <1>6 DEF InHand
\* One more message of the member's comes, in t.
<1>7. ASSUME m.id = Member, running' = running, NEW t \in Tasks, OfMember(t),
             tasks' = Append(tasks, t), NEW f, f = NumberAdded(number, tasks, m.body), NEW g,
             Executes(f, g, Kept(Member)'.default, tasks')
      PROVE  HostFlows(f, g)'
  <2>1. m.body \in Nat /\ \A a \in Ahead(number) : a < m.body
    BY <1>5, <1>7
  <2>2. \A a \in ToCome(number, tasks) : a < m.body
    BY <2>1 DEF Ahead
  <2> HIDE DEF m
  <2>3. Increase(f, tasks') /\ ToCome(f, tasks') = ToCome(number, tasks) \cup {m.body}
    <3>1. Grown(number, tasks, t, m.body)
      BY <1>3, <1>4, <2>1, <2>2, TaskAdded
    <3> QED  BY <1>7, <3>1 DEF Grown
  <2>4. InHand' = InHand
    BY <1>6, <1>7
  <2>5. ToSet(heard)' = ToSet(heard)
    BY <1>1
  <2>6. Ahead(f)' = Ahead(number) \cup {m.body}
    BY <2>3, <2>4, <2>5 DEF Ahead
  <2>7. Comes(f, g)'
    <3>1. \A a \in ToSet(heard) \cup InHand, b \in ToCome(f, tasks') : a < b
      BY <1>4, <2>1, <2>3 DEF Ahead
    <3> QED  BY <1>4, <1>7, <2>3, <2>4, <2>5, <3>1 DEF Comes
  <2>8. Flows(Ahead(f)', incoming', peer'.sendQ, peer'.sent)
    BY <1>1, <1>5, <1>7, <2>6
  <2> QED  BY <2>7, <2>8 DEF HostFlows
\* Nothing new for the member.
<1>8. ASSUME running'["scheduler"] = running["scheduler"], NEW f, NEW g, Increase(f, tasks'),
             Executes(f, g, Kept(Member)'.default, tasks'),
             ToCome(f, tasks') = ToCome(number, tasks)
      PROVE  HostFlows(f, g)'
  <2>1. InHand' = InHand /\ ToSet(heard)' = ToSet(heard)
    BY <1>1, <1>6, <1>8
  <2>2. Ahead(f)' = Ahead(number)
    BY <1>8, <2>1 DEF Ahead
  <2>3. Comes(f, g)'
    BY <1>4, <1>8, <2>1 DEF Comes
  <2>4. Flows(Ahead(f)', incoming', peer'.sendQ, peer'.sent)
    BY <1>1, <1>5, <2>2
  <2> QED  BY <2>3, <2>4 DEF HostFlows
<1>9. CASE Keep(m) /\ m.id = Member
  <2> DEFINE t == [kind |-> "handOver", id |-> m.id]
  <2>1. /\ t \in Tasks /\ tasks' = Append(tasks, t) /\ running' = running
        /\ Kept(Member)'.default = Append(waiting, m)
    BY <1>1, <1>9, KeepBroker
  <2>2. HandsOver(t, Member) /\ OfMember(t)
    BY <1>9 DEF HandsOver, OfMember
  <2>3. PICK f, g : /\ f = NumberAdded(number, tasks, m.body)
                    /\ g = OneMore(at, Len(waiting), Len(tasks) + 1)
    OBVIOUS
  <2>4. \A a \in ToCome(number, tasks) : a < m.body
    BY <1>5, <1>9 DEF Ahead
  <2>5. Executes(f, g, Kept(Member)'.default, tasks')
    <3> HIDE DEF m, t, waiting
    <3>1. m \in MemberMessages
      BY <1>2, <1>9
    <3> QED  BY <1>3, <1>4, <2>1, <2>2, <2>3, <2>4, <3>1, KeepExecutes
  <2> HIDE DEF t
  <2>6. HostFlows(f, g)'
    BY <1>7, <1>9, <2>1, <2>2, <2>3, <2>5
  <2> QED  BY <2>6
<1>10. CASE Queue(m)
  <2> DEFINE t == [kind |-> "invoke", message |-> m, era |-> era[m.id]]
  <2>1. /\ m.id = Member /\ m \in MemberMessages /\ tasks' = Append(tasks, t)
        /\ running' = running /\ Kept(Member)' = Kept(Member)
    BY <1>2, <1>10, Names DEF Queue, Kept, Known
  <2>2. t \in Tasks /\ ~HandsOver(t, Member) /\ OfMember(t) /\ t.kind = "invoke"
        /\ t.message.body = m.body
    BY <2>1, Names DEF Tasks, InvokeTasks, TypeInv, BrokerTypes, HandsOver, OfMember
  <2>3. PICK f : f = NumberAdded(number, tasks, m.body)
    OBVIOUS
  <2>4. m.body \in Nat /\ \A a \in ToCome(number, tasks) : a < m.body
    BY <1>5, <2>1 DEF Ahead
  <2>5. Executes(f, at, Kept(Member)'.default, tasks')
    <3> HIDE DEF m, t, waiting
    <3>1. Executes(f, at, waiting, tasks')
      BY <1>3, <1>4, <2>1, <2>2, <2>3, <2>4, QueueExecutes
    <3> QED  BY <2>1, <3>1 DEF waiting
  <2> HIDE DEF t
  <2>6. HostFlows(f, at)'
    BY <1>7, <2>1, <2>2, <2>3, <2>5
  <2> QED  BY <2>6
<1>11. CASE Keep(m) /\ m.id = Ext
  <2> DEFINE t == [kind |-> "handOver", id |-> m.id]
  <2>1. /\ t \in Tasks /\ tasks' = Append(tasks, t) /\ running' = running
        /\ Kept(Member)' = Kept(Member)
    BY <1>1, <1>11, KeepBroker, Names
  <2>2. ~HandsOver(t, Member) /\ ~OfMember(t) /\ t.kind # "invoke"
    BY <1>11, Names DEF HandsOver, OfMember
  <2>3. PICK f : f = NumberAdded(number, tasks, 0)
    OBVIOUS
  <2> HIDE DEF m, t, waiting
  <2>4. Executes(f, at, Kept(Member)'.default, tasks')
    <3>1. Executes(f, at, waiting, tasks')
      BY <1>3, <1>4, <2>1, <2>2, <2>3, QueueExecutes
    <3> QED  BY <2>1, <3>1 DEF waiting
  <2>5. Increase(f, tasks') /\ ToCome(f, tasks') = ToCome(number, tasks)
    <3>1. Grown(number, tasks, t, 0)
      BY <1>3, <1>4, <2>1, <2>2, TaskAdded
    <3> QED  BY <2>1, <2>2, <2>3, <3>1 DEF Grown
  <2>6. HostFlows(f, at)'
    BY <1>8, <2>1, <2>4, <2>5
  <2> QED  BY <2>6
<1>12. CASE Invoke(m) \/ Follow(m)
  <2>1. /\ m.id = Ext /\ tasks' = tasks
    BY <1>2, <1>12, Names DEF Invoke, Follow
  <2>2. Kept(Member)' = Kept(Member)
    BY <1>12, <2>1, Names DEF Invoke, Follow, Kept, Known, TypeInv, BrokerTypes
  <2>3. running'["scheduler"] = running["scheduler"]
    BY <1>12 DEF Invoke, Follow, Run, TypeInv, BrokerTypes
  <2>4. HostFlows(number, at)'
    BY <1>4, <1>8, <2>1, <2>2, <2>3
  <2> QED  BY <2>4
<1> QED  BY <1>1, <1>2, <1>9, <1>10, <1>11, <1>12, Names DEF Deliver

\* A task starts: what it executes comes into the member's hand or is lost.
LEMMA TakenOrder ==
  ASSUME NEW number, NEW at, HostFlows(number, at), TypeInv,
         tasks # << >>, tasks' = Tail(tasks), UNCHANGED <<incoming, heard, peer>>,
         InHand = {}, InHand' \subseteq IF OfMember(Head(tasks)) THEN {number[1]} ELSE {},
         NEW f, f = NumbersLeft(number, tasks), NEW g,
         Executes(f, g, Kept(Member)'.default, tasks')
  PROVE  HostFlows(f, g)'
<1>1. /\ tasks \in Seq(Tasks) /\ number \in [DOMAIN tasks -> Nat] /\ Increase(number, tasks)
      /\ \A a \in ToSet(heard), b \in ToCome(number, tasks) : a < b
      /\ Flows(Ahead(number), incoming, peer.sendQ, peer.sent)
  BY ComesTypes DEF HostFlows, Comes
<1>2. Increase(NumbersLeft(number, tasks), Tail(tasks))
  BY <1>1, TaskTaken
<1>3. ToCome(NumbersLeft(number, tasks), Tail(tasks)) \subseteq ToCome(number, tasks)
  BY <1>1, TaskTaken
<1>4. OfMember(Head(tasks)) =>
        /\ number[1] \in ToCome(number, tasks)
        /\ \A a \in ToCome(NumbersLeft(number, tasks), Tail(tasks)) : number[1] < a
  BY <1>1, TaskTaken
<1>5. ToSet(heard)' = ToSet(heard)
  OBVIOUS
<1>6. \A b \in InHand' : /\ b \in ToCome(number, tasks)
                         /\ \A a \in ToCome(f, tasks') : b < a
  BY <1>4
<1>7. Ahead(f)' \subseteq Ahead(number)
  BY <1>3, <1>5, <1>6 DEF Ahead
<1>8. Comes(f, g)'
  <2>1. \A a \in ToSet(heard), b \in InHand' : a < b
    BY <1>1, <1>6
  <2>2. \A a \in ToSet(heard) \cup InHand', b \in ToCome(f, tasks') : a < b
    BY <1>1, <1>3, <1>6
  <2> QED  BY <1>2, <1>5, <2>1, <2>2 DEF Comes
<1>9. Flows(Ahead(f)', incoming', peer'.sendQ, peer'.sent)
  BY <1>1, <1>7, FlowsFewer
<1> QED  BY <1>8, <1>9 DEF HostFlows

\* A step that moves nothing of the member's.
LEMMA RestOrder ==
  ASSUME NEW number, NEW at, HostFlows(number, at), InHand' = InHand,
         UNCHANGED <<tasks, incoming, heard, peer>>,
         Kept(Member)'.default = Kept(Member).default
  PROVE  HostFlows(number, at)'
<1>1. Ahead(number)' = Ahead(number) /\ ToSet(heard)' = ToSet(heard)
  BY DEF Ahead
<1>2. Comes(number, at)'
  BY <1>1 DEF HostFlows, Comes
<1> QED  BY <1>1, <1>2 DEF HostFlows

LEMMA RunInvokeOrder ==
  ASSUME TypeInv, RunInvoke, UNCHANGED extVars, NEW number, NEW at, HostFlows(number, at)
  PROVE  \E f, g : HostFlows(f, g)'
<1> DEFINE t == Head(tasks)
<1>1. /\ t \in Tasks /\ tasks' = Tail(tasks) /\ t.kind = "invoke" /\ tasks # << >>
      /\ hand = Nothing /\ running["scheduler"] = Nothing
      /\ UNCHANGED <<incoming, broker, heard, peer>>
  BY TakenOff DEF RunInvoke, NextTask, Idle, TypeInv, BrokerTypes, extVars
<1>2. /\ tasks \in Seq(Tasks) /\ Kept(Member).default \in Seq(MemberMessages)
      /\ number \in [DOMAIN tasks -> Nat]
      /\ Executes(number, at, Kept(Member).default, tasks) /\ Increase(number, tasks)
  BY ComesTypes DEF HostFlows, Comes
<1>3. t = tasks[1] /\ 1 \in DOMAIN tasks
  BY <1>1, <1>2, TakenOff
<1>4. number[1] = t.message.body
  BY <1>1, <1>2, <1>3 DEF Executes
<1> HIDE DEF t
<1>5. /\ InHand = {} /\ InHand' \subseteq {number[1]}
      /\ ~HandsOver(t, Member) /\ OfMember(t)
  <2>1. running' = [running EXCEPT !["scheduler"] = t.message] \/ running' = running
    BY DEF RunInvoke, Run, t
  <2> QED  BY <1>1, <1>4, <2>1 DEF InHand, HandsOver, OfMember, TypeInv, BrokerTypes
<1>6. PICK f, g : f = NumbersLeft(number, tasks) /\ g = MovedUp(at, Len(Kept(Member).default))
  OBVIOUS
<1>7. Kept(Member)' = Kept(Member)
  BY <1>1 DEF Kept, Known
<1>8. Executes(f, g, Kept(Member).default, Tail(tasks))
  BY <1>1, <1>2, <1>5, <1>6, OtherExecutes DEF t
<1>9. HostFlows(f, g)'
  BY <1>1, <1>5, <1>6, <1>7, <1>8, TakenOrder DEF t
<1> QED  BY <1>9

\* There is a message to hand over.
LEMMA HandsOverOne ==
  ASSUME TypeInv, Counted, NEW id \in Entities, tasks # << >>, HandsOver(Head(tasks), id)
  PROVE  broker[id] # Nothing /\ broker[id].default # << >>
<1>1. PICK to : Enumerates(to, Len(Kept(id).default), tasks, id)
  BY DEF Counted
<1>2. 0 < Len(Kept(id).default)
  BY <1>1, KeptLengths, HandOverTaken
<1>3. Len(EmptyMq.default) = 0 /\ Len(<< >>) = 0
  BY DEF EmptyMq
<1> QED  BY <1>2, <1>3 DEF Kept, Known

\* What the hand-over does after its message loses none that waits.
HandOverGoesOn == TestEmpty \/ MoveOut \/ Erase \/ InvokeCustom \/ HandedOver

LEMMA GoesOnKeeps ==
  ASSUME TypeInv, HandOverGoesOn, ~undefined', NEW id \in Entities
  PROVE  Kept(id)'.default = Kept(id).default /\ UNCHANGED <<tasks, incoming>>
<1>1. CASE TestEmpty \/ InvokeCustom \/ HandedOver
  BY <1>1 DEF TestEmpty, InvokeCustom, HandedOver, Kept, Known
<1>2. CASE MoveOut \/ Erase
  <2>1. /\ hand # Nothing /\ hand.at # "custom" /\ broker[hand.id].default = << >>
        /\ broker' = [broker EXCEPT ![hand.id] = EmptyMq]
           \/ broker' = [broker EXCEPT ![hand.id] = Nothing]
        /\ UNCHANGED <<tasks, incoming>>
    BY <1>2 DEF MoveOut, Erase, At
  <2>2. hand.id \in Entities /\ Known(hand.id)
    BY <2>1, HandTypes DEF TypeInv, HandAt
  <2>3. CASE hand.id = id
    <3>1. broker'[id] \in {EmptyMq, Nothing}
      BY <2>1, <2>2, <2>3 DEF TypeInv, BrokerTypes
    <3>2. Kept(id)'.default = << >>
      BY <3>1 DEF Kept, Known, EmptyMq
    <3> QED  BY <2>1, <2>2, <2>3, <3>2 DEF Kept, Known
  <2>4. CASE hand.id # id
    <3>1. broker'[id] = broker[id]
      BY <2>1, <2>2, <2>4 DEF TypeInv, BrokerTypes
    <3> QED  BY <2>1, <3>1 DEF Kept, Known
  <2> QED  BY <2>3, <2>4
<1> QED  BY <1>1, <1>2 DEF HandOverGoesOn

LEMMA HandOverOrder ==
  ASSUME TypeInv, Counted, HandOver, UNCHANGED extVars, NEW number, NEW at, HostFlows(number, at)
  PROVE  \E f, g : HostFlows(f, g)'
<1> DEFINE t == Head(tasks)
           first == Head(broker[t.id].default)
<1>1. /\ t \in Tasks /\ tasks' = Tail(tasks) /\ t.kind = "handOver" /\ tasks # << >>
      /\ tasks \in Seq(Tasks)
      /\ hand = Nothing /\ running["scheduler"] = Nothing
      /\ UNCHANGED <<incoming, heard, peer>>
  BY TakenOff DEF HandOver, NextTask, Idle, TypeInv, BrokerTypes, extVars
<1>2. /\ Kept(Member).default \in Seq(MemberMessages)
      /\ number \in [DOMAIN tasks -> Nat]
      /\ Executes(number, at, Kept(Member).default, tasks) /\ Increase(number, tasks)
  BY ComesTypes DEF HostFlows, Comes
<1>3. t.id \in Entities /\ HandsOver(t, t.id)
  BY <1>1 DEF Tasks, HandOverTasks, InvokeTasks, HandsOver
<1>4. broker[t.id] # Nothing /\ broker[t.id].default # << >>
  BY <1>1, <1>3, HandsOverOne
<1>5. /\ broker' = [broker EXCEPT ![t.id].default = Tail(broker[t.id].default)]
      /\ running' = [running EXCEPT !["scheduler"] = first] \/ running' = running
  BY DEF HandOver, Run
<1>6. PICK f : f = NumbersLeft(number, tasks)
  OBVIOUS
<1>7. CASE t.id = Member
  <2> DEFINE waiting == Kept(Member).default
             q == [broker[Member] EXCEPT !.default = Tail(waiting)]
  <2>1. /\ waiting = broker[Member].default /\ HandsOver(t, Member) /\ OfMember(t)
        /\ broker[Member] \in MemberQueues
    BY <1>3, <1>4, <1>7 DEF Kept, Known, OfMember, TypeInv, BrokerTypes
  <2>2. PICK g : g = FirstGone(at, Len(waiting))
    OBVIOUS
  <2>3. /\ waiting # << >> /\ number[1] = Head(waiting).body
        /\ Executes(f, g, Tail(waiting), Tail(tasks))
    BY <1>1, <1>2, <1>6, <2>1, <2>2, HandOverExecutes
  <2>4. Kept(Member)'.default = Tail(waiting)
    <3>1. q \in MemberQueues /\ q.default = Tail(waiting)
      BY <1>2, <2>1, <2>3, TakenOff DEF MemberQueues
    <3>2. broker' = [broker EXCEPT ![Member] = q]
      BY <1>5, <1>7, <2>1
    <3> HIDE DEF q
    <3>3. broker'[Member] = q /\ q # Nothing
      BY <3>1, <3>2, Names, Somethings DEF TypeInv, BrokerTypes
    <3> QED  BY <3>1, <3>3 DEF Kept, Known
  <2>5. InHand = {} /\ InHand' \subseteq {number[1]}
    <3>1. first = Head(waiting)
      BY <1>7, <2>1
    <3> HIDE DEF first, waiting
    <3> QED  BY <1>1, <1>5, <2>3, <3>1 DEF InHand, TypeInv, BrokerTypes
  <2>6. HostFlows(f, g)'
    BY <1>1, <1>6, <2>1, <2>3, <2>4, <2>5, TakenOrder
  <2> QED  BY <2>6
<1>8. CASE t.id = Ext
  <2>1. ~HandsOver(t, Member) /\ first.id = Ext
    <3>1. broker[Ext] \in ExtQueues
      BY <1>4, <1>8 DEF TypeInv, BrokerTypes
    <3>2. first \in ExtMessages
      BY <1>4, <1>8, <3>1, TakenOff DEF ExtQueues
    <3> QED  BY <1>8, <3>2, Names DEF HandsOver, ExtMessages
  <2>2. Kept(Member)' = Kept(Member)
    BY <1>5, <1>8, Names DEF Kept, Known, TypeInv, BrokerTypes
  <2>3. PICK g : g = MovedUp(at, Len(Kept(Member).default))
    OBVIOUS
  <2>4. Executes(f, g, Kept(Member).default, Tail(tasks))
    BY <1>1, <1>2, <1>6, <2>1, <2>3, OtherExecutes
  <2>5. InHand = {} /\ InHand' = {}
    <3> HIDE DEF first
    <3> QED  BY <1>1, <1>5, <2>1, Names DEF InHand, TypeInv, BrokerTypes
  <2>6. HostFlows(f, g)'
    BY <1>1, <1>6, <2>2, <2>4, <2>5, TakenOrder
  <2> QED  BY <2>6
<1> QED  BY <1>3, <1>7, <1>8, Names

LEMMA TasksOrder ==
  ASSUME BaseInv, RunTasks, UNCHANGED extVars, OrderInv
  PROVE  OrderInv'
<1>1. ~undefined /\ Counted /\ TypeInv
  BY DEF BaseInv, RunTasks, RunInvoke, HandOver, NextTask, Idle, TestEmpty, MoveOut, Erase,
         InvokeCustom, HandedOver, At
<1>2. PICK number, at : HostFlows(number, at)
  BY <1>1 DEF OrderInv
<1>3. UNCHANGED <<heard, peer>> /\ Increasing(heard)'
  BY DEF extVars, OrderInv, Increasing
<1>4. ~undefined' => \E f, g : HostFlows(f, g)'
  <2>1. CASE RunInvoke
    BY <1>1, <1>2, <2>1, RunInvokeOrder
  <2>2. CASE HandOver
    BY <1>1, <1>2, <2>2, HandOverOrder
  <2>3. CASE HandOverGoesOn
    <3> SUFFICES ASSUME ~undefined' PROVE \E f, g : HostFlows(f, g)'
      OBVIOUS
    <3>1. Kept(Member)'.default = Kept(Member).default /\ UNCHANGED <<tasks, incoming>>
      BY <1>1, <2>3, GoesOnKeeps, Names
    <3>2. InHand' = InHand
      <4>1. CASE ~InvokeCustom
        BY <2>3, <4>1 DEF HandOverGoesOn, TestEmpty, MoveOut, Erase, HandedOver, InHand
      <4>2. CASE InvokeCustom
        <5> DEFINE first == Head(hand.custom)
        <5>1. /\ running' = [running EXCEPT !["scheduler"] = first]
              /\ running["scheduler"] = Nothing /\ hand # Nothing /\ hand.custom # << >>
          BY <4>2 DEF InvokeCustom, Run, At
        <5>2. first.id = Ext
          <6>1. hand.custom \in Seq(ExtMessages)
            BY <1>1, <5>1, HandTypes, Names
          <6>2. first \in ExtMessages
            BY <5>1, <6>1, TakenOff
          <6> QED  BY <6>2 DEF ExtMessages
        <5> HIDE DEF first
        <5> QED  BY <1>1, <5>1, <5>2, Names DEF InHand, TypeInv, BrokerTypes
      <4> QED  BY <4>1, <4>2
    <3> QED  BY <1>2, <1>3, <3>1, <3>2, RestOrder
  <2> QED  BY <2>1, <2>2, <2>3 DEF RunTasks, HandOverGoesOn
<1> QED  BY <1>3, <1>4 DEF OrderInv

\* A step of the counterpart's: only what is on its way to the member changes.
LEMMA IncomingOrder ==
  ASSUME NEW number, NEW at, HostFlows(number, at), BrokerRests, UNCHANGED <<running, heard>>,
         Flows(Ahead(number), incoming', peer'.sendQ, peer'.sent)
  PROVE  HostFlows(number, at)'
<1>1. InHand' = InHand /\ Kept(Member)' = Kept(Member) /\ ToSet(heard)' = ToSet(heard)
  BY DEF BrokerRests, InHand, Kept, Known
<1>2. Ahead(number)' = Ahead(number) /\ tasks' = tasks
  BY <1>1 DEF Ahead, BrokerRests
<1>3. Comes(number, at)'
  BY <1>1, <1>2 DEF HostFlows, Comes
<1> QED  BY <1>2, <1>3 DEF HostFlows

\* Nothing of the member's moves towards the host.
LEMMA HostRestsOrder ==
  ASSUME OrderInv, BrokerRests, InHand' = InHand, UNCHANGED <<incoming, heard, peer>>
  PROVE  OrderInv'
<1>1. Increasing(heard)' /\ Kept(Member)' = Kept(Member) /\ tasks' = tasks /\ undefined' = undefined
  BY DEF OrderInv, Increasing, BrokerRests, Kept, Known
<1>2. ASSUME ~undefined PROVE \E f, g : HostFlows(f, g)'
  <2>1. PICK number, at : HostFlows(number, at)
    BY <1>2 DEF OrderInv
  <2> QED  BY <1>1, <2>1, RestOrder
<1> QED  BY <1>1, <1>2 DEF OrderInv

LEMMA BindOrder ==
  ASSUME TypeInv, Binds, OrderInv, PeerOrderInv
  PROVE  OrderInv' /\ PeerOrderInv'
<1>1. BrokerRests /\ UNCHANGED <<incoming, running, heard, peer, sent>>
  BY BindTypes DEF Binds, AdviseExt, SendReady, BindMember, UnbindMember, SendDisconnected,
                   UnbindExt, brokerVars
<1>2. OrderInv'
  <2>1. InHand' = InHand
    BY <1>1 DEF InHand
  <2> QED  BY <1>1, <2>1, HostRestsOrder
<1>3. /\ outgoing' = outgoing \/ \E s \in States : outgoing' = outgoing \o <<ToExt(s)>>
      /\ sendQ' = sendQ \/ sendQ' = << >>
  BY DEF Binds, AdviseExt, SendReady, BindMember, UnbindMember, SendDisconnected, UnbindExt, Put,
         States
<1>4. Flows(ToSet(peer.heard), outgoing, sendQ', sent)
  BY <1>3, FlowsDrop DEF PeerOrderInv
<1>5. Flows(ToSet(peer.heard), outgoing', sendQ', sent)
  BY <1>3, <1>4, FlowsState DEF TypeInv, ExtTypes
<1> QED  BY <1>1, <1>2, <1>5 DEF PeerOrderInv

LEMMA HandlesOrder ==
  ASSUME TypeInv, NEW t \in Threads, Handles(t), OrderInv, PeerOrderInv
  PROVE  OrderInv' /\ PeerOrderInv'
<1>1. /\ BrokerRests /\ UNCHANGED <<incoming, heard, peer, sent>>
      /\ running[t] # Nothing /\ running[t].id = Ext
  BY HandlesTypes DEF Handles, ReceiveReady, ReceiveCounterpart, ReceiveDisconnected, FlushQueue
<1>2. PICK x \in {Nothing, ToExt(Flush)} : running' = [running EXCEPT ![t] = x]
  BY HandlesTypes
<1>3. InHand' = InHand
  <2>1. x # Nothing => x.id = Ext
    BY DEF ToExt
  <2> QED  BY <1>1, <1>2, <2>1, Names DEF InHand, TypeInv, BrokerTypes
<1>4. OrderInv'
  BY <1>1, <1>3, HostRestsOrder
<1>5. Flows(ToSet(peer.heard), outgoing', sendQ', sent)
  <2>1. CASE ReceiveReady(t)
    <3>1. outgoing' = outgoing \o <<ToExt("ReceivedCounterpart")>> /\ sendQ' = sendQ
      BY <2>1 DEF ReceiveReady, Put
    <3> QED  BY <3>1, FlowsState DEF States, PeerOrderInv, TypeInv, ExtTypes
  <2>2. CASE FlushQueue(t)
    <3>1. outgoing' = outgoing \o Carry(sendQ) /\ sendQ' = << >>
      BY <2>2 DEF FlushQueue, Put
    <3> QED  BY <3>1, FlowsOut DEF PeerOrderInv, TypeInv, ExtTypes
  <2>3. CASE ReceiveCounterpart(t) \/ ReceiveDisconnected(t)
    BY <2>3 DEF ReceiveCounterpart, ReceiveDisconnected, PeerOrderInv
  <2> QED  BY <2>1, <2>2, <2>3 DEF Handles
<1> QED  BY <1>1, <1>4, <1>5 DEF PeerOrderInv

LEMMA ReceiveMemberOrder ==
  ASSUME TypeInv, ReceiveMember, OrderInv, PeerOrderInv
  PROVE  OrderInv' /\ PeerOrderInv'
<1> DEFINE v == running["scheduler"].body
<1>1. /\ running["scheduler"] # Nothing /\ running["scheduler"].id = Member /\ ~undefined
      /\ heard' = Append(heard, v) /\ running' = [running EXCEPT !["scheduler"] = Nothing]
      /\ Unmoved /\ UNCHANGED <<sendQ, sent, outgoing, peer>>
  BY DEF ReceiveMember, Run, hostVars
<1>2. v \in Nat /\ heard \in Seq(Nat)
  BY <1>1, Names DEF TypeInv, BrokerTypes, ExtTypes, Messages
<1>3. InHand = {v} /\ InHand' = {}
  BY <1>1 DEF InHand, TypeInv, BrokerTypes
<1> HIDE DEF v
<1>4. PICK number, at : HostFlows(number, at)
  BY <1>1 DEF OrderInv
<1>5. \A a \in ToSet(heard) : a < v
  BY <1>3, <1>4 DEF HostFlows, Comes
<1>6. Increasing(heard') /\ ToSet(heard') = ToSet(heard) \cup {v}
  BY <1>1, <1>2, <1>5, IncreasingMore DEF OrderInv
<1>7. UNCHANGED <<tasks, incoming, peer>> /\ Kept(Member)' = Kept(Member)
  BY <1>1 DEF Unmoved, Kept, Known
<1>8. Ahead(number)' = Ahead(number)
  BY <1>3, <1>6, <1>7 DEF Ahead
<1>9. Comes(number, at)'
  <2>1. \A a \in ToSet(heard') \cup InHand', b \in ToCome(number, tasks) : a < b
    BY <1>3, <1>4, <1>6 DEF HostFlows, Comes
  <2> QED  BY <1>3, <1>4, <1>7, <2>1 DEF HostFlows, Comes
<1>10. HostFlows(number, at)'
  BY <1>4, <1>7, <1>8, <1>9 DEF HostFlows
<1> QED  BY <1>1, <1>6, <1>10 DEF OrderInv, PeerOrderInv

LEMMA MemberSendsOrder ==
  ASSUME TypeInv, MemberSends, OrderInv, PeerOrderInv
  PROVE  OrderInv' /\ PeerOrderInv'
<1>1. /\ BrokerRests /\ UNCHANGED <<running, incoming, heard, peer>> /\ sent' = sent + 1
      /\ \/ sendQ' = Append(sendQ, sent') /\ outgoing' = outgoing
         \/ sendQ = << >> /\ sendQ' = sendQ /\ outgoing' = outgoing \o <<ToMember(sent')>>
  BY MemberSendsTypes DEF MemberSends, MustWait, Put, brokerVars
<1>2. OrderInv'
  <2>1. InHand' = InHand
    BY <1>1 DEF InHand
  <2> QED  BY <1>1, <2>1, HostRestsOrder
<1>3. Flows(ToSet(peer.heard), outgoing', sendQ', sent')
  BY <1>1, FlowsKept, FlowsAtOnce DEF PeerOrderInv, TypeInv, ExtTypes
<1> QED  BY <1>1, <1>2, <1>3 DEF PeerOrderInv

\* What a step of the counterpart's does to its own stream.
LEMMA PeerFlows ==
  ASSUME TypeInv, PeerNext, NEW before, Flows(before, incoming, peer.sendQ, peer.sent)
  PROVE  Flows(before, incoming', peer'.sendQ, peer'.sent)
<1>1. /\ incoming \in Seq(Sendable) /\ peer \in Peers
      /\ peer.sendQ \in Seq(Nat) /\ peer.sent \in Nat
  BY DEF TypeInv, BrokerTypes, ExtTypes, Peers
<1>2. CASE PeerBinds
  <2>1. /\ incoming' = incoming \o <<ToExt("Ready")>>
        /\ peer' = [peer EXCEPT !.bindings = @ + 1, !.bound = TRUE, !.connected = FALSE,
                                !.sendQ = << >>]
    BY <1>2 DEF PeerBinds, Reply
  <2>2. peer'.sendQ = << >> /\ peer'.sent = peer.sent
    BY <1>1, <2>1 DEF Peers
  <2>3. Flows(before, incoming, << >>, peer.sent)
    BY FlowsDrop
  <2> QED  BY <1>1, <2>1, <2>2, <2>3, FlowsState DEF States
<1>3. CASE PeerUnbinds
  <2>1. incoming' = incoming \o <<ToExt("Disconnected")>> /\ peer' = [peer EXCEPT !.bound = FALSE]
    BY <1>3 DEF PeerUnbinds, Reply
  <2>2. peer'.sendQ = peer.sendQ /\ peer'.sent = peer.sent
    BY <1>1, <2>1 DEF Peers
  <2> QED  BY <1>1, <2>1, <2>2, FlowsState DEF States
<1>4. CASE PeerSends
  <2> DEFINE n == peer.sent + 1
  <2>1. \/ /\ peer' = [peer EXCEPT !.sent = n, !.sendQ = Append(peer.sendQ, n)]
           /\ incoming' = incoming
        \/ /\ peer.sendQ = << >> /\ peer' = [peer EXCEPT !.sent = n]
           /\ incoming' = incoming \o <<ToMember(n)>>
    BY <1>4 DEF PeerSends, Reply
  <2>2. \/ /\ peer'.sent = n /\ peer'.sendQ = Append(peer.sendQ, n)
           /\ incoming' = incoming
        \/ /\ peer.sendQ = << >> /\ peer'.sent = n /\ peer'.sendQ = << >>
           /\ incoming' = incoming \o <<ToMember(n)>>
    BY <1>1, <2>1 DEF Peers
  <2> QED  BY <1>1, <2>2, FlowsKept, FlowsAtOnce
<1>5. ASSUME NEW answer, PeerConnects(answer),
             answer = << >> \/ \E s \in States : answer = <<ToExt(s)>>
      PROVE  Flows(before, incoming', peer'.sendQ, peer'.sent)
  <2>1. /\ incoming' = incoming \o (answer \o Carry(peer.sendQ))
        /\ peer' = [peer EXCEPT !.connected = TRUE, !.sendQ = << >>]
    BY <1>5 DEF PeerConnects, Reply
  <2>2. peer'.sendQ = << >> /\ peer'.sent = peer.sent
    BY <1>1, <2>1 DEF Peers
  <2>3. answer \in Seq(Sendable) /\ Carry(peer.sendQ) \in Seq(Sendable)
    BY <1>1, <1>5, PutTypes, CarryTypes
  <2>4. /\ incoming' = (incoming \o answer) \o Carry(peer.sendQ)
        /\ incoming \o answer \in Seq(Sendable)
    <3>1. incoming \o answer \in Seq(Sendable)
      BY <1>1, <2>3, Joined
    <3>2. (incoming \o answer) \o Carry(peer.sendQ) = incoming \o (answer \o Carry(peer.sendQ))
      <4> DEFINE c == Carry(peer.sendQ)
      <4> HIDE DEF c
      <4>1. (incoming \o answer) \o c = incoming \o (answer \o c)
        BY <1>1, <2>3, ConcatAssociative DEF c
      <4> QED  BY <4>1 DEF c
    <3> QED  BY <2>1, <3>1, <3>2
  <2>5. Flows(before, incoming \o answer, peer.sendQ, peer.sent)
    <3>1. CASE answer = << >>
      BY <1>1, <3>1, ConcatEmptySeq
    <3>2. CASE \E s \in States : answer = <<ToExt(s)>>
      BY <1>1, <3>2, FlowsState
    <3> QED  BY <1>5, <3>1, <3>2
  <2> QED  BY <1>1, <2>2, <2>4, <2>5, FlowsOut
<1>6. CASE PeerReceives
  <2>1. \/ PeerConnects(<<ToExt("ReceivedCounterpart")>>) \/ PeerConnects(<< >>)
        \/ UNCHANGED incoming /\ peer' = [peer EXCEPT !.heard = Append(@, Head(outgoing).body)]
        \/ UNCHANGED incoming /\ peer' = [peer EXCEPT !.connected = FALSE]
        \/ UNCHANGED <<incoming, peer>>
    BY <1>6 DEF PeerReceives, PeerHears
  <2>2. CASE PeerConnects(<<ToExt("ReceivedCounterpart")>>) \/ PeerConnects(<< >>)
    BY <1>5, <2>2 DEF States
  <2>3. CASE \/ UNCHANGED incoming /\ peer' = [peer EXCEPT !.heard = Append(@, Head(outgoing).body)]
             \/ UNCHANGED incoming /\ peer' = [peer EXCEPT !.connected = FALSE]
             \/ UNCHANGED <<incoming, peer>>
    <3>1. UNCHANGED incoming /\ peer'.sendQ = peer.sendQ /\ peer'.sent = peer.sent
      BY <1>1, <2>3 DEF Peers
    <3> QED  BY <3>1
  <2> QED  BY <2>1, <2>2, <2>3
<1> QED  BY <1>2, <1>3, <1>4, <1>6 DEF PeerNext

LEMMA PeerOrder ==
  ASSUME TypeInv, PeerNext, OrderInv, PeerOrderInv
  PROVE  OrderInv' /\ PeerOrderInv'
<1>1. /\ BrokerRests /\ ~undefined
      /\ UNCHANGED <<running, heard, sendQ, sent>>
  BY PeerTypes DEF PeerNext, PeerBinds, PeerUnbinds, PeerSends, PeerReceives, hostVars
<1>2. OrderInv'
  <2>1. PICK number, at : HostFlows(number, at)
    BY <1>1 DEF OrderInv
  <2>2. Flows(Ahead(number), incoming', peer'.sendQ, peer'.sent)
    BY <2>1, PeerFlows DEF HostFlows
  <2>3. HostFlows(number, at)'
    BY <1>1, <2>1, <2>2, IncomingOrder
  <2> QED  BY <1>1, <2>3 DEF OrderInv, Increasing
<1>3. /\ outgoing \in Seq(Sendable) /\ sendQ \in Seq(Nat) /\ sent \in Nat /\ peer \in Peers
      /\ peer.heard \in Seq(Nat)
  BY DEF TypeInv, ExtTypes, Peers
<1>4. CASE outgoing # << >> /\ outgoing' = Tail(outgoing)
           /\ Head(outgoing).id = Member /\ PeerHears(Head(outgoing).body)
  <2> DEFINE n == Head(outgoing).body
  <2>1. /\ n \in Nat /\ \A a \in ToSet(peer.heard) : a < n
        /\ Flows(ToSet(peer.heard) \cup {n}, outgoing', sendQ, sent)
    BY <1>3, <1>4, FlowsTaken DEF PeerOrderInv
  <2>2. peer' = [peer EXCEPT !.heard = Append(peer.heard, n)]
    BY <1>4 DEF PeerHears
  <2> HIDE DEF n
  <2>3. peer'.heard = Append(peer.heard, n)
    BY <1>3, <2>2 DEF Peers
  <2>4. Increasing(peer'.heard) /\ ToSet(peer'.heard) = ToSet(peer.heard) \cup {n}
    BY <1>3, <2>1, <2>3, IncreasingMore DEF PeerOrderInv
  <2> QED  BY <1>1, <1>2, <2>1, <2>4 DEF PeerOrderInv
<1>5. CASE /\ peer'.heard = peer.heard
           /\ outgoing' = outgoing \/ (outgoing # << >> /\ outgoing' = Tail(outgoing))
  <2>1. Flows(ToSet(peer.heard), outgoing', sendQ, sent)
    BY <1>3, <1>5, FlowsTaken DEF PeerOrderInv
  <2> QED  BY <1>1, <1>2, <1>5, <2>1 DEF PeerOrderInv
<1>6. CASE PeerBinds \/ PeerUnbinds \/ PeerSends
  <2>1. outgoing' = outgoing
    BY <1>6 DEF PeerBinds, PeerUnbinds, PeerSends
  <2>2. peer'.heard = peer.heard
    BY <1>3, <1>6 DEF PeerBinds, PeerUnbinds, PeerSends, Peers
  <2> QED  BY <1>5, <2>1, <2>2
<1>7. CASE PeerReceives
  <2>1. outgoing # << >> /\ outgoing' = Tail(outgoing)
    BY <1>7 DEF PeerReceives
  <2>2. \/ Head(outgoing).id = Member /\ PeerHears(Head(outgoing).body)
        \/ peer' = [peer EXCEPT !.connected = TRUE, !.sendQ = << >>]
        \/ peer' = [peer EXCEPT !.connected = FALSE]
        \/ peer' = peer
    BY <1>7 DEF PeerReceives, PeerConnects
  <2>3. \/ Head(outgoing).id = Member /\ PeerHears(Head(outgoing).body)
        \/ peer'.heard = peer.heard
    BY <1>3, <2>2 DEF Peers
  <2> QED  BY <1>4, <1>5, <2>1, <2>3
<1> QED  BY <1>6, <1>7 DEF PeerNext

OrderHolds == OrderInv /\ PeerOrderInv

LEMMA OrderKeeps == ASSUME BaseInv, OrderHolds, [ExtNext]_vars PROVE OrderHolds'
<1> USE DEF OrderHolds
<1>0. TypeInv
  BY DEF BaseInv
<1>1. CASE Dispatch /\ UNCHANGED extVars
  <2>1. ~undefined /\ UNCHANGED <<heard, peer, outgoing, sendQ, sent>>
    BY <1>1 DEF Dispatch, extVars, hostVars
  <2>2. PICK number, at : HostFlows(number, at)
    BY <2>1 DEF OrderInv
  <2>3. \E f, g : HostFlows(f, g)'
    BY <1>0, <1>1, <2>2, DispatchOrder
  <2> QED  BY <2>1, <2>3 DEF OrderInv, PeerOrderInv, Increasing
<1>2. CASE OutOfTasks /\ RunTasks /\ UNCHANGED extVars
  <2>1. UNCHANGED <<peer, outgoing, sendQ, sent>>
    BY <1>2 DEF extVars, hostVars
  <2> QED  BY <1>2, <2>1, TasksOrder DEF PeerOrderInv
<1>3. CASE Binds
  BY <1>0, <1>3, BindOrder
<1>4. ASSUME NEW t \in Threads, Handles(t) PROVE OrderHolds'
  BY <1>0, <1>4, HandlesOrder
<1>5. CASE ReceiveMember \/ MemberSends
  BY <1>0, <1>5, ReceiveMemberOrder, MemberSendsOrder
<1>6. CASE PeerNext
  BY <1>0, <1>6, PeerOrder
<1>7. CASE UNCHANGED vars
  <2>1. /\ BrokerRests /\ InHand' = InHand
        /\ UNCHANGED <<incoming, heard, peer, outgoing, sendQ, sent>>
    BY <1>7 DEF vars, brokerVars, extVars, hostVars, BrokerRests, InHand
  <2> QED  BY <2>1, HostRestsOrder DEF PeerOrderInv
<1> QED
  BY <1>1, <1>2, <1>3, <1>4, <1>5, <1>6, <1>7 DEF ExtNext, Binds, Handles

\* The messages of a member are executed in the order they were sent and none twice, through
\* the queue of ExtWire, the wire, the broker and the scheduler (ExtWire.cpp:7-49).
THEOREM MessagesInOrder == ExtSpec => []InOrder
<1>1. ExtInit => OrderHolds
  BY InitOrder DEF OrderHolds
<1>2. OrderHolds => InOrder
  BY DEF OrderHolds, OrderInv, PeerOrderInv, InOrder
<1> QED  BY <1>1, <1>2, BaseHolds, OrderKeeps, PTL DEF ExtSpec

-------------------------------------------------------------------------------
(***************************************************************************)
(* The messages that have to arrive.                                       *)
(***************************************************************************)
\* The member's messages among those of q.
Bodies(q) == {q[i].body : i \in {j \in DOMAIN q : q[j].id = Member}}

\* Those that the tasks q execute for the binding e.
Invoked(q, e) == {q[i].message.body : i \in {j \in DOMAIN q : q[j].kind = "invoke" /\ q[j].era = e}}

LEMMA BodiesTaken ==
  ASSUME NEW T, NEW q \in Seq(T), q # << >>
  PROVE  /\ Head(q).id = Member => Bodies(q) = Bodies(Tail(q)) \cup {Head(q).body}
         /\ Head(q).id # Member => Bodies(q) = Bodies(Tail(q))
<1> DEFINE r == Tail(q)
<1>1. /\ Head(q) = q[1] /\ Len(q) \in Nat \ {0} /\ DOMAIN q = 1 .. Len(q)
      /\ DOMAIN r = 1 .. (Len(q) - 1) /\ \A i \in 1 .. (Len(q) - 1) : r[i] = q[i + 1]
  BY TakenOff
<1> HIDE DEF r
<1>2. \A i \in DOMAIN r : r[i] = q[i + 1] /\ i + 1 \in DOMAIN q
  BY <1>1
<1>3. \A i \in DOMAIN q : i = 1 \/ (i - 1 \in DOMAIN r /\ r[i - 1] = q[i])
  <2> SUFFICES ASSUME NEW i \in DOMAIN q, i # 1 PROVE i - 1 \in DOMAIN r /\ r[i - 1] = q[i]
    OBVIOUS
  <2>1. i - 1 \in 1 .. (Len(q) - 1) /\ (i - 1) + 1 = i
    BY <1>1
  <2>2. r[i - 1] = q[(i - 1) + 1]
    BY <1>1, <2>1
  <2> QED  BY <1>1, <2>1, <2>2
<1>4. 1 \in DOMAIN q
  BY <1>1
<1>5. Bodies(r) \subseteq Bodies(q)
  BY <1>2 DEF Bodies
<1>6. \A b \in Bodies(q) : b \in Bodies(r) \/ (q[1].id = Member /\ b = q[1].body)
  BY <1>3 DEF Bodies
<1>7. q[1].id = Member => q[1].body \in Bodies(q)
  BY <1>4 DEF Bodies
<1> QED  BY <1>1, <1>5, <1>6, <1>7 DEF r

LEMMA BodiesMore ==
  ASSUME NEW T, NEW q \in Seq(T), NEW m \in T
  PROVE  /\ m.id = Member => Bodies(Append(q, m)) = Bodies(q) \cup {m.body}
         /\ m.id # Member => Bodies(Append(q, m)) = Bodies(q)
<1> DEFINE r == Append(q, m)
<1>1. /\ Len(q) \in Nat /\ DOMAIN q = 1 .. Len(q) /\ DOMAIN r = 1 .. (Len(q) + 1)
      /\ \A i \in 1 .. Len(q) : r[i] = q[i]
      /\ r[Len(q) + 1] = m
  BY Lengths, Added
<1> HIDE DEF r
<1>2. \A i \in DOMAIN q : i \in DOMAIN r /\ r[i] = q[i]
  BY <1>1
<1>3. \A i \in DOMAIN r : (i \in DOMAIN q /\ r[i] = q[i]) \/ r[i] = m
  BY <1>1
<1>4. Len(q) + 1 \in DOMAIN r
  BY <1>1
<1>5. Bodies(q) \subseteq Bodies(r)
  BY <1>2 DEF Bodies
<1>6. \A b \in Bodies(r) : b \in Bodies(q) \/ (m.id = Member /\ b = m.body)
  BY <1>3 DEF Bodies
<1>7. m.id = Member => m.body \in Bodies(r)
  BY <1>1, <1>4 DEF Bodies
<1> QED  BY <1>5, <1>6, <1>7 DEF r

LEMMA BodiesState ==
  ASSUME NEW q \in Seq(Sendable), NEW s \in States
  PROVE  Bodies(q \o <<ToExt(s)>>) = Bodies(q)
<1>1. ToExt(s) \in Sendable /\ ToExt(s).id # Member
  BY Somethings, Names DEF Sendable, ToExt
<1>2. q \o <<ToExt(s)>> = Append(q, ToExt(s))
  BY <1>1, Added
<1>3. Bodies(Append(q, ToExt(s))) = Bodies(q)
  BY <1>1, BodiesMore
<1> QED  BY <1>2, <1>3

LEMMA BodiesNumber ==
  ASSUME NEW q \in Seq(Sendable), NEW n \in Nat
  PROVE  Bodies(q \o <<ToMember(n)>>) = Bodies(q) \cup {n}
<1>1. ToMember(n) \in Sendable /\ ToMember(n).id = Member /\ ToMember(n).body = n
  BY Somethings DEF Sendable, ToMember
<1>2. q \o <<ToMember(n)>> = Append(q, ToMember(n))
  BY <1>1, Added
<1>3. Bodies(Append(q, ToMember(n))) = Bodies(q) \cup {ToMember(n).body}
  BY <1>1, BodiesMore
<1> QED  BY <1>1, <1>2, <1>3

LEMMA BodiesOut ==
  ASSUME NEW q \in Seq(Sendable), NEW kept \in Seq(Nat)
  PROVE  Bodies(q) \cup ToSet(kept) \subseteq Bodies(q \o Carry(kept))
<1> DEFINE c == Carry(kept)
           r == q \o c
<1>1. /\ c \in Seq(Sendable) /\ Len(c) = Len(kept)
      /\ \A i \in 1 .. Len(kept) : c[i] = ToMember(kept[i])
      /\ Len(kept) \in Nat /\ DOMAIN kept = 1 .. Len(kept)
  BY CarryTypes, Lengths
<1> HIDE DEF c
<1>2. Len(q) \in Nat /\ DOMAIN q = 1 .. Len(q)
  BY Lengths
<1>3. DOMAIN r = 1 .. (Len(q) + Len(c))
  BY <1>1, Joined, ZenonT(30)
<1>4. \A i \in 1 .. Len(q) : r[i] = q[i]
  BY <1>1, Joined
<1>5. \A i \in 1 .. Len(c) : r[Len(q) + i] = c[i]
  BY <1>1, Joined
<1> HIDE DEF r
<1>6. \A i \in DOMAIN q : i \in DOMAIN r /\ r[i] = q[i]
  BY <1>1, <1>2, <1>3, <1>4
<1>7. \A i \in DOMAIN kept : /\ Len(q) + i \in DOMAIN r /\ r[Len(q) + i] = ToMember(kept[i])
  BY <1>1, <1>2, <1>3, <1>5
<1>8. Bodies(q) \subseteq Bodies(r)
  BY <1>6 DEF Bodies
<1>9. ASSUME NEW i \in DOMAIN kept PROVE kept[i] \in Bodies(r)
  <2> DEFINE j == Len(q) + i
  <2>1. j \in DOMAIN r /\ r[j] = ToMember(kept[i])
    BY <1>7
  <2> HIDE DEF j
  <2>2. r[j].id = Member /\ r[j].body = kept[i]
    BY <2>1 DEF ToMember
  <2> QED  BY <2>1, <2>2 DEF Bodies
<1> QED  BY <1>8, <1>9 DEF ToSet, r, c

LEMMA InvokedTaken ==
  ASSUME NEW q \in Seq(Tasks), q # << >>, NEW e
  PROVE  \A b \in Invoked(q, e) :
           \/ b \in Invoked(Tail(q), e)
           \/ Head(q).kind = "invoke" /\ Head(q).era = e /\ b = Head(q).message.body
<1> DEFINE r == Tail(q)
<1>1. /\ Head(q) = q[1] /\ Len(q) \in Nat \ {0} /\ DOMAIN q = 1 .. Len(q)
      /\ DOMAIN r = 1 .. (Len(q) - 1) /\ \A i \in 1 .. (Len(q) - 1) : r[i] = q[i + 1]
  BY TakenOff
<1> HIDE DEF r
<1>2. \A i \in DOMAIN q : i = 1 \/ (i - 1 \in DOMAIN r /\ r[i - 1] = q[i])
  <2> SUFFICES ASSUME NEW i \in DOMAIN q, i # 1 PROVE i - 1 \in DOMAIN r /\ r[i - 1] = q[i]
    OBVIOUS
  <2>1. i - 1 \in 1 .. (Len(q) - 1) /\ (i - 1) + 1 = i
    BY <1>1
  <2>2. r[i - 1] = q[(i - 1) + 1]
    BY <1>1, <2>1
  <2> QED  BY <1>1, <2>1, <2>2
<1>3. ASSUME NEW b \in Invoked(q, e)
      PROVE  b \in Invoked(r, e) \/ (q[1].kind = "invoke" /\ q[1].era = e /\ b = q[1].message.body)
  <2>1. PICK i \in DOMAIN q : q[i].kind = "invoke" /\ q[i].era = e /\ b = q[i].message.body
    BY DEF Invoked
  <2>2. CASE i = 1
    BY <2>1, <2>2
  <2>3. CASE i - 1 \in DOMAIN r /\ r[i - 1] = q[i]
    <3> DEFINE j == i - 1
    <3>1. j \in DOMAIN r /\ r[j] = q[i]
      BY <2>3
    <3> HIDE DEF j
    <3> QED  BY <2>1, <3>1 DEF Invoked
  <2> QED  BY <1>2, <2>2, <2>3
<1> QED  BY <1>1, <1>3 DEF r

LEMMA InvokedMore ==
  ASSUME NEW q \in Seq(Tasks), NEW t \in Tasks, NEW e
  PROVE  /\ Invoked(q, e) \subseteq Invoked(Append(q, t), e)
         /\ t.kind = "invoke" /\ t.era = e => t.message.body \in Invoked(Append(q, t), e)
<1> DEFINE r == Append(q, t)
<1>1. /\ Len(q) \in Nat /\ DOMAIN q = 1 .. Len(q) /\ DOMAIN r = 1 .. (Len(q) + 1)
      /\ \A i \in 1 .. Len(q) : r[i] = q[i]
      /\ r[Len(q) + 1] = t
  BY Lengths, Added
<1> HIDE DEF r
<1>2. \A i \in DOMAIN q : i \in DOMAIN r /\ r[i] = q[i]
  BY <1>1
<1>3. Len(q) + 1 \in DOMAIN r
  BY <1>1
<1> QED  BY <1>1, <1>2, <1>3 DEF Invoked, r

DueInv ==
  /\ due \subseteq ToSet(sendQ) \cup (IF peer.bound THEN Bodies(outgoing) ELSE {})
  /\ binding # "bound" => due \cap ToSet(sendQ) = {}

\* On their way to the member, or with it.
UnderWay ==
  Bodies(incoming) \cup Bodies(Kept(Member).default) \cup InHand
    \cup (IF binding = "bound" THEN Invoked(tasks, era[Member]) ELSE {})

PeerDueInv ==
  /\ peerDue \subseteq ToSet(peer.sendQ) \cup (IF HostBound THEN UnderWay ELSE {})
  /\ ~peer.bound => peerDue \cap ToSet(peer.sendQ) = {}

DueHolds == DueInv /\ (~undefined => PeerDueInv)

LEMMA DispatchDue ==
  ASSUME TypeInv, Dispatch, UNCHANGED extVars
  PROVE  UnderWay \subseteq UnderWay'
<1> DEFINE m == Head(incoming)
           waiting == Kept(Member).default
<1>1. /\ m \in Sendable /\ Deliver(m) /\ incoming' = Tail(incoming) /\ incoming # << >>
      /\ incoming \in Seq(Sendable) /\ tasks \in Seq(Tasks)
      /\ UNCHANGED <<binding, era>>
  BY TakenOff DEF Dispatch, TypeInv, BrokerTypes, extVars, hostVars
<1>2. /\ m.id = Member => m \in MemberMessages
      /\ m.id # Member => m.id = Ext
  BY <1>1, Names DEF Sendable, ExtMessages, MemberMessages
<1>3. /\ m.id = Member => Bodies(incoming) = Bodies(incoming') \cup {m.body}
      /\ m.id = Ext => Bodies(incoming) = Bodies(incoming')
  BY <1>1, BodiesTaken, Names
<1>4. waiting \in Seq(MemberMessages)
  BY KeptTypes DEF TypeInv, MemberQueues
<1>5. running'["scheduler"] = running["scheduler"]
  BY <1>1 DEF Deliver, Keep, Queue, Invoke, Follow, Run, TypeInv, BrokerTypes
<1>6. InHand' = InHand
  BY <1>5 DEF InHand
<1>7. Invoked(tasks, era[Member]) \subseteq Invoked(tasks', era[Member])
  <2>1. CASE Keep(m)
    BY <1>1, <2>1, KeepBroker, InvokedMore
  <2>2. CASE Queue(m)
    <3> DEFINE t == [kind |-> "invoke", message |-> m, era |-> era[m.id]]
    <3>1. t \in Tasks /\ tasks' = Append(tasks, t)
      BY <1>1, <1>2, <2>2, Names DEF Queue, Tasks, InvokeTasks, TypeInv, BrokerTypes
    <3> HIDE DEF t
    <3> QED  BY <1>1, <3>1, InvokedMore
  <2>3. CASE Invoke(m) \/ Follow(m)
    BY <2>3 DEF Invoke, Follow
  <2> QED  BY <1>1, <2>1, <2>2, <2>3 DEF Deliver
<1>8. CASE Keep(m)
  <2>1. CASE m.id = Member
    <3>1. Kept(Member)'.default = Append(waiting, m) /\ m \in MemberMessages
      BY <1>1, <1>2, <1>8, <2>1, KeepBroker
    <3>2. Bodies(Append(waiting, m)) = Bodies(waiting) \cup {m.body}
      BY <1>4, <2>1, <3>1, BodiesMore
    <3> HIDE DEF m, waiting
    <3>3. Bodies(Kept(Member)'.default) = Bodies(Kept(Member).default) \cup {m.body}
      BY <3>1, <3>2 DEF waiting
    <3> QED  BY <1>1, <1>3, <1>6, <1>7, <2>1, <3>3 DEF UnderWay
  <2>2. CASE m.id = Ext
    <3>1. Kept(Member)' = Kept(Member)
      BY <1>1, <1>8, <2>2, KeepBroker, Names
    <3> QED  BY <1>1, <1>3, <1>6, <1>7, <2>2, <3>1 DEF UnderWay
  <2> QED  BY <1>2, <2>1, <2>2
<1>9. CASE Queue(m)
  <2> DEFINE t == [kind |-> "invoke", message |-> m, era |-> era[m.id]]
  <2>1. /\ m.id = Member /\ binding = "bound" /\ Kept(Member)' = Kept(Member)
        /\ t \in Tasks /\ tasks' = Append(tasks, t)
    BY <1>1, <1>2, <1>9, Names
       DEF Queue, Kept, Known, Tasks, InvokeTasks, TypeInv, BrokerTypes, Stands
  <2>2. t.kind = "invoke" /\ t.era = era[Member] /\ t.message.body = m.body
    BY <2>1
  <2> HIDE DEF t
  <2>3. m.body \in Invoked(tasks', era[Member])
    BY <1>1, <2>1, <2>2, InvokedMore
  <2> QED  BY <1>1, <1>3, <1>6, <1>7, <2>1, <2>3 DEF UnderWay
<1>10. CASE Invoke(m) \/ Follow(m)
  <2>1. m.id = Ext
    BY <1>2, <1>10, Names DEF Invoke, Follow
  <2>2. Kept(Member)' = Kept(Member)
    BY <1>10, <2>1, Names DEF Invoke, Follow, Kept, Known, TypeInv, BrokerTypes
  <2> QED  BY <1>1, <1>3, <1>6, <1>7, <2>1, <2>2 DEF UnderWay
<1> QED  BY <1>1, <1>8, <1>9, <1>10 DEF Deliver

\* The scheduler starts what is under way, or there is no reader any more.
LEMMA TasksDue ==
  ASSUME BaseInv, RunTasks, OutOfTasks, UNCHANGED extVars, ~undefined', HostBound
  PROVE  UnderWay \subseteq UnderWay'
<1>1. /\ ~undefined /\ Counted /\ TypeInv /\ binding = "bound" /\ binding' = "bound"
      /\ Member \in subscribed /\ UNCHANGED <<incoming, era>> /\ tasks \in Seq(Tasks)
  BY DEF BaseInv, RunTasks, RunInvoke, HandOver, NextTask, Idle, TestEmpty, MoveOut, Erase,
         InvokeCustom, HandedOver, At, HostBound, OutOfTasks, TypeInv, Stands, extVars, hostVars,
         BrokerTypes
<1>2. CASE RunInvoke
  <2> DEFINE t == Head(tasks)
  <2>1. /\ t \in Tasks /\ tasks' = Tail(tasks) /\ t.kind = "invoke" /\ tasks # << >>
        /\ hand = Nothing /\ running["scheduler"] = Nothing /\ Kept(Member)' = Kept(Member)
    BY <1>1, <1>2, TakenOff DEF RunInvoke, NextTask, Idle, Kept, Known
  <2>2. t.message \in MemberMessages /\ t.message.id = Member /\ t.message # Nothing
    BY <2>1, Somethings DEF Tasks, InvokeTasks, HandOverTasks, MemberMessages
  <2>3. t.era = era[Member] => running' = [running EXCEPT !["scheduler"] = t.message]
    BY <1>1, <1>2, <2>2 DEF RunInvoke, Run, StillThere
  <2>4. \A b \in Invoked(tasks, era[Member]) :
          b \in Invoked(tasks', era[Member]) \/ (t.era = era[Member] /\ b = t.message.body)
    BY <1>1, <2>1, InvokedTaken
  <2> HIDE DEF t
  <2>5. t.era = era[Member] => t.message.body \in InHand'
    BY <1>1, <2>2, <2>3 DEF InHand, TypeInv, BrokerTypes
  <2>6. InHand = {}
    BY <2>1 DEF InHand
  <2> QED  BY <1>1, <2>1, <2>4, <2>5, <2>6 DEF UnderWay
<1>3. CASE HandOver
  <2> DEFINE t == Head(tasks)
             first == Head(broker[t.id].default)
  <2>1. /\ t \in Tasks /\ tasks' = Tail(tasks) /\ t.kind = "handOver" /\ tasks # << >>
        /\ running["scheduler"] = Nothing
    BY <1>1, <1>3, TakenOff DEF HandOver, NextTask, Idle
  <2>2. Invoked(tasks, era[Member]) \subseteq Invoked(tasks', era[Member])
    BY <1>1, <2>1, InvokedTaken
  <2>3. InHand = {}
    BY <2>1 DEF InHand
  <2>4. t.id \in Entities
    BY <2>1 DEF Tasks, HandOverTasks, InvokeTasks
  <2>5. /\ broker' = [broker EXCEPT ![t.id].default = Tail(broker[t.id].default)]
        /\ t.id \in subscribed => running' = [running EXCEPT !["scheduler"] = first]
    BY <1>3 DEF HandOver, Run
  <2>6. CASE t.id = Member
    <3> DEFINE waiting == Kept(Member).default
               q == [broker[Member] EXCEPT !.default = Tail(waiting)]
    <3>1. broker[Member] # Nothing /\ waiting # << >>
      <4>1. HandsOver(t, Member)
        BY <2>1, <2>6 DEF HandsOver
      <4> QED  BY <1>1, <2>1, <4>1, Names, HandsOverOne DEF Kept, Known
    <3>2. waiting = broker[Member].default /\ broker[Member] \in MemberQueues
          /\ waiting \in Seq(MemberMessages)
      BY <1>1, <3>1 DEF Kept, Known, TypeInv, BrokerTypes, MemberQueues
    <3>3. q \in MemberQueues /\ q.default = Tail(waiting) /\ Head(waiting) \in MemberMessages
      BY <3>1, <3>2, TakenOff DEF MemberQueues
    <3>4. broker' = [broker EXCEPT ![Member] = q]
      BY <2>5, <2>6, <3>2
    <3>5. first = Head(waiting)
      BY <2>6, <3>2
    <3>6. Bodies(waiting) = Bodies(Tail(waiting)) \cup {first.body}
      <4>1. Head(waiting).id = Member
        BY <3>3 DEF MemberMessages
      <4> QED  BY <3>1, <3>2, <3>5, <4>1, BodiesTaken
    <3> HIDE DEF q, first, t
    <3>7. broker'[Member] = q /\ q # Nothing
      BY <1>1, <3>3, <3>4, Names, Somethings DEF TypeInv, BrokerTypes
    <3>8. Kept(Member)'.default = Tail(waiting)
      BY <3>3, <3>7 DEF Kept, Known
    <3>9. first.body \in InHand'
      <4>1. running'["scheduler"] = first
        BY <1>1, <2>5, <2>6 DEF TypeInv, BrokerTypes
      <4>2. first # Nothing /\ first.id = Member
        BY <3>3, <3>5, Somethings DEF MemberMessages
      <4> QED  BY <4>1, <4>2 DEF InHand
    <3> QED  BY <1>1, <2>2, <2>3, <3>6, <3>8, <3>9 DEF UnderWay
  <2>7. CASE t.id = Ext
    <3>1. Kept(Member)' = Kept(Member)
      BY <1>1, <2>5, <2>7, Names DEF Kept, Known, TypeInv, BrokerTypes
    <3> QED  BY <1>1, <2>2, <2>3, <3>1 DEF UnderWay
  <2> QED  BY <2>4, <2>6, <2>7, Names
<1>4. CASE ~RunInvoke /\ ~HandOver
  <2>1. /\ tasks' = tasks /\ (running["scheduler"] = Nothing \/ running' = running)
    BY <1>4 DEF RunTasks, TestEmpty, MoveOut, Erase, InvokeCustom, HandedOver, At
  <2>2. InHand \subseteq InHand'
    BY <2>1 DEF InHand
  <2>3. Kept(Member)'.default = Kept(Member).default
    BY <1>1, <1>4, GoesOnKeeps, Names DEF RunTasks, HandOverGoesOn
  <2> QED  BY <1>1, <2>1, <2>2, <2>3 DEF UnderWay
<1> QED  BY <1>2, <1>3, <1>4 DEF RunTasks

LEMMA InitDue == ASSUME ExtInit PROVE DueHolds
BY DEF ExtInit, DueHolds, DueInv, PeerDueInv

\* What is due to the member is under way still.
LEMMA DispatchDueHolds ==
  ASSUME TypeInv, Dispatch, UNCHANGED extVars, DueHolds
  PROVE  DueHolds'
<1>1. /\ UNCHANGED <<binding, sendQ, outgoing, peer, due, peerDue>> /\ ~undefined
      /\ (HostBound' <=> HostBound)
  BY DEF Dispatch, extVars, hostVars, HostBound
<1>2. UnderWay \subseteq UnderWay'
  BY DispatchDue
<1> QED  BY <1>1, <1>2 DEF DueHolds, DueInv, PeerDueInv

LEMMA TasksDueHolds ==
  ASSUME BaseInv, RunTasks, OutOfTasks, UNCHANGED extVars, DueHolds
  PROVE  DueHolds'
<1>1. /\ UNCHANGED <<binding, sendQ, outgoing, peer, due, peerDue>> /\ ~undefined
      /\ (HostBound' <=> HostBound)
  BY DEF RunTasks, RunInvoke, HandOver, NextTask, Idle, TestEmpty, MoveOut, Erase,
         InvokeCustom, HandedOver, At, extVars, hostVars, HostBound
<1>2. ~undefined' /\ HostBound => UnderWay \subseteq UnderWay'
  BY TasksDue
<1> QED  BY <1>1, <1>2 DEF DueHolds, DueInv, PeerDueInv

LEMMA BindDue ==
  ASSUME TypeInv, Binds, DueHolds
  PROVE  DueHolds'
<1> USE DEF DueHolds, DueInv, PeerDueInv
<1>1. BrokerRests /\ UNCHANGED <<incoming, running, peer>>
  BY BindTypes DEF Binds, AdviseExt, SendReady, BindMember, UnbindMember, SendDisconnected,
                   UnbindExt, brokerVars
<1>2. InHand' = InHand /\ Kept(Member)' = Kept(Member) /\ undefined' = undefined
  BY <1>1 DEF BrokerRests, InHand, Kept, Known
<1> DEFINE Rest == Bodies(incoming) \cup Bodies(Kept(Member).default) \cup InHand
<1>3. Rest' = Rest
  BY <1>1, <1>2
<1>4. UnderWay = Rest \cup (IF binding = "bound" THEN Invoked(tasks, era[Member]) ELSE {})
  BY DEF UnderWay
<1>5. Rest \subseteq UnderWay'
  BY <1>2, <1>1 DEF UnderWay
<1> HIDE DEF Rest
<1>6. CASE AdviseExt
  <2>1. /\ binding = "unbound" /\ binding' = "advised" /\ sendQ' = << >>
        /\ UNCHANGED <<outgoing, due, peerDue>>
    BY <1>6 DEF AdviseExt
  <2>2. ToSet(<< >>) = {}
    BY DEF ToSet
  <2> QED  BY <1>1, <1>2, <2>1, <2>2 DEF HostBound
<1>7. CASE SendReady \/ SendDisconnected
  <2>1. /\ \/ binding = "advised" /\ binding' = "ready"
           \/ binding = "leaving" /\ binding' = "left"
        /\ \E s \in States : outgoing' = outgoing \o <<ToExt(s)>>
        /\ UNCHANGED <<sendQ, due, peerDue>>
    BY <1>7 DEF SendReady, SendDisconnected, Put, States
  <2>2. Bodies(outgoing') = Bodies(outgoing)
    BY <2>1, BodiesState DEF TypeInv, ExtTypes
  <2> QED  BY <1>1, <1>2, <1>4, <1>5, <2>1, <2>2 DEF HostBound
<1>8. CASE BindMember
  <2>1. binding = "ready" /\ binding' = "bound" /\ UNCHANGED <<outgoing, sendQ, due, peerDue>>
    BY <1>8 DEF BindMember
  <2> QED  BY <1>1, <1>2, <1>4, <1>5, <2>1 DEF HostBound
<1>9. CASE UnbindMember
  <2>1. /\ binding = "bound" /\ binding' = "leaving" /\ UNCHANGED <<outgoing, sendQ>>
        /\ due' = due \ ToSet(sendQ) /\ peerDue' = peerDue \cap ToSet(peer.sendQ)
    BY <1>9 DEF UnbindMember
  <2> QED  BY <1>1, <1>2, <2>1 DEF HostBound
<1>10. CASE UnbindExt
  <2>1. binding = "left" /\ binding' = "unbound" /\ UNCHANGED <<outgoing, sendQ, due, peerDue>>
    BY <1>10 DEF UnbindExt
  <2> QED  BY <1>1, <1>2, <2>1 DEF HostBound
<1> QED  BY <1>6, <1>7, <1>8, <1>9, <1>10 DEF Binds

\* The member's reader is not disturbed.
LEMMA UnderWayRests ==
  ASSUME BrokerRests, InHand' = InHand, UNCHANGED <<incoming, era, binding>>
  PROVE  UnderWay' = UnderWay /\ (HostBound' <=> HostBound)
<1>1. Kept(Member)' = Kept(Member)
  BY DEF BrokerRests, Kept, Known
<1> QED  BY <1>1 DEF BrokerRests, UnderWay, HostBound

LEMMA HandlesDue ==
  ASSUME TypeInv, NEW t \in Threads, Handles(t), DueHolds
  PROVE  DueHolds'
<1>1. /\ BrokerRests /\ UNCHANGED <<incoming, era, binding, peer, peerDue>>
      /\ running[t] # Nothing /\ running[t].id = Ext
  BY HandlesTypes DEF Handles, ReceiveReady, ReceiveCounterpart, ReceiveDisconnected, FlushQueue
<1>2. PICK x \in {Nothing, ToExt(Flush)} : running' = [running EXCEPT ![t] = x]
  BY HandlesTypes
<1>3. InHand' = InHand
  <2>1. x # Nothing => x.id = Ext
    BY DEF ToExt
  <2> QED  BY <1>1, <1>2, <2>1, Names DEF InHand, TypeInv, BrokerTypes
<1>4. (~undefined => PeerDueInv)'
  BY <1>1, <1>3, UnderWayRests DEF DueHolds, PeerDueInv, BrokerRests
<1>5. DueInv'
  <2> USE DEF DueHolds, DueInv
  <2>1. CASE ReceiveReady(t)
    <3>1. outgoing' = outgoing \o <<ToExt("ReceivedCounterpart")>> /\ UNCHANGED <<sendQ, due>>
      BY <2>1 DEF ReceiveReady, Put
    <3>2. Bodies(outgoing') = Bodies(outgoing)
      BY <3>1, BodiesState DEF States, TypeInv, ExtTypes
    <3> QED  BY <1>1, <3>1, <3>2
  <2>2. CASE FlushQueue(t)
    <3>1. /\ outgoing' = outgoing \o Carry(sendQ) /\ sendQ' = << >>
          /\ due' = due \ (IF peer.bound THEN {} ELSE ToSet(sendQ))
      BY <2>2 DEF FlushQueue, Put, Unread
    <3>2. Bodies(outgoing) \cup ToSet(sendQ) \subseteq Bodies(outgoing')
      BY <3>1, BodiesOut DEF TypeInv, ExtTypes
    <3>3. ToSet(<< >>) = {}
      BY DEF ToSet
    <3> QED  BY <1>1, <3>1, <3>2, <3>3
  <2>3. CASE ReceiveCounterpart(t) \/ ReceiveDisconnected(t)
    BY <1>1, <2>3 DEF ReceiveCounterpart, ReceiveDisconnected
  <2> QED  BY <2>1, <2>2, <2>3 DEF Handles
<1> QED  BY <1>4, <1>5 DEF DueHolds

LEMMA ReceiveMemberDue == ASSUME TypeInv, ReceiveMember, DueHolds PROVE DueHolds'
<1> DEFINE v == running["scheduler"].body
<1>1. /\ running["scheduler"] # Nothing /\ running["scheduler"].id = Member /\ ~undefined
      /\ peerDue' = peerDue \ {v} /\ Unmoved
      /\ UNCHANGED <<binding, sendQ, outgoing, peer, due>>
  BY DEF ReceiveMember, hostVars
<1>2. InHand = {v}
  BY <1>1 DEF InHand
<1> HIDE DEF v
<1>3. UnderWay \ {v} \subseteq UnderWay'
  <2>1. Kept(Member)' = Kept(Member) /\ UNCHANGED <<incoming, era, tasks, binding>>
    BY <1>1 DEF Unmoved, Kept, Known
  <2> QED  BY <1>2, <2>1 DEF UnderWay
<1> QED  BY <1>1, <1>3 DEF DueHolds, DueInv, PeerDueInv, HostBound

LEMMA MemberSendsDue == ASSUME TypeInv, MemberSends, DueHolds PROVE DueHolds'
<1>1. /\ BrokerRests /\ UNCHANGED <<running, incoming, era, binding, peer, peerDue>>
      /\ binding = "bound" /\ sent' \in Nat
      /\ \/ /\ sendQ' = Append(sendQ, sent') /\ outgoing' = outgoing
            /\ due' = due \cup {sent'}
         \/ /\ sendQ' = sendQ /\ outgoing' = outgoing \o <<ToMember(sent')>>
            /\ due' = IF peer.bound THEN due \cup {sent'} ELSE due
  BY MemberSendsTypes DEF MemberSends, MustWait, Put, brokerVars, TypeInv, ExtTypes
<1>2. InHand' = InHand
  BY <1>1 DEF InHand
<1>3. (~undefined => PeerDueInv)'
  BY <1>1, <1>2, UnderWayRests DEF DueHolds, PeerDueInv, BrokerRests
<1>4. ToSet(Append(sendQ, sent')) = ToSet(sendQ) \cup {sent'}
  BY <1>1, SetMore, SMTT(30) DEF TypeInv, ExtTypes
<1>5. Bodies(outgoing \o <<ToMember(sent')>>) = Bodies(outgoing) \cup {sent'}
  BY <1>1, BodiesNumber DEF TypeInv, ExtTypes
<1> QED  BY <1>1, <1>3, <1>4, <1>5 DEF DueHolds, DueInv

LEMMA PeerDue == ASSUME TypeInv, PeerNext, DueHolds PROVE DueHolds'
<1> USE DEF DueHolds
<1>1. /\ BrokerRests /\ ~undefined /\ undefined' = undefined
      /\ UNCHANGED <<running, era, binding, sendQ>> /\ (HostBound' <=> HostBound)
  BY PeerTypes DEF PeerNext, PeerBinds, PeerUnbinds, PeerSends, PeerReceives, hostVars,
                   HostBound
<1>2. /\ incoming \in Seq(Sendable) /\ outgoing \in Seq(Sendable) /\ peer \in Peers
      /\ peer.sendQ \in Seq(Nat) /\ peer.sent \in Nat
  BY DEF TypeInv, BrokerTypes, ExtTypes, Peers
<1>3. InHand' = InHand /\ Kept(Member)' = Kept(Member)
  BY <1>1 DEF InHand, BrokerRests, Kept, Known
<1> DEFINE Rest == Bodies(Kept(Member).default) \cup InHand
                     \cup (IF binding = "bound" THEN Invoked(tasks, era[Member]) ELSE {})
<1>4. UnderWay = Bodies(incoming) \cup Rest /\ UnderWay' = Bodies(incoming') \cup Rest
  BY <1>1, <1>3 DEF UnderWay, BrokerRests
<1> HIDE DEF Rest
<1>5. ToSet(<< >>) = {}
  BY DEF ToSet
<1>6. CASE PeerBinds
  <2>1. /\ incoming' = incoming \o <<ToExt("Ready")>> /\ ~peer.bound
        /\ peer' = [peer EXCEPT !.bindings = @ + 1, !.bound = TRUE, !.connected = FALSE,
                                !.sendQ = << >>]
        /\ UNCHANGED <<outgoing, due, peerDue>>
    BY <1>6 DEF PeerBinds, Reply
  <2>2. peer'.sendQ = << >> /\ peer'.bound
    BY <1>2, <2>1 DEF Peers
  <2>3. Bodies(incoming') = Bodies(incoming)
    BY <1>2, <2>1, BodiesState DEF States
  <2> QED  BY <1>1, <1>4, <1>5, <2>1, <2>2, <2>3 DEF DueInv, PeerDueInv
<1>7. CASE PeerUnbinds
  <2>1. /\ incoming' = incoming \o <<ToExt("Disconnected")>> /\ peer.bound
        /\ peer' = [peer EXCEPT !.bound = FALSE]
        /\ due' = due \cap ToSet(sendQ) /\ peerDue' = peerDue \ ToSet(peer.sendQ)
        /\ outgoing' = outgoing
    BY <1>7 DEF PeerUnbinds, Reply
  <2>2. peer'.sendQ = peer.sendQ /\ ~peer'.bound
    BY <1>2, <2>1 DEF Peers
  <2>3. Bodies(incoming') = Bodies(incoming)
    BY <1>2, <2>1, BodiesState DEF States
  <2> QED  BY <1>1, <1>4, <2>1, <2>2, <2>3 DEF DueInv, PeerDueInv
<1>8. CASE PeerSends
  <2> DEFINE n == peer.sent + 1
  <2>1. /\ peer.bound /\ outgoing' = outgoing /\ due' = due
        /\ \/ /\ peer' = [peer EXCEPT !.sent = n, !.sendQ = Append(peer.sendQ, n)]
              /\ peerDue' = peerDue \cup {n} /\ incoming' = incoming
           \/ /\ peer' = [peer EXCEPT !.sent = n]
              /\ peerDue' = IF HostBound THEN peerDue \cup {n} ELSE peerDue
              /\ incoming' = incoming \o <<ToMember(n)>>
    BY <1>8 DEF PeerSends, Reply
  <2>2. n \in Nat
    BY <1>2
  <2> HIDE DEF n
  <2>3. /\ Bodies(incoming \o <<ToMember(n)>>) = Bodies(incoming) \cup {n}
        /\ ToSet(Append(peer.sendQ, n)) = ToSet(peer.sendQ) \cup {n}
    <3>1. Bodies(incoming \o <<ToMember(n)>>) = Bodies(incoming) \cup {n}
      BY <1>2, <2>2, BodiesNumber
    <3>2. ToSet(Append(peer.sendQ, n)) = ToSet(peer.sendQ) \cup {n}
      BY <1>2, <2>2, SetMore
    <3> QED  BY <3>1, <3>2
  <2>4. peer'.bound = peer.bound
    BY <1>2, <2>1 DEF Peers
  <2>5. \/ /\ peer'.sendQ = Append(peer.sendQ, n)
           /\ peerDue' = peerDue \cup {n} /\ incoming' = incoming
        \/ /\ peer'.sendQ = peer.sendQ
           /\ peerDue' = IF HostBound THEN peerDue \cup {n} ELSE peerDue
           /\ incoming' = incoming \o <<ToMember(n)>>
    BY <1>2, <2>1 DEF Peers
  <2> QED  BY <1>1, <1>4, <2>1, <2>3, <2>4, <2>5 DEF DueInv, PeerDueInv
<1>9. CASE PeerReceives
  <2>1. outgoing # << >> /\ outgoing' = Tail(outgoing)
    BY <1>9 DEF PeerReceives
  <2>2. /\ Head(outgoing).id = Member =>
             Bodies(outgoing) = Bodies(outgoing') \cup {Head(outgoing).body}
        /\ Head(outgoing).id # Member => Bodies(outgoing) = Bodies(outgoing')
    BY <1>2, <2>1, BodiesTaken
  <2>3. CASE Head(outgoing).id = Member /\ peer.bound /\ PeerHears(Head(outgoing).body)
    <3>1. /\ peer' = [peer EXCEPT !.heard = Append(@, Head(outgoing).body)]
          /\ due' = due \ {Head(outgoing).body} /\ UNCHANGED <<incoming, peerDue>>
      BY <2>3 DEF PeerHears
    <3>2. peer'.sendQ = peer.sendQ /\ peer'.bound = peer.bound
      BY <1>2, <3>1 DEF Peers
    <3> QED  BY <1>1, <1>4, <2>2, <2>3, <3>1, <3>2 DEF DueInv, PeerDueInv
  <2>4. CASE ~peer.bound /\ UNCHANGED <<incoming, peer, due, peerDue>>
    BY <1>1, <1>4, <2>4 DEF DueInv, PeerDueInv
  <2>5. CASE /\ Head(outgoing).id = Ext
             /\ peer' = [peer EXCEPT !.connected = FALSE] /\ UNCHANGED <<incoming, due, peerDue>>
    <3>1. peer'.sendQ = peer.sendQ /\ peer'.bound = peer.bound
      BY <1>2, <2>5 DEF Peers
    <3> QED  BY <1>1, <1>4, <2>2, <2>5, <3>1, Names DEF DueInv, PeerDueInv
  <2>6. ASSUME NEW answer \in Seq(Sendable), Head(outgoing).id = Ext, peer.bound,
               Bodies(incoming \o answer) = Bodies(incoming), PeerConnects(answer)
        PROVE  DueHolds'
    <3>1. /\ incoming' = incoming \o (answer \o Carry(peer.sendQ))
          /\ peer' = [peer EXCEPT !.connected = TRUE, !.sendQ = << >>]
          /\ peerDue' = IF HostBound THEN peerDue ELSE peerDue \ ToSet(peer.sendQ)
          /\ due' = due
      BY <2>6 DEF PeerConnects, Reply
    <3>2. peer'.sendQ = << >> /\ peer'.bound = peer.bound
      BY <1>2, <3>1 DEF Peers
    <3>3. incoming' = (incoming \o answer) \o Carry(peer.sendQ)
      <4> DEFINE c == Carry(peer.sendQ)
      <4>1. c \in Seq(Sendable)
        BY <1>2, CarryTypes
      <4> HIDE DEF c
      <4>2. (incoming \o answer) \o c = incoming \o (answer \o c)
        BY <1>2, <4>1, ConcatAssociative, SMTT(30)
      <4> QED  BY <3>1, <4>2 DEF c
    <3>4. incoming \o answer \in Seq(Sendable)
      BY <1>2, Joined
    <3>5. Bodies(incoming) \cup ToSet(peer.sendQ) \subseteq Bodies(incoming')
      BY <1>2, <2>6, <3>3, <3>4, BodiesOut
    <3> QED  BY <1>1, <1>4, <1>5, <2>2, <2>6, <3>1, <3>2, <3>5, Names DEF DueInv, PeerDueInv
  <2>7. /\ << >> \in Seq(Sendable) /\ incoming \o << >> = incoming
        /\ <<ToExt("ReceivedCounterpart")>> \in Seq(Sendable)
        /\ Bodies(incoming \o <<ToExt("ReceivedCounterpart")>>) = Bodies(incoming)
    BY <1>2, PutTypes, ConcatEmptySeq, BodiesState DEF States
  <2>8. \/ Head(outgoing).id = Member /\ peer.bound /\ PeerHears(Head(outgoing).body)
        \/ ~peer.bound /\ UNCHANGED <<incoming, peer, due, peerDue>>
        \/ /\ Head(outgoing).id = Ext
           /\ peer' = [peer EXCEPT !.connected = FALSE] /\ UNCHANGED <<incoming, due, peerDue>>
        \/ Head(outgoing).id = Ext /\ peer.bound /\ PeerConnects(<<ToExt("ReceivedCounterpart")>>)
        \/ Head(outgoing).id = Ext /\ peer.bound /\ PeerConnects(<< >>)
    BY <1>9 DEF PeerReceives, Is
  <2> QED  BY <2>3, <2>4, <2>5, <2>6, <2>7, <2>8
<1> QED  BY <1>6, <1>7, <1>8, <1>9 DEF PeerNext

LEMMA DueKeeps == ASSUME BaseInv, DueHolds, [ExtNext]_vars PROVE DueHolds'
<1>0. TypeInv
  BY DEF BaseInv
<1>1. CASE Dispatch /\ UNCHANGED extVars
  BY <1>0, <1>1, DispatchDueHolds
<1>2. CASE OutOfTasks /\ RunTasks /\ UNCHANGED extVars
  BY <1>2, TasksDueHolds
<1>3. CASE Binds
  BY <1>0, <1>3, BindDue
<1>4. ASSUME NEW t \in Threads, Handles(t) PROVE DueHolds'
  BY <1>0, <1>4, HandlesDue
<1>5. CASE ReceiveMember \/ MemberSends
  BY <1>0, <1>5, ReceiveMemberDue, MemberSendsDue
<1>6. CASE PeerNext
  BY <1>0, <1>6, PeerDue
<1>7. CASE UNCHANGED vars
  <2>1. BrokerRests /\ InHand' = InHand
        /\ UNCHANGED <<incoming, era, binding, peer, outgoing, sendQ, due, peerDue>>
    BY <1>7 DEF vars, brokerVars, extVars, hostVars, BrokerRests, InHand
  <2> QED  BY <2>1, UnderWayRests DEF DueHolds, DueInv, PeerDueInv, BrokerRests
<1> QED
  BY <1>1, <1>2, <1>3, <1>4, <1>5, <1>6, <1>7 DEF ExtNext, Binds, Handles

\* When everything sent has been handled, a member's messages have been executed at the other
\* end, but those its own ExtWire keeps and those whose reader has been unbound since.
THEOREM SentIsExecuted == ExtSpec => []MessagesArrive
<1>1. ExtInit => DueHolds
  BY InitDue
<1>2. BaseInv /\ DueHolds => MessagesArrive
  <2> SUFFICES ASSUME BaseInv, DueHolds, Quiet
               PROVE  due \subseteq ToSet(sendQ) /\ peerDue \subseteq ToSet(peer.sendQ)
    BY DEF MessagesArrive
  <2>1. /\ incoming = << >> /\ outgoing = << >> /\ tasks = << >> /\ ~undefined
        /\ running["scheduler"] = Nothing /\ TypeInv /\ Counted
    BY DEF Quiet, Idle, BaseInv
  <2>2. Bodies(<< >>) = {} /\ Invoked(<< >>, era[Member]) = {}
    BY DEF Bodies, Invoked
  <2>3. Kept(Member).default = << >>
    <3> DEFINE waiting == Kept(Member).default
    <3>1. waiting \in Seq(MemberMessages)
      BY <2>1, KeptTypes DEF TypeInv, MemberQueues
    <3>2. PICK at : Enumerates(at, Len(waiting), tasks, Member)
      BY <2>1, Names DEF Counted
    <3>3. at \in [1 .. Len(waiting) -> {}]
      BY <2>1, <3>2 DEF Enumerates
    <3> HIDE DEF waiting
    <3>4. Len(waiting) \in Nat
      BY <3>1, Lengths
    <3>5. Len(waiting) = 0
      BY <3>3, <3>4
    <3>6. waiting = << >>
      BY <3>1, <3>5, Lengths
    <3> QED  BY <3>6 DEF waiting
  <2>4. UnderWay = {}
    BY <2>1, <2>2, <2>3 DEF UnderWay, InHand
  <2> QED  BY <2>1, <2>2, <2>4 DEF DueHolds, DueInv, PeerDueInv
<1> QED  BY <1>1, <1>2, BaseHolds, DueKeeps, PTL DEF ExtSpec

-------------------------------------------------------------------------------
(***************************************************************************)
(* The handshake.  Three things are asked of a queue: has it a message of  *)
(* the extension, what does the last one tell of its end, and is one of    *)
(* them a Ready?                                                           *)
(***************************************************************************)
None(q) == \A i \in DOMAIN q : q[i].id # Ext

LastTells(q, on) ==
  \A i \in DOMAIN q :
    q[i].id = Ext /\ (\A j \in DOMAIN q : i < j => q[j].id # Ext) =>
      (q[i].body # "Disconnected" <=> on)

HasReady(q) == \E i \in DOMAIN q : q[i].id = Ext /\ q[i].body = "Ready"

Alike(r, q) ==
  /\ None(r) <=> None(q)
  /\ HasReady(r) <=> HasReady(q)
  /\ \A on \in BOOLEAN : LastTells(r, on) <=> LastTells(q, on)

\* m has come behind q.
Ends(r, q, m) ==
  /\ ~None(r)
  /\ HasReady(r) <=> HasReady(q) \/ m.body = "Ready"
  /\ \A on \in BOOLEAN : LastTells(r, on) <=> (m.body # "Disconnected" <=> on)

\* m has been before q.
Starts(r, m, q) ==
  /\ ~None(r)
  /\ HasReady(r) <=> HasReady(q) \/ m.body = "Ready"
  /\ \A on \in BOOLEAN :
       LastTells(r, on) <=> IF None(q) THEN (m.body # "Disconnected" <=> on) ELSE LastTells(q, on)

LEMMA AlikeItself == \A q : Alike(q, q)
BY DEF Alike

LEMMA Nothings == None(<< >>) /\ ~HasReady(<< >>) /\ \A on \in BOOLEAN : LastTells(<< >>, on)
<1>1. DOMAIN << >> = {}
  OBVIOUS
<1> QED  BY <1>1 DEF None, HasReady, LastTells

LEMMA NoneTells == \A q, on : None(q) => LastTells(q, on) /\ ~HasReady(q)
BY DEF None, HasReady, LastTells

\* All of a queue of the extension's are its messages.
LEMMA NoneEmpty ==
  ASSUME NEW q \in Seq(ExtMessages)
  PROVE  None(q) <=> q = << >>
<1>1. Len(q) \in Nat /\ DOMAIN q = 1 .. Len(q) /\ (q = << >> <=> Len(q) = 0)
      /\ \A i \in 1 .. Len(q) : q[i] \in ExtMessages
  BY Lengths
<1>2. ASSUME q # << >> PROVE 1 \in DOMAIN q /\ q[1].id = Ext
  <2>1. 1 \in 1 .. Len(q)
    BY <1>1, <1>2
  <2> QED  BY <1>1, <2>1 DEF ExtMessages
<1> QED  BY <1>1, <1>2, Nothings DEF None

LEMMA Behind ==
  ASSUME NEW T, NEW q \in Seq(T), NEW m \in T
  PROVE  /\ m.id = Ext => Ends(Append(q, m), q, m)
         /\ m.id # Ext => Alike(Append(q, m), q)
<1> DEFINE r == Append(q, m)
<1>1. /\ Len(q) \in Nat /\ DOMAIN q = 1 .. Len(q) /\ DOMAIN r = 1 .. (Len(q) + 1)
      /\ \A i \in 1 .. Len(q) : r[i] = q[i]
      /\ r[Len(q) + 1] = m
  BY Lengths, Added
<1> HIDE DEF r
<1>2. \A i \in DOMAIN q : i \in DOMAIN r /\ r[i] = q[i] /\ i < Len(q) + 1
  BY <1>1
<1>3. \A i \in DOMAIN r : i \in DOMAIN q \/ i = Len(q) + 1
  BY <1>1
<1>4. Len(q) + 1 \in DOMAIN r /\ \A i \in DOMAIN r : ~(Len(q) + 1 < i)
  BY <1>1
<1>5. HasReady(r) <=> HasReady(q) \/ (m.id = Ext /\ m.body = "Ready")
  BY <1>1, <1>2, <1>3, <1>4 DEF HasReady
<1>6. None(r) <=> None(q) /\ m.id # Ext
  BY <1>1, <1>2, <1>3, <1>4 DEF None
<1>7. ASSUME m.id = Ext, NEW on \in BOOLEAN
      PROVE  LastTells(r, on) <=> (m.body # "Disconnected" <=> on)
  BY <1>1, <1>2, <1>3, <1>4, <1>7 DEF LastTells
<1>8. ASSUME m.id # Ext, NEW on \in BOOLEAN
      PROVE  LastTells(r, on) <=> LastTells(q, on)
  <2>1. ASSUME NEW i \in DOMAIN q
        PROVE  (\A j \in DOMAIN r : i < j => r[j].id # Ext)
                 <=> (\A j \in DOMAIN q : i < j => q[j].id # Ext)
    BY <1>1, <1>2, <1>3, <1>8
  <2> QED  BY <1>1, <1>2, <1>3, <1>8, <2>1 DEF LastTells
<1> QED  BY <1>5, <1>6, <1>7, <1>8 DEF Ends, Alike, r

LEMMA Before ==
  ASSUME NEW T, NEW q \in Seq(T), q # << >>
  PROVE  /\ Head(q).id = Ext => Starts(q, Head(q), Tail(q))
         /\ Head(q).id # Ext => Alike(Tail(q), q)
<1> DEFINE r == Tail(q)
           m == Head(q)
<1>1. /\ m = q[1] /\ Len(q) \in Nat \ {0} /\ DOMAIN q = 1 .. Len(q)
      /\ DOMAIN r = 1 .. (Len(q) - 1) /\ \A i \in 1 .. (Len(q) - 1) : r[i] = q[i + 1]
  BY TakenOff
<1> HIDE DEF r, m
<1>2. 1 \in DOMAIN q /\ \A i \in DOMAIN q : i = 1 \/ 1 < i
  BY <1>1
<1>3. \A i \in DOMAIN r : i + 1 \in DOMAIN q /\ q[i + 1] = r[i] /\ 1 < i + 1
  BY <1>1
<1>4. \A i \in DOMAIN q : i # 1 => \E j \in DOMAIN r : j + 1 = i
  <2> SUFFICES ASSUME NEW i \in DOMAIN q, i # 1 PROVE \E j \in DOMAIN r : j + 1 = i
    OBVIOUS
  <2>1. i - 1 \in DOMAIN r /\ (i - 1) + 1 = i
    BY <1>1
  <2> QED  BY <2>1
<1>5. \A i, j \in DOMAIN r : i < j <=> i + 1 < j + 1
  BY <1>1
<1>6. HasReady(q) <=> HasReady(r) \/ (m.id = Ext /\ m.body = "Ready")
  <2>1. ASSUME HasReady(q) PROVE HasReady(r) \/ (m.id = Ext /\ m.body = "Ready")
    <3>1. PICK i \in DOMAIN q : q[i].id = Ext /\ q[i].body = "Ready"
      BY <2>1 DEF HasReady
    <3>2. CASE i = 1
      BY <1>1, <3>1, <3>2
    <3>3. CASE i # 1
      <4>1. PICK j \in DOMAIN r : j + 1 = i
        BY <1>4, <3>3
      <4> QED  BY <1>3, <3>1, <4>1 DEF HasReady
    <3> QED  BY <3>2, <3>3
  <2>2. HasReady(r) => HasReady(q)
    BY <1>3 DEF HasReady
  <2>3. m.id = Ext /\ m.body = "Ready" => HasReady(q)
    BY <1>1, <1>2 DEF HasReady
  <2> QED  BY <2>1, <2>2, <2>3
<1>7. None(q) <=> None(r) /\ m.id # Ext
  <2>1. ASSUME None(r), m.id # Ext PROVE None(q)
    <3> SUFFICES ASSUME NEW i \in DOMAIN q PROVE q[i].id # Ext
      BY DEF None
    <3>1. CASE i = 1
      BY <1>1, <2>1, <3>1
    <3>2. CASE i # 1
      <4>1. PICK j \in DOMAIN r : j + 1 = i
        BY <1>4, <3>2
      <4> QED  BY <1>3, <2>1, <4>1 DEF None
    <3> QED  BY <3>1, <3>2
  <2>2. None(q) => None(r) /\ m.id # Ext
    BY <1>1, <1>2, <1>3 DEF None
  <2> QED  BY <2>1, <2>2
<1>8. \A i \in DOMAIN r : (\A j \in DOMAIN q : i + 1 < j => q[j].id # Ext)
                            <=> (\A j \in DOMAIN r : i < j => r[j].id # Ext)
  <2> SUFFICES ASSUME NEW i \in DOMAIN r
               PROVE  (\A j \in DOMAIN q : i + 1 < j => q[j].id # Ext)
                        <=> (\A j \in DOMAIN r : i < j => r[j].id # Ext)
    OBVIOUS
  <2>1. ASSUME \A j \in DOMAIN r : i < j => r[j].id # Ext, NEW j \in DOMAIN q, i + 1 < j
        PROVE  q[j].id # Ext
    <3>1. j # 1
      BY <1>3, <2>1
    <3>2. PICK k \in DOMAIN r : k + 1 = j
      BY <1>4, <3>1
    <3> QED  BY <1>3, <1>5, <2>1, <3>2
  <2> QED  BY <1>3, <1>5, <2>1
<1>9. ASSUME NEW on \in BOOLEAN, LastTells(q, on) PROVE LastTells(r, on)
  <2> SUFFICES ASSUME NEW i \in DOMAIN r, r[i].id = Ext,
                      \A j \in DOMAIN r : i < j => r[j].id # Ext
               PROVE  r[i].body # "Disconnected" <=> on
    BY DEF LastTells
  <2>1. i + 1 \in DOMAIN q /\ q[i + 1] = r[i] /\ \A j \in DOMAIN q : i + 1 < j => q[j].id # Ext
    BY <1>3, <1>8
  <2> QED  BY <1>9, <2>1 DEF LastTells
<1>10. ASSUME NEW on \in BOOLEAN, LastTells(r, on),
              m.id = Ext /\ None(r) => (m.body # "Disconnected" <=> on)
       PROVE  LastTells(q, on)
  <2> SUFFICES ASSUME NEW i \in DOMAIN q, q[i].id = Ext,
                      \A j \in DOMAIN q : i < j => q[j].id # Ext
               PROVE  q[i].body # "Disconnected" <=> on
    BY DEF LastTells
  <2>1. CASE i = 1
    <3>1. None(r)
      BY <1>3, <2>1 DEF None
    <3> QED  BY <1>1, <1>10, <2>1, <3>1
  <2>2. CASE i # 1
    <3>1. PICK k \in DOMAIN r : k + 1 = i
      BY <1>4, <2>2
    <3>2. r[k] = q[i] /\ \A j \in DOMAIN r : k < j => r[j].id # Ext
      BY <1>3, <1>8, <3>1
    <3> QED  BY <1>10, <3>2 DEF LastTells
  <2> QED  BY <2>1, <2>2
<1>11. ASSUME NEW on \in BOOLEAN, LastTells(q, on), m.id = Ext, None(r)
       PROVE  m.body # "Disconnected" <=> on
  <2>1. \A j \in DOMAIN q : 1 < j => q[j].id # Ext
    <3> SUFFICES ASSUME NEW j \in DOMAIN q, 1 < j PROVE q[j].id # Ext
      OBVIOUS
    <3>1. PICK k \in DOMAIN r : k + 1 = j
      BY <1>4
    <3> QED  BY <1>3, <1>11, <3>1 DEF None
  <2> QED  BY <1>1, <1>2, <1>11, <2>1 DEF LastTells
<1>12. m.id = Ext => Starts(q, m, r)
  BY <1>6, <1>7, <1>9, <1>10, <1>11, NoneTells DEF Starts
<1>13. m.id # Ext => Alike(r, q)
  BY <1>6, <1>7, <1>9, <1>10 DEF Alike
<1> QED  BY <1>12, <1>13 DEF r, m

LEMMA CarryAlike ==
  ASSUME NEW q \in Seq(Sendable), NEW kept \in Seq(Nat)
  PROVE  Alike(q \o Carry(kept), q)
<1> DEFINE c == Carry(kept)
           r == q \o c
<1>1. /\ c \in Seq(Sendable) /\ Len(c) = Len(kept)
      /\ \A i \in 1 .. Len(kept) : c[i] = ToMember(kept[i])
      /\ Len(kept) \in Nat
  BY CarryTypes, Lengths
<1> HIDE DEF c
<1>2. Len(q) \in Nat /\ DOMAIN q = 1 .. Len(q)
  BY Lengths
<1>3. DOMAIN r = 1 .. (Len(q) + Len(c))
  BY <1>1, Joined, ZenonT(30)
<1>4. \A i \in 1 .. Len(q) : r[i] = q[i]
  BY <1>1, Joined
<1>5. \A i \in 1 .. Len(c) : r[Len(q) + i] = c[i]
  BY <1>1, Joined
<1> HIDE DEF r
<1>6. \A i \in DOMAIN q : i \in DOMAIN r /\ r[i] = q[i]
  BY <1>1, <1>2, <1>3, <1>4
<1>7. ASSUME NEW i \in DOMAIN r, i \notin DOMAIN q PROVE r[i].id # Ext
  <2>1. i - Len(q) \in 1 .. Len(c) /\ Len(q) + (i - Len(q)) = i
    BY <1>1, <1>2, <1>3, <1>7
  <2>2. r[i] = c[i - Len(q)]
    BY <1>5, <2>1
  <2>3. c[i - Len(q)] = ToMember(kept[i - Len(q)])
    BY <1>1, <2>1
  <2> QED  BY <2>2, <2>3, Names DEF ToMember
<1>8. None(r) <=> None(q)
  BY <1>6, <1>7 DEF None
<1>9. HasReady(r) <=> HasReady(q)
  BY <1>6, <1>7 DEF HasReady
<1>10. ASSUME NEW on \in BOOLEAN PROVE LastTells(r, on) <=> LastTells(q, on)
  <2>1. \A i \in DOMAIN q : (\A j \in DOMAIN r : i < j => r[j].id # Ext)
                              <=> (\A j \in DOMAIN q : i < j => q[j].id # Ext)
    BY <1>6, <1>7
  <2> QED  BY <1>6, <1>7, <2>1 DEF LastTells
<1> QED  BY <1>8, <1>9, <1>10 DEF Alike, r, c

LEMMA StateEnds ==
  ASSUME NEW q \in Seq(Sendable), NEW s \in States
  PROVE  Ends(q \o <<ToExt(s)>>, q, ToExt(s)) /\ ToExt(s).body = s
<1>1. ToExt(s) \in Sendable /\ ToExt(s).id = Ext /\ ToExt(s).body = s
  BY Somethings DEF Sendable, ToExt
<1>2. q \o <<ToExt(s)>> = Append(q, ToExt(s))
  BY <1>1, Added
<1>3. Ends(Append(q, ToExt(s)), q, ToExt(s))
  BY <1>1, Behind
<1> QED  BY <1>1, <1>2, <1>3

LEMMA NumberAlike ==
  ASSUME NEW q \in Seq(Sendable), NEW n \in Nat
  PROVE  Alike(q \o <<ToMember(n)>>, q)
<1>1. ToMember(n) \in Sendable /\ ToMember(n).id # Ext
  BY Somethings, Names DEF Sendable, ToMember
<1>2. q \o <<ToMember(n)>> = Append(q, ToMember(n))
  BY <1>1, Added
<1>3. Alike(Append(q, ToMember(n)), q)
  BY <1>1, Behind
<1> QED  BY <1>2, <1>3


-------------------------------------------------------------------------------
(***************************************************************************)
(* The stream of the extension's messages to the host: what is on its way, *)
(* what the broker keeps and what the threads execute, and what the two    *)
(* ends make of it.                                                        *)
(***************************************************************************)
\* Behind the queued action: what the scheduler has moved out of the broker.
AtHand == IF hand # Nothing THEN hand.custom ELSE << >>

Runs(t) == running[t] # Nothing /\ running[t].id = Ext /\ running[t].body # Flush

RunsNone == \A t \in Threads : ~Runs(t)
RunsReady == \E t \in Threads : Runs(t) /\ running[t].body = "Ready"
RunsTells(on) == \A t \in Threads : Runs(t) => (running[t].body # "Disconnected" <=> on)

\* The stream to the extension, from its stages: the last sent is in the first of them.
Told(on) ==
  /\ LastTells(incoming, on)
  /\ None(incoming) => LastTells(Kept(Ext).custom, on)
  /\ None(incoming) /\ None(Kept(Ext).custom) => LastTells(Kept(Ext).default, on)
  /\ None(incoming) /\ None(Kept(Ext).custom) /\ None(Kept(Ext).default) =>
       LastTells(AtHand, on)
  /\ None(incoming) /\ None(Kept(Ext).custom) /\ None(Kept(Ext).default) /\ None(AtHand) =>
       RunsTells(on)

Arrived ==
  /\ None(incoming) /\ None(Kept(Ext).custom) /\ None(Kept(Ext).default) /\ None(AtHand)
  /\ RunsNone

ReadyComes ==
  \/ HasReady(incoming) \/ HasReady(Kept(Ext).custom) \/ HasReady(Kept(Ext).default)
  \/ HasReady(AtHand) \/ RunsReady

\* An entry without messages is there only while its action erases it.
EntryGoes ==
  ~undefined /\ Known(Ext) /\ broker[Ext].default = << >> =>
    hand # Nothing /\ hand.id = Ext /\ hand.at # "custom"

\* dispatch executes a message of the extension only when no other is on its way.
OneRuns ==
  running["receiver"] # Nothing =>
    /\ ~Known(Ext) /\ AtHand = << >>
    /\ running["scheduler"] # Nothing => running["scheduler"].id # Ext

\* What the host makes of what has reached it, and the counterpart of its.
HostFollows ==
  /\ ~peer.bound /\ Arrived => ~connected \/ binding = "unbound"
  /\ peer.bound /\ Arrived /\ binding \in {"ready", "bound"} => connected \/ HasReady(outgoing)

PeerFollows ==
  /\ binding \in {"ready", "bound", "leaving"} => LastTells(outgoing, TRUE)
  /\ binding \in {"ready", "bound"} /\ peer.bound /\ None(outgoing) =>
       peer.connected \/ ReadyComes

FlushComes ==
  /\ connected /\ sendQ # << >> => \E t \in Threads : running[t] = ToExt(Flush)
  /\ peer.connected => peer.sendQ = << >>

Shake == OneRuns /\ Told(peer.bound) /\ HostFollows /\ PeerFollows


StreamSame ==
  /\ \A on \in BOOLEAN : Told(on)' <=> Told(on)
  /\ Arrived' <=> Arrived
  /\ ReadyComes' <=> ReadyComes

RunsSame == \A t \in Threads : (Runs(t)' <=> Runs(t)) /\ (Runs(t) => running'[t] = running[t])

LEMMA StreamRests ==
  ASSUME Alike(incoming', incoming), Kept(Ext)' = Kept(Ext), AtHand' = AtHand, RunsSame
  PROVE  StreamSame
<1>1. /\ RunsNone' <=> RunsNone
      /\ RunsReady' <=> RunsReady
      /\ \A on \in BOOLEAN : RunsTells(on)' <=> RunsTells(on)
  BY DEF RunsSame, RunsNone, RunsReady, RunsTells
<1>2. Arrived' <=> Arrived
  BY <1>1 DEF Alike, Arrived
<1>3. ReadyComes' <=> ReadyComes
  BY <1>1 DEF Alike, ReadyComes
<1>4. \A on \in BOOLEAN : Told(on)' <=> Told(on)
  BY <1>1 DEF Alike, Told
<1> QED  BY <1>2, <1>3, <1>4 DEF StreamSame

\* A message more at the end of the stream.
StreamEnds(m) ==
  /\ ~Arrived'
  /\ ReadyComes' <=> ReadyComes \/ m.body = "Ready"
  /\ \A on \in BOOLEAN : Told(on)' <=> (m.body # "Disconnected" <=> on)

LEMMA StreamGrows ==
  ASSUME NEW m, Ends(incoming', incoming, m), Kept(Ext)' = Kept(Ext), AtHand' = AtHand, RunsSame
  PROVE  StreamEnds(m)
<1>1. RunsReady' <=> RunsReady
  BY DEF RunsSame, RunsReady
<1>2. ~Arrived'
  BY DEF Ends, Arrived
<1>3. ReadyComes' <=> ReadyComes \/ m.body = "Ready"
  BY <1>1 DEF Ends, ReadyComes
<1>4. \A on \in BOOLEAN : Told(on)' <=> (m.body # "Disconnected" <=> on)
  BY DEF Ends, Told
<1> QED  BY <1>2, <1>3, <1>4 DEF StreamEnds

\* The broker carries the stream on, and drops of it only what finds nobody bound.
Carries ==
  /\ OneRuns'
  /\ \A on \in BOOLEAN : Told(on) => Told(on)'
  /\ Arrived' => Arrived \/ binding = "unbound"
  /\ binding # "unbound" /\ ReadyComes => ReadyComes'

\* What a message of the extension is.
LEMMA ExtBodies ==
  \A m \in ExtMessages : m.id = Ext /\ m.body \in States /\ m.body # Flush /\ m # Nothing
BY Somethings DEF ExtMessages, States

LEMMA StreamTypes ==
  ASSUME TypeInv
  PROVE  /\ incoming \in Seq(Sendable) /\ outgoing \in Seq(Sendable)
         /\ Kept(Ext).default \in Seq(ExtMessages) /\ Kept(Ext).custom \in Seq(ExtMessages)
         /\ AtHand \in Seq(ExtMessages)
         /\ running \in [Threads -> Messages \cup {Nothing}]
<1>1. AtHand \in Seq(ExtMessages)
  <2>1. CASE hand = Nothing
    BY <2>1, EmptySeq DEF AtHand
  <2>2. CASE hand # Nothing
    BY <2>2, EmptySeq DEF AtHand, TypeInv, BrokerTypes, Hands, ExtHands, MemberHands
  <2> QED  BY <2>1, <2>2
<1> QED
  BY <1>1, KeptTypes DEF TypeInv, BrokerTypes, ExtTypes, ExtQueues

\* dispatch: the message goes from what is on its way to the broker or to its thread.
LEMMA DispatchCarries ==
  ASSUME TypeInv, OneRuns, Dispatch, UNCHANGED extVars, ~raced'
  PROVE  Carries /\ ~raced
<1> DEFINE m == Head(incoming)
           r == Tail(incoming)
<1>1. /\ m \in Sendable /\ Deliver(m) /\ incoming' = r /\ incoming # << >>
      /\ UNCHANGED <<binding, hand>> /\ running["receiver"] = Nothing
      /\ m.id = Ext => Starts(incoming, m, r)
      /\ m.id # Ext => Alike(r, incoming)
  BY TakenOff, Before DEF Dispatch, TypeInv, BrokerTypes, extVars, hostVars, Unlocked
<1>2. /\ m.id = Ext => m \in ExtMessages
      /\ m.id # Ext => m.id = Member
  BY <1>1, Names DEF Sendable, ExtMessages, MemberMessages
<1> HIDE DEF m, r
<1>3. AtHand' = AtHand /\ ~raced
  <2>1. ~raced
    BY <1>1 DEF Deliver, Keep, Queue, Invoke, Follow, TypeInv, BrokerTypes
  <2> QED  BY <1>1, <2>1 DEF AtHand
<1>4. CASE m.id = Ext /\ Keep(m)
  <2>1. binding = "unbound" /\ Kept(Ext).custom = << >>
    BY <1>4, Names DEF Keep, TypeInv, Stands
  <2>2. /\ Kept(Ext)'.default = Append(Kept(Ext).default, m) /\ Kept(Ext)'.custom = << >>
        /\ running' = running
    BY <1>1, <1>4, <2>1, KeepBroker
  <2>3. Ends(Kept(Ext)'.default, Kept(Ext).default, m)
    <3>1. Ends(Append(Kept(Ext).default, m), Kept(Ext).default, m)
      BY <1>2, <1>4, StreamTypes, Behind
    <3> QED  BY <2>2, <3>1
  <2>4. OneRuns'
    BY <1>1, <2>2 DEF OneRuns
  <2>5. \A on \in BOOLEAN : Told(on) => Told(on)'
    BY <1>1, <1>4, <2>1, <2>2, <2>3, Nothings, NoneTells DEF Told, Starts, Ends
  <2> QED  BY <1>3, <2>1, <2>4, <2>5 DEF Carries
<1>5. CASE m.id = Ext /\ Follow(m)
  <2>1. /\ Known(Ext) /\ broker' = [broker EXCEPT ![Ext].custom = Append(@, m)]
        /\ running' = running
    BY <1>5 DEF Follow
  <2>2. /\ Kept(Ext)'.custom = Append(Kept(Ext).custom, m)
        /\ Kept(Ext)'.default = Kept(Ext).default
    <3>1. broker[Ext] \in ExtQueues /\ m \in ExtMessages
      BY <1>2, <1>5, <2>1 DEF Known, TypeInv, BrokerTypes
    <3> DEFINE q == [broker[Ext] EXCEPT !.custom = Append(@, m)]
    <3>2. /\ q \in ExtQueues /\ q.custom = Append(broker[Ext].custom, m)
          /\ q.default = broker[Ext].default
      BY <3>1, Added DEF ExtQueues
    <3> HIDE DEF q
    <3>3. broker'[Ext] = q
      BY <2>1, Names DEF TypeInv, BrokerTypes, q
    <3> QED  BY <2>1, <3>2, <3>3, Somethings DEF Kept, Known
  <2>3. Ends(Kept(Ext)'.custom, Kept(Ext).custom, m)
    <3>1. Ends(Append(Kept(Ext).custom, m), Kept(Ext).custom, m)
      BY <1>2, <1>5, StreamTypes, Behind
    <3> QED  BY <2>2, <3>1
  <2>4. OneRuns'
    BY <1>1, <2>1 DEF OneRuns
  <2>5. \A on \in BOOLEAN : Told(on) => Told(on)'
    BY <1>1, <1>5, <2>2, <2>3, NoneTells DEF Told, Starts, Ends
  <2>6. ~Arrived'
    BY <2>3 DEF Arrived, Ends
  <2>7. ReadyComes => ReadyComes'
    BY <1>1, <1>3, <1>5, <2>1, <2>2, <2>3 DEF ReadyComes, Starts, Ends, RunsReady, Runs
  <2> QED  BY <1>3, <2>4, <2>5, <2>6, <2>7 DEF Carries
<1>6. CASE m.id = Ext /\ Invoke(m)
  <2>1. /\ ~Known(Ext) /\ broker' = broker /\ ~BehindHandOver(Ext)
        /\ running' = [running EXCEPT !["receiver"] = m]
    BY <1>6 DEF Invoke, Run
  <2>2. running'["receiver"] = m /\ running'["scheduler"] = running["scheduler"]
    BY <2>1 DEF TypeInv, BrokerTypes
  <2>3. Kept(Ext)' = Kept(Ext) /\ Kept(Ext).default = << >> /\ Kept(Ext).custom = << >>
        /\ ~Known(Ext)'
    BY <2>1 DEF Kept, Known, EmptyMq
  <2>4. AtHand = << >>
    <3>1. CASE hand # Nothing /\ hand.id = Ext
      BY <2>1, <3>1 DEF BehindHandOver, AtHand
    <3>2. CASE hand # Nothing /\ hand.id # Ext
      BY <3>2, HandTypes, Names DEF AtHand
    <3> QED  BY <3>1, <3>2 DEF AtHand
  <2>5. running["scheduler"] # Nothing => running["scheduler"].id # Ext
    BY <2>1 DEF BehindHandOver, TypeInv, Stands
  <2>6. OneRuns'
    BY <1>3, <2>2, <2>3, <2>4, <2>5 DEF OneRuns
  <2>7. m.body # Flush /\ m # Nothing
    BY <1>2, <1>6, ExtBodies
  <2>8. /\ Runs("receiver")' /\ ~Runs("scheduler") /\ ~Runs("scheduler")' /\ ~Runs("receiver")
    BY <1>1, <1>6, <2>2, <2>5, <2>7 DEF Runs
  <2>9. /\ ~RunsNone' /\ ~RunsReady
        /\ RunsReady' <=> m.body = "Ready"
        /\ \A on \in BOOLEAN : RunsTells(on)' <=> (m.body # "Disconnected" <=> on)
    BY <2>2, <2>8 DEF RunsNone, RunsReady, RunsTells
  <2>10. \A on \in BOOLEAN : Told(on) => Told(on)'
    BY <1>1, <1>3, <1>6, <2>3, <2>4, <2>9, Nothings, NoneTells DEF Told, Starts
  <2>11. ~Arrived'
    BY <2>9 DEF Arrived
  <2>12. ReadyComes => ReadyComes'
    BY <1>1, <1>3, <1>6, <2>3, <2>9 DEF ReadyComes, Starts
  <2> QED  BY <1>3, <2>6, <2>10, <2>11, <2>12 DEF Carries
<1>7. CASE m.id = Member
  <2>1. Kept(Ext)' = Kept(Ext) /\ running' = running /\ (Known(Ext)' <=> Known(Ext))
    <3>1. CASE Keep(m)
      BY <1>1, <1>7, <3>1, KeepBroker, Names
    <3>2. CASE Queue(m)
      BY <3>2 DEF Queue, Kept, Known
    <3> QED  BY <1>1, <1>7, <3>1, <3>2, Names DEF Deliver, Invoke, Follow
  <2>2. RunsSame
    BY <2>1 DEF RunsSame, Runs
  <2>3. Alike(incoming', incoming)
    BY <1>1, <1>7, Names
  <2>4. StreamSame
    BY <1>3, <2>1, <2>2, <2>3, StreamRests
  <2>5. OneRuns'
    BY <1>3, <2>1 DEF OneRuns
  <2> QED  BY <1>3, <2>4, <2>5 DEF StreamSame, Carries
<1>8. m.id = Ext => ~Queue(m)
  BY Names DEF Queue
<1> QED  BY <1>1, <1>2, <1>4, <1>5, <1>6, <1>7, <1>8 DEF Deliver

LEMMA RestCarries ==
  ASSUME incoming' = incoming, Kept(Ext)' = Kept(Ext), AtHand' = AtHand, RunsSame, OneRuns'
  PROVE  Carries
<1>1. StreamSame
  BY AlikeItself, StreamRests
<1> QED  BY <1>1 DEF StreamSame, Carries

LEMMA RunInvokeCarries ==
  ASSUME TypeInv, RunInvoke
  PROVE  Carries
<1> DEFINE t == Head(tasks)
<1>1. /\ t \in Tasks /\ t.kind = "invoke"
      /\ running["receiver"] = Nothing /\ running["scheduler"] = Nothing
      /\ UNCHANGED <<incoming, broker, hand>>
      /\ running' = [running EXCEPT !["scheduler"] = t.message] \/ running' = running
  BY TakenOff DEF RunInvoke, NextTask, Idle, Unlocked, Run, TypeInv, BrokerTypes
<1>2. t.message.id # Ext
  BY <1>1, Names DEF Tasks, InvokeTasks, HandOverTasks, MemberMessages
<1> HIDE DEF t
<1>3. /\ running'["receiver"] = Nothing
      /\ running'["scheduler"] # Nothing => running'["scheduler"].id # Ext
  BY <1>1, <1>2 DEF TypeInv, BrokerTypes
<1>4. RunsSame /\ OneRuns'
  BY <1>1, <1>3 DEF RunsSame, Runs, OneRuns
<1>5. AtHand' = AtHand /\ Kept(Ext)' = Kept(Ext)
  BY <1>1 DEF AtHand, Kept, Known
<1> QED  BY <1>1, <1>4, <1>5, RestCarries

LEMMA HandOverCarries ==
  ASSUME TypeInv, Counted, HandOver, OutOfTasks
  PROVE  Carries
<1> DEFINE id == Head(tasks).id
           waiting == broker[id].default
           first == Head(waiting)
<1>1. /\ id \in Entities /\ tasks # << >> /\ HandsOver(Head(tasks), id)
      /\ running["receiver"] = Nothing /\ running["scheduler"] = Nothing /\ hand = Nothing
      /\ broker' = [broker EXCEPT ![id].default = Tail(waiting)]
      /\ hand' = [at |-> "test", id |-> id, custom |-> << >>]
      /\ running' = IF id \in subscribed THEN [running EXCEPT !["scheduler"] = first]
                                         ELSE running
      /\ incoming' = incoming
  BY TakenOff DEF HandOver, NextTask, Idle, Unlocked, Run, HandsOver, TypeInv, BrokerTypes,
                  Tasks, HandOverTasks, InvokeTasks
<1>2. broker[id] # Nothing /\ waiting # << >>
  BY <1>1, HandsOverOne
<1> HIDE DEF id, first
<1>3. AtHand = << >> /\ AtHand' = << >>
  <2>1. hand' \in Hands
    <3>1. << >> \in Seq(ExtMessages)
      BY EmptySeq
    <3> QED  BY <1>1, <3>1, Names DEF Hands, ExtHands, MemberHands, Places
  <2> QED  BY <1>1, <2>1, Somethings DEF AtHand
<1>4. ~Runs("receiver") /\ ~Runs("scheduler")
  BY <1>1 DEF Runs
<1>5. running'["receiver"] = Nothing
  BY <1>1 DEF TypeInv, BrokerTypes
<1>6. OneRuns' /\ ~Runs("receiver")'
  BY <1>5 DEF OneRuns, Runs
<1>7. CASE id = Member
  <2>1. Kept(Ext)' = Kept(Ext)
    BY <1>1, <1>7, Names DEF Kept, Known, TypeInv, BrokerTypes
  <2>2. first.id # Ext
    <3>1. waiting \in Seq(MemberMessages)
      BY <1>2, <1>7 DEF TypeInv, BrokerTypes, MemberQueues
    <3>2. first \in MemberMessages
      BY <1>2, <3>1, TakenOff DEF first
    <3> QED  BY <3>2, Names DEF MemberMessages
  <2>3. ~Runs("scheduler")'
    BY <1>1, <1>4, <2>2 DEF Runs, TypeInv, BrokerTypes
  <2>4. RunsSame
    BY <1>4, <1>6, <2>3 DEF RunsSame
  <2> QED  BY <1>1, <1>3, <1>6, <2>1, <2>4, RestCarries
<1>8. CASE id = Ext
  <2>1. broker[Ext] \in ExtQueues /\ Kept(Ext) = broker[Ext] /\ waiting \in Seq(ExtMessages)
    BY <1>2, <1>8 DEF TypeInv, BrokerTypes, ExtQueues, Kept, Known
  <2>2. Kept(Ext)'.default = Tail(waiting) /\ Kept(Ext)'.custom = Kept(Ext).custom
    <3> DEFINE q == [broker[Ext] EXCEPT !.default = Tail(waiting)]
    <3>1. q \in ExtQueues /\ q.default = Tail(waiting) /\ q.custom = broker[Ext].custom
      BY <1>2, <2>1, TakenOff DEF ExtQueues
    <3> HIDE DEF q
    <3>2. broker'[Ext] = q
      BY <1>1, <1>8, Names DEF TypeInv, BrokerTypes, q
    <3> QED  BY <2>1, <3>1, <3>2, Somethings DEF Kept, Known
  <2>3. first \in ExtMessages /\ Starts(waiting, first, Tail(waiting))
    <3>1. first \in ExtMessages
      BY <1>2, <2>1, TakenOff DEF first
    <3>2. first.id = Ext
      BY <3>1, ExtBodies
    <3> QED  BY <1>2, <2>1, <3>1, <3>2, Before DEF first
  <2>4. waiting = Kept(Ext).default
    BY <1>8, <2>1
  <2> HIDE DEF waiting
  <2>5. RunsNone /\ ~RunsReady /\ \A on \in BOOLEAN : RunsTells(on)
    BY <1>4 DEF RunsNone, RunsReady, RunsTells
  <2>6. CASE Ext \in subscribed
    <3>1. running'["scheduler"] = first
      BY <1>1, <1>8, <2>6 DEF TypeInv, BrokerTypes
    <3>2. Runs("scheduler")'
      BY <2>3, <3>1, ExtBodies DEF Runs
    <3>3. /\ ~RunsNone'
          /\ RunsReady' <=> first.body = "Ready"
          /\ \A on \in BOOLEAN : RunsTells(on)' <=> (first.body # "Disconnected" <=> on)
      BY <1>6, <3>1, <3>2 DEF RunsNone, RunsReady, RunsTells
    <3>4. \A on \in BOOLEAN : Told(on) => Told(on)'
      BY <1>1, <1>3, <2>2, <2>3, <2>4, <3>3, Nothings, NoneTells DEF Told, Starts
    <3>5. ~Arrived'
      BY <3>3 DEF Arrived
    <3>6. ReadyComes => ReadyComes'
      BY <1>1, <1>3, <2>2, <2>3, <2>4, <2>5, <3>3 DEF ReadyComes, Starts
    <3> QED  BY <1>6, <3>4, <3>5, <3>6 DEF Carries
  <2>7. CASE Ext \notin subscribed
    <3>1. binding = "unbound" /\ running' = running
      BY <1>1, <1>8, <2>7 DEF TypeInv, Stands
    <3>2. \A on \in BOOLEAN : RunsTells(on)'
      BY <1>4, <3>1 DEF RunsTells, Runs
    <3>3. \A on \in BOOLEAN : Told(on) => Told(on)'
      BY <1>1, <1>3, <2>2, <2>3, <2>4, <3>2, Nothings, NoneTells DEF Told, Starts
    <3> QED  BY <1>6, <3>1, <3>3 DEF Carries
  <2> QED  BY <2>6, <2>7
<1> QED  BY <1>1, <1>7, <1>8, Names

\* From the test to the end: only the move and the loop touch the stream.
LEMMA GoesOnCarries ==
  ASSUME TypeInv, OneRuns, HandOverGoesOn, UNCHANGED extVars, ~undefined', ~raced'
  PROVE  Carries
<1>1. /\ hand # Nothing /\ running["scheduler"] = Nothing /\ incoming' = incoming
      /\ hand.id \in Entities /\ (hand.id = Ext \/ hand.id = Member)
      /\ ~Runs("scheduler")
  BY HandTypes, Names
     DEF HandOverGoesOn, TestEmpty, MoveOut, Erase, InvokeCustom, HandedOver, At, Runs
<1>2. AtHand = hand.custom
  BY <1>1 DEF AtHand
<1>3. /\ hand.at # "custom" => Known(hand.id) /\ Kept(hand.id) = broker[hand.id]
      /\ hand.at \in {"test", "move"} => hand.custom = << >>
      /\ hand.id = Member => hand.custom = << >>
  BY <1>1, HandTypes DEF TypeInv, HandAt
<1>4. CASE TestEmpty \/ HandedOver
  <2>1. /\ hand.custom = << >> /\ UNCHANGED <<broker, running>>
        /\ hand' \in {Nothing, [hand EXCEPT !.at = "move"]}
    BY <1>3, <1>4 DEF TestEmpty, HandedOver, At
  <2>2. hand' # Nothing => hand'.custom = << >>
    <3>1. [hand EXCEPT !.at = "move"].custom = hand.custom
      BY <1>1, HandTypes DEF ExtHands, MemberHands
    <3> QED  BY <2>1, <3>1
  <2>3. AtHand' = AtHand /\ Kept(Ext)' = Kept(Ext) /\ (Known(Ext)' <=> Known(Ext))
    BY <1>2, <2>1, <2>2 DEF AtHand, Kept, Known
  <2>4. RunsSame /\ OneRuns'
    BY <2>1, <2>3 DEF RunsSame, Runs, OneRuns
  <2> QED  BY <1>1, <2>3, <2>4, RestCarries
<1>5. CASE MoveOut
  <2> DEFINE mq == broker[hand.id]
  <2>1. /\ hand.at = "move" /\ running' = running /\ broker' = [broker EXCEPT ![hand.id] = EmptyMq]
        /\ hand' = [hand EXCEPT !.at = "erase", !.custom = mq.custom]
        /\ mq.default = << >>
    BY <1>5 DEF MoveOut, At
  <2>2. hand' # Nothing /\ hand'.custom = mq.custom
    <3>1. hand.id = Ext => hand \in ExtHands /\ mq \in ExtQueues
      BY <1>1, <1>3, <2>1, HandTypes DEF TypeInv, BrokerTypes, Known
    <3>2. hand.id = Member => hand \in MemberHands /\ mq \in MemberQueues
      BY <1>1, <1>3, <2>1, HandTypes DEF TypeInv, BrokerTypes, Known
    <3>3. hand' \in Hands /\ hand'.custom = mq.custom
      BY <1>1, <2>1, <3>1, <3>2 DEF Hands, ExtHands, MemberHands, ExtQueues, MemberQueues, Places
    <3> QED  BY <3>3, Somethings
  <2>3. AtHand' = mq.custom
    BY <2>2 DEF AtHand
  <2>4. RunsSame
    BY <2>1 DEF RunsSame, Runs
  <2>5. CASE hand.id = Ext
    <3>1. /\ Kept(Ext) = mq /\ Known(Ext)
          /\ Kept(Ext)'.default = << >> /\ Kept(Ext)'.custom = << >>
      BY <1>3, <2>1, <2>5, Names DEF Kept, Known, EmptyMq, TypeInv, BrokerTypes
    <3> HIDE DEF mq
    <3>2. OneRuns'
      BY <2>1, <3>1 DEF OneRuns
    <3>3. /\ RunsNone' <=> RunsNone
          /\ RunsReady' <=> RunsReady
          /\ \A on \in BOOLEAN : RunsTells(on)' <=> RunsTells(on)
      BY <2>4 DEF RunsSame, RunsNone, RunsReady, RunsTells
    <3>4. Kept(Ext).default = << >> /\ AtHand = << >> /\ AtHand' = Kept(Ext).custom
      BY <1>2, <1>3, <2>1, <2>3, <3>1
    <3>5. \A on \in BOOLEAN : Told(on) => Told(on)'
      BY <1>1, <3>1, <3>3, <3>4, Nothings, NoneTells DEF Told
    <3>6. (Arrived' => Arrived) /\ (ReadyComes => ReadyComes')
      BY <1>1, <3>1, <3>3, <3>4, Nothings DEF Arrived, ReadyComes
    <3> QED  BY <3>2, <3>5, <3>6 DEF Carries
  <2>6. CASE hand.id = Member
    <3>1. Kept(Ext)' = Kept(Ext) /\ (Known(Ext)' <=> Known(Ext))
      BY <1>1, <2>1, <2>6, Names DEF Kept, Known, TypeInv, BrokerTypes
    <3>2. mq.custom = << >>
      BY <1>1, <1>3, <2>1, <2>6 DEF TypeInv, BrokerTypes, MemberQueues, Known
    <3>3. AtHand' = AtHand
      BY <1>2, <1>3, <2>3, <2>6, <3>2
    <3>4. OneRuns'
      BY <2>1, <3>1, <3>3 DEF OneRuns
    <3> QED  BY <1>1, <2>4, <3>1, <3>3, <3>4, RestCarries
  <2> QED  BY <1>1, <2>5, <2>6
<1>6. CASE Erase
  <2>1. /\ hand.at = "erase" /\ running' = running /\ broker' = [broker EXCEPT ![hand.id] = Nothing]
        /\ hand' = [hand EXCEPT !.at = "custom"]
        /\ broker[hand.id].default = << >> /\ broker[hand.id].custom = << >>
    BY <1>6 DEF Erase, At
  <2>2. AtHand' = AtHand
    <3>1. hand' \in Hands /\ hand'.custom = hand.custom
      BY <1>1, <2>1, HandTypes DEF Hands, ExtHands, MemberHands, Places
    <3> QED  BY <1>2, <3>1, Somethings DEF AtHand
  <2>3. RunsSame
    BY <2>1 DEF RunsSame, Runs
  <2>4. Kept(Ext)'.default = Kept(Ext).default /\ Kept(Ext)'.custom = Kept(Ext).custom
        /\ (Known(Ext)' => Known(Ext))
    <3>1. hand.id = Ext => broker'[Ext] = Nothing
      BY <1>1, <2>1, Names DEF TypeInv, BrokerTypes
    <3>2. hand.id = Member => broker'[Ext] = broker[Ext]
      BY <1>1, <2>1, Names DEF TypeInv, BrokerTypes
    <3> QED  BY <1>1, <1>3, <2>1, <3>1, <3>2 DEF Kept, Known, EmptyMq
  <2>5. OneRuns'
    BY <2>1, <2>2, <2>4 DEF OneRuns
  <2>6. /\ RunsNone' <=> RunsNone
        /\ RunsReady' <=> RunsReady
        /\ \A on \in BOOLEAN : RunsTells(on)' <=> RunsTells(on)
    BY <2>3 DEF RunsSame, RunsNone, RunsReady, RunsTells
  <2>7. \A on \in BOOLEAN : Told(on) => Told(on)'
    BY <1>1, <2>2, <2>4, <2>6 DEF Told
  <2>8. (Arrived' => Arrived) /\ (ReadyComes => ReadyComes')
    BY <1>1, <2>2, <2>4, <2>6 DEF Arrived, ReadyComes
  <2> QED  BY <2>5, <2>7, <2>8 DEF Carries
<1>7. CASE InvokeCustom
  <2> DEFINE q == hand.custom
             first == Head(q)
  <2>1. /\ q # << >> /\ running["receiver"] = Nothing /\ broker' = broker
        /\ running' = [running EXCEPT !["scheduler"] = first]
        /\ hand' = [hand EXCEPT !.custom = Tail(q)]
    BY <1>7 DEF InvokeCustom, At, Unlocked, Run
  <2>2. hand.id = Ext /\ hand \in ExtHands /\ q \in Seq(ExtMessages) /\ AtHand = q
    BY <1>1, <1>2, <1>3, <2>1, HandTypes
  <2>3. first \in ExtMessages /\ Tail(q) \in Seq(ExtMessages)
    BY <2>1, <2>2, TakenOff
  <2>4. Starts(q, first, Tail(q))
    <3>1. first.id = Ext
      BY <2>3, ExtBodies
    <3> QED  BY <2>1, <2>2, <3>1, Before
  <2>5. AtHand' = Tail(q)
    <3>1. hand' \in ExtHands /\ hand'.custom = Tail(q)
      BY <2>1, <2>2, <2>3 DEF ExtHands
    <3> QED  BY <3>1, Somethings DEF AtHand, Hands
  <2> HIDE DEF q, first
  <2>6. running'["receiver"] = Nothing /\ running'["scheduler"] = first
    BY <2>1 DEF TypeInv, BrokerTypes
  <2>7. OneRuns' /\ ~Runs("receiver")' /\ ~Runs("receiver") /\ Runs("scheduler")'
    BY <2>1, <2>3, <2>6, ExtBodies DEF OneRuns, Runs
  <2>8. /\ ~RunsNone' /\ ~RunsReady
        /\ RunsReady' <=> first.body = "Ready"
        /\ \A on \in BOOLEAN : RunsTells(on)' <=> (first.body # "Disconnected" <=> on)
    BY <1>1, <2>6, <2>7 DEF RunsNone, RunsReady, RunsTells
  <2>9. Kept(Ext)' = Kept(Ext)
    BY <2>1 DEF Kept, Known
  <2>10. \A on \in BOOLEAN : Told(on) => Told(on)'
    BY <1>1, <2>2, <2>4, <2>5, <2>8, <2>9, NoneTells DEF Told, Starts
  <2>11. ~Arrived' /\ (ReadyComes => ReadyComes')
    BY <1>1, <2>2, <2>4, <2>5, <2>8, <2>9 DEF Arrived, ReadyComes, Starts
  <2> QED  BY <2>7, <2>10, <2>11 DEF Carries
<1> QED  BY <1>4, <1>5, <1>6, <1>7 DEF HandOverGoesOn

LEMMA TasksCarry ==
  ASSUME BaseInv, OneRuns, RunTasks, OutOfTasks, UNCHANGED extVars, ~undefined', ~raced'
  PROVE  Carries /\ ~raced
<1>1. TypeInv /\ ~undefined /\ Counted
  BY DEF BaseInv, RunTasks, RunInvoke, HandOver, NextTask, Idle, TestEmpty, MoveOut, Erase,
         InvokeCustom, HandedOver, At
<1>2. ~raced
  BY <1>1 DEF RunTasks, RunInvoke, HandOver, TestEmpty, MoveOut, Erase, InvokeCustom, HandedOver,
         TypeInv, BrokerTypes
<1>3. CASE RunInvoke
  BY <1>1, <1>2, <1>3, RunInvokeCarries
<1>4. CASE HandOver
  BY <1>1, <1>2, <1>4, HandOverCarries
<1>5. CASE HandOverGoesOn
  BY <1>1, <1>2, <1>5, GoesOnCarries
<1> QED  BY <1>3, <1>4, <1>5 DEF RunTasks, HandOverGoesOn

\* What the broker and the tasks start does not disturb what is executed.
LEMMA StillRunning ==
  ASSUME TypeInv, Dispatch \/ RunTasks, NEW t \in Threads, running[t] # Nothing
  PROVE  running'[t] = running[t]
<1>1. CASE Dispatch
  BY <1>1 DEF Dispatch, Unlocked, Deliver, Keep, Queue, Invoke, Follow, Run, TypeInv, BrokerTypes
<1>2. CASE RunTasks
  BY <1>2 DEF RunTasks, RunInvoke, HandOver, NextTask, Idle, TestEmpty, MoveOut, Erase,
              InvokeCustom, HandedOver, At, Run, TypeInv, BrokerTypes
<1> QED  BY <1>1, <1>2

LEMMA FlushKept ==
  ASSUME FlushComes, UNCHANGED <<connected, sendQ>>,
         \A t \in Threads : running[t] = ToExt(Flush) => running'[t] = running[t],
         peer'.connected => peer'.sendQ = << >>
  PROVE  FlushComes'
BY DEF FlushComes

LEMMA HandlesFlush ==
  ASSUME TypeInv, FlushComes, NEW t \in Threads, Handles(t)
  PROVE  FlushComes'
<1>1. peer' = peer /\ running[t] # Nothing /\ running \in [Threads -> Messages \cup {Nothing}]
  BY HandlesTypes DEF Handles, ReceiveReady, ReceiveCounterpart, ReceiveDisconnected, FlushQueue,
                      TypeInv, BrokerTypes
<1>2. CASE ReceiveReady(t) \/ ReceiveCounterpart(t)
  <2>1. /\ connected' = TRUE /\ sendQ' = sendQ /\ running[t].body # Flush
        /\ running' = [running EXCEPT ![t] = IF ~connected THEN ToExt(Flush) ELSE Nothing]
    BY <1>2 DEF ReceiveReady, ReceiveCounterpart, SetConnected, Run, Executing, Is
  <2>2. CASE connected
    <3>1. \A u \in Threads : running[u] = ToExt(Flush) => running'[u] = running[u]
      BY <1>1, <2>1, <2>2 DEF ToExt
    <3> QED  BY <1>1, <2>1, <2>2, <3>1 DEF FlushComes
  <2>3. CASE ~connected
    <3>1. running'[t] = ToExt(Flush)
      BY <1>1, <2>1, <2>3
    <3> QED  BY <1>1, <3>1 DEF FlushComes
  <2> QED  BY <2>2, <2>3
<1>3. CASE ReceiveDisconnected(t)
  BY <1>1, <1>3 DEF ReceiveDisconnected, SetConnected, FlushComes
<1>4. CASE FlushQueue(t)
  BY <1>1, <1>4 DEF FlushQueue, FlushComes
<1> QED  BY <1>2, <1>3, <1>4 DEF Handles

LEMMA PeerFlush ==
  ASSUME TypeInv, PeerNext, FlushComes
  PROVE  FlushComes'
<1>1. UNCHANGED <<connected, sendQ, running>> /\ peer \in Peers
  BY DEF PeerNext, PeerBinds, PeerUnbinds, PeerSends, PeerReceives, hostVars, TypeInv, ExtTypes
<1>2. \/ /\ peer.sendQ # << >> \/ ~peer.connected
         /\ \E n, q : peer' = [peer EXCEPT !.sent = n, !.sendQ = q]
      \/ \E n : peer' = [peer EXCEPT !.sent = n]
      \/ \E n : peer' = [peer EXCEPT !.bindings = n, !.bound = TRUE, !.connected = FALSE,
                                     !.sendQ = << >>]
      \/ peer' = [peer EXCEPT !.bound = FALSE]
      \/ peer' = [peer EXCEPT !.connected = TRUE, !.sendQ = << >>]
      \/ \E q : peer' = [peer EXCEPT !.heard = q]
      \/ peer' = [peer EXCEPT !.connected = FALSE]
      \/ peer' = peer
  BY DEF PeerNext, PeerBinds, PeerUnbinds, PeerSends, PeerReceives, PeerConnects, PeerHears
<1>3. peer'.connected => peer'.sendQ = << >>
  BY <1>1, <1>2 DEF Peers, FlushComes
<1> QED  BY <1>1, <1>3, FlushKept

LEMMA FlushKeeps ==
  ASSUME BaseInv, FlushComes, [ExtNext]_vars
  PROVE  FlushComes'
<1>0. TypeInv /\ ToExt(Flush) # Nothing
  BY Somethings DEF BaseInv
<1>1. CASE (Dispatch \/ RunTasks) /\ UNCHANGED extVars
  <2>1. UNCHANGED <<connected, sendQ, peer>>
    BY <1>1 DEF extVars, hostVars
  <2>2. \A t \in Threads : running[t] = ToExt(Flush) => running'[t] = running[t]
    BY <1>0, <1>1, StillRunning
  <2> QED  BY <2>1, <2>2 DEF FlushComes
<1>2. CASE Binds
  BY <1>2 DEF Binds, AdviseExt, SendReady, BindMember, UnbindMember, SendDisconnected, UnbindExt,
              brokerVars, FlushComes
<1>3. ASSUME NEW t \in Threads, Handles(t) PROVE FlushComes'
  BY <1>0, <1>3, HandlesFlush
<1>4. CASE ReceiveMember
  <2>1. \A t \in Threads : running[t] = ToExt(Flush) => running'[t] = running[t]
    BY <1>0, <1>4, Names DEF ReceiveMember, Run, ToExt, TypeInv, BrokerTypes
  <2> QED  BY <1>4, <2>1 DEF ReceiveMember, hostVars, FlushComes
<1>5. CASE MemberSends
  BY <1>5 DEF MemberSends, MustWait, brokerVars, FlushComes
<1>6. CASE PeerNext
  BY <1>0, <1>6, PeerFlush
<1>7. CASE UNCHANGED vars
  BY <1>7 DEF vars, brokerVars, extVars, hostVars, FlushComes
<1> QED
  BY <1>1, <1>2, <1>3, <1>4, <1>5, <1>6, <1>7 DEF ExtNext, Binds, Handles

-------------------------------------------------------------------------------
LEMMA EntryStays ==
  ASSUME EntryGoes, UNCHANGED <<broker, hand, undefined>>
  PROVE  EntryGoes'
BY DEF EntryGoes, Known

LEMMA DispatchEntry ==
  ASSUME TypeInv, EntryGoes, Dispatch
  PROVE  EntryGoes'
<1> DEFINE m == Head(incoming)
<1>1. m \in Sendable /\ Deliver(m) /\ UNCHANGED <<hand, undefined>>
  BY TakenOff DEF Dispatch, TypeInv, BrokerTypes
<1>2. m.id = Ext => m \in ExtMessages
  BY <1>1, Names DEF Sendable, MemberMessages
<1> HIDE DEF m
<1>3. CASE Keep(m)
  <2>1. CASE m.id = Ext
    <3>1. Kept(Ext)'.default = Append(Kept(Ext).default, m) /\ Known(Ext)'
      BY <1>1, <1>3, <2>1, KeepBroker
    <3>2. Append(Kept(Ext).default, m) # << >>
      <4>1. Kept(Ext).default \in Seq(ExtMessages)
        BY StreamTypes
      <4>2. Len(Append(Kept(Ext).default, m)) = Len(Kept(Ext).default) + 1
            /\ Len(Kept(Ext).default) \in Nat /\ Len(<< >>) = 0
        BY <1>2, <2>1, <4>1, Added, Lengths
      <4> QED  BY <4>2
    <3> QED  BY <3>1, <3>2 DEF EntryGoes, Kept, Known
  <2>2. CASE m.id # Ext
    <3>1. Kept(Ext)' = Kept(Ext) /\ (Known(Ext)' <=> Known(Ext))
      BY <1>1, <1>3, <2>2, KeepBroker, Names
    <3> QED  BY <1>1, <3>1 DEF EntryGoes, Kept, Known
  <2> QED  BY <2>1, <2>2
<1>4. CASE Queue(m) \/ Invoke(m)
  BY <1>1, <1>4, EntryStays DEF Queue, Invoke
<1>5. CASE Follow(m)
  <2>1. /\ m.id = Ext /\ Known(Ext) /\ broker' = [broker EXCEPT ![Ext].custom = Append(@, m)]
    BY <1>5, Names DEF Follow
  <2>2. broker'[Ext].default = broker[Ext].default
    <3>1. broker[Ext] \in ExtQueues
      BY <2>1 DEF Known, TypeInv, BrokerTypes
    <3> QED  BY <2>1, <3>1, Names DEF TypeInv, BrokerTypes, ExtQueues
  <2> QED  BY <1>1, <2>1, <2>2 DEF EntryGoes, Known
<1> QED  BY <1>1, <1>3, <1>4, <1>5 DEF Deliver

LEMMA TasksEntry ==
  ASSUME TypeInv, EntryGoes, RunTasks
  PROVE  EntryGoes'
<1>1. CASE RunInvoke
  BY <1>1, EntryStays DEF RunInvoke
<1>2. CASE HandOver
  <2> DEFINE id == Head(tasks).id
  <2>1. /\ id \in Entities /\ hand = Nothing /\ ~undefined
        /\ hand' = [at |-> "test", id |-> id, custom |-> << >>]
        /\ broker' = [broker EXCEPT ![id].default = Tail(broker[id].default)]
    BY <1>2, TakenOff DEF HandOver, NextTask, Idle, TypeInv, BrokerTypes, Tasks, HandOverTasks,
                          InvokeTasks
  <2> HIDE DEF id
  <2>2. hand' # Nothing
    <3>1. hand' \in Hands
      <4>1. << >> \in Seq(ExtMessages)
        BY EmptySeq
      <4> QED  BY <2>1, <4>1, Names DEF Hands, ExtHands, MemberHands, Places
    <3> QED  BY <3>1, Somethings
  <2>3. id # Ext => broker'[Ext] = broker[Ext]
    BY <2>1, Names DEF TypeInv, BrokerTypes
  <2> QED  BY <2>1, <2>2, <2>3 DEF EntryGoes, Known
<1>3. CASE HandOverGoesOn
  <2>1. hand # Nothing /\ hand.id \in Entities /\ hand \in Hands /\ ~undefined
    BY <1>3, HandTypes
       DEF HandOverGoesOn, TestEmpty, MoveOut, Erase, InvokeCustom, HandedOver, At,
           TypeInv, BrokerTypes
  <2>2. CASE TestEmpty
    <3>1. /\ hand.at = "test" /\ broker' = broker /\ undefined' = undefined
          /\ hand' = IF broker[hand.id].default = << >> THEN [hand EXCEPT !.at = "move"]
                                                        ELSE Nothing
      BY <2>2 DEF TestEmpty, At
    <3>2. broker[hand.id].default = << >> =>
            hand'.at = "move" /\ hand'.id = hand.id /\ hand' \in Hands
      BY <2>1, <3>1 DEF Hands, ExtHands, MemberHands, Places
    <3> QED  BY <2>1, <3>1, <3>2, Somethings DEF EntryGoes, Known
  <2>3. CASE MoveOut
    <3>1. /\ hand.at = "move" /\ broker' = [broker EXCEPT ![hand.id] = EmptyMq]
          /\ hand' = [hand EXCEPT !.at = "erase", !.custom = broker[hand.id].custom]
      BY <2>3 DEF MoveOut, At
    <3>2. hand'.at = "erase" /\ hand'.id = hand.id
      BY <2>1, <3>1 DEF Hands, ExtHands, MemberHands
    <3>3. hand' # Nothing
      <4>1. Known(hand.id)
        BY <2>1, <3>1 DEF TypeInv, HandAt
      <4>2. hand.id = Ext => hand \in ExtHands /\ broker[hand.id] \in ExtQueues
        BY <2>1, <4>1, HandTypes DEF TypeInv, BrokerTypes, Known
      <4>3. hand.id = Member => hand \in MemberHands /\ broker[hand.id] \in MemberQueues
        BY <2>1, <4>1, HandTypes DEF TypeInv, BrokerTypes, Known
      <4>4. hand' \in Hands
        BY <2>1, <3>1, <4>2, <4>3, Names
           DEF Hands, ExtHands, MemberHands, ExtQueues, MemberQueues, Places
      <4> QED  BY <4>4, Somethings
    <3>4. hand.id # Ext => broker'[Ext] = broker[Ext]
      BY <2>1, <3>1, Names DEF TypeInv, BrokerTypes
    <3> QED  BY <2>1, <3>2, <3>3, <3>4 DEF EntryGoes, Known
  <2>4. CASE Erase
    <3>1. /\ broker' = [broker EXCEPT ![hand.id] = Nothing] /\ hand' = [hand EXCEPT !.at = "custom"]
      BY <2>4 DEF Erase, At
    <3>2. broker'[Ext] = IF hand.id = Ext THEN Nothing ELSE broker[Ext]
      BY <2>1, <3>1, Names DEF TypeInv, BrokerTypes
    <3> QED  BY <2>1, <3>2 DEF EntryGoes, Known
  <2>5. CASE InvokeCustom \/ HandedOver
    BY <2>1, <2>5 DEF InvokeCustom, HandedOver, At, EntryGoes, Known
  <2> QED  BY <1>3, <2>2, <2>3, <2>4, <2>5 DEF HandOverGoesOn
<1> QED  BY <1>1, <1>2, <1>3 DEF RunTasks, HandOverGoesOn

LEMMA EntryKeeps ==
  ASSUME BaseInv, EntryGoes, [ExtNext]_vars
  PROVE  EntryGoes'
<1>0. TypeInv
  BY DEF BaseInv
<1>1. CASE Dispatch
  BY <1>0, <1>1, DispatchEntry
<1>2. CASE RunTasks
  BY <1>0, <1>2, TasksEntry
<1>3. CASE Binds \/ ReceiveMember \/ MemberSends \/ PeerNext
  BY <1>0, <1>3, BindTypes, ReceiveMemberTypes, MemberSendsTypes, PeerTypes, EntryStays
     DEF BrokerRests
<1>4. ASSUME NEW t \in Threads, Handles(t) PROVE EntryGoes'
  BY <1>0, <1>4, HandlesTypes, EntryStays DEF BrokerRests
<1>5. CASE UNCHANGED vars
  BY <1>5, EntryStays DEF vars, brokerVars
<1> QED
  BY <1>1, <1>2, <1>3, <1>4, <1>5 DEF ExtNext, Binds, Handles

-------------------------------------------------------------------------------
(***************************************************************************)
(* The handshake step by step.                                             *)
(***************************************************************************)
LEMMA ToldNext ==
  ASSUME NEW on, peer'.bound = on
  PROVE  Told(peer.bound)' <=> Told(on)'
BY DEF Told, RunsTells

LEMMA CarriedOn ==
  ASSUME TypeInv, Shake, Carries, UNCHANGED <<binding, connected, outgoing, peer>>
  PROVE  Shake'
<1>1. PICK on \in BOOLEAN : on = peer.bound
  BY DEF TypeInv, ExtTypes, Peers
<1>2. Told(on)
  BY <1>1 DEF Shake
<1>3. Told(peer.bound)'
  <2>1. Told(on)'
    BY <1>2 DEF Carries
  <2> QED  BY <1>1, <2>1, ToldNext
<1>4. HostFollows'
  BY DEF Shake, HostFollows, Carries
<1>5. PeerFollows'
  BY DEF Shake, PeerFollows, Carries
<1> QED  BY <1>3, <1>4, <1>5 DEF Shake, Carries

\* Neither the stream nor what the counterpart has told changes.
LEMMA ToldRests ==
  ASSUME TypeInv, Told(peer.bound), StreamSame, peer'.bound = peer.bound
  PROVE  Told(peer.bound)'
<1>1. PICK on \in BOOLEAN : on = peer.bound
  BY DEF TypeInv, ExtTypes, Peers
<1>2. Told(on)'
  BY <1>1 DEF StreamSame
<1> QED  BY <1>1, <1>2, ToldNext

LEMMA BrokerStill ==
  ASSUME BrokerRests, OneRuns
  PROVE  /\ Kept(Ext)' = Kept(Ext) /\ AtHand' = AtHand
         /\ undefined' = undefined /\ raced' = raced
         /\ running' = running => OneRuns' /\ RunsSame
BY DEF BrokerRests, Kept, Known, AtHand, OneRuns, RunsSame, Runs

LEMMA BindShake ==
  ASSUME TypeInv, Binds, Shake
  PROVE  Shake'
<1>1. BrokerRests /\ UNCHANGED <<incoming, running, peer>>
  BY BindTypes DEF Binds, AdviseExt, SendReady, BindMember, UnbindMember, SendDisconnected,
                   UnbindExt, brokerVars
<1>2. StreamSame /\ OneRuns'
  BY <1>1, BrokerStill, AlikeItself, StreamRests DEF Shake
<1>3. Told(peer.bound)'
  BY <1>1, <1>2, ToldRests DEF Shake
<1>4. outgoing \in Seq(Sendable)
  BY StreamTypes
<1>5. CASE AdviseExt
  <2>1. binding' = "advised" /\ connected' = FALSE
    BY <1>5 DEF AdviseExt
  <2> QED  BY <1>2, <1>3, <2>1 DEF Shake, HostFollows, PeerFollows
<1>6. CASE SendReady
  <2>1. /\ binding = "advised" /\ binding' = "ready" /\ connected' = connected
        /\ outgoing' = outgoing \o <<ToExt("Ready")>>
    BY <1>6 DEF SendReady, Put
  <2>2. Ends(outgoing', outgoing, ToExt("Ready")) /\ ToExt("Ready").body = "Ready"
    BY <1>4, <2>1, StateEnds DEF States
  <2>3. LastTells(outgoing', TRUE) /\ HasReady(outgoing') /\ ~None(outgoing')
    BY <2>2 DEF Ends
  <2> QED  BY <1>1, <1>2, <1>3, <2>1, <2>3 DEF Shake, HostFollows, PeerFollows, StreamSame
<1>7. CASE BindMember
  <2>1. binding = "ready" /\ binding' = "bound" /\ UNCHANGED <<connected, outgoing>>
    BY <1>7 DEF BindMember
  <2> QED  BY <1>1, <1>2, <1>3, <2>1 DEF Shake, HostFollows, PeerFollows, StreamSame
<1>8. CASE UnbindMember
  <2>1. binding = "bound" /\ binding' = "leaving" /\ UNCHANGED <<connected, outgoing>>
    BY <1>8 DEF UnbindMember
  <2> QED  BY <1>1, <1>2, <1>3, <2>1 DEF Shake, HostFollows, PeerFollows, StreamSame
<1>9. CASE SendDisconnected
  <2>1. binding = "leaving" /\ binding' = "left" /\ connected' = connected
    BY <1>9 DEF SendDisconnected
  <2> QED  BY <1>1, <1>2, <1>3, <2>1 DEF Shake, HostFollows, PeerFollows, StreamSame
<1>10. CASE UnbindExt
  <2>1. binding = "left" /\ binding' = "unbound" /\ UNCHANGED <<connected, outgoing>>
    BY <1>10 DEF UnbindExt
  <2> QED  BY <1>1, <1>2, <1>3, <2>1 DEF Shake, HostFollows, PeerFollows, StreamSame
<1> QED  BY <1>5, <1>6, <1>7, <1>8, <1>9, <1>10 DEF Binds

\* on_wire_received: what it has been told by the last message of the stream is so.
LEMMA HandlesShake ==
  ASSUME TypeInv, NEW t \in Threads, Handles(t), Shake
  PROVE  Shake'
<1>1. /\ BrokerRests /\ UNCHANGED <<incoming, binding, peer>>
      /\ running[t] # Nothing /\ running[t].id = Ext
      /\ outgoing \in Seq(Sendable)
  BY HandlesTypes, StreamTypes
     DEF Handles, ReceiveReady, ReceiveCounterpart, ReceiveDisconnected, FlushQueue
<1>2. PICK x \in {Nothing, ToExt(Flush)} : running' = [running EXCEPT ![t] = x]
  BY HandlesTypes
<1>3. Kept(Ext)' = Kept(Ext) /\ AtHand' = AtHand
  BY <1>1, BrokerStill DEF Shake
<1>4. x # Nothing => x.id = Ext /\ x.body = Flush
  BY DEF ToExt
<1>5. /\ ~Runs(t)'
      /\ \A u \in Threads : u # t => running'[u] = running[u] /\ (Runs(u)' <=> Runs(u))
  <2>1. \A u \in Threads : running'[u] = IF u = t THEN x ELSE running[u]
    BY <1>2 DEF TypeInv, BrokerTypes
  <2> QED  BY <1>4, <2>1 DEF Runs
<1>6. OneRuns'
  <2>1. running'["receiver"] # Nothing => running["receiver"] # Nothing
    BY <1>1, <1>2, <1>5
  <2>2. OneRuns /\ (Known(Ext)' <=> Known(Ext))
    BY <1>1 DEF Shake, BrokerRests, Known
  <2>3. running'["receiver"] # Nothing /\ running'["scheduler"] # Nothing =>
          running'["scheduler"].id # Ext
    <3>1. CASE t = "receiver"
      BY <1>1, <1>5, <2>2, <3>1 DEF OneRuns
    <3>2. CASE t = "scheduler"
      BY <1>1, <1>5, <2>2, <3>2 DEF OneRuns
    <3> QED  BY <3>1, <3>2
  <2> QED  BY <1>3, <2>1, <2>2, <2>3 DEF OneRuns
<1>7. PICK on \in BOOLEAN : on = peer.bound
  BY DEF TypeInv, ExtTypes, Peers
<1>8. Told(on)
  BY <1>7 DEF Shake
<1>9. Told(peer.bound)'
  <2>1. RunsTells(on) => RunsTells(on)'
    BY <1>5 DEF RunsTells
  <2>2. Told(on)'
    BY <1>1, <1>3, <1>8, <2>1 DEF Told
  <2> QED  BY <1>1, <1>7, <2>2, ToldNext
<1>10. Arrived' /\ Runs(t) => (running[t].body # "Disconnected" <=> on)
  BY <1>1, <1>3, <1>8 DEF Arrived, Told, RunsTells
<1>11. running[t].body # "Ready" /\ ReadyComes => ReadyComes'
  BY <1>1, <1>3, <1>5 DEF ReadyComes, RunsReady
<1>12. CASE ReceiveReady(t)
  <2>1. /\ running[t].body = "Ready" /\ connected' = TRUE
        /\ outgoing' = outgoing \o <<ToExt("ReceivedCounterpart")>>
    BY <1>12 DEF ReceiveReady, Executing, Is, Put, SetConnected
  <2>2. Runs(t)
    BY <1>1, <2>1 DEF Runs
  <2>3. /\ Ends(outgoing', outgoing, ToExt("ReceivedCounterpart"))
        /\ ToExt("ReceivedCounterpart").body = "ReceivedCounterpart"
    BY <1>1, <2>1, StateEnds DEF States
  <2>4. LastTells(outgoing', TRUE) /\ ~None(outgoing')
    BY <2>3 DEF Ends
  <2> QED
    BY <1>1, <1>6, <1>7, <1>9, <1>10, <2>1, <2>2, <2>4 DEF Shake, HostFollows, PeerFollows
<1>13. CASE ReceiveCounterpart(t)
  <2>1. running[t].body = "ReceivedCounterpart" /\ connected' = TRUE /\ outgoing' = outgoing
    BY <1>13 DEF ReceiveCounterpart, Executing, Is, SetConnected
  <2>2. Runs(t)
    BY <1>1, <2>1 DEF Runs
  <2> QED
    BY <1>1, <1>6, <1>7, <1>9, <1>10, <1>11, <2>1, <2>2 DEF Shake, HostFollows, PeerFollows
<1>14. CASE ReceiveDisconnected(t)
  <2>1. running[t].body = "Disconnected" /\ connected' = FALSE /\ outgoing' = outgoing
    BY <1>14 DEF ReceiveDisconnected, Executing, Is, SetConnected
  <2>2. Runs(t)
    BY <1>1, <2>1 DEF Runs
  <2> QED
    BY <1>1, <1>6, <1>7, <1>9, <1>10, <1>11, <2>1, <2>2 DEF Shake, HostFollows, PeerFollows
<1>15. CASE FlushQueue(t)
  <2>1. /\ running[t].body = Flush /\ connected' = connected
        /\ outgoing' = outgoing \o Carry(sendQ) /\ sendQ \in Seq(Nat)
    BY <1>15 DEF FlushQueue, Executing, Is, Put, TypeInv, ExtTypes
  <2>2. ~Runs(t)
    BY <2>1 DEF Runs
  <2>3. RunsSame
    BY <1>5, <2>2 DEF RunsSame
  <2>4. StreamSame
    BY <1>1, <1>3, <2>3, AlikeItself, StreamRests
  <2>5. Alike(outgoing', outgoing)
    BY <1>1, <2>1, CarryAlike
  <2> QED
    BY <1>1, <1>6, <1>9, <2>1, <2>4, <2>5
       DEF Shake, HostFollows, PeerFollows, StreamSame, Alike
<1> QED  BY <1>12, <1>13, <1>14, <1>15 DEF Handles

LEMMA ReceiveMemberShake == ASSUME TypeInv, ReceiveMember, Shake PROVE Shake'
<1>1. /\ BrokerRests /\ UNCHANGED <<incoming, binding, connected, outgoing, peer>>
      /\ running["scheduler"].id = Member
      /\ running'["receiver"] = running["receiver"] /\ running'["scheduler"] = Nothing
  BY ReceiveMemberTypes DEF ReceiveMember, Unmoved, hostVars, Run, TypeInv, BrokerTypes
<1>2. RunsSame
  BY <1>1, Names DEF RunsSame, Runs
<1>3. OneRuns'
  BY <1>1, BrokerStill DEF Shake, OneRuns, BrokerRests, Known
<1>4. StreamSame
  BY <1>1, <1>2, BrokerStill, AlikeItself, StreamRests DEF Shake
<1>5. Told(peer.bound)'
  BY <1>1, <1>4, ToldRests DEF Shake
<1> QED  BY <1>1, <1>3, <1>4, <1>5 DEF Shake, HostFollows, PeerFollows, StreamSame

LEMMA MemberSendsShake == ASSUME TypeInv, MemberSends, Shake PROVE Shake'
<1>1. /\ BrokerRests /\ UNCHANGED <<incoming, running, binding, connected, peer>>
      /\ sent' \in Nat /\ outgoing \in Seq(Sendable)
      /\ outgoing' = outgoing \/ outgoing' = outgoing \o <<ToMember(sent')>>
  BY MemberSendsTypes, StreamTypes DEF MemberSends, Put, brokerVars, TypeInv, ExtTypes
<1>2. StreamSame /\ OneRuns'
  BY <1>1, BrokerStill, AlikeItself, StreamRests DEF Shake
<1>3. Told(peer.bound)'
  BY <1>1, <1>2, ToldRests DEF Shake
<1>4. Alike(outgoing', outgoing)
  BY <1>1, AlikeItself, NumberAlike
<1> QED  BY <1>1, <1>2, <1>3, <1>4 DEF Shake, HostFollows, PeerFollows, StreamSame, Alike

LEMMA PeerShake ==
  ASSUME TypeInv, PeerNext, Shake
  PROVE  Shake'
<1>1. /\ BrokerRests /\ UNCHANGED <<running, binding, connected>>
      /\ incoming \in Seq(Sendable) /\ outgoing \in Seq(Sendable)
      /\ peer \in Peers /\ peer.sendQ \in Seq(Nat) /\ peer.sent \in Nat
  BY PeerTypes, StreamTypes
     DEF PeerNext, PeerBinds, PeerUnbinds, PeerSends, PeerReceives, hostVars, TypeInv, ExtTypes,
         Peers
<1>2. Kept(Ext)' = Kept(Ext) /\ AtHand' = AtHand /\ OneRuns' /\ RunsSame
  BY <1>1, BrokerStill DEF Shake
\* The counterpart announces its end.
<1>3. ASSUME NEW s \in States, incoming' = incoming \o <<ToExt(s)>>
      PROVE  StreamEnds(ToExt(s)) /\ ToExt(s).body = s
  <2>1. Ends(incoming', incoming, ToExt(s)) /\ ToExt(s).body = s
    BY <1>1, <1>3, StateEnds
  <2> QED  BY <1>2, <2>1, StreamGrows
<1>4. ASSUME Alike(incoming', incoming) PROVE StreamSame
  BY <1>2, <1>4, StreamRests
<1>5. CASE PeerBinds
  <2>1. /\ incoming' = incoming \o <<ToExt("Ready")>> /\ outgoing' = outgoing
        /\ peer' = [peer EXCEPT !.bindings = @ + 1, !.bound = TRUE, !.connected = FALSE,
                                !.sendQ = << >>]
    BY <1>5 DEF PeerBinds, Reply
  <2>2. peer'.bound = TRUE
    BY <1>1, <2>1 DEF Peers
  <2>3. ~Arrived' /\ ReadyComes' /\ Told(TRUE)'
    BY <1>3, <2>1 DEF States, StreamEnds
  <2>4. Told(peer.bound)'
    BY <2>2, <2>3, ToldNext
  <2> QED  BY <1>1, <1>2, <2>1, <2>3, <2>4 DEF Shake, HostFollows, PeerFollows
<1>6. CASE PeerUnbinds
  <2>1. /\ incoming' = incoming \o <<ToExt("Disconnected")>> /\ outgoing' = outgoing
        /\ peer' = [peer EXCEPT !.bound = FALSE]
    BY <1>6 DEF PeerUnbinds, Reply
  <2>2. peer'.bound = FALSE
    BY <1>1, <2>1 DEF Peers
  <2>3. ~Arrived' /\ Told(FALSE)'
    BY <1>3, <2>1 DEF States, StreamEnds
  <2>4. Told(peer.bound)'
    BY <2>2, <2>3, ToldNext
  <2> QED  BY <1>1, <1>2, <2>1, <2>2, <2>3, <2>4 DEF Shake, HostFollows, PeerFollows
<1>7. CASE PeerSends
  <2> DEFINE n == peer.sent + 1
  <2>1. /\ outgoing' = outgoing
        /\ incoming' = incoming \/ incoming' = incoming \o <<ToMember(n)>>
        /\ \/ peer' = [peer EXCEPT !.sent = n, !.sendQ = Append(@, n)]
           \/ peer' = [peer EXCEPT !.sent = n]
    BY <1>7 DEF PeerSends, Reply
  <2>2. peer'.bound = peer.bound /\ peer'.connected = peer.connected
    BY <1>1, <2>1 DEF Peers
  <2>3. n \in Nat
    BY <1>1
  <2> HIDE DEF n
  <2>4. Alike(incoming', incoming)
    BY <1>1, <2>1, <2>3, AlikeItself, NumberAlike
  <2>5. StreamSame /\ Told(peer.bound)'
    BY <1>4, <2>2, <2>4, ToldRests DEF Shake
  <2> QED
    BY <1>1, <1>2, <2>1, <2>2, <2>5 DEF Shake, HostFollows, PeerFollows, StreamSame
<1>8. CASE PeerReceives
  <2> DEFINE m == Head(outgoing)
  <2>1. /\ m \in Sendable
        /\ m.id = Ext => Starts(outgoing, m, outgoing')
        /\ m.id # Ext => Alike(outgoing', outgoing)
    BY <1>1, <1>8, TakenOff, Before DEF PeerReceives
  <2>2. \/ ~peer.bound /\ UNCHANGED <<incoming, peer>>
        \/ peer.bound /\ Is(m, "Ready") /\ PeerConnects(<<ToExt("ReceivedCounterpart")>>)
        \/ peer.bound /\ Is(m, "ReceivedCounterpart") /\ PeerConnects(<< >>)
        \/ /\ Is(m, "Disconnected") /\ incoming' = incoming
           /\ peer' = [peer EXCEPT !.connected = FALSE]
        \/ m.id = Member /\ PeerHears(m.body)
    BY <1>8 DEF PeerReceives
  <2> HIDE DEF m
  <2>3. /\ LastTells(outgoing, TRUE) => LastTells(outgoing', TRUE)
        /\ ~(m.id = Ext /\ m.body = "Ready") => (HasReady(outgoing') <=> HasReady(outgoing))
        /\ m.id # Ext => (None(outgoing') <=> None(outgoing))
    BY <2>1, NoneTells DEF Starts, Alike
  <2>4. CASE ~peer.bound /\ UNCHANGED <<incoming, peer>>
    <3>1. StreamSame /\ Told(peer.bound)'
      BY <1>4, <2>4, AlikeItself, ToldRests DEF Shake
    <3> QED
      BY <1>1, <1>2, <2>3, <2>4, <3>1 DEF Shake, HostFollows, PeerFollows, StreamSame
  <2>5. ASSUME peer.bound, PeerConnects(<<ToExt("ReceivedCounterpart")>>)
        PROVE  Shake'
    <3> DEFINE c == Carry(peer.sendQ)
               q == incoming \o <<ToExt("ReceivedCounterpart")>>
    <3>1. incoming' = incoming \o (<<ToExt("ReceivedCounterpart")>> \o c)
          /\ peer' = [peer EXCEPT !.connected = TRUE, !.sendQ = << >>]
      BY <2>5 DEF PeerConnects, Reply
    <3>2. c \in Seq(Sendable) /\ <<ToExt("ReceivedCounterpart")>> \in Seq(Sendable)
      BY <1>1, CarryTypes, PutTypes DEF States
    <3>3. q \in Seq(Sendable)
      BY <1>1, <3>2, Joined
    <3>4. Alike(q \o c, q)
      BY <1>1, <3>3, CarryAlike
    <3>5. Ends(q, incoming, ToExt("ReceivedCounterpart"))
          /\ ToExt("ReceivedCounterpart").body = "ReceivedCounterpart"
      BY <1>1, StateEnds DEF States
    <3> HIDE DEF c
    <3>6. incoming' = q \o c
      BY <1>1, <3>1, <3>2, ConcatAssociative, SMTT(30)
    <3> HIDE DEF q
    <3>7. Ends(incoming', incoming, ToExt("ReceivedCounterpart"))
      BY <3>4, <3>5, <3>6 DEF Ends, Alike
    <3>8. StreamEnds(ToExt("ReceivedCounterpart"))
      BY <1>2, <3>7, StreamGrows
    <3>9. ~Arrived' /\ Told(TRUE)'
      BY <3>5, <3>8 DEF StreamEnds
    <3>10. peer'.bound = TRUE /\ peer'.connected
      BY <1>1, <2>5, <3>1 DEF Peers
    <3>11. Told(peer.bound)'
      BY <3>9, <3>10, ToldNext
    <3> QED
      BY <1>1, <1>2, <2>3, <3>9, <3>10, <3>11 DEF Shake, HostFollows, PeerFollows
  <2>6. ASSUME peer.bound, m.body # "Ready", PeerConnects(<< >>)
        PROVE  Shake'
    <3> DEFINE c == Carry(peer.sendQ)
    <3>1. incoming' = incoming \o (<< >> \o c)
          /\ peer' = [peer EXCEPT !.connected = TRUE, !.sendQ = << >>]
      BY <2>6 DEF PeerConnects, Reply
    <3>2. c \in Seq(Sendable) /\ Alike(incoming \o c, incoming)
      BY <1>1, CarryTypes, CarryAlike
    <3> HIDE DEF c
    <3>3. << >> \o c = c
      BY <3>2, ConcatEmptySeq
    <3>4. peer'.bound = peer.bound /\ peer'.connected
      BY <1>1, <3>1 DEF Peers
    <3>5. StreamSame /\ Told(peer.bound)'
      BY <1>4, <3>1, <3>2, <3>3, <3>4, ToldRests DEF Shake
    <3> QED
      BY <1>1, <1>2, <2>3, <2>6, <3>4, <3>5 DEF Shake, HostFollows, PeerFollows, StreamSame
  <2>7. ASSUME Is(m, "Disconnected"), incoming' = incoming,
               peer' = [peer EXCEPT !.connected = FALSE]
        PROVE  Shake'
    <3>1. peer'.bound = peer.bound
      BY <1>1, <2>7 DEF Peers
    <3>2. StreamSame /\ Told(peer.bound)'
      BY <1>4, <2>7, <3>1, AlikeItself, ToldRests DEF Shake
    \* Not the last one while the extension is bound.
    <3>3. LastTells(outgoing, TRUE) => ~None(outgoing')
      BY <2>1, <2>7 DEF Starts, Is
    <3> QED
      BY <1>1, <1>2, <2>3, <2>7, <3>1, <3>2, <3>3
         DEF Shake, HostFollows, PeerFollows, StreamSame, Is
  <2>8. ASSUME m.id = Member, PeerHears(m.body) PROVE Shake'
    <3>1. incoming' = incoming /\ peer' = [peer EXCEPT !.heard = Append(@, m.body)]
      BY <2>8 DEF PeerHears
    <3>2. peer'.bound = peer.bound /\ peer'.connected = peer.connected
      BY <1>1, <3>1 DEF Peers
    <3>3. StreamSame /\ Told(peer.bound)'
      BY <1>4, <3>1, <3>2, AlikeItself, ToldRests DEF Shake
    <3> QED
      BY <1>1, <1>2, <2>3, <2>8, <3>2, <3>3, Names
         DEF Shake, HostFollows, PeerFollows, StreamSame
  <2> QED  BY <2>2, <2>4, <2>5, <2>6, <2>7, <2>8 DEF Is
<1> QED  BY <1>5, <1>6, <1>7, <1>8 DEF PeerNext

ShakeInv == EntryGoes /\ FlushComes /\ (~undefined /\ ~raced => Shake)

LEMMA InitShake == ASSUME ExtInit PROVE ShakeInv
<1>1. /\ incoming = << >> /\ outgoing = << >> /\ binding = "unbound" /\ connected = FALSE
      /\ ~Known(Ext) /\ AtHand = << >> /\ running["receiver"] = Nothing
      /\ running["scheduler"] = Nothing /\ peer.bound = FALSE /\ peer.connected = FALSE
  BY Names DEF ExtInit, BrokerInit, Known, AtHand
<1>2. Kept(Ext).default = << >> /\ Kept(Ext).custom = << >>
  BY <1>1 DEF Kept, EmptyMq
<1>3. Told(peer.bound)
  BY <1>1, <1>2, Nothings DEF Told, RunsTells, Runs
<1> QED
  BY <1>1, <1>3 DEF ShakeInv, EntryGoes, FlushComes, Shake, OneRuns, HostFollows, PeerFollows

LEMMA ShakeKeeps ==
  ASSUME BaseInv, ShakeInv, [ExtNext]_vars
  PROVE  ShakeInv'
<1>1. EntryGoes' /\ FlushComes' /\ TypeInv
  BY EntryKeeps, FlushKeeps DEF ShakeInv, BaseInv
<1> SUFFICES ASSUME ~undefined', ~raced' PROVE Shake'
  BY <1>1 DEF ShakeInv
<1>2. CASE Dispatch /\ UNCHANGED extVars
  <2>1. ~undefined
    BY <1>2 DEF Dispatch
  <2>2. ~raced
    BY <1>2 DEF Dispatch, Deliver, Keep, Queue, Invoke, Follow, BaseInv, TypeInv, BrokerTypes
  <2>3. Shake
    BY <2>1, <2>2 DEF ShakeInv
  <2>4. Carries
    BY <1>1, <1>2, <2>3, DispatchCarries DEF Shake
  <2> QED  BY <1>1, <1>2, <2>3, <2>4, CarriedOn DEF extVars, hostVars
<1>3. CASE OutOfTasks /\ RunTasks /\ UNCHANGED extVars
  <2>1. ~undefined
    BY <1>3 DEF RunTasks, RunInvoke, HandOver, NextTask, Idle, TestEmpty, MoveOut, Erase,
                InvokeCustom, HandedOver, At
  <2>2. ~raced
    BY <1>1, <1>3 DEF RunTasks, RunInvoke, HandOver, TestEmpty, MoveOut, Erase, InvokeCustom,
                      HandedOver, TypeInv, BrokerTypes
  <2>3. Shake
    BY <2>1, <2>2 DEF ShakeInv
  <2>4. Carries
    BY <1>1, <1>3, <2>3, TasksCarry DEF Shake
  <2> QED  BY <1>1, <1>3, <2>3, <2>4, CarriedOn DEF extVars, hostVars
<1>4. CASE Binds
  <2>1. Shake
    BY <1>1, <1>4, BindTypes DEF BrokerRests, ShakeInv
  <2> QED  BY <1>1, <1>4, <2>1, BindShake
<1>5. ASSUME NEW t \in Threads, Handles(t) PROVE Shake'
  <2>1. Shake
    BY <1>1, <1>5, HandlesTypes DEF BrokerRests, ShakeInv
  <2> QED  BY <1>1, <1>5, <2>1, HandlesShake
<1>6. CASE ReceiveMember \/ MemberSends
  <2>1. Shake
    BY <1>1, <1>6, ReceiveMemberTypes, MemberSendsTypes DEF BrokerRests, ShakeInv
  <2> QED  BY <1>1, <1>6, <2>1, ReceiveMemberShake, MemberSendsShake
<1>7. CASE PeerNext
  <2>1. Shake
    BY <1>1, <1>7, PeerTypes DEF BrokerRests, ShakeInv
  <2> QED  BY <1>1, <1>7, <2>1, PeerShake
<1>8. CASE UNCHANGED vars
  <2>1. Shake
    BY <1>8 DEF vars, brokerVars, ShakeInv
  <2>2. BrokerRests /\ UNCHANGED <<incoming, running, binding, connected, outgoing, peer>>
    BY <1>8 DEF vars, brokerVars, extVars, hostVars, BrokerRests
  <2>3. StreamSame /\ OneRuns'
    BY <2>1, <2>2, BrokerStill, AlikeItself, StreamRests DEF Shake
  <2>4. Told(peer.bound)'
    BY <1>1, <2>1, <2>2, <2>3, ToldRests DEF Shake
  <2> QED
    BY <2>1, <2>2, <2>3, <2>4 DEF Shake, HostFollows, PeerFollows, StreamSame
<1> QED
  BY <1>2, <1>3, <1>4, <1>5, <1>6, <1>7, <1>8 DEF ExtNext, Binds, Handles

\* Once everything sent has been handled, a bound extension is connected exactly while its
\* counterpart is bound, and if both are, both are connected and neither keeps anything back:
\* the handshake of RdExtBase.cpp:38-72, unless the hand-over of the broker has raced.
THEOREM HandshakeConverges == ExtSpec => []HandshakeAgrees
<1>1. ExtInit => ShakeInv
  BY InitShake
<1>2. BaseInv /\ ShakeInv => HandshakeAgrees
  <2> SUFFICES ASSUME BaseInv, ShakeInv, Quiet, ~raced, binding = "bound"
               PROVE  /\ connected = peer.bound
                      /\ peer.bound => peer.connected /\ sendQ = << >> /\ peer.sendQ = << >>
    BY DEF HandshakeAgrees
  <2>1. /\ incoming = << >> /\ outgoing = << >> /\ tasks = << >> /\ ~undefined
        /\ running["scheduler"] = Nothing /\ running["receiver"] = Nothing /\ hand = Nothing
        /\ TypeInv /\ Counted
    BY DEF Quiet, Idle, Unlocked, BaseInv
  <2>2. Kept(Ext).default = << >>
    <3> DEFINE waiting == Kept(Ext).default
    <3>1. PICK at : Enumerates(at, Len(waiting), tasks, Ext)
      BY <2>1, Names DEF Counted
    <3>2. at \in [1 .. Len(waiting) -> {}]
      BY <2>1, <3>1 DEF Enumerates
    <3>3. waiting \in Seq(ExtMessages)
      BY <2>1, StreamTypes
    <3> HIDE DEF waiting
    <3>4. Len(waiting) \in Nat
      BY <3>3, Lengths
    <3>5. Len(waiting) = 0
      BY <3>2, <3>4
    <3>6. waiting = << >>
      BY <3>3, <3>5, Lengths
    <3> QED  BY <3>6 DEF waiting
  <2>3. Kept(Ext).custom = << >>
    BY <2>1, <2>2 DEF ShakeInv, EntryGoes, Kept, EmptyMq
  <2>4. AtHand = << >> /\ RunsNone /\ ~RunsReady
    BY <2>1 DEF AtHand, RunsNone, RunsReady, Runs
  <2>5. Arrived /\ ~ReadyComes
    BY <2>1, <2>2, <2>3, <2>4, Nothings DEF Arrived, ReadyComes
  <2>6. Shake
    BY <2>1 DEF ShakeInv
  <2>7. connected \in BOOLEAN /\ peer.bound \in BOOLEAN
    BY <2>1 DEF TypeInv, ExtTypes, Peers
  <2>8. connected = peer.bound /\ (peer.bound => peer.connected)
    BY <2>1, <2>5, <2>6, <2>7, Nothings DEF Shake, HostFollows, PeerFollows
  <2>9. \A t \in Threads : running[t] # ToExt(Flush)
    BY <2>1, Somethings
  <2>10. connected => sendQ = << >>
    BY <2>9 DEF ShakeInv, FlushComes
  <2>11. peer.connected => peer.sendQ = << >>
    BY DEF ShakeInv, FlushComes
  <2> QED  BY <2>7, <2>8, <2>10, <2>11
<1> QED  BY <1>1, <1>2, BaseHolds, ShakeKeeps, PTL DEF ExtSpec
====
