--------------------------------- MODULE RdExt ----------------------------------
(***************************************************************************)
(* An extension at the host: RdExtBase binds it and its member on the      *)
(* scheduler's thread, announces it, and connects its ExtWire when the     *)
(* counterpart answers; until then ExtWire keeps what the member sends.    *)
(* The extension is bound with a new object every time.  The counterpart,  *)
(* another program, runs the same protocol a message at a time.            *)
(***************************************************************************)
EXTENDS RdMessageBroker, SequencesExt

CONSTANTS
  Ext, Member,          \* the identities of the extension and of its member
  MaxBindings,          \* bound on the bindings at both ends together
  MaxSends              \* bound on the member's messages from both ends together

ASSUME ExtAssumption ==
  /\ Entities = {Ext, Member} /\ OnWire = {Ext}
  /\ Ext # Member
  /\ MaxBindings \in Nat /\ MaxSends \in Nat

Flush == "Flush"    \* not a message: what connected.set(true) has still to do

\* RdExtBase::ExtState travels for the extension, numbers for its member.
States == {"Ready", "ReceivedCounterpart", "Disconnected"}
Messages == [id : {Ext}, body : States \cup {Flush}] \cup [id : {Member}, body : Nat]

\* No message, no entry of the broker and no action of the scheduler is Nothing.
ASSUME NothingAssumption ==
  Nothing \notin Messages
               \cup [default : Seq(Messages), custom : Seq(Messages)]
               \cup [at : {"test", "move", "erase", "custom"}, id : Entities,
                     custom : Seq(Messages)]

VARIABLES
  binding,     \* how far the extension is bound
  connected,   \* extWire->connected
  sendQ,       \* extWire->sendQ
  outgoing,    \* what the counterpart has yet to receive
  sent,        \* how many messages the member has sent: the n-th is n
  heard,       \* the counterpart's messages that the member has executed
  peer,        \* the counterpart: bindings, bound, connected, sendQ, sent, heard
  due,         \* history: the messages of the member that have to arrive
  peerDue      \* history: those of the counterpart

hostVars == <<binding, connected, sendQ, sent>>
extVars == <<hostVars, outgoing, heard, peer, due, peerDue>>
vars == <<brokerVars, extVars>>

ToExt(state) == [id |-> Ext, body |-> state]
ToMember(n) == [id |-> Member, body |-> n]
Carry(numbers) == [i \in DOMAIN numbers |-> ToMember(numbers[i])]

ExtInit ==
  /\ BrokerInit
  /\ binding = "unbound" /\ connected = FALSE /\ sendQ = << >>
  /\ outgoing = << >> /\ sent = 0 /\ heard = << >>
  /\ peer = [bindings |-> 0, bound |-> FALSE, connected |-> FALSE, sendQ |-> << >>,
             sent |-> 0, heard |-> << >>]
  /\ due = {} /\ peerDue = {}

-------------------------------------------------------------------------------
HostBound == binding \in {"advised", "ready", "bound"}

OutOfTasks == binding \in {"unbound", "bound"}

MayBind == era[Ext] + peer.bindings < MaxBindings
MaySend == sent + peer.sent < MaxSends

Put(messages) == outgoing' = outgoing \o messages

\* RdExtBase::init and the members' bind after it.
AdviseExt ==
  /\ Idle /\ binding = "unbound" /\ MayBind
  /\ AdviseOn(Ext)
  /\ binding' = "advised"
  /\ connected' = FALSE /\ sendQ' = << >>
  /\ UNCHANGED <<incoming, broker, tasks, running, hand, undefined, raced,
                 outgoing, sent, heard, peer, due, peerDue>>

SendReady ==
  /\ binding = "advised"
  /\ binding' = "ready"
  /\ Put(<<ToExt("Ready")>>)
  /\ UNCHANGED <<brokerVars, connected, sendQ, sent, heard, peer, due, peerDue>>

BindMember ==
  /\ binding = "ready"
  /\ AdviseOn(Member)
  /\ binding' = "bound"
  /\ UNCHANGED <<incoming, broker, tasks, running, hand, undefined, raced, connected, sendQ,
                 outgoing, sent, heard, peer, due, peerDue>>

\* The lifetime ends: the same in reverse.  What is queued goes with the object, and what
\* the counterpart has sent has no reader any more.
UnbindMember ==
  /\ Idle /\ binding = "bound"
  /\ Unsubscribe(Member)
  /\ binding' = "leaving"
  /\ due' = due \ ToSet(sendQ)
  /\ peerDue' = peerDue \cap ToSet(peer.sendQ)
  /\ UNCHANGED <<incoming, era, broker, tasks, running, hand, undefined, raced, connected,
                 sendQ, outgoing, sent, heard, peer>>

SendDisconnected ==
  /\ binding = "leaving"
  /\ binding' = "left"
  /\ Put(<<ToExt("Disconnected")>>)
  /\ UNCHANGED <<brokerVars, connected, sendQ, sent, heard, peer, due, peerDue>>

UnbindExt ==
  /\ binding = "left"
  /\ Unsubscribe(Ext)
  /\ binding' = "unbound"
  /\ UNCHANGED <<incoming, era, broker, tasks, running, hand, undefined, raced, connected,
                 sendQ, outgoing, sent, heard, peer, due, peerDue>>

-------------------------------------------------------------------------------
Is(message, state) == message.id = Ext /\ message.body = state

Executing(t, state) == ~undefined /\ running[t] # Nothing /\ Is(running[t], state)

\* connected.set(value): its listener flushes when it becomes true.
SetConnected(t, value) ==
  /\ connected' = value
  /\ Run(t, IF value /\ ~connected THEN ToExt(Flush) ELSE Nothing)

Unmoved == UNCHANGED <<incoming, subscribed, era, broker, tasks, hand, undefined, raced>>

\* RdExtBase::on_wire_received, on whichever thread.
ReceiveReady(t) ==
  /\ Executing(t, "Ready")
  /\ Put(<<ToExt("ReceivedCounterpart")>>)
  /\ SetConnected(t, TRUE)
  /\ Unmoved /\ UNCHANGED <<binding, sendQ, sent, heard, peer, due, peerDue>>

ReceiveCounterpart(t) ==
  /\ Executing(t, "ReceivedCounterpart")
  /\ SetConnected(t, TRUE)
  /\ Unmoved /\ UNCHANGED <<binding, sendQ, outgoing, sent, heard, peer, due, peerDue>>

ReceiveDisconnected(t) ==
  /\ Executing(t, "Disconnected")
  /\ SetConnected(t, FALSE)
  /\ Unmoved /\ UNCHANGED <<binding, sendQ, outgoing, sent, heard, peer, due, peerDue>>

\* What goes out while nobody is bound at the counterpart has no reader.
Unread(numbers) == IF peer.bound THEN {} ELSE ToSet(numbers)

\* The listener of ExtWire's constructor, under the lock of ExtWire.
FlushQueue(t) ==
  /\ Executing(t, Flush)
  /\ Put(Carry(sendQ))
  /\ sendQ' = << >>
  /\ due' = due \ Unread(sendQ)
  /\ Run(t, Nothing)
  /\ Unmoved /\ UNCHANGED <<binding, connected, sent, heard, peer, peerDue>>

\* The member's on_wire_received.
ReceiveMember ==
  /\ running[Scheduler] # Nothing /\ running[Scheduler].id = Member /\ ~undefined
  /\ heard' = Append(heard, running[Scheduler].body)
  /\ peerDue' = peerDue \ {running[Scheduler].body}
  /\ Run(Scheduler, Nothing)
  /\ Unmoved /\ UNCHANGED <<hostVars, outgoing, peer, due>>

\* Fault: a queue that is still to be flushed does not hold later messages back.
MustWaitOnlyUnconnected == ~connected

\* ExtWire::send.
MustWait == sendQ # << >> \/ ~connected

MemberSends ==
  /\ Idle /\ binding = "bound" /\ MaySend
  /\ sent' = sent + 1
  /\ IF MustWait
       THEN sendQ' = Append(sendQ, sent') /\ UNCHANGED outgoing
       ELSE Put(<<ToMember(sent')>>) /\ UNCHANGED sendQ
  /\ due' = IF MustWait \/ peer.bound THEN due \cup {sent'} ELSE due
  /\ UNCHANGED <<brokerVars, binding, connected, heard, peer, peerDue>>

-------------------------------------------------------------------------------
(* The counterpart, external: each step is one message handled or one call. *)
Reply(messages) == incoming' = incoming \o messages

PeerBinds ==
  /\ ~peer.bound /\ MayBind
  /\ peer' = [peer EXCEPT !.bindings = @ + 1, !.bound = TRUE, !.connected = FALSE,
                          !.sendQ = << >>]
  /\ Reply(<<ToExt("Ready")>>)
  /\ UNCHANGED <<hostVars, outgoing, heard, due, peerDue>>

PeerUnbinds ==
  /\ peer.bound
  /\ peer' = [peer EXCEPT !.bound = FALSE]
  /\ Reply(<<ToExt("Disconnected")>>)
  /\ due' = due \cap ToSet(sendQ)
  /\ peerDue' = peerDue \ ToSet(peer.sendQ)
  /\ UNCHANGED <<hostVars, outgoing, heard>>

PeerSends ==
  /\ peer.bound /\ MaySend
  /\ LET n == peer.sent + 1 IN
     IF peer.sendQ # << >> \/ ~peer.connected
       THEN /\ peer' = [peer EXCEPT !.sent = n, !.sendQ = Append(@, n)]
            /\ peerDue' = peerDue \cup {n}
            /\ UNCHANGED incoming
       ELSE /\ peer' = [peer EXCEPT !.sent = n]
            /\ peerDue' = IF HostBound THEN peerDue \cup {n} ELSE peerDue
            /\ Reply(<<ToMember(n)>>)
  /\ UNCHANGED <<hostVars, outgoing, heard, due>>

\* The counterpart connects: its queue goes out.
PeerConnects(answer) ==
  /\ peer' = [peer EXCEPT !.connected = TRUE, !.sendQ = << >>]
  /\ Reply(answer \o Carry(peer.sendQ))
  /\ peerDue' = IF HostBound THEN peerDue ELSE peerDue \ ToSet(peer.sendQ)
  /\ UNCHANGED due

PeerHears(n) ==
  /\ peer' = [peer EXCEPT !.heard = Append(@, n)]
  /\ due' = due \ {n}
  /\ UNCHANGED <<incoming, peerDue>>

PeerReceives ==
  /\ outgoing # << >>
  /\ outgoing' = Tail(outgoing)
  /\ LET m == Head(outgoing) IN
     \/ ~peer.bound /\ UNCHANGED <<incoming, peer, due, peerDue>>
     \/ peer.bound /\ Is(m, "Ready") /\ PeerConnects(<<ToExt("ReceivedCounterpart")>>)
     \/ peer.bound /\ Is(m, "ReceivedCounterpart") /\ PeerConnects(<< >>)
     \/ /\ peer.bound /\ Is(m, "Disconnected")
        /\ peer' = [peer EXCEPT !.connected = FALSE]
        /\ UNCHANGED <<incoming, due, peerDue>>
     \/ peer.bound /\ m.id = Member /\ PeerHears(m.body)
  /\ UNCHANGED <<hostVars, heard>>

PeerNext ==
  /\ ~undefined
  /\ PeerBinds \/ PeerUnbinds \/ PeerSends \/ PeerReceives
  /\ UNCHANGED <<subscribed, era, broker, tasks, running, hand, undefined, raced>>

ExtNext ==
  \/ Dispatch /\ UNCHANGED extVars
  \/ OutOfTasks /\ RunTasks /\ UNCHANGED extVars
  \/ AdviseExt \/ SendReady \/ BindMember \/ UnbindMember \/ SendDisconnected \/ UnbindExt
  \/ \E t \in Threads :
       ReceiveReady(t) \/ ReceiveCounterpart(t) \/ ReceiveDisconnected(t) \/ FlushQueue(t)
  \/ ReceiveMember \/ MemberSends
  \/ PeerNext

ExtSpec == ExtInit /\ [][ExtNext]_vars

-------------------------------------------------------------------------------
(* Each action queued by dispatch finds the message it was queued for: as many actions
   are queued for an identity as messages wait for it (MessageBroker.cpp:64-104). *)
HandOversFindTheirMessage ==
  ~undefined =>
    \A id \in Entities :
      Cardinality({i \in DOMAIN tasks : tasks[i].kind = "handOver" /\ tasks[i].id = id})
        = Len(Kept(id).default)

Quiet ==
  /\ incoming = << >> /\ outgoing = << >> /\ tasks = << >>
  /\ Idle /\ Unlocked /\ OutOfTasks

(* Once everything sent has been handled, a bound extension is connected exactly while
   its counterpart is bound, and if both are, both are connected and neither keeps
   anything back: the handshake of RdExtBase.cpp:38-72 converges through every order of
   bindings, unbindings and messages kept by the broker, unless the hand-over raced. *)
HandshakeAgrees ==
  Quiet /\ ~raced /\ binding = "bound" =>
    /\ connected = peer.bound
    /\ peer.bound => peer.connected /\ sendQ = << >> /\ peer.sendQ = << >>

(* No message is lost while its reader is bound: once everything is handled, what a
   member has sent is executed at the other end, unless its own ExtWire still keeps it
   or its reader has been unbound since (ExtWire.cpp:7-49, MessageBroker.cpp:49-127). *)
MessagesArrive ==
  Quiet => due \subseteq ToSet(sendQ) /\ peerDue \subseteq ToSet(peer.sendQ)

Increasing(numbers) == \A i, j \in DOMAIN numbers : i < j => numbers[i] < numbers[j]

(* A member's messages are executed in the order they were sent and none twice, though
   some wait in sendQ, some in the broker's queue and some in the scheduler's. *)
InOrder == Increasing(heard) /\ Increasing(peer.heard)
===============================================================================
