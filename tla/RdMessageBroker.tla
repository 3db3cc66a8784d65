---------------------------- MODULE RdMessageBroker -----------------------------
(***************************************************************************)
(* MessageBroker: the receiving thread dispatches what the wire delivers;  *)
(* what it finds no subscription for waits in `broker` for an action of    *)
(* the default scheduler.  Entities in OnWire use SynchronousScheduler:    *)
(* they execute where their message is invoked, on the receiving thread    *)
(* under the broker's lock when dispatch invokes it.  The others use the   *)
(* default scheduler.  What a message does is the business of the module   *)
(* that extends this one: it consumes `running`.                           *)
(*                                                                         *)
(* The queued action takes the lock once (line 72) and reads and erases    *)
(* the entry without it, one step per access here.                         *)
(***************************************************************************)
EXTENDS Naturals, Sequences

CONSTANTS
  Entities,    \* identities the wire delivers messages for
  OnWire,      \* those of them whose wire scheduler is SynchronousScheduler
  Nothing

ASSUME BrokerAssumption ==
  /\ OnWire \subseteq Entities
  /\ Nothing \notin Entities

VARIABLES
  incoming,     \* what the wire has yet to deliver: messages [id, body]
  subscribed,   \* the identities with a subscription
  era,          \* how often each identity has been bound: an object per binding
  broker,       \* broker: the two queues kept for an identity, or Nothing
  tasks,        \* the default scheduler's queue
  running,      \* the message each thread executes
  hand,         \* where the scheduler is in a queued action of dispatch
  undefined,    \* an iterator or a subscription that is none has been used
  raced         \* history: a custom message has been lost or overtaken

brokerVars == <<incoming, subscribed, era, broker, tasks, running, hand, undefined, raced>>

Receiver == "receiver"
Scheduler == "scheduler"
Threads == {Receiver, Scheduler}

EmptyMq == [default |-> << >>, custom |-> << >>]

BrokerInit ==
  /\ incoming = << >>
  /\ subscribed = {}
  /\ era = [id \in Entities |-> 0]
  /\ broker = [id \in Entities |-> Nothing]
  /\ tasks = << >>
  /\ running = [t \in Threads |-> Nothing]
  /\ hand = Nothing
  /\ undefined = FALSE /\ raced = FALSE

-------------------------------------------------------------------------------
\* The receiving thread keeps the lock while it executes what dispatch invokes.
Unlocked == running[Receiver] = Nothing

Idle == hand = Nothing /\ running[Scheduler] = Nothing /\ ~undefined

Run(t, message) == running' = [running EXCEPT ![t] = message]

Known(id) == broker[id] # Nothing
Kept(id) == IF Known(id) THEN broker[id] ELSE EmptyMq

\* The scheduler still has custom messages of this identity to execute.
BehindHandOver(id) ==
  /\ hand # Nothing /\ hand.id = id
  /\ hand.custom # << >> \/ running[Scheduler] # Nothing

\* Faults: an action for the first message of an entry only; nothing kept at all.
KeepWithOneAction(m) ==
  /\ m.id \notin subscribed
  /\ broker' = [broker EXCEPT ![m.id] = [Kept(m.id) EXCEPT !.default = Append(@, m)]]
  /\ tasks' = IF Known(m.id) THEN tasks ELSE Append(tasks, [kind |-> "handOver", id |-> m.id])
  /\ raced' = (raced \/ Kept(m.id).custom # << >>)
  /\ UNCHANGED running

KeepNothing(m) ==
  /\ m.id \notin subscribed
  /\ UNCHANGED <<broker, tasks, running, raced>>

\* dispatch, no subscription: the message waits and an action is queued for it.  What the
\* identity's last binding has left in `custom` will be executed after it.
Keep(m) ==
  /\ m.id \notin subscribed
  /\ broker' = [broker EXCEPT ![m.id] = [Kept(m.id) EXCEPT !.default = Append(@, m)]]
  /\ tasks' = Append(tasks, [kind |-> "handOver", id |-> m.id])
  /\ raced' = (raced \/ Kept(m.id).custom # << >>)
  /\ UNCHANGED running

\* dispatch, an entity of the default scheduler.
Queue(m) ==
  /\ m.id \in subscribed \ OnWire
  /\ tasks' = Append(tasks, [kind |-> "invoke", message |-> m, era |-> era[m.id]])
  /\ UNCHANGED <<broker, running, raced>>

\* Fault: what waits in the broker is not looked at.
InvokeAtOnce(m) ==
  /\ m.id \in subscribed \cap OnWire
  /\ Run(Receiver, m)
  /\ raced' = (raced \/ BehindHandOver(m.id))
  /\ UNCHANGED <<broker, tasks>>

\* dispatch, an entity of its own scheduler: now, or behind what waits already.
Invoke(m) ==
  /\ m.id \in subscribed \cap OnWire
  /\ ~Known(m.id)
  /\ Run(Receiver, m)
  /\ raced' = (raced \/ BehindHandOver(m.id))
  /\ UNCHANGED <<broker, tasks>>

Follow(m) ==
  /\ m.id \in subscribed \cap OnWire
  /\ Known(m.id)
  /\ broker' = [broker EXCEPT ![m.id].custom = Append(@, m)]
  /\ UNCHANGED <<tasks, running, raced>>

Deliver(m) == Keep(m) \/ Queue(m) \/ Invoke(m) \/ Follow(m)

Dispatch ==
  /\ Unlocked /\ ~undefined
  /\ incoming # << >>
  /\ incoming' = Tail(incoming)
  /\ Deliver(Head(incoming))
  /\ UNCHANGED <<subscribed, era, hand, undefined>>

-------------------------------------------------------------------------------
NextTask(kind) == Idle /\ tasks # << >> /\ Head(tasks).kind = kind /\ tasks' = Tail(tasks)

\* The action of invoke: the subscription may be gone by now, and an object unbound has no
\* identity.
StillThere(task) == task.message.id \in subscribed /\ task.era = era[task.message.id]

RunInvoke ==
  /\ NextTask("invoke")
  /\ Unlocked
  /\ IF StillThere(Head(tasks))
       THEN Run(Scheduler, Head(tasks).message)
       ELSE UNCHANGED running
  /\ UNCHANGED <<incoming, subscribed, era, broker, hand, undefined, raced>>

\* The queued action of dispatch, up to the message it executes.  The subscription it
\* reads before it locks changes on this thread only.
HandOver ==
  /\ NextTask("handOver")
  /\ Unlocked
  /\ LET id == Head(tasks).id
         waiting == broker[id].default
     IN /\ broker' = [broker EXCEPT ![id].default = Tail(waiting)]
        /\ IF id \in subscribed
             THEN Run(Scheduler, Head(waiting))
             ELSE UNCHANGED running
        /\ hand' = [at |-> "test", id |-> id, custom |-> << >>]
  /\ UNCHANGED <<incoming, subscribed, era, undefined, raced>>

At(place) == hand # Nothing /\ hand.at = place /\ running[Scheduler] = Nothing /\ ~undefined

\* `default_scheduler_messages.empty()`, without the lock.
TestEmpty ==
  /\ At("test")
  /\ hand' = IF broker[hand.id].default = << >> THEN [hand EXCEPT !.at = "move"] ELSE Nothing
  /\ UNCHANGED <<incoming, subscribed, era, broker, tasks, running, undefined, raced>>

\* `t = std::move(broker[id])`: a message that has come since the test is moved out with
\* the rest, and its own action will find no entry; the loop to come calls the
\* subscription read at the start, null or not.
MoveOut ==
  /\ At("move")
  /\ LET mq == broker[hand.id] IN
     /\ undefined' = \/ mq.default # << >>
                     \/ mq.custom # << >> /\ hand.id \notin subscribed
     /\ hand' = [hand EXCEPT !.at = "erase", !.custom = mq.custom]
  /\ broker' = [broker EXCEPT ![hand.id] = EmptyMq]
  /\ UNCHANGED <<incoming, subscribed, era, tasks, running, raced>>

\* `broker.erase(id)`, with what has come since the move.
Erase ==
  /\ At("erase")
  /\ undefined' = (broker[hand.id].default # << >>)
  /\ raced' = (raced \/ broker[hand.id].custom # << >>)
  /\ broker' = [broker EXCEPT ![hand.id] = Nothing]
  /\ hand' = [hand EXCEPT !.at = "custom"]
  /\ UNCHANGED <<incoming, subscribed, era, tasks, running>>

\* The loop over the custom messages.
InvokeCustom ==
  /\ At("custom")
  /\ hand.custom # << >> /\ Unlocked
  /\ Run(Scheduler, Head(hand.custom))
  /\ hand' = [hand EXCEPT !.custom = Tail(@)]
  /\ UNCHANGED <<incoming, subscribed, era, broker, tasks, undefined, raced>>

HandedOver ==
  /\ At("custom")
  /\ hand.custom = << >>
  /\ hand' = Nothing
  /\ UNCHANGED <<incoming, subscribed, era, broker, tasks, running, undefined, raced>>

RunTasks ==
  \/ RunInvoke \/ HandOver \/ TestEmpty \/ MoveOut \/ Erase \/ InvokeCustom \/ HandedOver

-------------------------------------------------------------------------------
\* advise_on, on the scheduler's thread, and the action that undoes it, which takes no lock.
AdviseOn(id) ==
  /\ Unlocked
  /\ subscribed' = subscribed \cup {id}
  /\ era' = [era EXCEPT ![id] = @ + 1]

Unsubscribe(id) == subscribed' = subscribed \ {id}
===============================================================================
