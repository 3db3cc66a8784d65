------------------------------- MODULE RiderLink --------------------------------
(***************************************************************************)
(* FRiderLinkModule: the editor model of the current connection, made on   *)
(* the scheduler's thread when the receiving thread has seen a connection, *)
(* handed to other modules while RdIsModelAlive is true, and torn down by  *)
(* the receiving thread when the connection's lifetime ends.  The logging  *)
(* thread uses it under ModelLock (FireAsyncAction), the game thread       *)
(* through queued actions (QueueModelAction, and QueueAction from the      *)
(* delegates of FRiderGameControl, which exists while the model is alive). *)
(***************************************************************************)
EXTENDS Naturals, Sequences

CONSTANTS
  MaxChanges,    \* bound on how often the connection comes up or goes down
  MaxTasks       \* bound on the queue below which the game thread queues more

ASSUME LinkAssumption == MaxChanges \in Nat /\ MaxTasks \in Nat

VARIABLES
  up,            \* wire->connected
  lifetime,      \* the current connection lifetime; the earlier ones are terminated
  registered,    \* its actions
  ending,        \* the actions of the lifetime before it that have yet to run
  viewing,       \* the receiving thread is in the view of `connected`
  tasks,         \* the scheduler's queue
  at,            \* where the scheduler is in a task
  connecting,    \* the lifetime its connection task is for
  model,         \* EditorModel: the n-th object made
  subscribed,    \* the object whose entities the broker has subscriptions of, or 0
  alive,         \* RdIsModelAlive
  reading,       \* the logging thread is in FireAsyncAction's handler, with the read lock
  crashed

receiverVars == <<up, lifetime, registered, ending, viewing>>
modelVars == <<connecting, model, alive>>
vars == <<receiverVars, tasks, at, modelVars, subscribed, reading, crashed>>

Actions == {"notAlive", "unbind"}

LinkInit ==
  /\ up = FALSE /\ lifetime = 0 /\ registered = {} /\ ending = {} /\ viewing = FALSE
  /\ tasks = << >> /\ at = "idle" /\ connecting = 0
  /\ model = 0 /\ subscribed = 0 /\ alive = FALSE
  /\ reading = FALSE /\ crashed = FALSE

Bound == subscribed = model

Queue(task) == tasks' = Append(tasks, task)

-------------------------------------------------------------------------------
(* The receiving thread: `connected` changes, and its view ends the lifetime *)
(* it gave for the last value before it calls the handler with the next.     *)
Change ==
  /\ ~viewing /\ lifetime < MaxChanges
  /\ up' = ~up
  /\ lifetime' = lifetime + 1
  /\ ending' = registered /\ registered' = {}
  /\ viewing' = TRUE
  /\ UNCHANGED <<tasks, at, modelVars, subscribed, reading, crashed>>

\* The actions of a lifetime run in reverse: the one added last queues the end of the
\* model, then the bindings are undone.
QueueNotAlive ==
  /\ "notAlive" \in ending
  /\ ending' = ending \ {"notAlive"}
  /\ Queue([kind |-> "notAlive"])
  /\ UNCHANGED <<up, lifetime, registered, viewing, at, modelVars, subscribed, reading, crashed>>

Unbind ==
  /\ ending = {"unbind"}
  /\ ending' = {}
  /\ subscribed' = 0
  /\ UNCHANGED <<up, lifetime, registered, viewing, tasks, at, modelVars, reading, crashed>>

Notify ==
  /\ viewing /\ ending = {}
  /\ viewing' = FALSE
  /\ Queue([kind |-> "connection", lifetime |-> lifetime, up |-> up])
  /\ UNCHANGED <<up, lifetime, registered, ending, at, modelVars, subscribed, reading, crashed>>

\* A message for an object that has been destroyed with its subscription left behind.
Misdeliver ==
  /\ up /\ ~viewing
  /\ subscribed # 0 /\ ~Bound
  /\ crashed' = TRUE
  /\ UNCHANGED <<receiverVars, tasks, at, modelVars, subscribed, reading>>

-------------------------------------------------------------------------------
(* The scheduler's thread. *)
NextTask(kind) == at = "idle" /\ tasks # << >> /\ Head(tasks).kind = kind /\ tasks' = Tail(tasks)

Terminated == connecting # lifetime

\* Fault: the handler does not look at IsConnected.
ViewEveryChange ==
  /\ NextTask("connection")
  /\ at' = "connecting" /\ connecting' = Head(tasks).lifetime
  /\ UNCHANGED <<receiverVars, model, subscribed, alive, reading, crashed>>

ViewChange ==
  /\ NextTask("connection")
  /\ IF Head(tasks).up
       THEN at' = "connecting" /\ connecting' = Head(tasks).lifetime
       ELSE UNCHANGED <<at, connecting>>
  /\ UNCHANGED <<receiverVars, model, subscribed, alive, reading, crashed>>

\* With the lock for writing, which the task keeps to its end.
MakeModel ==
  /\ at = "connecting" /\ ~reading
  /\ at' = "made" /\ model' = model + 1
  /\ UNCHANGED <<receiverVars, tasks, connecting, subscribed, alive, reading, crashed>>

\* An exception leaves the task and releases the lock.
Throw == at' = "idle"

\* connect(): nothing is bound to a terminated lifetime, and get_protocol() throws.
Bind ==
  /\ at = "made"
  /\ IF Terminated
       THEN Throw /\ UNCHANGED subscribed
       ELSE at' = "binding" /\ subscribed' = model
  /\ UNCHANGED <<receiverVars, tasks, modelVars, reading, crashed>>

\* The actions that undo the bindings: if the lifetime ends between a subscription and
\* its action, add_action throws and the subscription stays.
Register(action, then) ==
  /\ ~Terminated
  /\ registered' = registered \cup {action}
  /\ at' = then
  /\ UNCHANGED <<up, lifetime, ending, viewing, tasks, modelVars, subscribed, reading, crashed>>

RegisterUnbind == at = "binding" /\ Register("unbind", "bound")

CutOff ==
  /\ at = "binding" /\ Terminated
  /\ Throw
  /\ subscribed' \in {0, subscribed}
  /\ UNCHANGED <<receiverVars, tasks, modelVars, reading, crashed>>

\* Fault: an action for a terminated lifetime is dropped silently.
RegisterNotAliveOrGoOn ==
  /\ at = "bound"
  /\ \/ Register("notAlive", "registered")
     \/ /\ Terminated /\ at' = "registered"
        /\ UNCHANGED <<receiverVars, tasks, modelVars, subscribed, reading, crashed>>

RegisterNotAlive ==
  /\ at = "bound"
  /\ \/ Register("notAlive", "registered")
     \/ /\ Terminated /\ Throw
        /\ UNCHANGED <<receiverVars, tasks, modelVars, subscribed, reading, crashed>>

\* What the use of a model does that is unbound meanwhile is undefined.
EndUse == crashed' \in (IF Bound THEN {FALSE} ELSE BOOLEAN)

\* RdIsModelAlive.set(true), whose views use the model in it, and connectionInfo.
MarkAlive ==
  /\ at = "registered"
  /\ at' = "idle" /\ alive' = TRUE
  /\ EndUse
  /\ UNCHANGED <<receiverVars, tasks, connecting, model, subscribed, reading>>

\* Fault: the value is changed without ModelLock.
MarkNotAliveUnlocked ==
  /\ NextTask("notAlive")
  /\ alive' = FALSE
  /\ UNCHANGED <<receiverVars, at, connecting, model, subscribed, reading, crashed>>

\* With the lock; the views of RdIsModelAlive end in it, and with them the FRiderGameControl.
MarkNotAlive ==
  /\ NextTask("notAlive") /\ ~reading
  /\ alive' = FALSE
  /\ UNCHANGED <<receiverVars, at, connecting, model, subscribed, reading, crashed>>

\* An action with the model throws on one that is not bound.
ModelAction ==
  /\ NextTask("modelAction")
  /\ at' = IF alive /\ Bound THEN "using" ELSE "idle"
  /\ UNCHANGED <<receiverVars, modelVars, subscribed, reading, crashed>>

EndModelAction ==
  /\ at = "using"
  /\ at' = "idle"
  /\ EndUse
  /\ UNCHANGED <<receiverVars, tasks, modelVars, subscribed, reading>>

\* An action queued by a delegate: it reads the FRiderGameControl it was made by.
ControlAction ==
  /\ NextTask("control")
  /\ IF alive /\ Head(tasks).of = model
       THEN at' = (IF Bound THEN "using" ELSE "idle") /\ UNCHANGED crashed
       ELSE UNCHANGED at /\ crashed' \in BOOLEAN
  /\ UNCHANGED <<receiverVars, modelVars, subscribed, reading>>

-------------------------------------------------------------------------------
(* The game thread: FRiderLCModule::Tick, and the editor's delegates. *)
Tick ==
  /\ Len(tasks) < MaxTasks
  /\ Queue([kind |-> "modelAction"])
  /\ UNCHANGED <<receiverVars, at, modelVars, subscribed, reading, crashed>>

EditorEvent ==
  /\ Len(tasks) < MaxTasks
  /\ alive
  /\ Queue([kind |-> "control", of |-> model])
  /\ UNCHANGED <<receiverVars, at, modelVars, subscribed, reading, crashed>>

(* The logging thread: FireAsyncAction. *)
Writing == at \in {"made", "binding", "bound", "registered"}

Fire ==
  /\ ~reading /\ ~Writing
  /\ alive /\ Bound
  /\ reading' = TRUE
  /\ UNCHANGED <<receiverVars, tasks, at, modelVars, subscribed, crashed>>

EndFire ==
  /\ reading
  /\ reading' = FALSE
  /\ EndUse
  /\ UNCHANGED <<receiverVars, tasks, at, modelVars, subscribed>>

-------------------------------------------------------------------------------
View == ~crashed /\ (QueueNotAlive \/ Unbind \/ Notify)

RunTasks ==
  /\ ~crashed
  /\ \/ ViewChange \/ MakeModel \/ Bind \/ RegisterUnbind \/ CutOff \/ RegisterNotAlive
     \/ MarkAlive \/ MarkNotAlive \/ ModelAction \/ EndModelAction \/ ControlAction

LinkNext ==
  \/ View \/ RunTasks
  \/ ~crashed /\ (Change \/ Misdeliver \/ Tick \/ EditorEvent \/ Fire)
  \/ ~crashed /\ EndFire

(* Threads that have something to do go on, and the scheduler's gets the lock some time *)
(* though the logging thread may take it for reading again and again.                   *)
Fairness ==
  /\ WF_vars(View) /\ SF_vars(RunTasks) /\ WF_vars(~crashed /\ EndFire)

LinkSpec == LinkInit /\ [][LinkNext]_vars /\ Fairness

-------------------------------------------------------------------------------
(* A model is alive only if its connection lasts or its end is on the way: the action  *)
(* that ends it is registered, about to run, or queued (RiderLink.cpp:76-84 against    *)
(* LifetimeImpl.cpp:15-36).                                                            *)
EndQueued == \E i \in DOMAIN tasks : tasks[i].kind = "notAlive"

AliveUntilTheEnd == alive => ("notAlive" \in registered \cup ending) \/ EndQueued

(* RdIsModelAlive is changed before the model is replaced (RiderLink.cpp:101-102), and  *)
(* while a handler of FireAsyncAction runs neither is: it answers what it has tested,   *)
(* and its model is the current one (lines 70-71, 80-81, 135-142).                      *)
ReplacedUnseen ==
  [][/\ model' # model => ~alive
     /\ reading /\ reading' => alive' /\ model' = model]_vars

(* A connection that stays up gets a bound model that is alive, and one that stays down *)
(* leaves none alive, unless the program has crashed (RiderLink.cpp:64-95).             *)
AliveFollowsConnection ==
  /\ <>[](up \/ crashed) => <>[]((alive /\ Bound) \/ crashed)
  /\ <>[](~up \/ crashed) => <>[](~alive \/ crashed)
===============================================================================
