---------------------------- MODULE RiderLinkProofs -----------------------------
(***************************************************************************)
(* The editor model ends with its connection and is never replaced under a *)
(* reader, for any number of connections and of tasks waiting.  Both rest  *)
(* on one order: connection tasks are queued in the order of their         *)
(* lifetimes, and the task that ends a model before the next connection's. *)
(***************************************************************************)
EXTENDS RiderLink, SequenceTheorems, TLAPS

Tasks ==
  [kind : {"connection"}, lifetime : Nat, up : BOOLEAN]
    \cup [kind : {"notAlive", "modelAction"}]
    \cup [kind : {"control"}, of : Nat]

LinkTypeOK ==
  /\ lifetime \in Nat /\ connecting \in Nat /\ model \in Nat
  /\ registered \subseteq Actions /\ ending \subseteq Actions
  /\ tasks \in Seq(Tasks)
  /\ up \in BOOLEAN /\ viewing \in BOOLEAN /\ alive \in BOOLEAN /\ reading \in BOOLEAN

IsConnection(i) == tasks[i].kind = "connection"

\* The connection tasks that wait are of later lifetimes than the last one run, and of
\* none that the view has not reached.
TasksInOrder ==
  /\ \A i \in DOMAIN tasks : IsConnection(i) =>
       /\ connecting < tasks[i].lifetime /\ tasks[i].lifetime <= lifetime
       /\ viewing => tasks[i].lifetime < lifetime
  /\ \A i, j \in DOMAIN tasks : i < j /\ IsConnection(i) /\ IsConnection(j) =>
       tasks[i].lifetime < tasks[j].lifetime
  /\ connecting <= lifetime
  /\ viewing => connecting < lifetime

\* The action that ends a model belongs to the lifetime connected last.
EndsItsOwn ==
  /\ "notAlive" \in registered => connecting = lifetime
  /\ "notAlive" \in ending => viewing /\ connecting + 1 = lifetime
  /\ ~viewing => ending = {}

\* The task that ends a model waits before every connection task.
EndQueuedFirst ==
  \E i \in DOMAIN tasks :
    /\ tasks[i].kind = "notAlive"
    /\ \A j \in DOMAIN tasks : j < i => ~IsConnection(j)

Ended == ("notAlive" \in registered \cup ending) \/ EndQueuedFirst

Connecting == at \in {"connecting", "made", "binding", "bound", "registered"}

Inv ==
  /\ LinkTypeOK
  /\ TasksInOrder
  /\ EndsItsOwn
  /\ alive \/ at = "registered" => Ended
  /\ Connecting => ~alive
  /\ reading => alive

-------------------------------------------------------------------------------
\* What the queue does to positions.
LEMMA Queued ==
  ASSUME tasks \in Seq(Tasks), NEW task \in Tasks, Queue(task)
  PROVE  /\ tasks' \in Seq(Tasks)
         /\ Len(tasks) \in Nat /\ DOMAIN tasks = 1 .. Len(tasks)
         /\ DOMAIN tasks' = 1 .. Len(tasks) + 1
         /\ \A i \in 1 .. Len(tasks) : tasks'[i] = tasks[i]
         /\ tasks'[Len(tasks) + 1] = task
<1>1. tasks' = Append(tasks, task)
  BY DEF Queue
<1> QED
  BY <1>1, AppendProperties, LenProperties

LEMMA Dequeued ==
  ASSUME tasks \in Seq(Tasks), NEW kind, NextTask(kind)
  PROVE  /\ tasks' \in Seq(Tasks)
         /\ Len(tasks) \in Nat \ {0} /\ DOMAIN tasks = 1 .. Len(tasks)
         /\ DOMAIN tasks' = 1 .. Len(tasks) - 1
         /\ \A i \in DOMAIN tasks' :
              i \in Nat /\ i + 1 \in DOMAIN tasks /\ tasks'[i] = tasks[i + 1]
         /\ Head(tasks) = tasks[1] /\ tasks[1] \in Tasks /\ tasks[1].kind = kind
         /\ at = "idle"
<1>1. tasks # << >> /\ tasks' = Tail(tasks) /\ Head(tasks).kind = kind /\ at = "idle"
  BY DEF NextTask
<1>2. Len(tasks) \in Nat \ {0} /\ DOMAIN tasks = 1 .. Len(tasks)
  BY <1>1, EmptySeq, LenProperties
<1>3. Head(tasks) = tasks[1]
  BY <1>1
<1>4. /\ Tail(tasks) \in Seq(Tasks) /\ Len(Tail(tasks)) = Len(tasks) - 1
      /\ \A i \in 1 .. Len(Tail(tasks)) : Tail(tasks)[i] = tasks[i + 1]
      /\ Head(tasks) \in Tasks
  BY <1>1, HeadTailProperties
<1>5. DOMAIN Tail(tasks) = 1 .. Len(tasks) - 1
  BY <1>4, LenProperties
<1> QED
  BY <1>1, <1>2, <1>3, <1>4, <1>5

\* While the end of a model is registered or about to run, no connection task waits.
LEMMA NoConnectionWaits ==
  ASSUME LinkTypeOK, TasksInOrder, EndsItsOwn, "notAlive" \in registered \cup ending,
         NEW i \in DOMAIN tasks
  PROVE  ~IsConnection(i)
<1> SUFFICES ASSUME IsConnection(i) PROVE FALSE
  OBVIOUS
<1>1. tasks[i] \in Tasks
  BY ElementOfSeq, LenProperties DEF LinkTypeOK
<1>2. tasks[i].lifetime \in Nat
  BY <1>1 DEF Tasks, IsConnection
<1>3. connecting < tasks[i].lifetime /\ tasks[i].lifetime <= lifetime
      /\ (viewing => tasks[i].lifetime < lifetime)
  BY DEF TasksInOrder
<1> QED
  BY <1>2, <1>3 DEF EndsItsOwn, LinkTypeOK

\* A task that is no connection is taken from the queue.
LEMMA DequeueKeeps ==
  ASSUME Inv, NEW kind \in {"notAlive", "modelAction", "control"}, NextTask(kind),
         UNCHANGED <<lifetime, connecting, viewing, registered, ending>>
  PROVE  /\ tasks' \in Seq(Tasks)
         /\ TasksInOrder'
         /\ kind # "notAlive" /\ Ended => Ended'
<1>1. /\ tasks' \in Seq(Tasks)
      /\ Len(tasks) \in Nat \ {0} /\ DOMAIN tasks = 1 .. Len(tasks)
      /\ DOMAIN tasks' = 1 .. Len(tasks) - 1
      /\ \A i \in DOMAIN tasks' :
           i \in Nat /\ i + 1 \in DOMAIN tasks /\ tasks'[i] = tasks[i + 1]
      /\ tasks[1].kind = kind
  BY Dequeued DEF Inv, LinkTypeOK
<1>2. TasksInOrder'
  <2>1. \A i \in DOMAIN tasks' :
          /\ i + 1 \in DOMAIN tasks
          /\ IsConnection(i)' => IsConnection(i + 1)
          /\ tasks'[i].lifetime = tasks[i + 1].lifetime
    BY <1>1 DEF IsConnection
  <2>2. \A i, j \in DOMAIN tasks' : i < j => i + 1 < j + 1
    BY <1>1
  <2> QED
    BY <2>1, <2>2 DEF Inv, TasksInOrder
<1>3. ASSUME kind # "notAlive", EndQueuedFirst PROVE EndQueuedFirst'
  <2>1. PICK i \in DOMAIN tasks :
          tasks[i].kind = "notAlive" /\ \A j \in DOMAIN tasks : j < i => ~IsConnection(j)
    BY <1>3 DEF EndQueuedFirst
  <2>2. i # 1
    BY <1>1, <1>3, <2>1
  <2>3. i - 1 \in DOMAIN tasks' /\ tasks'[i - 1].kind = "notAlive"
    BY <1>1, <2>1, <2>2
  <2>4. \A j \in DOMAIN tasks' : j < i - 1 => j + 1 < i
    BY <1>1, <2>1, <2>2
  <2>5. \A j \in DOMAIN tasks' : j < i - 1 => ~IsConnection(j)'
    BY <1>1, <2>1, <2>4 DEF IsConnection
  <2> QED
    BY <2>3, <2>5 DEF EndQueuedFirst
<1> QED
  BY <1>1, <1>2, <1>3 DEF Ended

\* A task that is no connection is queued.
LEMMA QueueKeeps ==
  ASSUME Inv, NEW task \in Tasks, task.kind # "connection", Queue(task),
         UNCHANGED <<lifetime, connecting, viewing>>
  PROVE  /\ tasks' \in Seq(Tasks)
         /\ TasksInOrder'
         /\ EndQueuedFirst => EndQueuedFirst'
<1>1. /\ tasks' \in Seq(Tasks)
      /\ Len(tasks) \in Nat /\ DOMAIN tasks = 1 .. Len(tasks)
      /\ DOMAIN tasks' = 1 .. Len(tasks) + 1
      /\ \A i \in 1 .. Len(tasks) : tasks'[i] = tasks[i]
      /\ tasks'[Len(tasks) + 1] = task
  BY Queued DEF Inv, LinkTypeOK
<1>2. TasksInOrder'
  BY <1>1 DEF Inv, TasksInOrder, IsConnection
<1>3. ASSUME EndQueuedFirst PROVE EndQueuedFirst'
  <2>1. PICK i \in DOMAIN tasks :
          tasks[i].kind = "notAlive" /\ \A j \in DOMAIN tasks : j < i => ~IsConnection(j)
    BY <1>3 DEF EndQueuedFirst
  <2>2. i \in DOMAIN tasks' /\ tasks'[i].kind = "notAlive"
    BY <1>1, <2>1
  <2>3. \A j \in DOMAIN tasks' : j < i => ~IsConnection(j)'
    BY <1>1, <2>1 DEF IsConnection
  <2> QED
    BY <2>2, <2>3 DEF EndQueuedFirst
<1> QED
  BY <1>1, <1>2, <1>3

-------------------------------------------------------------------------------
\* The receiving thread.
LEMMA ChangeKeeps == ASSUME Inv, Change PROVE Inv'
<1>1. /\ lifetime' = lifetime + 1 /\ viewing' = TRUE /\ ~viewing
      /\ ending' = registered /\ registered' = {} /\ up' = ~up
      /\ UNCHANGED <<tasks, at, connecting, model, alive, reading>>
  BY DEF Change, modelVars
<1>2. LinkTypeOK'
  BY <1>1 DEF Inv, LinkTypeOK
<1>3. TasksInOrder'
  <2>1. \A i \in DOMAIN tasks : IsConnection(i) => tasks[i].lifetime \in Nat
    BY ElementOfSeq, LenProperties DEF Inv, LinkTypeOK, Tasks, IsConnection
  <2> QED
    BY <1>1, <2>1 DEF Inv, LinkTypeOK, TasksInOrder, IsConnection
<1>4. EndsItsOwn'
  BY <1>1 DEF Inv, LinkTypeOK, EndsItsOwn
<1>5. Ended => Ended'
  BY <1>1 DEF Inv, EndsItsOwn, Ended, EndQueuedFirst, IsConnection
<1> QED
  BY <1>1, <1>2, <1>3, <1>4, <1>5 DEF Inv, Connecting

LEMMA QueueNotAliveKeeps == ASSUME Inv, QueueNotAlive PROVE Inv'
<1> DEFINE task == [kind |-> "notAlive"]
<1>1. /\ "notAlive" \in ending /\ ending' = ending \ {"notAlive"} /\ Queue(task)
      /\ UNCHANGED <<up, lifetime, registered, viewing, at, connecting, model, alive, reading>>
  BY DEF QueueNotAlive, modelVars
<1>2. task \in Tasks /\ task.kind # "connection"
  BY DEF Tasks
<1>3. tasks' \in Seq(Tasks) /\ TasksInOrder'
  BY <1>1, <1>2, QueueKeeps
<1>4. /\ Len(tasks) \in Nat /\ DOMAIN tasks = 1 .. Len(tasks)
      /\ DOMAIN tasks' = 1 .. Len(tasks) + 1
      /\ \A i \in 1 .. Len(tasks) : tasks'[i] = tasks[i]
      /\ tasks'[Len(tasks) + 1] = task
  BY <1>1, <1>2, Queued DEF Inv, LinkTypeOK
<1>5. EndQueuedFirst'
  <2>1. \A j \in DOMAIN tasks : ~IsConnection(j)
    BY <1>1, NoConnectionWaits DEF Inv
  <2>2. \A j \in DOMAIN tasks' : j < Len(tasks) + 1 => ~IsConnection(j)'
    BY <1>4, <2>1 DEF IsConnection
  <2>3. Len(tasks) + 1 \in DOMAIN tasks' /\ tasks'[Len(tasks) + 1].kind = "notAlive"
    BY <1>4
  <2> QED
    BY <2>2, <2>3 DEF EndQueuedFirst
<1>6. LinkTypeOK' /\ EndsItsOwn'
  BY <1>1, <1>3 DEF Inv, LinkTypeOK, EndsItsOwn
<1> QED
  BY <1>1, <1>3, <1>5, <1>6 DEF Inv, Ended, Connecting

LEMMA NotifyKeeps == ASSUME Inv, Notify PROVE Inv'
<1> DEFINE task == [kind |-> "connection", lifetime |-> lifetime, up |-> up]
<1>1. /\ viewing /\ ending = {} /\ viewing' = FALSE /\ Queue(task)
      /\ UNCHANGED <<up, lifetime, registered, ending, at, connecting, model, alive, reading>>
  BY DEF Notify, modelVars
<1>2. task \in Tasks
  BY DEF Inv, LinkTypeOK, Tasks
<1>3. /\ tasks' \in Seq(Tasks)
      /\ Len(tasks) \in Nat /\ DOMAIN tasks = 1 .. Len(tasks)
      /\ DOMAIN tasks' = 1 .. Len(tasks) + 1
      /\ \A i \in 1 .. Len(tasks) : tasks'[i] = tasks[i]
      /\ tasks'[Len(tasks) + 1] = task
  BY <1>1, <1>2, Queued DEF Inv, LinkTypeOK
<1>4. LinkTypeOK' /\ EndsItsOwn'
  BY <1>1, <1>3 DEF Inv, LinkTypeOK, EndsItsOwn, TasksInOrder
<1>5. TasksInOrder'
  <2>1. task.kind = "connection" /\ task.lifetime = lifetime /\ lifetime \in Nat
    BY DEF Inv, LinkTypeOK
  <2> HIDE DEF task
  <2> QED
    BY <1>1, <1>3, <2>1 DEF Inv, TasksInOrder, IsConnection
<1>6. Ended => Ended'
  <2>1. ASSUME EndQueuedFirst PROVE EndQueuedFirst'
    <3>1. PICK i \in DOMAIN tasks :
            tasks[i].kind = "notAlive" /\ \A j \in DOMAIN tasks : j < i => ~IsConnection(j)
      BY <2>1 DEF EndQueuedFirst
    <3>2. i \in DOMAIN tasks' /\ tasks'[i].kind = "notAlive"
      BY <1>3, <3>1
    <3>3. \A j \in DOMAIN tasks' : j < i => ~IsConnection(j)'
      BY <1>3, <3>1 DEF IsConnection
    <3> QED
      BY <3>2, <3>3 DEF EndQueuedFirst
  <2> QED
    BY <1>1, <2>1 DEF Ended
<1> QED
  BY <1>1, <1>4, <1>5, <1>6 DEF Inv, Connecting

-------------------------------------------------------------------------------
\* The scheduler takes a connection task: nobody has a model that is alive.
LEMMA ViewChangeKeeps == ASSUME Inv, ViewChange PROVE Inv'
<1>1. /\ NextTask("connection")
      /\ UNCHANGED <<up, lifetime, registered, ending, viewing, model, alive, reading>>
      /\ IF Head(tasks).up
           THEN at' = "connecting" /\ connecting' = Head(tasks).lifetime
           ELSE UNCHANGED <<at, connecting>>
  BY DEF ViewChange, receiverVars
<1>2. /\ tasks' \in Seq(Tasks)
      /\ Len(tasks) \in Nat \ {0} /\ DOMAIN tasks = 1 .. Len(tasks)
      /\ DOMAIN tasks' = 1 .. Len(tasks) - 1
      /\ \A i \in DOMAIN tasks' :
           i \in Nat /\ i + 1 \in DOMAIN tasks /\ tasks'[i] = tasks[i + 1]
      /\ Head(tasks) = tasks[1] /\ tasks[1] \in Tasks /\ IsConnection(1)
      /\ at = "idle"
  BY <1>1, Dequeued DEF Inv, LinkTypeOK, IsConnection
<1>3. 1 \in DOMAIN tasks /\ tasks[1].lifetime \in Nat
  BY <1>2 DEF Tasks, IsConnection
<1>4. ~Ended
  <2>1. "notAlive" \notin registered \cup ending
    BY <1>2, <1>3, NoConnectionWaits DEF Inv
  <2>2. ~EndQueuedFirst
    BY <1>2, <1>3 DEF EndQueuedFirst, IsConnection
  <2> QED
    BY <2>1, <2>2 DEF Ended
<1>5. ~alive /\ ~reading
  BY <1>4 DEF Inv
<1>6. LinkTypeOK'
  BY <1>1, <1>2, <1>3 DEF Inv, LinkTypeOK
<1>7. TasksInOrder'
  <2>1. \A i \in DOMAIN tasks : IsConnection(i) => tasks[i].lifetime \in Nat
    BY ElementOfSeq, LenProperties DEF Inv, LinkTypeOK, Tasks, IsConnection
  <2>2. connecting' \in {connecting, tasks[1].lifetime}
    BY <1>1, <1>2
  <2>3. \A i \in DOMAIN tasks' :
          /\ i + 1 \in DOMAIN tasks /\ 1 < i + 1
          /\ IsConnection(i)' => IsConnection(i + 1)
          /\ tasks'[i].lifetime = tasks[i + 1].lifetime
    BY <1>2 DEF IsConnection
  <2>4. \A i, j \in DOMAIN tasks' : i < j => i + 1 < j + 1
    BY <1>2
  <2>5. /\ connecting < tasks[1].lifetime /\ tasks[1].lifetime <= lifetime
        /\ viewing => tasks[1].lifetime < lifetime
    BY <1>2, <1>3 DEF Inv, TasksInOrder
  <2>6. \A i \in DOMAIN tasks' : IsConnection(i)' => connecting' < tasks'[i].lifetime
    BY <1>2, <1>3, <2>2, <2>3 DEF Inv, TasksInOrder
  <2> QED
    BY <1>1, <2>2, <2>3, <2>4, <2>5, <2>6 DEF Inv, TasksInOrder
<1>8. EndsItsOwn'
  BY <1>1, <1>4 DEF Inv, EndsItsOwn, Ended
<1> QED
  BY <1>1, <1>2, <1>5, <1>6, <1>7, <1>8 DEF Inv, Connecting

\* A step that leaves the queue and the lifetimes alone.
LEMMA StillInOrder ==
  ASSUME Inv, UNCHANGED <<tasks, lifetime, connecting, viewing, ending>>
  PROVE  /\ TasksInOrder'
         /\ registered \subseteq registered' /\ Ended => Ended'
BY DEF Inv, TasksInOrder, Ended, EndQueuedFirst, IsConnection

\* The scheduler in a connection task.
LEMMA ConnectKeeps ==
  ASSUME Inv, MakeModel \/ Bind \/ RegisterUnbind \/ CutOff
  PROVE  Inv'
<1>1. /\ UNCHANGED <<up, tasks, lifetime, connecting, viewing, ending, alive>>
      /\ registered' \in {registered, registered \cup {"unbind"}}
      /\ model' \in {model, model + 1}
      /\ reading' = reading
  BY DEF MakeModel, Bind, RegisterUnbind, CutOff, Register, Throw, receiverVars, modelVars
<1>2. at' \in {"made", "binding", "bound", "idle"} /\ Connecting
  BY DEF MakeModel, Bind, RegisterUnbind, CutOff, Register, Throw, Connecting
<1>3. LinkTypeOK'
  BY <1>1 DEF Inv, LinkTypeOK, Actions
<1>4. TasksInOrder' /\ (Ended => Ended')
  BY <1>1, StillInOrder
<1>5. EndsItsOwn'
  BY <1>1 DEF Inv, EndsItsOwn
<1> QED
  BY <1>1, <1>2, <1>3, <1>4, <1>5 DEF Inv, Connecting

LEMMA RegisterNotAliveKeeps == ASSUME Inv, RegisterNotAlive PROVE Inv'
<1>1. UNCHANGED <<up, tasks, lifetime, connecting, viewing, ending, alive, model, reading>>
      /\ at = "bound"
  BY DEF RegisterNotAlive, Register, Throw, receiverVars, modelVars
<1>2. \/ /\ connecting = lifetime
         /\ registered' = registered \cup {"notAlive"} /\ at' = "registered"
      \/ registered' = registered /\ at' = "idle"
  BY DEF RegisterNotAlive, Register, Throw, Terminated, receiverVars
<1>3. LinkTypeOK'
  BY <1>1, <1>2 DEF Inv, LinkTypeOK, Actions
<1>4. TasksInOrder'
  BY <1>1, StillInOrder
<1>5. EndsItsOwn'
  BY <1>1, <1>2 DEF Inv, EndsItsOwn
<1>6. ~alive /\ ~reading
  BY <1>1 DEF Inv, Connecting
<1>7. at' = "registered" => Ended'
  BY <1>2 DEF Ended
<1> QED
  BY <1>1, <1>3, <1>4, <1>5, <1>6, <1>7 DEF Inv, Connecting

LEMMA MarkAliveKeeps == ASSUME Inv, MarkAlive PROVE Inv'
<1>1. /\ at = "registered" /\ at' = "idle" /\ alive' = TRUE
      /\ UNCHANGED <<up, tasks, lifetime, connecting, viewing, ending, registered, model, reading>>
  BY DEF MarkAlive, receiverVars
<1>2. TasksInOrder' /\ (Ended => Ended')
  BY <1>1, StillInOrder
<1>3. LinkTypeOK' /\ EndsItsOwn'
  BY <1>1 DEF Inv, LinkTypeOK, EndsItsOwn
<1> QED
  BY <1>1, <1>2, <1>3 DEF Inv, Connecting

LEMMA MarkNotAliveKeeps == ASSUME Inv, MarkNotAlive PROVE Inv'
<1>1. /\ NextTask("notAlive") /\ ~reading /\ alive' = FALSE
      /\ UNCHANGED <<up, lifetime, connecting, viewing, ending, registered, at, model, reading>>
  BY DEF MarkNotAlive, receiverVars
<1>2. tasks' \in Seq(Tasks) /\ TasksInOrder'
  BY <1>1, DequeueKeeps
<1>3. at' = "idle"
  BY <1>1 DEF NextTask
<1>4. LinkTypeOK' /\ EndsItsOwn'
  BY <1>1, <1>2 DEF Inv, LinkTypeOK, EndsItsOwn
<1> QED
  BY <1>1, <1>2, <1>3, <1>4 DEF Inv, Connecting

\* The tasks that use the model.
LEMMA UseKeeps ==
  ASSUME Inv, NEW kind \in {"modelAction", "control"}, NextTask(kind),
         UNCHANGED <<receiverVars, modelVars, reading>>, at' \in {"idle", "using"}
  PROVE  Inv'
<1>1. UNCHANGED <<up, lifetime, connecting, viewing, ending, registered, model, alive, reading>>
  BY DEF receiverVars, modelVars
<1>2. tasks' \in Seq(Tasks) /\ TasksInOrder' /\ (Ended => Ended')
  BY <1>1, DequeueKeeps
<1>3. LinkTypeOK' /\ EndsItsOwn'
  BY <1>1, <1>2 DEF Inv, LinkTypeOK, EndsItsOwn
<1> QED
  BY <1>1, <1>2, <1>3 DEF Inv, Connecting

LEMMA RequestKeeps == ASSUME Inv, Tick \/ EditorEvent PROVE Inv'
<1>1. UNCHANGED <<up, lifetime, connecting, viewing, ending, registered, at, model, alive, reading>>
  BY DEF Tick, EditorEvent, receiverVars, modelVars
<1>2. PICK task \in Tasks : task.kind # "connection" /\ Queue(task)
  <2>1. [kind |-> "modelAction"] \in Tasks
    BY DEF Tasks
  <2>2. [kind |-> "control", of |-> model] \in Tasks
    BY DEF Tasks, Inv, LinkTypeOK
  <2> QED
    BY <2>1, <2>2 DEF Tick, EditorEvent
<1>3. tasks' \in Seq(Tasks) /\ TasksInOrder' /\ (EndQueuedFirst => EndQueuedFirst')
  BY <1>1, <1>2, QueueKeeps
<1>4. LinkTypeOK' /\ EndsItsOwn'
  BY <1>1, <1>3 DEF Inv, LinkTypeOK, EndsItsOwn
<1> QED
  BY <1>1, <1>3, <1>4 DEF Inv, Ended, Connecting

\* Steps that touch neither tasks nor lifetimes.
LEMMA AsideKeeps ==
  ASSUME Inv,
         Unbind \/ Misdeliver \/ EndModelAction \/ Fire \/ EndFire \/ UNCHANGED vars
  PROVE  Inv'
<1>1. /\ UNCHANGED <<up, tasks, lifetime, connecting, viewing, registered, model, alive>>
      /\ ending' = ending \/ (ending = {"unbind"} /\ ending' = {})
  BY DEF Unbind, Misdeliver, EndModelAction, Fire, EndFire, vars, receiverVars, modelVars
<1>2. at' = at \/ (at = "using" /\ at' = "idle")
  BY DEF Unbind, Misdeliver, EndModelAction, Fire, EndFire, vars
<1>3. reading' \in BOOLEAN /\ (reading' => alive)
  <2>1. \/ reading' = reading
        \/ reading' = TRUE /\ alive
        \/ reading' = FALSE
    BY DEF Unbind, Misdeliver, EndModelAction, Fire, EndFire, vars
  <2>2. reading \in BOOLEAN /\ (reading => alive)
    BY DEF Inv, LinkTypeOK
  <2>3. CASE reading' = reading
    BY <2>2, <2>3
  <2>4. CASE reading' = TRUE /\ alive
    BY <2>4
  <2>5. CASE reading' = FALSE
    BY <2>5
  <2> QED
    BY <2>1, <2>3, <2>4, <2>5
<1>4. LinkTypeOK' /\ EndsItsOwn'
  BY <1>1, <1>3 DEF Inv, LinkTypeOK, EndsItsOwn
<1>5. TasksInOrder' /\ (Ended => Ended')
  BY <1>1 DEF Inv, TasksInOrder, Ended, EndQueuedFirst, IsConnection
<1> QED
  BY <1>1, <1>2, <1>3, <1>4, <1>5 DEF Inv, Connecting

LEMMA LinkInitKeeps == ASSUME LinkInit PROVE Inv
<1>1. tasks = << >> /\ << >> \in Seq(Tasks) /\ DOMAIN tasks = {}
  BY EmptySeq, LenProperties DEF LinkInit
<1>2. LinkTypeOK
  <2>1. tasks = << >> /\ << >> \in Seq(Tasks)
    BY <1>1
  <2>2. tasks \in Seq(Tasks)
    BY <2>1, Zenon
  <2> QED
    BY <2>2 DEF LinkInit, LinkTypeOK
<1>3. TasksInOrder
  BY <1>1 DEF LinkInit, TasksInOrder
<1> QED
  BY <1>2, <1>3 DEF LinkInit, Inv, EndsItsOwn, Connecting

LEMMA LinkStep == ASSUME Inv, [LinkNext]_vars PROVE Inv'
<1>1. CASE View
  BY <1>1, QueueNotAliveKeeps, AsideKeeps, NotifyKeeps DEF View
<1>2. CASE RunTasks
  <2>1. CASE ViewChange
    BY <2>1, ViewChangeKeeps
  <2>2. CASE MakeModel \/ Bind \/ RegisterUnbind \/ CutOff
    BY <2>2, ConnectKeeps
  <2>3. CASE RegisterNotAlive \/ MarkAlive \/ MarkNotAlive
    BY <2>3, RegisterNotAliveKeeps, MarkAliveKeeps, MarkNotAliveKeeps
  <2>4. CASE ModelAction
    BY <2>4, UseKeeps DEF ModelAction
  <2>5. CASE ControlAction
    <3>1. at' \in {"idle", "using"}
      BY <2>5 DEF ControlAction, NextTask
    <3> QED
      BY <2>5, <3>1, UseKeeps DEF ControlAction
  <2>6. CASE EndModelAction
    BY <2>6, AsideKeeps
  <2> QED
    BY <1>2, <2>1, <2>2, <2>3, <2>4, <2>5, <2>6 DEF RunTasks
<1>3. CASE Change
  BY <1>3, ChangeKeeps
<1>4. CASE Tick \/ EditorEvent
  BY <1>4, RequestKeeps
<1>5. CASE Misdeliver \/ Fire \/ EndFire \/ UNCHANGED vars
  BY <1>5, AsideKeeps
<1> QED
  BY <1>1, <1>2, <1>3, <1>4, <1>5 DEF LinkNext

LEMMA LinkInv == LinkSpec => []Inv
<1>1. LinkInit => Inv
  BY LinkInitKeeps
<1>2. Inv /\ [LinkNext]_vars => Inv'
  BY LinkStep
<1> QED
  BY <1>1, <1>2, PTL DEF LinkSpec

-------------------------------------------------------------------------------
\* However connections and tasks interleave, a model that is alive belongs to a connection
\* that lasts or has its end on the way (RiderLink.cpp:76-84).
THEOREM AliveEnds == LinkSpec => []AliveUntilTheEnd
<1>1. Inv => AliveUntilTheEnd
  BY DEF Inv, Ended, EndQueuedFirst, AliveUntilTheEnd, EndQueued
<1> QED
  BY <1>1, LinkInv, PTL

\* No model is replaced while it is alive, and none changes, nor the answer, under a
\* handler of FireAsyncAction (RiderLink.cpp:70-71, 80-81, 101-102, 135-142).
THEOREM ReplacedInTime == LinkSpec => ReplacedUnseen
<1> DEFINE Step == /\ model' # model => ~alive
                   /\ reading /\ reading' => alive' /\ model' = model
<1>1. Inv /\ [LinkNext]_vars => [Step]_vars
  <2> SUFFICES ASSUME Inv, LinkNext PROVE Step
    OBVIOUS
  <2>1. Inv'
    BY LinkStep
  <2>2. model' # model => MakeModel
    BY DEF LinkNext, View, RunTasks, QueueNotAlive, Unbind, Notify, ViewChange, Bind,
           RegisterUnbind, CutOff, RegisterNotAlive, Register, MarkAlive, MarkNotAlive,
           ModelAction, EndModelAction, ControlAction, Change, Misdeliver, Tick,
           EditorEvent, Fire, EndFire, modelVars
  <2>3. MakeModel => ~alive /\ ~reading
    BY DEF MakeModel, Inv, Connecting
  <2> QED
    BY <2>1, <2>2, <2>3 DEF Inv
<1> QED
  BY <1>1, LinkInv, PTL DEF LinkSpec, ReplacedUnseen
===============================================================================
