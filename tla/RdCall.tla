-------------------------------- MODULE RdCall ---------------------------------
(***************************************************************************)
(* RdCall at end 1 and RdEndpoint at end 2: calls that wait for their      *)
(* answer (sync) or do not (start), made on the scheduler's thread of end  *)
(* 1, while its receiving thread hands answers to their tasks and the      *)
(* lifetime of the call is terminated on a thread of its own.  The n-th    *)
(* task has the identity n and is asked for the value n.                   *)
(*                                                                         *)
(* set_if_empty() takes no lock: a thread finds the result empty in one    *)
(* step and sets it in a later one, over what another thread has set in    *)
(* between.  Two threads that set a result at once, and a thread that uses *)
(* a task whose object is gone (it stays subscribed, and a lifetime being  *)
(* terminated still cancels it), are undefined behaviour: the caller goes  *)
(* on or crashes.                                                          *)
(***************************************************************************)
EXTENDS RdEnds

CONSTANT MaxCalls    \* bound on the calls made

ASSUME CallAssumption == MaxCalls \in Nat

VARIABLES
  terminated,   \* the call's bind_lifetime is
  subscribed,   \* the tasks the wire has a subscription of
  toCancel,     \* the tasks the terminated lifetime has still to cancel
  checked,      \* the task each thread has found without a result and is to set
  crashed,
  tasks,        \* the tasks made so far
  destroyed,    \* those whose object is gone without a result
  result,       \* what each task has been given
  syncTask,     \* sync_task_id
  spinning,     \* the task sync() waits for
  scheduled,    \* answers queued on the scheduler of end 1
  awaiting,     \* requests whose handler answers later
  callWire,
  failed,       \* history: a synchronous call has thrown for want of a value
  contested     \* history: tasks that two threads were to set at once

lifetimeVars == <<terminated, toCancel>>
settingVars == <<checked, contested>>
callVars == <<lifetimeVars, settingVars, subscribed, crashed, tasks, destroyed, result,
              syncTask, spinning, scheduled, awaiting, callWire, failed>>

Caller == 1
Callee == 2

NoTask == 0
Empty == 0
Fault == -1
Cancelled == -2

TaskIds == 1 .. MaxCalls
Threads == {"receiver", "scheduler", "terminator"}
Answers == [id : TaskIds, result : TaskIds \cup {Fault}]
Requests == [id : TaskIds]

CallInit ==
  /\ terminated = FALSE /\ toCancel = {}
  /\ checked = [t \in Threads |-> NoTask] /\ contested = {}
  /\ subscribed = {} /\ crashed = FALSE
  /\ tasks = 0 /\ destroyed = {}
  /\ result = [id \in TaskIds |-> Empty]
  /\ syncTask = NoTask /\ spinning = NoTask
  /\ scheduled = << >>
  /\ awaiting = {}
  /\ callWire = EmptyWire
  /\ failed = FALSE

-------------------------------------------------------------------------------
\* The scheduler's thread is free.
Idle == spinning = NoTask /\ checked["scheduler"] = NoTask /\ ~crashed

NewTask ==
  /\ tasks < MaxCalls
  /\ tasks' = tasks + 1
  /\ subscribed' = subscribed \cup {tasks + 1}

Request == callWire' = Send(callWire, Caller, <<[id |-> tasks + 1]>>)

\* start().
StartCall ==
  /\ Idle /\ ~terminated /\ LocalChange
  /\ NewTask /\ Request
  /\ UNCHANGED <<lifetimeVars, settingVars, crashed, destroyed, result, syncTask, spinning,
                 scheduled, awaiting, failed>>

\* sync(), up to the loop that waits.
SyncCall ==
  /\ Idle /\ ~terminated /\ LocalChange
  /\ syncTask = NoTask
  /\ NewTask /\ Request
  /\ syncTask' = tasks + 1 /\ spinning' = tasks + 1
  /\ UNCHANGED <<lifetimeVars, settingVars, crashed, destroyed, result, scheduled, awaiting,
                 failed>>

\* sync() while sync_task_id is set: "Already exists sync task", when the task has been
\* made and subscribed.
RefuseSync ==
  /\ Idle /\ ~terminated /\ LocalChange
  /\ syncTask # NoTask
  /\ NewTask /\ destroyed' = destroyed \cup {tasks + 1}
  /\ UNCHANGED <<lifetimeVars, settingVars, crashed, result, syncTask, spinning, scheduled,
                 awaiting, callWire, failed>>

\* Fault: a call that returns does not clear sync_task_id.
SyncTaskKept == syncTask

SyncTaskAfterReturn == NoTask

\* The loop ends with a value.
SyncReturns ==
  /\ ~crashed /\ spinning # NoTask
  /\ result[spinning] \in TaskIds
  /\ spinning' = NoTask /\ syncTask' = SyncTaskAfterReturn
  /\ UNCHANGED <<lifetimeVars, settingVars, subscribed, crashed, tasks, destroyed, result,
                 scheduled, awaiting, callWire, failed, changes>>

\* The loop ends with a time-out, a fault or a cancelled task: `value_or_throw().unwrap()`
\* throws, and the line that clears sync_task_id is not reached.
SyncThrows ==
  /\ ~crashed /\ spinning # NoTask
  /\ result[spinning] \notin TaskIds
  /\ spinning' = NoTask
  /\ destroyed' = destroyed \cup {spinning}
  /\ failed' = TRUE
  /\ UNCHANGED <<lifetimeVars, settingVars, subscribed, crashed, tasks, result, syncTask,
                 scheduled, awaiting, callWire, changes>>

-------------------------------------------------------------------------------
\* Fault: set() in place of set_if_empty().
Settable(id) == TRUE

Unset(id) == result[id] = Empty

Contended(thread, id) == \E other \in Threads \ {thread} : checked[other] = id

\* set_if_empty(): the test, which has found no result ...
FindEmpty(thread, id) ==
  /\ checked' = [checked EXCEPT ![thread] = id]
  /\ contested' = IF Contended(thread, id) THEN contested \cup {id} ELSE contested

\* ... and set(), whatever is there by now.
SetResult(thread, id, r) ==
  /\ checked' = [checked EXCEPT ![thread] = NoTask]
  /\ result' = IF id \in destroyed THEN result ELSE [result EXCEPT ![id] = r]
  /\ crashed' \in (IF id \in destroyed \/ Contended(thread, id) THEN BOOLEAN ELSE {FALSE})
  /\ UNCHANGED contested

-------------------------------------------------------------------------------
\* terminate(), up to where it has taken the lifetime's actions: no new task can be made,
\* and a task destroyed later no longer removes its own.
BeginUnbind ==
  /\ ~crashed /\ ~terminated
  /\ terminated' = TRUE
  /\ toCancel' = (1 .. tasks) \ destroyed
  /\ UNCHANGED <<settingVars, subscribed, crashed, tasks, destroyed, result, syncTask,
                 spinning, scheduled, awaiting, callWire, failed, changes>>

\* The actions run from the last task's to the first's.
Latest(id) == id \in subscribed /\ \A other \in subscribed : other <= id

\* A task's second action: it is cancelled if it has no result.
CancelTask ==
  /\ ~crashed /\ checked["terminator"] = NoTask
  /\ \E id \in toCancel :
       /\ Latest(id)
       /\ \/ /\ id \in destroyed
             /\ crashed' \in BOOLEAN
             /\ toCancel' = toCancel \ {id}
             /\ UNCHANGED settingVars
          \/ /\ id \notin destroyed /\ ~Unset(id)
             /\ toCancel' = toCancel \ {id}
             /\ UNCHANGED <<settingVars, crashed>>
          \/ /\ id \notin destroyed /\ Unset(id)
             /\ FindEmpty("terminator", id)
             /\ UNCHANGED <<toCancel, crashed>>
  /\ UNCHANGED <<terminated, subscribed, tasks, destroyed, result, syncTask, spinning,
                 scheduled, awaiting, callWire, failed, changes>>

SetCancelled ==
  /\ ~crashed /\ checked["terminator"] # NoTask
  /\ SetResult("terminator", checked["terminator"], Cancelled)
  /\ toCancel' = toCancel \ {checked["terminator"]}
  /\ UNCHANGED <<terminated, subscribed, tasks, destroyed, syncTask, spinning, scheduled,
                 awaiting, callWire, failed, changes>>

\* A task's first action.
Unsubscribe ==
  /\ ~crashed /\ terminated
  /\ \E id \in subscribed \ toCancel : Latest(id) /\ subscribed' = subscribed \ {id}
  /\ UNCHANGED <<lifetimeVars, settingVars, crashed, tasks, destroyed, result, syncTask,
                 spinning, scheduled, awaiting, callWire, failed, changes>>

-------------------------------------------------------------------------------
\* Fault: a call that waits takes the next answer for its own.
GivenToWaiting(id) == IF spinning # NoTask THEN spinning ELSE id

GivenTo(id) == id

\* on_wire_received of WiredRdTaskImpl, on the receiving thread: the answer to a
\* synchronous call is set there and then, others are queued.
ReceiveAnswer ==
  /\ ~crashed /\ checked["receiver"] = NoTask /\ Arrived(callWire, Caller)
  /\ LET m == Message(callWire, Caller)
         id == GivenTo(m.id)
     IN  \/ /\ id \notin subscribed \/ (id \notin destroyed /\ id = spinning /\ ~Unset(id))
            /\ callWire' = Take(callWire, Caller)
            /\ UNCHANGED <<settingVars, crashed, scheduled>>
         \/ /\ id \in subscribed /\ id \in destroyed
            /\ crashed' \in BOOLEAN
            /\ callWire' = Take(callWire, Caller)
            /\ UNCHANGED <<settingVars, scheduled>>
         \/ /\ id \in subscribed /\ id \notin destroyed /\ id # spinning
            /\ scheduled' = Append(scheduled, m)
            /\ callWire' = Take(callWire, Caller)
            /\ UNCHANGED <<settingVars, crashed>>
         \/ /\ id \in subscribed /\ id \notin destroyed /\ id = spinning /\ Unset(id)
            /\ FindEmpty("receiver", id)
            /\ UNCHANGED <<callWire, crashed, scheduled>>
  /\ UNCHANGED <<lifetimeVars, subscribed, tasks, destroyed, result, syncTask, spinning,
                 awaiting, failed, changes>>

SetReceived ==
  /\ ~crashed /\ checked["receiver"] # NoTask
  /\ SetResult("receiver", checked["receiver"], Message(callWire, Caller).result)
  /\ callWire' = Take(callWire, Caller)
  /\ UNCHANGED <<lifetimeVars, subscribed, tasks, destroyed, syncTask, spinning, scheduled,
                 awaiting, failed, changes>>

\* The scheduler of end 1 runs what ReceiveAnswer queued: an answer to a task with a
\* result is dropped.
TestAnswer ==
  /\ Idle /\ scheduled # << >>
  /\ LET id == Head(scheduled).id
     IN  \/ ~Unset(id) /\ scheduled' = Tail(scheduled) /\ UNCHANGED settingVars
         \/ Unset(id) /\ FindEmpty("scheduler", id) /\ UNCHANGED scheduled
  /\ UNCHANGED <<lifetimeVars, subscribed, crashed, tasks, destroyed, result, syncTask,
                 spinning, awaiting, callWire, failed, changes>>

SetAnswer ==
  /\ ~crashed /\ checked["scheduler"] # NoTask
  /\ SetResult("scheduler", checked["scheduler"], Head(scheduled).result)
  /\ scheduled' = Tail(scheduled)
  /\ UNCHANGED <<lifetimeVars, subscribed, tasks, destroyed, syncTask, spinning, awaiting,
                 callWire, failed, changes>>

-------------------------------------------------------------------------------
Answer(id, r) == [id |-> id, result |-> r]

\* on_wire_received of RdEndpoint: the handler returns a task with a result, throws, or
\* returns a task it will set later.
ReceiveRequest ==
  /\ Arrived(callWire, Callee)
  /\ LET id == Message(callWire, Callee).id
     IN  \/ /\ \E r \in {id, Fault} :
                 callWire' = Send(Take(callWire, Callee), Callee, <<Answer(id, r)>>)
            /\ UNCHANGED awaiting
         \/ /\ callWire' = Take(callWire, Callee)
            /\ awaiting' = awaiting \cup {id}
  /\ UNCHANGED <<lifetimeVars, settingVars, subscribed, crashed, tasks, destroyed, result,
                 syncTask, spinning, scheduled, failed, changes>>

\* The handler's task is set.  (The endpoint's answer then reads a local that is gone: it
\* may as well never come.)
AnswerLater ==
  /\ \E id \in awaiting :
       /\ callWire' = Send(callWire, Callee, <<Answer(id, id)>>)
       /\ awaiting' = awaiting \ {id}
  /\ UNCHANGED <<lifetimeVars, settingVars, subscribed, crashed, tasks, destroyed, result,
                 syncTask, spinning, scheduled, failed, changes>>

CallNext ==
  \/ StartCall \/ SyncCall \/ RefuseSync \/ SyncReturns \/ SyncThrows
  \/ BeginUnbind \/ CancelTask \/ SetCancelled \/ Unsubscribe
  \/ ReceiveAnswer \/ SetReceived \/ TestAnswer \/ SetAnswer
  \/ ReceiveRequest \/ AnswerLater

-------------------------------------------------------------------------------
\* Whatever is late or lost, a task holds the answer to its own request, a fault, or that
\* it was cancelled; an answer that sync() waits for is never another call's.
AnswersMatch == \A id \in TaskIds : result[id] \in {Empty, Cancelled, Fault, id}

\* A result is final whatever comes late, an answer or the end of the lifetime, save where
\* set_if_empty() is no test-and-set: an answer and the cancellation that both found the
\* task without a result, the later of which replaces the other.
ResultsAreFinal ==
  [][\A id \in TaskIds : result[id] # Empty /\ result'[id] # result[id] =>
       id \in contested /\ Cancelled \in {result[id], result'[id]}]_callVars

\* One synchronous call that times out, faults or is cancelled, and every later one is
\* refused for as long as the call lives; without such a failure none ever is.
OneFailureRefusesAll ==
  /\ spinning = NoTask => (syncTask # NoTask <=> failed)
  /\ spinning # NoTask => ~failed /\ syncTask = spinning
===============================================================================
