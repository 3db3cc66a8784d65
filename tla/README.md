# Hw_09: a TLA+ verification project

Hw_09 is an Unreal Engine multiplayer game of number baseball. A server draws a
secret of three different digits 1..9; connected players guess in turn by typing
into the chat, are told strikes and balls, have three guesses each and 15 seconds
per turn. The repository carries the RiderLink editor plugin and, inside it, the
RD protocol library, sources included.

This directory holds models of that code, TLC runs that check them on small
instances, and proofs, checked by TLAPS, of what matters most for every size.

    tlc -workers 2 -config HwGameChurn.cfg HwGameMC.tla     # check a run
    tlapm HwGameProofs.tla                                  # check the proofs

`PROJECT.json` lists the components, the runs with their properties, the source
lines each definition stands for, the hazards the properties are aimed at, the
faults ("mutants") each property is known to catch, the findings and the theorems.

## 1. Inventory

### The game (`src/Source/Hw_09`)

| component | state | operations | what makes it hard |
|---|---|---|---|
| Game mode `AHWGameModeBase` (server only) | `AllPlayerControllers`, `CurrentTurnIndex`, `bHasActedInCurrentTurn`, `SecretNumberString` | `OnPostLogin`, `BeginPlay`, `PrintChatMessageString`, `UpdateGameTimer` (1 s timer), `JudgeGame`, `ResetGame`, `TurnToNextPlayer` | logins, departures and timeouts at any point of a game; a turn that must always move on; restarts inside other handlers; a roster that is never trimmed |
| Game state `AHwGameStateBase` | `RemainingTime` (replicated) | `ResetTime`, login multicast | clock races a guess |
| Player state `AHwPlayerState` | `CurrentGuessCount`, `PlayerNameString`, `MaxGuessCount` (replicated) | written by the game mode | counts and the draw condition must agree |
| Player controller `AHwPlayerController`, chat input `UHwChatInput` | `NotificationText`, widgets | RPCs: a line up, texts and timer updates down | order of RPCs; a guess in flight when its turn ends |
| Judging | none | `GenerateSecretNumber`, `IsGuessNumberString`, `JudgeResult` | indices into a shrinking pool, parsing by the last three characters |
| Pawn, build files, configs, assets | none that matters | debug printing | not modelled |

Everything on the server runs on the game thread, each handler to completion, so
handlers are atomic actions; the hard part is the order they come in. Clients and
server exchange reliable RPCs, which Unreal delivers in order per connection.

What makes the game right: every connected player gets turns, in seat order and
equally many; only the player whose turn it is is charged; the game ends in a draw
exactly when nobody has a guess left; what is announced is what is the case.

### The RD protocol library (`Plugins/Developer/RiderLink/Source/RD/src`)

| component | state | operations | what makes it hard |
|---|---|---|---|
| Send buffer `ByteBufferAsyncProcessor` | `data`, `queue`, `pending_queue`, three sequence numbers, `interrupt_balance`, `state`; four locks | `put`, its thread (`ThreadProc`, `process`), `pause`, `resume` (`reprocess`), `acknowledge`, `stop` | three kinds of threads; sends that fail in the middle; every message exactly once and under one number across reconnections |
| Socket wire `SocketWire::Base`, `Client`, `Server`, `PkgInputStream` | socket, `max_received_seqn`, partial message, heartbeat timestamps | `set_socket_provider` (the life of a connection), `send0`, `receiverProc` (packages, pings, acknowledgements), `send_ack`, `ping` | lost connections at any byte, duplicates, restart of one side, locks held across blocking calls |
| `MessageBroker`, schedulers | `subscriptions`; `broker`, two queues per identity | `dispatch`, `invoke`, the action `dispatch` queues, `advise_on` | order of messages across two threads; entries tested and erased without the lock |
| `ExtWire`, `RdExtBase` | `sendQ`, `connected` | `send`, Ready / ReceivedCounterpart / Disconnected | messages sent before the counterpart is there; states handled on two threads |
| `RdMap`, `RdProperty`, `RdList`, `RdSet`, `RdSignal` | values, versions, `pendingForAck` | local change, `on_wire_received` | changes at both ends that cross |
| `RdCall`, `RdEndpoint`, `RdTask` | awaiting tasks, `sync_task_id` | `sync`, `start`, answers, cancellation | time-outs, late answers, a lifetime that ends meanwhile |
| Lifetimes, reactive core | nested lifetimes, actions | `terminate`, `add_action`, `attach_nested` | termination while others add |
| Interning, serialization, buffers | tables, bytes | read, write | not modelled |

How they interact: an entity's local change calls `wire->send`, which `put`s bytes into the
send buffer; the buffer's thread numbers and writes them; the other wire's receiving thread
reads packages, acknowledges each, and hands messages to the broker, which
queues the entity's `on_wire_received` on a scheduler. A connection's own thread runs
`set_socket_provider` from beginning to end of the connection.

What makes the wire right: messages arrive in the order they were put, none skipped, none
renumbered, whatever connection is lost when; what is forgotten has arrived; what is thrown
away as a duplicate is one.

### RiderLink's editor modules (`Plugins/Developer/RiderLink/Source/Rider*`)

`RiderLink` owns the server wire and the model, created anew per connection, and lends it to
the others (`ViewModel`, `QueueModelAction`, `FireAsyncAction`); `RiderLogging` sends log
lines from a thread of its own, `RiderGameControl` play commands and states, `RiderLC` hot
reload. Their hard part is the life of `EditorModel` across connections and threads: four
threads see it, and a connection may be gone before the task that its coming up has queued
runs. What makes them right: whoever uses a model finds it alive or is told there is none,
and the last state of the connection is what remains. The
debugger support, blueprint and shader helpers keep no state; `RD/thirdparty` and the
generated models are not this project's code.

## 2. Modules

| module | what it models |
|---|---|
| `HwGame` | the server: one action per handler branch, the client RPCs each handler sends |
| `HwRound` | abstract: a fixed table takes attempts in seat order, a draw exactly when all are used |
| `HwGameMC` | `HwGame` for TLC, and the refinement mapping onto `HwRound`, which counts used attempts |
| `HwGameProofs` | theorems about `HwGame`, the safety half of the refinement of `HwRound` included |
| `HwJudge` | drawing the secret, finding the guess in a chat line, scoring it |
| `HwJudgeProofs` | theorems about `HwJudge` |
| `HwSession` | `HwGame` with clients and the RPC streams between them |
| `HwSessionProofs` | theorems about `HwSession`: counting in streams, answers, what clients know |
| `RdSendBuffer` | the send buffer: one action per step between locks, for any outcome of `processor` |
| `RdChannel` | abstract: an in-order channel without gaps, which a restarted sender starts over |
| `RdWire` | one direction of messages between two wires, composing `RdSendBuffer` with a network |
| `RdWireProofs` | what deque operations do to consecutive numbers; the buffer and the wire forget nothing; under `Prompt` the wire is an in-order channel |
| `RdEnds` | what the entities share: two ends and an in-order wire each way |
| `RdMap`, `RdProperty`, `RdList`, `RdSet` | one entity each: local changes and `on_wire_received` at both ends |
| `RdCall` | calls, synchronous or not, their tasks, their endpoint and the end of their lifetime |
| `RdReplicas`, `RdReplicasMC` | the five together, and for TLC |
| `RdReplicasProofs` | theorems about calls, properties, sets and lists |
| `RdMapProofs` | theorems about maps, and the types of all entities |
| `RdMessageBroker` | the broker between the receiving thread and the default scheduler |
| `RdExt` | the broker with an extension and its member, and a counterpart that runs the same handshake |
| `RdExtProofs` | theorems about `RdExt`: hand-overs, order, delivery and the handshake |
| `RiderLink` | the editor model and its users on four threads across connections |
| `RiderLinkProofs` | theorems about `RiderLink` |

### How `HwGame` corresponds to the code

`roster`, `turn`, `acted`, `secret` are the members of the game mode, `remaining`
the game state's clock, `count` and `name` the player states', `notification` the
controllers' text. `status` is the life of a controller object: a departed
controller is first invalid (`left`: `IsValid` is false and it has no player state)
and, once collected, dangles in the roster, which is no `UPROPERTY` (`freed`).
Reading a dangling entry is undefined: it crashes (`Crash`) or goes on as for an
invalid controller. `out` is the sequence of client RPCs the last handler sent to
each controller. Guesses and secrets are abstract values here; equality is all
that the turn logic asks of them, and `HwJudge` models their digits.

`BeginPlay`, `Login` (`OnPostLogin`), `Chat`, `RefuseGuess`, `WinningGuess`,
`MissedGuess` (the branches of `PrintChatMessageString`), `Countdown`, `Timeout`,
`TimeoutOfDeparted` (the branches of `UpdateGameTimer`) are handlers; `Logout` and
`CollectGarbage` are the engine's. `EndTurn` is `IncreaseGuessCount; JudgeGame(.., 0);
TurnToNextPlayer`, the draw inside included. The ticks in which `UpdateGameTimer`
finds nothing to do change nothing and are stuttering.

`HwSession` adds to it what travels: `up` the lines on their way to the server,
`down` the RPCs on their way to each client, `announced` the player a client last
read is to move, `waiting` the guesses it has sent and read no answer to.

### How `RdSendBuffer` and `RdWire` correspond to the code

The variables of `RdSendBuffer` are the members of `ByteBufferAsyncProcessor`; the n-th
message put is the number n, so that contents and numbers can be compared. `thread` is where
`ThreadProc` stands: `waiting` (at or before the wait), `grabbed` (data is in the queue,
`lock` is free, `process()` not entered), `processing`. `owner` is who keeps
`lock` beyond one step: `pause` waiting for `process()` to end, or `resume` through
`reprocess()`. Steps end where a lock is given up or `processor` is called, so the turns of both loops are steps of their own
and every other thread's steps fall between them.

`RdWire` gives `processor` a network. `link` is the TCP connection; `toReceiver`
and `toSender` what it carries; `conn` and `peer` where the two wires stand in
`set_socket_provider`. A send into a cut connection may still succeed (`Send0`). A cut loses any
tail of what was on its way (`Drop`). `SenderRestarts` starts the sending process anew; the
receiver stays with its `max_received_seqn`. `heard` is a history of the numbers the receiver
accepted from the present sender, `got` the message dispatched last. `junk` counts the bytes that
duplicates leave in the receiver's stream (`read_package` returns `true`, a length of 1,
for them); enough of them, or one followed by a message, and the stream is
`Misframed` for good: messages are accepted but no longer dispatched.

`RdChannel` is refined with `sent <- put` and `got <- got`. It lets the first message be
delivered again, since the code always accepts number 1.

### How the entities and calls correspond to the code

Every entity is two replicas and a wire each way that delivers in order, which is what
`RdChannel` promises and the broker keeps per entity. A local change is the `Viewable...` operation
with the handler that `init()` advises, so what is sent depends on whether anything
changed, as there. What comes in is applied outside `local_change` and sent no further.

* `RdMap`: `is_master` is a public member that defaults to false and that nothing here sets; the
  run takes one end as the master, as the protocol means it. `pendingForAck` maps pointers
  to keys. A key of `ViewableMap` is an object of its own behind a `shared_ptr` (`Wrapper<K>`), and an
  event carries that object's address, so what an erasure does to the map's layout leaves the
  pointers of all other keys alone. The key that is erased goes with its entry, and the pointer
  of a removal is the caller's argument: an entry of an erased key is `dangling`, and a lookup
  of that key finds it or not (`Lookups`); when it does not, the key is put into `missed` and may get a second entry.
  `clear()` is the one operation that erases several keys. `emplace` keeps the version of an entry that is found, so
  that a key changed again before the master has seen its last change acknowledged is unlocked too early
  (`disputed`). These are the two exemptions of `MapsAgree`, key by key; `NoKeyStaysLocked` has `missed` alone.
* `RdProperty`: `masterVersion` is `master_version` of both ends; the slave carries the last it has seen.
* `RdList`: both ends count every change; a number that is not the expected one fails the
  assertion "Are you modifying a list from two sides?", which logs or aborts by the
  build: the list stops there (`conflict`). `RdSet` has no numbers.
* `RdCall`: `syncTask` is `sync_task_id`, `spinning` the task whose thread is in the loop of
  `sync()`. That loop may end at any time with a time-out, since 200 ms are as long as it takes.
  `SyncThrows` is line 83: it leaves `sync_task_id` set. `RefuseSync` makes a task and
  subscribes it before it throws, and destroys it. Answers come on the receiving thread: the one
  a synchronous call waits for is set there, others are queued. `set_if_empty` is an unlocked test and a `set` that
  overwrites, so each of the three threads that set results (`receiver`, `scheduler`, `terminator`) does
  it in two steps: `FindEmpty` leaves the task in `checked`, `SetResult` sets it whatever is there by then.
  A task that two threads have found empty is `contested`; when both are inside `set` at once the
  process may crash, or the later result replaces the earlier. `BeginUnbind` is `LifetimeImpl::terminate` up to
  where it has taken the actions; they then run on a thread of their own, from the last task's to the first's, each
  a `CancelTask` (with `SetCancelled`) and an `Unsubscribe`. Meanwhile, and after a task's
  destruction, an answer or a cancellation may reach an object that is gone (`crashed`).
  A handler that answers later has its listener read a local that is gone: the answer may never come.

### How `RdMessageBroker` and `RdExt` correspond to the code

`Dispatch` is one step under the broker's lock, unless it executes a message itself: then
`running` holds the message and the lock stays taken until it has been executed. `tasks` is the
default scheduler's queue: invocations, and the actions of line 66, which are five steps (`HandOver`
to line 89, `TestEmpty` 91, `MoveOut` 93, `Erase` 94, the loop), since only the first takes
the lock. What the unlocked steps can do is kept apart: `undefined` (an iterator or a subscription that is
none is used) halts the model; `raced` is a history of the orders in which a custom message is
lost or overtaken by that code. `era` counts bindings: an object unbound has no
identity any more, so what is queued for it is dropped.

The extension (`Ext`) is on `SynchronousScheduler`, its member on the default scheduler, as
the signals, properties and endpoints of `RdEditorModel` are. `RdExtBase::init` is three steps on the scheduler's thread (advise, Ready,
the members), the end of the lifetime the same in reverse; the receiving thread's steps fall between them.
The listener of `connected` sends what is queued under ExtWire's lock, after `connected` is
already true (`Flush`): `send()` has to look at `sendQ` as well. The counterpart is another
program (external); it runs the same handshake, one message at a time. `due` and `peerDue` are the
messages that have to arrive: those sent and not yet executed whose reader has stayed bound.

### How `RiderLink` corresponds to the code

`lifetime` numbers the lifetimes that `connected.view` gives, one per change; `registered` is
what has been added to the current one, `ending` what of the one before has still to run
(in reverse). `Change` to `Notify` is the view on the receiving thread; the connection task is
`ViewChange`, `MakeModel` (the write lock), `Bind`, `RegisterUnbind`, `RegisterNotAlive`,
`MarkAlive`, with the connection free to end between any two. A step that meets a terminated
lifetime throws, which ends the task and frees the lock (`Throw`, `CutOff`). `model`
numbers the objects of `EditorModel`; `subscribed` is the one the broker's
subscriptions point at, which `CutOff` may leave behind (`Misdeliver`). Using a model that has been
unbound meanwhile is undefined (`EndUse`), as is the use of an `FRiderGameControl` that the end of the model
has destroyed (`ControlAction`). `Fire` and `EndFire` are `FireAsyncAction`, `Tick` is
`FRiderLCModule::Tick`, `EditorEvent` any of the delegates of `FRiderGameControl`.

The lock that matters is the one of the task that ends the model: without it `FireAsyncAction`
would answer `false` for a message it has sent. At the replacement the model
is never alive, which the check of `ReplacedUnseen` shows, so that no reader is in its handler.

## 3. Runs

| run | question | instance | result |
|---|---|---|---|
| `game_fixed` | are turns fair, announced truthfully and never starved, does the server implement `HwRound`? | host + 2 remote players, 3 guesses each, clock of 2, restarts | holds, 2,366 states |
| `game_churn` | what survives joins, departures and collection at any point? | 3 players, 2 guesses each, clock of 1 | holds, about 140,000 states |
| `judge` | are drawing, parsing and scoring right? | digits 0..4, lines up to 4 characters | holds, 37,361 states |
| `session` | is each guess answered once, and do clients learn whose turn it is? | 2 clients, 2 guesses each, one line and about two RPC batches in flight | holds, 80,582 states |
| `game_draw` | does the game after a draw begin with the player announced first? | 2 players, 3 guesses each | violated: finding |
| `game_departed` | does the turn leave a player who left? | 2 players | violated: finding |
| `wire` | what does the send buffer keep, whatever is lost and whoever is held up? | 3 messages, 3 cuts or restarts | holds, 203,722 states |
| `wire_prompt` | is the wire an in-order channel, are acknowledgements and duplicates what they seem, do messages arrive? | the same, `Prompt` | holds, 93,750 states |
| `wire_race` | do acknowledgements grow? | 3 messages, 2 cuts or restarts | violated: finding |
| `replicas` | do two ends that change things at once agree, and do calls get their own answers? | 2 keys, 2 values, one master, 4 changes or calls, at most 3 calls | holds, 250,768 states |
| `host` | does the handshake converge and the broker deliver in order, whatever is bound when? | 3 bindings and 2 messages at both ends together | holds, about 545,000 states |
| `riderlink` | is the model alive exactly while it may be used, and does it follow the connection? | 6 changes of the connection, 4 tasks waiting | holds, about 17,000 states |

Bounds and why they are enough. Three seats are the fewest for which "the next
seat" and "every other seat" differ; the table of two is where a restart can skip the first
player and come straight back. `TurnTime` matters only as zero or not zero (2 in
`game_fixed` so that a countdown and a timeout are both seen in the middle of a
turn). `MaxGuessCount` is the source's 3 in `game_fixed`; 2 elsewhere still has a
first, a last and, with a late joiner, an excess guess. Nothing else is bounded: guess
counts reset at each draw, and in `game_churn` a late joiner can join only once,
which bounds the excess. In `judge` four digits leave a digit that is not in the secret,
one typed character more than a guess shows where the guess is cut. `MaxUp` and
`MaxDown` in `session` bound messages in flight: a client's next line waits, and the
server takes no step while a client has more than `MaxDown` RPCs to read.

For the wire, three messages are the fewest for which one is acknowledged, one pending and
one waiting at once, and three cuts or restarts let a failed resend, a restart and a loss fall into one
behaviour; with `MaxDrops` spent the last connection stays, which is where liveness is looked for.

In `replicas` four changes let two changes of one key at each end cross, a key be removed and
come back, and a call be refused after one that failed and one that is answered late;
keys and values are only compared, so they are symmetric. The call and the other entities share nothing
but the bound on changes, so a behaviour of the run has either calls or other changes
(`CallsApart`; five changes, and four without this constraint, were run once each: 3.3 million states, no error).
In `host` three bindings are
the fewest in which one end is bound, unbound and bound again while the other is bound, and
two messages are the fewest that can change places (four bindings were run once: 6.4
million states, no error). In `riderlink` six changes are three connections, so that a task can
outlive its connection, meet the next and leave something for the one after it.

`Prompt` is an assumption, not code: the send thread, once it has taken data, enters
`process()` before the lost connection is replaced. `wire` does without it; `wire_race`
shows why `wire_prompt` cannot.

Fairness. The 1 s timer is set with `bLoop = true` and never cleared, hence
`WF(UpdateGameTimer)`. In `session` reliable RPCs are delivered (`WF(ClientStep)`)
and the server keeps handling ticks and lines; since the bound `MaxDown`, which the code does
not have, disables those now and then, their fairness is strong. No fairness is
assumed of a player: nobody has to join, type or leave. Of the wire, the threads go on
while they can and TCP delivers while the connection lasts; nobody has to put, connect, stop or
restart.
In `riderlink` the threads that have something to do go on: the receiving thread finishes the
view it is in, a handler of `FireAsyncAction` ends, and the scheduler's thread, which the logging
thread may keep from the lock again and again, gets it some time (strong fairness). Nothing makes the
connection change or the editor queue anything.
`CHECK_DEADLOCK FALSE` where the system may stop: a crashed program, a judged line, a bound used
up with nothing left on its way.

### Findings

* `game_draw`: `ResetGame` tells everyone "It's Player 1's turn!", but after a draw
  its callers still run `TurnToNextPlayer`, so the second seat begins. (The last
  announcement is the true one: `AnnouncedTurnIsTrue` holds.)
* `game_departed`: the header calls `CurrentTurnIndex` the index of the player
  currently playing. When that player leaves, the timeout only resets the clock and the
  index stays there for ever, with connected players waiting. That this is
  permanent is itself a checked and proved property, `DepartureFreezesTheGame`.
* `wire_race`: the send buffer's log calls an acknowledgement that is not greater than
  the last an error (`ByteBufferAsyncProcessor.cpp:259`). It comes about without any fault of the peer:
  the send thread takes data, the connection is lost and replaced before it enters
  `process()`, and the new messages go out ahead of the ones `resume()` then repeats. Those
  are thrown away as duplicates and acknowledged after the newer ones. One of them that
  the receiver had not accepted before is lost: the receiver will not have it any more, and
  the sender forgets it once the newer number is acknowledged.

## 4. Proofs

`HwGameProofs` proves for any set of controllers, any turn time and any maximum of guesses, from `GameAssumption` alone:

* `TypeCorrect`: `Spec => []TypeOK`.
* `SeatsCorrect`: `Spec => []SeatsOK`, inductive together with `TypeOK`. It says that the
  turn index names a seat, that nobody has two seats, that names match seats and that the
  flag is down between handlers; all later proofs rest on it.
* `GameStaysOpen`: `Spec => []GameOpen`. `NobodyLeft` is needed, since a
  departure can take away the only player with a guess left.
* `OnlyCurrentCharged`, `DepartureFreezes`: action properties, step by step from the
  two invariants above.
* `TurnsAreFair`: `FixedSpec => []FairTurns`. The invariant is `FairTurns` with the
  fixed roster's own facts (all seats valid while the game is played). Its heart: a miss turns
  the counts of one round into those of the round's next seat, and the draw condition
  holds exactly when the last seat has used its last guess.
* `AnnouncementsAreTrue`: `FixedSpec => []AnnouncedTurnIsTrue`. Of what a handler sends only the last
  announcement counts, so the lemmas are about streams: a handler that ends in one tells of that one,
  whatever comes before, and a restart tells of the first seat until `TurnToNextPlayer` speaks again.
* `StepsImplementRound`: `FixedSpec => Table!Init /\ [][Table!Next]_(Table!vars)`, the safety half of
  `ImplementsRound`. The mapping counts the used attempts of the whole table as the cardinality of
  `UsedBy`, so that no fold is needed: a miss adds one pair to that set, and it is full exactly
  when `FairTurns` finds the last seat at its last guess. The fairness half stays with TLC.

`HwSessionProofs`, for any number of clients and any bounds on what is on its way, from `GameAssumption` and
`SessionAssumption` (a line of chat is not a guess):

* `SessionTypeCorrect`, `GuessesHaveOneAnswer`, `ClientsAreInformed`. Every step of the session is a step
  of the game under `FixedNext` or leaves it alone, so `TableInv` and `AnnouncedTurnIsTrue` carry over.
  The number of answers in a stream is additive over `\o` and drops by one or none at `Tail`;
  a guess that leaves a client's line puts exactly one answer into its RPCs, whichever branch handles it.
  What a client will believe once it has read everything is the last announcement on its
  way or, if there is none, the one it has read (`Follows`); that is the player to move, and every
  handler that changes the turn ends in an announcement to all.

`HwJudgeProofs`, from `JudgeAssumption` (three to nine digits, lines of any length):

* `SecretsAreWellFormed`: the invariant `Pool` says that what is left in the pool and what has been
  drawn are different digits; the lemma `Removed` says what `RemoveAt` leaves at each position.
* `OnlyTypedIsJudged` and `ScoresAreRight`: `Lines` says what a line is made of, `GuessOf` where
  the guess comes from in it. `Counted` counts a set of positions member by member, and
  `Scores` adds strikes to balls; that a guess of different digits has as many positions among
  the secret's digits as it shares digits with it is a bijection between the two.

`RdWireProofs`, for any `MaxPut` and `MaxDrops`:

* `BufferForgetsNothing`: `Spec => [](NothingForgotten /\ TrimIsSafe)` for the buffer by
  itself. `NothingForgotten` is inductive with the types; what it takes are four lemmas on what
  `Append`, `Tail`, `\o` and `SubSeq` do to a run of consecutive numbers, and one lemma
  for each of the four actions that move messages.
* `WireForgetsNothing`: the same for `WireSpec`. Every step of the wire is a step of the
  buffer by itself, leaves it alone, or is a restart (`WireStepsTheBuffer`), so the
  buffer's proof carries over once it is shown that only numbers in use are acknowledged.
  The invariant for that is `OnTheWay`: packages and acknowledgements on their way carry
  numbers up to `max_sent_seqn`, and a wire that is idle has nothing left to read, which is
  why nothing of an earlier sender outlives its restart. `WireTrimsSafely` is the other half of the same.
* `WireTypeCorrect` adds `Balanced`, that the buffer is paused exactly while no connection is open but for
  the step in which its end is noticed, and `Numbered`, that a package carries the message
  it is numbered for.
* `PromptAcksAreHeard`, `PromptDuplicatesWereHeard`, `PromptAcksGrow`, `PromptImplementsChannel`: over `PromptSpec`.
  The invariant `Ordered` adds `Streams`: the position the sender will send from next, the end of the packages on
  their way and the position the receiver reads next stay level, step by step, and acknowledgements
  follow each other between `acked` and what the receiver has accepted. What `Prompt` gives is `Calm`,
  that no taken data waits to be sent while a new connection is resumed; `wire_race` is the proof's counterexample
  without it.

`RdReplicasProofs`, for any keys, values and bounds on changes and calls, over `ReplicasSpec` as a
whole (a step of another entity leaves this one's variables alone):

* `AnswersAreOwn`, `FailureLocks`. Their invariant adds `OnTheWay`: every answer on the wire or
  waiting for the scheduler is a fault or the answer to the request it is numbered by.
* `ResultsStay`. Not that a result is final, which the unlocked `set_if_empty` does not give, but what can happen to
  one: only where an answer and the cancellation have both found the task empty does the later replace
  the earlier; no two answers ever do. `Apart` says that a task's request or answer is in one place, on the wire, with the
  handler, or queued, and in none once it is the result; `Contests` that a thread about to set a result which is
  there already, or which another is about to set, has its task in `contested`.
* `PropertiesConverge` assumes exactly one master, as the code wants it. The master's messages on
  their way are numbered by the versions between the two ends' counts, and the last of them is its
  value (`MasterNumbers`); the slave's carry versions in order and none above its own
  (`SlaveRepeats`). When nothing is on its way the counts are the same, and so are the values.
* `ListsConverge`. As long as no changes have crossed, only one end has any on their way, and executing them
  in turn takes the other's list to this one's (`Executes`, a witness of the lists in between
  instead of a recursion over the stream). Once they have crossed, the first message at each end
  carries a number that the end has already passed (`TooLate`).
* `SetsConverge`. For an element whose changes have not crossed, at most one of the two wires
  mentions it, and the last message that does tells the receiver what the sender has
  (`Undisputed`). `clear()` sends its removals one by one; that every element is named takes the
  order to be one of a finite set.

`RdMapProofs`, over `ReplicasSpec` too:

* `KeysAreUnlocked`, for any masters. A master's changes on their way carry rising numbers,
  their acknowledgements on the way back too and all of them lower (`Ascends`, `Books`). An entry of `pendingForAck` is the only one of
  its key and its change or acknowledgement is under way, unless a lookup of that very key has missed: then a
  `dangling` entry of the key, older than all that is under way, is what keeps it (`Stuck`). Nothing is exempted on account of
  another key's erasure.
* `MapsConverge` assumes exactly one master. For a key neither disputed nor missed (`Tracked`) at most one of
  the master's changes is under way, and while it is there is an entry that locks the key (`Single`), whichever other
  keys are erased meanwhile; when none is, the last message the other end sends of the key tells its
  value there (`LastWord`).
* `ReplicasTypeCorrect`, for any masters: the invariants of all the entities together.

`RiderLinkProofs`, for any number of changes of the connection and of tasks waiting:

* `AliveEnds`, `ReplacedInTime`. The connection tasks wait in the order of their lifetimes
  (`TasksInOrder`), the action that ends a model belongs to the lifetime connected last
  (`EndsItsOwn`), and the task it queues is ahead of every connection task (`EndQueuedFirst`). A
  connection task that runs therefore finds no model alive.

`RdExtProofs`, for any bounds on bindings and messages, over the broker and both ends, from `BrokerAssumption`,
`ExtAssumption` (the extension on the wire's scheduler, its member on the default one) and `NothingAssumption`
(what stands for a null pointer is no message, entry or action):

* `HandOversFind`. The types say where every step of the queued action stands. Until an undefined step,
  the places in `tasks` of the actions for an identity can be counted by the messages its
  entry has (`Counted`): an increasing enumeration of them, which a task queued makes longer, a task taken
  shifts and a message taken shortens. The cardinality in `HandOversFindTheirMessage` is a bijection with it.
* `MessagesInOrder`. Of each direction the invariant says that what has been executed, what is on its way
  and what the sender's `sendQ` keeps are below each other in this order (`Flows`). To the host "on its way" is several
  queues, and a message is both in the entry and awaited by an action, so a numbering of `tasks` is the witness:
  an invocation has its message's number, the k-th action for the member the number of the entry's k-th message
  (`Comes`). `OrderInv` asks that numbering to increase and to lie below what is still on the wire.
* `SentIsExecuted`. `due` and `peerDue` lie within what `sendQ` and the stages of the way hold (`DueInv`, `PeerDueInv`);
  each stage hands on what it takes (`UnderWay`). When all is quiet those stages are empty: the entry's by `Counted`.
  The proof asks nothing of `raced`: the races of the hand-over are about messages executed on the wire's
  thread, and no message of a member is ever lost to them.
* `HandshakeConverges`. `ShakeInv` reads the stream to the extension from the wire through the entry's two
  queues and the hand to the message being executed: the last message of it, in the first stage that has
  one, tells whether the counterpart is bound (`Told`). It is what the two ends make of what has arrived
  (`HostFollows`, `PeerFollows`), that a `connected` end with something in `sendQ` is about to
  flush it (`FlushComes`), and that `dispatch` executes a message itself only when none is ahead of it (`OneRuns`).
  Each step of the broker carries the stream on without changing its last message (`Carries`), up to a race:
  `raced` is the very hypothesis under which a stage can overtake another.

Model-checked only:

* liveness (`EveryoneGetsTurns`, `GuessesAreAnswered`, `PutIsReceived`, `AliveFollowsConnection` and the fairness
  of `HwRound` in `ImplementsRound`), which is out of the prover's reach.

Every invariant and action property that a run checks and that holds is proved; liveness is all that rests on TLC alone.

## 5. Not modelled, and what is left

* Bytes: a message cut off in the middle leaves `sz`, `id_` and half a message to the next
  connection's stream; layouts, hashes, serializers, interning tables.
* Both directions of the wire at once, with connections that block when they are full: the
  receiving thread's `send_ack` and `resume()` can then wait for the peer to read.
* What undefined behaviour may do beyond the choice a model names: a dangling key of `pendingForAck` is found or missed by
  lookups of its own key, never taken for another; two threads inside `Property::set`, or one that uses a
  destroyed task, crash or go on. Where `RdExt` reaches such a step it stops (`undefined`), so the host's
  properties say nothing of what follows the hand-over race or the null subscription: they only
  bound what must have happened for it.
* `ViewableList::removeAll` calls the virtual `removeAt`, which asserts inside the local change that it
  is already one; what is sent is the same.
* The heartbeat, which no other part depends on: `heartbeatAlive` is only reported.
* `RdSignal`, which keeps no state; entities nested in entities; what `bind` sends at first;
  `out_of_order_execution`, which only the scheduler of the interning tables sets; `PumpScheduler`.
* `LifetimeImpl::attach_nested`'s erasure without the lock: a data race on a map, of which nothing
  holds that a property could say. `ShutdownModule`, which is open to the same race.
* The timer label of a client, which reads the replicated `RemainingTime` when an RPC
  that travels apart from it arrives: nothing says what it should show.
* Widgets, debug printing, the pawn, assets, configuration, logging, play-state bookkeeping of
  `RiderGameControl`: they forward what the editor or the player does.
* Third-party code, which is most of the repository's lines, generated models, and the debugger,
  blueprint and shader helpers, which keep no state.

What is left, in this order: the blocking wire (`RdDuplex`: both directions, `socket_send_lock`, bounded
connections; nobody waits for ever) and the framing (`RdFraming`), each at the price of a run.
