------------------------------- MODULE HwSession ------------------------------
(***************************************************************************)
(* The game server with its clients and the network between them, as the   *)
(* code in src/ relies on it: reliable RPCs arrive in the order they were  *)
(* sent, per client and direction.  The players are seated for the whole   *)
(* session (FixedSpec of HwGame) and all of them are remote.  The timer's  *)
(* text and replicated properties are left out: nothing here reads them.   *)
(***************************************************************************)
EXTENDS HwGame

CONSTANTS
  MaxUp,     \* bound on the lines of one client on their way to the server
  MaxDown    \* the server takes a step only while no client has more RPCs than this waiting

\* "chat" is a text that IsGuessNumberString refuses.
ASSUME SessionAssumption == "chat" \notin Guesses

VARIABLES
  up,        \* ServerRPCPrintChatMessageString calls on their way, per client
  down,      \* client RPCs on their way, per client
  announced, \* the player last announced on each client's screen, 0 for none
  waiting    \* guesses each player has sent and has seen no answer to

clientVars == <<announced, waiting>>
sessionVars == <<vars, up, down, announced, waiting>>

Lines == {"chat"} \cup Guesses

\* What the player sees of the answers to their own guesses: the broadcast verdict,
\* which begins with their name, or the refusal.
IsAnswerTo(c, m) ==
  \/ m.kind = "notYourTurn"
  \/ m.kind = "judged" /\ m.name = name[c]

SessionInit ==
  /\ Init
  /\ up = [c \in Controllers |-> << >>]
  /\ down = [c \in Controllers |-> << >>]
  /\ announced = [c \in Controllers |-> 0]
  /\ waiting = [c \in Controllers |-> 0]

-------------------------------------------------------------------------------
\* OnChatInputTextCommitted with the Enter key, then SetChatMessageString: the text
\* goes out behind the player's info, which no decision of the server reads.
SendLine(c, text) ==
  /\ AllSeated /\ Len(up[c]) < MaxUp
  /\ up' = [up EXCEPT ![c] = Append(@, text)]
  /\ waiting' = [waiting EXCEPT ![c] = @ + (IF text \in Guesses THEN 1 ELSE 0)]
  /\ UNCHANGED <<vars, down, announced>>

\* Fault: the RPCs of a step overtake those sent before.
DeliverFirst == down' = [c \in Controllers |-> out'[c] \o down[c]]

\* The RPCs of a server step join those already on their way.
Deliver == down' = [c \in Controllers |-> down[c] \o out'[c]]

ServerReady == \A c \in Controllers : Len(down[c]) <= MaxDown

\* Fault: a line that comes in while its sender is not to move is forgotten.
ReceiveOnlyInTurn(c) ==
  /\ ServerReady /\ AllSeated /\ up[c] # << >>
  /\ LET text == Head(up[c])
     IN  \/ text = "chat" /\ Chat(c)
         \/ \E g \in Guesses : text = g /\ (WinningGuess(c, g) \/ MissedGuess(c, g))
         \/ /\ c # Current /\ text # "chat" /\ out' = Silence
            /\ UNCHANGED <<phase, status, roster, turn, acted, secret, count, name,
                           remaining, notification>>
  /\ up' = [up EXCEPT ![c] = Tail(@)]
  /\ Deliver
  /\ UNCHANGED clientVars

\* ServerRPCPrintChatMessageString_Implementation.
Receive(c) ==
  /\ ServerReady /\ AllSeated /\ up[c] # << >>
  /\ LET text == Head(up[c])
     IN  \/ text = "chat" /\ Chat(c)
         \/ text # "chat" /\ RefuseGuess(c)
         \/ \E g \in Guesses : text = g /\ (WinningGuess(c, g) \/ MissedGuess(c, g))
  /\ up' = [up EXCEPT ![c] = Tail(@)]
  /\ Deliver
  /\ UNCHANGED clientVars

Seat ==
  /\ BeginPlay \/ \E c \in Controllers : Login(c)
  /\ Deliver
  /\ UNCHANGED <<up, clientVars>>

Tick ==
  /\ ServerReady /\ AllSeated
  /\ UpdateGameTimer
  /\ Deliver
  /\ UNCHANGED <<up, clientVars>>

-------------------------------------------------------------------------------
\* Fault: a client reads nothing before the first announcement of a turn, and that is
\* behind other RPCs.
ClientStepOnceAnnounced(c) ==
  /\ down[c] # << >>
  /\ announced[c] # 0 \/ IsAnnouncement(Head(down[c]))
  /\ down' = [down EXCEPT ![c] = Tail(@)]
  /\ announced' = IF IsAnnouncement(Head(down[c]))
                  THEN [announced EXCEPT ![c] = Head(down[c]).name] ELSE announced
  /\ waiting' = IF IsAnswerTo(c, Head(down[c]))
                THEN [waiting EXCEPT ![c] = @ - 1] ELSE waiting
  /\ UNCHANGED <<vars, up>>

\* ClientRPCPrintChatMessageString_Implementation, ClientRPCTimerUiUpdate_Implementation
\* and MulticastRPCBroadcastLoginMessage_Implementation handle the RPCs one by one.
ClientStep(c) ==
  /\ down[c] # << >>
  /\ down' = [down EXCEPT ![c] = Tail(@)]
  /\ announced' = IF IsAnnouncement(Head(down[c]))
                  THEN [announced EXCEPT ![c] = Head(down[c]).name] ELSE announced
  /\ waiting' = IF IsAnswerTo(c, Head(down[c]))
                THEN [waiting EXCEPT ![c] = @ - 1] ELSE waiting
  /\ UNCHANGED <<vars, up>>

SessionNext ==
  \/ Seat \/ Tick
  \/ \E c \in Controllers :
       \/ \E text \in Lines : SendLine(c, text)
       \/ Receive(c) \/ ClientStep(c)

\* The timer repeats, reliable RPCs arrive and are handled; nobody has to type.
\* Strong fairness for the server's steps: only the bound MaxDown, which the engine does
\* not have, disables them now and then.
SessionSpec ==
  /\ SessionInit /\ [][SessionNext]_sessionVars
  /\ SF_sessionVars(Tick)
  /\ \A c \in Controllers :
       SF_sessionVars(Receive(c)) /\ WF_sessionVars(ClientStep(c))

-------------------------------------------------------------------------------
SessionTypeOK ==
  /\ TypeOK
  /\ \A c \in Controllers :
       /\ \A i \in DOMAIN up[c] : up[c][i] \in Lines
       /\ \A i \in DOMAIN down[c] : down[c][i] \in Msgs
       /\ announced[c] \in 0 .. Len(roster)
       /\ waiting[c] \in Nat

\* How many elements of the sequence s are in A.
Number(s, A) == Cardinality({i \in DOMAIN s : s[i] \in A})

Answers(c) == {m \in Msgs : IsAnswerTo(c, m)}

\* No guess is dropped or answered twice, whatever turn it arrives in: each one the
\* player waits for is on its way up, or its one answer is on its way down.
EveryGuessHasOneAnswer ==
  \A c \in Controllers :
    waiting[c] = Number(up[c], Guesses) + Number(down[c], Answers(c))

\* Every guess is answered in the end: a player who stops typing waits for nothing.
Types(c) == \E text \in Lines : SendLine(c, text)

GuessesAreAnswered ==
  \A c \in Controllers : <>[][~Types(c)]_sessionVars => <>[](waiting[c] = 0)

\* A client that has seen every RPC knows whose turn it is, from the first turn's end
\* on: joins, timeouts, draws and wins all announce the turn last.
InformedWhenQuiet ==
  \A c \in Controllers :
    down[c] = << >> /\ announced[c] # 0 => announced[c] = name[Current]
===============================================================================
