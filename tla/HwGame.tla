-------------------------------- MODULE HwGame --------------------------------
(***************************************************************************)
(* The authoritative server of the number-baseball game: AHWGameModeBase   *)
(* with the parts of AHwGameStateBase (the clock), AHwPlayerState (guess   *)
(* counts, names) and AHwPlayerController (notification text) it writes.   *)
(* Every handler runs to completion on the game thread, so each is one     *)
(* action; `out` is what the handler sent, per controller and in order, by *)
(* reliable client RPCs.  A guess is a member of Guesses (three digits),   *)
(* how its text is parsed and scored is module HwJudge.                    *)
(***************************************************************************)
EXTENDS Integers, Sequences, FiniteSets

CONSTANTS
  Controllers,     \* player controllers that may ever log in
  Host,            \* the controller local to a listen server, or no member of Controllers
  Secrets,         \* what GenerateSecretNumber can return
  Guesses,         \* texts IsGuessNumberString accepts
  TurnTime,        \* AHwGameStateBase::TurnTime
  MaxGuessCount    \* AHwPlayerState::MaxGuessCount

ASSUME GameAssumption ==
  /\ Secrets # {} /\ Secrets \subseteq Guesses
  /\ TurnTime \in Nat \ {0}
  /\ MaxGuessCount \in Nat \ {0}

VARIABLES
  phase,         \* "loading" before BeginPlay, then "playing"; "crashed" after a dangling read
  status,        \* life of each controller object
  roster,        \* AllPlayerControllers: only ever appended to
  turn,          \* CurrentTurnIndex, counted from 0
  acted,         \* bHasActedInCurrentTurn
  secret,        \* SecretNumberString
  count,         \* CurrentGuessCount of each controller's player state
  name,          \* the number in PlayerNameString, 0 for "None"
  remaining,     \* RemainingTime
  notification,  \* NotificationText of each controller
  out            \* client RPCs the last handler sent, per controller

vars == <<phase, status, roster, turn, acted, secret, count, name, remaining,
          notification, out>>

\* "left" is destroyed but not yet collected: IsValid is FALSE and GetPlayerState null.
\* "freed" is collected; the roster's entry dangles, since it is no UPROPERTY.
Statuses == {"away", "playing", "left", "freed"}

Notices == [text : {"", "connected", "draw", "won"}, who : Nat]

Msgs == [kind : {"notYourTurn", "chat", "judged", "playerOnesTurn", "turnOf",
                 "timeOut", "timerUi", "joined"}, name : Nat]

Msg(k) == [kind |-> k, name |-> 0]

\* The guess of c with its result; the text begins with the player's name.
Judged(c) == [kind |-> "judged", name |-> name[c]]

IsValid(c) == status[c] = "playing"

Current == roster[turn + 1]

ValidIndex == turn < Len(roster)

Silence == [p \in Controllers |-> << >>]

\* The loop over AllPlayerControllers that sends ms to every valid controller.
Broadcast(ms) == [p \in Controllers |-> IF IsValid(p) THEN ms ELSE << >>]

OnlyTo(c, m) == [Silence EXCEPT ![c] = <<m>>]

Notify(n) == [p \in Controllers |-> IF IsValid(p) THEN n ELSE notification[p]]

-------------------------------------------------------------------------------
Init ==
  /\ phase = "loading"
  /\ status = [c \in Controllers |-> "away"]
  /\ roster = << >>
  /\ turn = 0
  /\ acted = FALSE
  /\ secret \in Secrets
  /\ count = [c \in Controllers |-> 0]
  /\ name = [c \in Controllers |-> 0]
  /\ remaining = TurnTime
  /\ notification = [c \in Controllers |-> [text |-> "", who |-> 0]]
  /\ out = Silence

BeginPlay ==
  /\ phase = "loading"
  /\ Host \in Controllers => status[Host] = "playing"
  /\ phase' = "playing"
  /\ secret' \in Secrets
  /\ turn' = 0
  /\ acted' = FALSE
  /\ out' = Silence
  /\ UNCHANGED <<status, roster, count, name, remaining, notification>>

\* Fault: names the player after the number of players before it.
LoginNamedBeforeAdd(c) ==
  /\ status[c] = "away"
  /\ phase = (IF c = Host THEN "loading" ELSE "playing")
  /\ status' = [status EXCEPT ![c] = "playing"]
  /\ roster' = Append(roster, c)
  /\ name' = [name EXCEPT ![c] = Len(roster)]
  /\ notification' = [notification EXCEPT ![c] = [text |-> "connected", who |-> 0]]
  /\ out' = Silence
  /\ UNCHANGED <<phase, turn, acted, secret, count, remaining>>

\* OnPostLogin.  Only a listen server's own player logs in before BeginPlay, and
\* the multicast login message prints only where there is no authority.
Login(c) ==
  /\ status[c] = "away"
  /\ phase = (IF c = Host THEN "loading" ELSE "playing")
  /\ status' = [status EXCEPT ![c] = "playing"]
  /\ roster' = Append(roster, c)
  /\ name' = [name EXCEPT ![c] = Len(roster) + 1]
  /\ notification' = [notification EXCEPT ![c] = [text |-> "connected", who |-> 0]]
  /\ out' = [p \in Controllers |->
               IF p # Host /\ (IsValid(p) \/ p = c)
               THEN <<[kind |-> "joined", name |-> Len(roster) + 1]>> ELSE << >>]
  /\ UNCHANGED <<phase, turn, acted, secret, count, remaining>>

\* The engine destroys the controller and its player state when the connection
\* closes; the game mode has no Logout, so the roster keeps its entry.
Logout(c) ==
  /\ phase = "playing" /\ status[c] = "playing"
  /\ status' = [status EXCEPT ![c] = "left"]
  /\ count' = [count EXCEPT ![c] = 0]
  /\ name' = [name EXCEPT ![c] = 0]
  /\ notification' = [notification EXCEPT ![c] = [text |-> "", who |-> 0]]
  /\ out' = Silence
  /\ UNCHANGED <<phase, roster, turn, acted, secret, remaining>>

CollectGarbage(c) ==
  /\ phase = "playing" /\ status[c] = "left"
  /\ status' = [status EXCEPT ![c] = "freed"]
  /\ out' = Silence
  /\ UNCHANGED <<phase, roster, turn, acted, secret, count, name, remaining,
                 notification>>

-------------------------------------------------------------------------------
IncreaseGuessCount(c) == IF IsValid(c) THEN [count EXCEPT ![c] = @ + 1] ELSE count

\* Fault: one guess more than MaxGuessCount before the draw.
IsDrawOffByOne(cnt) ==
  \A i \in DOMAIN roster : IsValid(roster[i]) => cnt[roster[i]] > MaxGuessCount

\* JudgeGame's loop: every controller that still has a player state is out of guesses.
IsDraw(cnt) ==
  \A i \in DOMAIN roster : IsValid(roster[i]) => cnt[roster[i]] >= MaxGuessCount

\* ResetGame's announcements: once per player state, and always of "Player 1",
\* the count just set to 0 plus 1.
ResetAnnouncements ==
  [i \in 1 .. Cardinality({s \in DOMAIN roster : IsValid(roster[s])}) |->
     [kind |-> "playerOnesTurn", name |-> 1]]

\* ResetGame without the turn index and the flag, which its callers' models set.
ResetScores ==
  /\ secret' \in Secrets
  /\ count' = [p \in Controllers |-> IF IsValid(p) THEN 0 ELSE count[p]]

NextIndex(i) == (i + 1) % Len(roster)

\* Fault: the turn passes but the flag of the guess that ended it stays up.
TurnToNextPlayerKeepsFlag(i, said) ==
  /\ turn' = NextIndex(i)
  /\ acted' = TRUE
  /\ remaining' = TurnTime
  /\ out' = said

\* TurnToNextPlayer when CurrentTurnIndex is i, after the RPCs in `said`.
TurnToNextPlayer(i, said) ==
  LET next == roster[NextIndex(i) + 1]
      announcement == IF IsValid(next)
                      THEN <<[kind |-> "turnOf", name |-> name[next]]>> ELSE << >>
  IN  /\ turn' = NextIndex(i)
      /\ acted' = FALSE
      /\ remaining' = TurnTime
      /\ out' = [p \in Controllers |-> said[p] \o Broadcast(announcement)[p]]

\* IncreaseGuessCount(c); JudgeGame(c, 0); TurnToNextPlayer().
EndTurn(c, said) ==
  \/ /\ ~IsDraw(IncreaseGuessCount(c))
     /\ count' = IncreaseGuessCount(c)
     /\ TurnToNextPlayer(turn, said)
     /\ UNCHANGED <<secret, notification>>
  \/ /\ IsDraw(IncreaseGuessCount(c))
     /\ notification' = Notify([text |-> "draw", who |-> 0])
     /\ ResetScores
     /\ TurnToNextPlayer(0, [p \in Controllers |->
                               said[p] \o Broadcast(ResetAnnouncements)[p]])

-------------------------------------------------------------------------------
\* PrintChatMessageString, by whom and with what text it is called.
CanChat(c) == phase = "playing" /\ IsValid(c) /\ ValidIndex

Chat(c) ==
  /\ CanChat(c)
  /\ out' = Broadcast(<<Msg("chat")>>)
  /\ UNCHANGED <<phase, status, roster, turn, acted, secret, count, name, remaining,
                 notification>>

\* Fault: a guess out of turn costs an attempt.
RefuseAndCharge(c) ==
  /\ CanChat(c) /\ c # Current
  /\ count' = IncreaseGuessCount(c)
  /\ out' = OnlyTo(c, Msg("notYourTurn"))
  /\ UNCHANGED <<phase, status, roster, turn, acted, secret, name, remaining,
                 notification>>

\* Fault: everyone hears the refusal.
RefuseToEveryone(c) ==
  /\ CanChat(c) /\ c # Current
  /\ out' = Broadcast(<<Msg("notYourTurn")>>)
  /\ UNCHANGED <<phase, status, roster, turn, acted, secret, count, name, remaining,
                 notification>>

RefuseGuess(c) ==
  /\ CanChat(c) /\ c # Current
  /\ out' = OnlyTo(c, Msg("notYourTurn"))
  /\ UNCHANGED <<phase, status, roster, turn, acted, secret, count, name, remaining,
                 notification>>

\* Fault: the restart after a win leaves the turn where it is.
WinKeepsTurn(c, g) ==
  /\ CanChat(c) /\ c = Current /\ g = secret
  /\ notification' = Notify([text |-> "won", who |-> name[c]])
  /\ ResetScores
  /\ out' = Broadcast(<<Judged(c)>> \o ResetAnnouncements)
  /\ UNCHANGED <<phase, status, roster, turn, acted, name, remaining>>

\* The winning branch returns before TurnToNextPlayer: the clock runs on.
WinningGuess(c, g) ==
  /\ CanChat(c) /\ c = Current /\ g = secret
  /\ notification' = Notify([text |-> "won", who |-> name[c]])
  /\ ResetScores
  /\ turn' = 0
  /\ acted' = FALSE
  /\ out' = Broadcast(<<Judged(c)>> \o ResetAnnouncements)
  /\ UNCHANGED <<phase, status, roster, name, remaining>>

MissedGuess(c, g) ==
  /\ CanChat(c) /\ c = Current /\ g # secret
  /\ EndTurn(c, Broadcast(<<Judged(c)>>))
  /\ UNCHANGED <<phase, status, roster, name>>

\* Fault: counts down past zero.
CountdownPastZero ==
  /\ phase = "playing" /\ remaining >= 0
  /\ remaining' = remaining - 1
  /\ out' = Broadcast(<<Msg("timerUi")>>)
  /\ UNCHANGED <<phase, status, roster, turn, acted, secret, count, name, notification>>

\* UpdateGameTimer, once a second.
Countdown ==
  /\ phase = "playing" /\ remaining > 0
  /\ remaining' = remaining - 1
  /\ out' = Broadcast(<<Msg("timerUi")>>)
  /\ UNCHANGED <<phase, status, roster, turn, acted, secret, count, name, notification>>

TimedOut == phase = "playing" /\ remaining <= 0 /\ ~acted /\ ValidIndex

\* Fault: the timeout charges and passes the turn but does not judge the game.
TimeoutUnjudged ==
  /\ TimedOut /\ IsValid(Current)
  /\ count' = IncreaseGuessCount(Current)
  /\ TurnToNextPlayer(turn, OnlyTo(Current, Msg("timeOut")))
  /\ UNCHANGED <<phase, status, roster, name, secret, notification>>

Timeout ==
  /\ TimedOut /\ IsValid(Current)
  /\ EndTurn(Current, OnlyTo(Current, Msg("timeOut")))
  /\ UNCHANGED <<phase, status, roster, name>>

\* Fault (as to this code): the turn of a departed player passes on.
TimeoutSkipsDeparted ==
  /\ TimedOut /\ ~IsValid(Current)
  /\ TurnToNextPlayer(turn, Silence)
  /\ UNCHANGED <<phase, status, roster, secret, count, name, notification>>

\* The current controller is gone: only the clock is reset.
TimeoutOfDeparted ==
  /\ TimedOut /\ ~IsValid(Current)
  /\ remaining' = TurnTime
  /\ out' = Silence
  /\ UNCHANGED <<phase, status, roster, turn, acted, secret, count, name, notification>>

UpdateGameTimer == Countdown \/ Timeout \/ TimeoutOfDeparted

\* A broadcast, JudgeGame or the timer reads the roster's dangling entry and the
\* read faults; when it does not, the entry behaves as that of a controller that left.
Crash ==
  /\ phase = "playing"
  /\ \E i \in DOMAIN roster :
       /\ status[roster[i]] = "freed"
       /\ \/ \E c \in Controllers : CanChat(c)
          \/ TimedOut /\ roster[i] = Current
  /\ phase' = "crashed"
  /\ out' = Silence
  /\ UNCHANGED <<status, roster, turn, acted, secret, count, name, remaining,
                 notification>>

Play ==
  \/ \E c \in Controllers : Chat(c) \/ RefuseGuess(c)
  \/ \E c \in Controllers, g \in Guesses : WinningGuess(c, g) \/ MissedGuess(c, g)
  \/ UpdateGameTimer

Next ==
  \/ BeginPlay
  \/ \E c \in Controllers : Login(c) \/ Logout(c) \/ CollectGarbage(c)
  \/ Play
  \/ Crash

Spec == Init /\ [][Next]_vars

\* The repeating timer is never cleared, so UpdateGameTimer keeps running.
FairSpec == Spec /\ WF_vars(UpdateGameTimer)

\* The environment in which everyone joins before the first tick or message and
\* nobody leaves.
AllSeated == \A c \in Controllers : status[c] = "playing"

FixedNext ==
  \/ BeginPlay
  \/ \E c \in Controllers : Login(c)
  \/ AllSeated /\ Play

FixedSpec ==
  /\ Init /\ [][FixedNext]_vars
  /\ WF_vars(AllSeated /\ UpdateGameTimer)

-------------------------------------------------------------------------------
TypeOK ==
  /\ phase \in {"loading", "playing", "crashed"}
  /\ status \in [Controllers -> Statuses]
  /\ roster \in Seq(Controllers)
  /\ turn \in Nat
  /\ acted \in BOOLEAN
  /\ secret \in Secrets
  /\ count \in [Controllers -> Nat]
  /\ name \in [Controllers -> Nat]
  /\ remaining \in 0 .. TurnTime
  /\ notification \in [Controllers -> Notices]
  /\ out \in [Controllers -> Seq(Msgs)]

NobodyLeft == \A c \in Controllers : status[c] \in {"away", "playing"}

\* Whoever joins, leaves or wins, the turn index names a seat of the roster, the
\* flag that would disarm the timeout is down whenever the timer can read it, every
\* connected player sits in exactly one seat and is named after it, and whoever has
\* not joined yet has no guesses.
\* (CurrentTurnIndex against AllPlayerControllers; bHasActedInCurrentTurn set by
\* PrintChatMessageString, cleared by ResetGame and TurnToNextPlayer.)
SeatsOK ==
  /\ turn < Len(roster) \/ (roster = << >> /\ turn = 0)
  /\ acted = FALSE
  /\ \A i, j \in DOMAIN roster : roster[i] = roster[j] => i = j
  /\ \A i \in DOMAIN roster : status[roster[i]] # "away"
  /\ \A c \in Controllers :
       IsValid(c) => name[c] \in DOMAIN roster /\ roster[name[c]] = c
  /\ \A c \in Controllers : status[c] = "away" => count[c] = 0
  /\ phase = "loading" => NobodyLeft

\* While nobody has left, a game that goes on is one that somebody can still play:
\* JudgeGame declares the draw no later than the turn that makes it one.
GameOpen ==
  (NobodyLeft /\ roster # << >>) =>
    \E i \in DOMAIN roster : count[roster[i]] < MaxGuessCount

HasPlayed(seat, start, t) ==
  IF start = 0 THEN seat < t ELSE IF t = 0 THEN seat # 0 ELSE seat \in 1 .. t - 1

FairAt(seats, t, cnt) ==
  \E rounds \in 0 .. MaxGuessCount - 1, start \in {0, 1} :
    /\ start = 1 => Len(seats) > 1
    /\ \A i \in DOMAIN seats :
         cnt[seats[i]] = rounds + (IF HasPlayed(i - 1, start, t) THEN 1 ELSE 0)

\* With a fixed roster the game is fair: counting from the seat that began the
\* game (the first, or the second after a draw), those the round has passed have
\* made one guess more than the others, and nobody has more than MaxGuessCount.
\* (IncreaseGuessCount, JudgeGame and TurnToNextPlayer together.)
FairTurns == FairAt(roster, turn, count)

\* The last turn announcement a handler sends anyone names the player whose turn
\* it is, also when a restart announces "Player 1" before it (fixed roster).
IsAnnouncement(m) == m.kind \in {"turnOf", "playerOnesTurn"}

AnnouncedTurnIsTrue ==
  \A p \in Controllers : \A i \in DOMAIN out[p] :
    /\ IsAnnouncement(out[p][i])
    /\ \A j \in DOMAIN out[p] : IsAnnouncement(out[p][j]) => j <= i
    => out[p][i].name = name[Current]

\* A guess count grows only by one, only for the player whose turn it is, and
\* only as that turn ends; every other change is a restart, which zeroes the count
\* of every connected player at once, or the player's own departure.
Restarts == \A c \in Controllers : IsValid(c) => count'[c] = 0

OnlyTheCurrentIsCharged ==
  [][\A c \in Controllers : count'[c] # count[c] =>
       \/ Restarts
       \/ ~IsValid(c)'
       \/ c = Current /\ count'[c] = count[c] + 1 /\ turn' = NextIndex(turn)]_vars

\* Once the player whose turn it is has gone, the game stands still: the turn, the
\* secret and every connected player's count stay as they are for ever, since
\* UpdateGameTimer moves the turn only for a valid controller.
CurrentIsGone == ValidIndex /\ ~IsValid(Current)

DepartureFreezesTheGame ==
  [][CurrentIsGone =>
       /\ CurrentIsGone'
       /\ turn' = turn /\ secret' = secret
       /\ \A c \in Controllers : IsValid(c)' /\ IsValid(c) => count'[c] = count[c]]_vars

\* With a fixed roster, unless games keep being won, everyone gets the turn again
\* and again: the timer takes it from whoever does not play.
IsTurnOf(c) == ValidIndex /\ Current = c

Wins == \E c \in Controllers, g \in Guesses : WinningGuess(c, g)

EveryoneGetsTurns ==
  (<>AllSeated /\ <>[][~Wins]_vars) => \A c \in Controllers : []<>IsTurnOf(c)

\* The header calls CurrentTurnIndex the index of the player "currently playing"
\* (HWGameModeBase.h:49): so a turn that stands at a player who left should pass on to
\* another while there are players connected.
TurnFindsAPlayer ==
  [](CurrentIsGone => <>(~CurrentIsGone \/ phase = "crashed"
                         \/ \A c \in Controllers : ~IsValid(c)))

\* ResetGame tells everyone "It's Player 1's turn!" (HWGameModeBase.cpp:108): the game
\* it starts begins with the first seat.
RestartBeginsWithPlayerOne ==
  [][(\E p \in Controllers : \E i \in DOMAIN out'[p] : out'[p][i].kind = "playerOnesTurn")
       => turn' = 0]_vars
===============================================================================
