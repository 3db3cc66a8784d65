----------------------------- MODULE HwGameProofs -----------------------------
(***************************************************************************)
(* Proofs about the game server, for any number of controllers, any turn   *)
(* time and any number of attempts.                                        *)
(***************************************************************************)
EXTENDS HwGameMC, FiniteSetTheorems, FunctionTheorems, TLAPS

\* CurrentTurnIndex + 1 modulo the number of seats is the next seat, or the first
\* one after the last.
LEMMA ModuloIsNextSeat ==
  ASSUME NEW n \in Nat, n > 0, NEW i \in Nat, i < n
  PROVE  /\ (i + 1) % n = (IF i + 1 = n THEN 0 ELSE i + 1)
         /\ (i + 1) % n \in Nat
         /\ (i + 1) % n < n
  OBVIOUS

LEMMA MessageTyping ==
  ASSUME TypeOK
  PROVE  /\ \A k \in {"notYourTurn", "chat", "timeOut", "timerUi"} :
              Msg(k) \in Msgs
         /\ \A c \in Controllers : Judged(c) \in Msgs
         /\ \A ms \in Seq(Msgs) : Broadcast(ms) \in [Controllers -> Seq(Msgs)]
         /\ \A c \in Controllers, m \in Msgs :
              OnlyTo(c, m) \in [Controllers -> Seq(Msgs)]
         /\ Silence \in [Controllers -> Seq(Msgs)]
         /\ ResetAnnouncements \in Seq(Msgs)
         /\ \A n \in Notices : Notify(n) \in [Controllers -> Notices]
<1>1. \A k \in {"notYourTurn", "chat", "timeOut", "timerUi"} : Msg(k) \in Msgs
  BY DEF Msg, Msgs
<1>2. Silence \in [Controllers -> Seq(Msgs)]
  BY DEF Silence
<1>3. \A c \in Controllers, m \in Msgs : OnlyTo(c, m) \in [Controllers -> Seq(Msgs)]
  BY <1>2 DEF OnlyTo
<1>4. \A ms \in Seq(Msgs) : Broadcast(ms) \in [Controllers -> Seq(Msgs)]
  BY DEF Broadcast
<1>5. ResetAnnouncements \in Seq(Msgs)
  <2>1. Cardinality({s \in DOMAIN roster : IsValid(roster[s])}) \in Nat
    <3>1. DOMAIN roster = 1 .. Len(roster) /\ Len(roster) \in Nat
      BY DEF TypeOK
    <3>2. IsFiniteSet(DOMAIN roster)
      BY <3>1, FS_Interval
    <3>3. IsFiniteSet({s \in DOMAIN roster : IsValid(roster[s])})
      BY <3>2, FS_Subset
    <3> QED  BY <3>3, FS_CardinalityType
  <2>2. [kind |-> "playerOnesTurn", name |-> 1] \in Msgs
    BY DEF Msgs
  <2> QED  BY <2>1, <2>2 DEF ResetAnnouncements
<1>6. \A n \in Notices : Notify(n) \in [Controllers -> Notices]
  BY DEF Notify, TypeOK
<1>7. \A c \in Controllers : Judged(c) \in Msgs
  BY DEF Judged, Msgs, TypeOK
<1> QED  BY <1>1, <1>2, <1>3, <1>4, <1>5, <1>6, <1>7

\* TurnToNextPlayer from a seat of a non-empty roster reaches a seat.
LEMMA TurnToNextPlayerTyping ==
  ASSUME TypeOK, NEW i \in Nat, i < Len(roster),
         NEW said \in [Controllers -> Seq(Msgs)],
         TurnToNextPlayer(i, said)
  PROVE  /\ turn' \in Nat /\ turn' < Len(roster)
         /\ acted' = FALSE
         /\ remaining' \in 0 .. TurnTime
         /\ out' \in [Controllers -> Seq(Msgs)]
<1>1. NextIndex(i) \in Nat /\ NextIndex(i) < Len(roster)
  BY ModuloIsNextSeat DEF NextIndex, TypeOK
<1> DEFINE next == roster[NextIndex(i) + 1]
           announcement == IF IsValid(next)
                           THEN <<[kind |-> "turnOf", name |-> name[next]]>> ELSE << >>
<1>2. next \in Controllers
  BY <1>1, SMTT(30) DEF TypeOK
<1>3. announcement \in Seq(Msgs)
  <2>1. [kind |-> "turnOf", name |-> name[next]] \in Msgs
    BY <1>2 DEF Msgs, TypeOK
  <2> QED  BY <2>1
<1>4. Broadcast(announcement) \in [Controllers -> Seq(Msgs)]
  BY <1>3, MessageTyping
<1>5. out' \in [Controllers -> Seq(Msgs)]
  <2> HIDE DEF announcement
  <2>1. out' = [p \in Controllers |-> said[p] \o Broadcast(announcement)[p]]
    BY DEF TurnToNextPlayer, announcement
  <2> QED  BY <2>1, <1>4
<1> QED  BY <1>1, <1>5, GameAssumption, SMTT(30) DEF TurnToNextPlayer

\* What IncreaseGuessCount and JudgeGame leave behind is well typed.
LEMMA EndTurnTyping ==
  ASSUME TypeOK, ValidIndex, NEW c \in Controllers,
         NEW said \in [Controllers -> Seq(Msgs)],
         EndTurn(c, said)
  PROVE  /\ turn' \in Nat /\ turn' < Len(roster)
         /\ acted' = FALSE
         /\ remaining' \in 0 .. TurnTime
         /\ out' \in [Controllers -> Seq(Msgs)]
         /\ secret' \in Secrets
         /\ count' \in [Controllers -> Nat]
         /\ notification' \in [Controllers -> Notices]
<1>1. CASE /\ count' = IncreaseGuessCount(c)
           /\ TurnToNextPlayer(turn, said)
           /\ UNCHANGED <<secret, notification>>
  <2>1. turn < Len(roster) /\ turn \in Nat
    BY DEF ValidIndex, TypeOK
  <2>2. count' \in [Controllers -> Nat]
    BY <1>1 DEF IncreaseGuessCount, TypeOK
  <2> QED  BY <1>1, <2>1, <2>2, TurnToNextPlayerTyping DEF TypeOK
<1>2. CASE /\ notification' = Notify([text |-> "draw", who |-> 0])
           /\ ResetScores
           /\ TurnToNextPlayer(0, [p \in Controllers |->
                                     said[p] \o Broadcast(ResetAnnouncements)[p]])
  <2>1. 0 < Len(roster)
    BY DEF ValidIndex, TypeOK
  <2>2. [p \in Controllers |-> said[p] \o Broadcast(ResetAnnouncements)[p]]
          \in [Controllers -> Seq(Msgs)]
    <3>1. Broadcast(ResetAnnouncements) \in [Controllers -> Seq(Msgs)]
      BY MessageTyping
    <3> QED  BY <3>1
  <2>3. [text |-> "draw", who |-> 0] \in Notices
    BY DEF Notices
  <2>4. notification' \in [Controllers -> Notices]
    BY <1>2, <2>3, MessageTyping
  <2>5. secret' \in Secrets /\ count' \in [Controllers -> Nat]
    BY <1>2 DEF ResetScores, TypeOK
  <2> QED  BY <1>2, <2>1, <2>2, <2>4, <2>5, TurnToNextPlayerTyping
<1> QED  BY <1>1, <1>2 DEF EndTurn

-------------------------------------------------------------------------------
(***************************************************************************)
(* Type correctness.                                                       *)
(***************************************************************************)
LEMMA RosterActionTyping ==
  ASSUME TypeOK, NEW c \in Controllers, Login(c) \/ Logout(c) \/ CollectGarbage(c)
  PROVE  TypeOK'
<1>1. CASE Login(c)
  <2>1. [text |-> "connected", who |-> 0] \in Notices
    BY DEF Notices
  <2>2. <<[kind |-> "joined", name |-> Len(roster) + 1]>> \in Seq(Msgs)
    BY DEF Msgs, TypeOK
  <2>3. out' \in [Controllers -> Seq(Msgs)]
    <3> DEFINE m == <<[kind |-> "joined", name |-> Len(roster) + 1]>>
    <3> HIDE DEF m
    <3>1. out' = [p \in Controllers |->
                    IF p # Host /\ (IsValid(p) \/ p = c) THEN m ELSE << >>]
      BY <1>1 DEF Login, m
    <3> QED  BY <2>2, <3>1 DEF m
  <2> QED  BY <1>1, <2>1, <2>3 DEF Login, TypeOK, Statuses
<1>2. CASE Logout(c)
  <2>1. [text |-> "", who |-> 0] \in Notices
    BY DEF Notices
  <2> QED  BY <1>2, <2>1, MessageTyping DEF Logout, TypeOK, Statuses
<1>3. CASE CollectGarbage(c)
  BY <1>3, MessageTyping DEF CollectGarbage, TypeOK, Statuses
<1> QED  BY <1>1, <1>2, <1>3

LEMMA GuessTyping ==
  ASSUME TypeOK, NEW c \in Controllers, NEW g \in Guesses,
         WinningGuess(c, g) \/ MissedGuess(c, g)
  PROVE  TypeOK'
<1>1. <<Judged(c)>> \in Seq(Msgs)
  BY MessageTyping
<1>2. CASE WinningGuess(c, g)
  <2>1. [text |-> "won", who |-> name[c]] \in Notices
    BY DEF Notices, TypeOK
  <2>2. <<Judged(c)>> \o ResetAnnouncements \in Seq(Msgs)
    BY <1>1, MessageTyping
  <2>3. out' \in [Controllers -> Seq(Msgs)]
    BY <1>2, <2>2, MessageTyping DEF WinningGuess
  <2>4. notification' \in [Controllers -> Notices]
    BY <1>2, <2>1, MessageTyping DEF WinningGuess
  <2>5. secret' \in Secrets /\ count' \in [Controllers -> Nat]
    BY <1>2 DEF WinningGuess, ResetScores, TypeOK
  <2> QED  BY <1>2, <2>3, <2>4, <2>5 DEF WinningGuess, TypeOK
<1>3. CASE MissedGuess(c, g)
  <2>1. Broadcast(<<Judged(c)>>) \in [Controllers -> Seq(Msgs)]
    BY <1>1, MessageTyping
  <2>2. ValidIndex /\ EndTurn(c, Broadcast(<<Judged(c)>>))
    BY <1>3 DEF MissedGuess, CanChat
  <2> QED  BY <1>3, <2>1, <2>2, EndTurnTyping DEF MissedGuess, TypeOK
<1> QED  BY <1>2, <1>3

LEMMA TimerTyping ==
  ASSUME TypeOK, UpdateGameTimer
  PROVE  TypeOK'
<1>1. CASE Countdown
  <2>1. <<Msg("timerUi")>> \in Seq(Msgs)
    BY MessageTyping
  <2>2. out' \in [Controllers -> Seq(Msgs)]
    BY <1>1, <2>1, MessageTyping DEF Countdown
  <2>3. remaining' \in 0 .. TurnTime
    BY <1>1, GameAssumption DEF Countdown, TypeOK
  <2> QED  BY <1>1, <2>2, <2>3 DEF Countdown, TypeOK
<1>2. CASE Timeout
  <2>1. ValidIndex
    BY <1>2 DEF Timeout, TimedOut
  <2>2. Current \in Controllers
    BY <2>1 DEF ValidIndex, Current, TypeOK
  <2>3. OnlyTo(Current, Msg("timeOut")) \in [Controllers -> Seq(Msgs)]
    BY <2>2, MessageTyping
  <2>4. EndTurn(Current, OnlyTo(Current, Msg("timeOut")))
    BY <1>2 DEF Timeout
  <2>5. UNCHANGED <<phase, status, roster, name>>
    BY <1>2 DEF Timeout
  <2> QED  BY <2>1, <2>2, <2>3, <2>4, <2>5, EndTurnTyping DEF TypeOK
<1>3. CASE TimeoutOfDeparted
  <2>1. remaining' \in 0 .. TurnTime
    BY <1>3, GameAssumption DEF TimeoutOfDeparted
  <2> QED  BY <1>3, <2>1, MessageTyping DEF TimeoutOfDeparted, TypeOK
<1> QED  BY <1>1, <1>2, <1>3 DEF UpdateGameTimer

LEMMA NextTyping == TypeOK /\ [Next]_vars => TypeOK'
<1> SUFFICES ASSUME TypeOK, [Next]_vars PROVE TypeOK'
  OBVIOUS
<1>1. CASE BeginPlay
  BY <1>1, MessageTyping DEF BeginPlay, TypeOK
<1>2. ASSUME NEW c \in Controllers, Login(c) \/ Logout(c) \/ CollectGarbage(c)
      PROVE  TypeOK'
  BY <1>2, RosterActionTyping
<1>3. ASSUME NEW c \in Controllers, Chat(c) \/ RefuseGuess(c)
      PROVE  TypeOK'
  <2>1. <<Msg("chat")>> \in Seq(Msgs) /\ Msg("notYourTurn") \in Msgs
    BY MessageTyping
  <2>2. CASE Chat(c)
    <3>1. Broadcast(<<Msg("chat")>>) \in [Controllers -> Seq(Msgs)]
      BY <2>1, MessageTyping
    <3> QED  BY <2>2, <3>1 DEF Chat, TypeOK
  <2>3. CASE RefuseGuess(c)
    <3>1. OnlyTo(c, Msg("notYourTurn")) \in [Controllers -> Seq(Msgs)]
      BY <2>1, MessageTyping
    <3> QED  BY <2>3, <3>1 DEF RefuseGuess, TypeOK
  <2> QED  BY <1>3, <2>2, <2>3
<1>4. ASSUME NEW c \in Controllers, NEW g \in Guesses,
             WinningGuess(c, g) \/ MissedGuess(c, g)
      PROVE  TypeOK'
  BY <1>4, GuessTyping
<1>5. CASE UpdateGameTimer
  BY <1>5, TimerTyping
<1>6. CASE Crash
  BY <1>6, MessageTyping DEF Crash, TypeOK
<1>7. CASE UNCHANGED vars
  BY <1>7 DEF vars, TypeOK
<1> QED  BY <1>1, <1>2, <1>3, <1>4, <1>5, <1>6, <1>7 DEF Next, Play

LEMMA InitTyping == Init => TypeOK
<1> SUFFICES ASSUME Init PROVE TypeOK
  OBVIOUS
<1>1. out \in [Controllers -> Seq(Msgs)]
  <2>1. out = Silence
    BY DEF Init
  <2> QED  BY <2>1 DEF Silence
<1>2. notification \in [Controllers -> Notices]
  BY DEF Init, Notices
<1>3. remaining \in 0 .. TurnTime
  <2>1. remaining = TurnTime
    BY DEF Init
  <2> QED  BY <2>1, GameAssumption
<1>4. status \in [Controllers -> Statuses]
  BY DEF Init, Statuses
<1>5. /\ phase = "loading" /\ roster = << >> /\ turn = 0 /\ acted = FALSE
      /\ secret \in Secrets
      /\ count = [c \in Controllers |-> 0] /\ name = [c \in Controllers |-> 0]
  BY DEF Init
<1>6. count \in [Controllers -> Nat] /\ name \in [Controllers -> Nat]
  BY <1>5
<1>7. acted \in BOOLEAN
  BY <1>5, Zenon
<1>8. roster \in Seq(Controllers)
  BY <1>5
<1>9. phase \in {"loading", "playing", "crashed"} /\ turn \in Nat
  BY <1>5
<1> QED  BY <1>1, <1>2, <1>3, <1>4, <1>5, <1>6, <1>7, <1>8, <1>9 DEF TypeOK

\* The game state is well typed: in particular the clock stays between 0 and
\* TurnTime, and the roster holds controllers only.
THEOREM TypeCorrect == Spec => []TypeOK
<1>1. Init => TypeOK
  BY InitTyping
<1>2. TypeOK /\ [Next]_vars => TypeOK'
  BY NextTyping
<1> QED  BY <1>1, <1>2, PTL DEF Spec

-------------------------------------------------------------------------------
(***************************************************************************)
(* The seats invariant, which is inductive together with TypeOK.           *)
(***************************************************************************)

\* A step that leaves the roster, the players' lives and their names alone only has
\* to hand the turn to a seat, lower the flag and count no guess of an absent player.
LEMMA SeatsKeptAtTheTable ==
  ASSUME TypeOK, SeatsOK, UNCHANGED <<phase, status, roster, name>>,
         turn' < Len(roster), acted' = FALSE,
         \A c \in Controllers : ~IsValid(c) => count'[c] = count[c]
  PROVE  SeatsOK'
BY DEF SeatsOK, TypeOK, IsValid, NobodyLeft

LEMMA EndTurnSeats ==
  ASSUME TypeOK, SeatsOK, ValidIndex, NEW c \in Controllers,
         NEW said \in [Controllers -> Seq(Msgs)],
         EndTurn(c, said), UNCHANGED <<phase, status, roster, name>>
  PROVE  SeatsOK'
<1>1. turn' < Len(roster) /\ acted' = FALSE
  BY EndTurnTyping
<1>2. \A d \in Controllers : ~IsValid(d) => count'[d] = count[d]
  BY DEF EndTurn, IncreaseGuessCount, ResetScores, TypeOK
<1> QED  BY <1>1, <1>2, SeatsKeptAtTheTable

LEMMA NextSeats ==
  ASSUME TypeOK, SeatsOK, [Next]_vars
  PROVE  SeatsOK'
<1>1. CASE BeginPlay
  BY <1>1 DEF BeginPlay, SeatsOK, TypeOK, IsValid, NobodyLeft
<1>2. ASSUME NEW c \in Controllers, Login(c)
      PROVE  SeatsOK'
  <2>1. /\ roster' = Append(roster, c) /\ Len(roster') = Len(roster) + 1
        /\ DOMAIN roster' = 1 .. Len(roster) + 1
        /\ \A i \in DOMAIN roster : roster'[i] = roster[i]
        /\ roster'[Len(roster) + 1] = c
    BY <1>2 DEF Login, TypeOK
  <2>2. \A i \in DOMAIN roster : roster[i] # c
    BY <1>2 DEF Login, SeatsOK
  <2>3. DOMAIN roster = 1 .. Len(roster) /\ Len(roster) \in Nat
    BY DEF TypeOK
  <2>4. /\ status' = [status EXCEPT ![c] = "playing"]
        /\ name' = [name EXCEPT ![c] = Len(roster) + 1]
        /\ UNCHANGED <<phase, turn, acted, count>>
        /\ phase = "loading" => NobodyLeft
    BY <1>2 DEF Login, SeatsOK
  <2>5. turn' < Len(roster') /\ acted' = FALSE
    BY <2>1, <2>3, <2>4 DEF SeatsOK, TypeOK
  <2>6. \A i, j \in DOMAIN roster' : roster'[i] = roster'[j] => i = j
    BY <2>1, <2>2, <2>3 DEF SeatsOK
  <2>7. \A i \in DOMAIN roster' : status'[roster'[i]] # "away"
    <3> SUFFICES ASSUME NEW i \in DOMAIN roster' PROVE status'[roster'[i]] # "away"
      OBVIOUS
    <3>1. CASE i = Len(roster) + 1
      BY <3>1, <2>1, <2>4 DEF TypeOK
    <3>2. CASE i \in DOMAIN roster
      <4>1. roster[i] # c /\ status[roster[i]] # "away" /\ roster'[i] = roster[i]
        BY <3>2, <2>1, <2>2 DEF SeatsOK
      <4>2. roster[i] \in Controllers
        BY <3>2 DEF TypeOK
      <4> QED  BY <4>1, <4>2, <2>4 DEF TypeOK
    <3> QED  BY <3>1, <3>2, <2>1, <2>3
  <2>8. \A d \in Controllers :
          IsValid(d)' => name'[d] \in DOMAIN roster' /\ roster'[name'[d]] = d
    BY <2>1, <2>2, <2>3, <2>4, SMTT(30) DEF SeatsOK, TypeOK, IsValid
  <2>9. \A d \in Controllers : status'[d] = "away" => count'[d] = 0
    BY <2>4 DEF SeatsOK, TypeOK
  <2>10. phase' = "loading" => NobodyLeft'
    BY <2>4 DEF NobodyLeft, TypeOK
  <2> QED  BY <2>5, <2>6, <2>7, <2>8, <2>9, <2>10 DEF SeatsOK
<1>3. ASSUME NEW c \in Controllers, Logout(c) \/ CollectGarbage(c)
      PROVE  SeatsOK'
  <2>1. /\ UNCHANGED <<phase, roster, turn, acted>> /\ phase # "loading"
        /\ DOMAIN status' = Controllers
        /\ \A d \in Controllers : status'[d] = "away" => status[d] = "away"
        /\ \A d \in Controllers : status[d] # "away" => status'[d] # "away"
        /\ \A d \in Controllers : IsValid(d)' => IsValid(d) /\ name'[d] = name[d]
        /\ \A d \in Controllers : count[d] = 0 => count'[d] = 0
    BY <1>3 DEF Logout, CollectGarbage, TypeOK, IsValid, Statuses
  <2>2. \A i \in DOMAIN roster : roster[i] \in Controllers
    BY DEF TypeOK
  <2> QED  BY <2>1, <2>2 DEF SeatsOK
<1>4. ASSUME NEW c \in Controllers, Chat(c) \/ RefuseGuess(c)
      PROVE  SeatsOK'
  BY <1>4 DEF Chat, RefuseGuess, SeatsOK, IsValid, NobodyLeft
<1>5. ASSUME NEW c \in Controllers, NEW g \in Guesses, WinningGuess(c, g)
      PROVE  SeatsOK'
  <2>1. turn' < Len(roster) /\ acted' = FALSE
    BY <1>5 DEF WinningGuess, CanChat, ValidIndex, TypeOK
  <2>2. \A d \in Controllers : ~IsValid(d) => count'[d] = count[d]
    BY <1>5 DEF WinningGuess, ResetScores
  <2> QED  BY <1>5, <2>1, <2>2, SeatsKeptAtTheTable DEF WinningGuess
<1>6. ASSUME NEW c \in Controllers, NEW g \in Guesses, MissedGuess(c, g)
      PROVE  SeatsOK'
  <2>1. Broadcast(<<Judged(c)>>) \in [Controllers -> Seq(Msgs)]
    <3>1. <<Judged(c)>> \in Seq(Msgs)
      BY MessageTyping
    <3> QED  BY <3>1, MessageTyping
  <2> QED  BY <1>6, <2>1, EndTurnSeats DEF MissedGuess, CanChat
<1>7. CASE Countdown \/ TimeoutOfDeparted
  BY <1>7 DEF Countdown, TimeoutOfDeparted, SeatsOK, IsValid, NobodyLeft
<1>8. CASE Timeout
  <2>1. ValidIndex /\ Current \in Controllers
    BY <1>8 DEF Timeout, TimedOut, ValidIndex, Current, TypeOK
  <2>2. OnlyTo(Current, Msg("timeOut")) \in [Controllers -> Seq(Msgs)]
    BY <2>1, MessageTyping
  <2> QED  BY <1>8, <2>1, <2>2, EndTurnSeats DEF Timeout
<1>9. CASE Crash
  BY <1>9 DEF Crash, SeatsOK, IsValid, NobodyLeft
<1>10. CASE UNCHANGED vars
  BY <1>10 DEF vars, SeatsOK, IsValid, NobodyLeft
<1> QED
  BY <1>1, <1>2, <1>3, <1>4, <1>5, <1>6, <1>7, <1>8, <1>9, <1>10
  DEF Next, Play, UpdateGameTimer

Inv == TypeOK /\ SeatsOK

LEMMA InitInv == Init => Inv
<1>1. Init => SeatsOK
  <2> SUFFICES ASSUME Init PROVE SeatsOK
    OBVIOUS
  <2>1. /\ status = [c \in Controllers |-> "away"] /\ roster = << >> /\ turn = 0
        /\ count = [c \in Controllers |-> 0]
    BY DEF Init
  <2>2. acted = FALSE
    BY DEF Init
  <2>3. DOMAIN roster = {}
    BY <2>1
  <2> QED  BY <2>1, <2>2, <2>3 DEF SeatsOK, IsValid, NobodyLeft
<1> QED  BY <1>1, InitTyping DEF Inv

LEMMA InvHolds == Spec => []Inv
<1>1. Init => Inv
  BY InitInv
<1>2. Inv /\ [Next]_vars => Inv'
  BY NextTyping, NextSeats DEF Inv
<1> QED  BY <1>1, <1>2, PTL DEF Spec

\* Through joins, departures, collected controllers, wins and draws, the turn is at
\* a seat and the timeout stays armed.
THEOREM SeatsCorrect == Spec => []SeatsOK
BY InvHolds, PTL DEF Inv

-------------------------------------------------------------------------------
(***************************************************************************)
(* Who is charged, and what a departure does.                              *)
(***************************************************************************)
Charges ==
  \A c \in Controllers : count'[c] # count[c] =>
    \/ Restarts
    \/ ~IsValid(c)'
    \/ c = Current /\ count'[c] = count[c] + 1 /\ turn' = NextIndex(turn)

\* How a turn ends: either one more guess for its player and the next seat's turn,
\* or a restart.
LEMMA EndTurnCharges ==
  ASSUME TypeOK, ValidIndex, NEW said, EndTurn(Current, said),
         UNCHANGED <<phase, status, roster, name>>
  PROVE  Charges
<1>1. Current \in Controllers
  BY DEF ValidIndex, Current, TypeOK
<1>2. CASE /\ count' = IncreaseGuessCount(Current)
           /\ TurnToNextPlayer(turn, said)
  BY <1>1, <1>2 DEF IncreaseGuessCount, TurnToNextPlayer, Charges, TypeOK
<1>3. CASE ResetScores
  BY <1>3 DEF ResetScores, Charges, Restarts, IsValid, TypeOK
<1> QED  BY <1>2, <1>3 DEF EndTurn

\* A guess out of turn, a joining or leaving player and the clock charge nobody.
THEOREM OnlyCurrentCharged == Spec => OnlyTheCurrentIsCharged
<1>1. ASSUME Inv, [Next]_vars
      PROVE  [Charges]_vars
  <2> USE <1>1 DEF Inv
  <2>1. CASE BeginPlay \/ Crash \/ Countdown \/ TimeoutOfDeparted
    BY <2>1 DEF BeginPlay, Crash, Countdown, TimeoutOfDeparted, Charges
  <2>2. ASSUME NEW c \in Controllers, Login(c) \/ CollectGarbage(c) \/ Chat(c) \/ RefuseGuess(c)
        PROVE  Charges
    BY <2>2 DEF Login, CollectGarbage, Chat, RefuseGuess, Charges
  <2>3. ASSUME NEW c \in Controllers, Logout(c)
        PROVE  Charges
    BY <2>3 DEF Logout, Charges, IsValid, TypeOK
  <2>4. ASSUME NEW c \in Controllers, NEW g \in Guesses, WinningGuess(c, g)
        PROVE  Charges
    BY <2>4 DEF WinningGuess, ResetScores, Charges, Restarts, IsValid, TypeOK
  <2>5. ASSUME NEW c \in Controllers, NEW g \in Guesses, MissedGuess(c, g)
        PROVE  Charges
    BY <2>5, EndTurnCharges DEF MissedGuess, CanChat
  <2>6. CASE Timeout
    BY <2>6, EndTurnCharges DEF Timeout, TimedOut
  <2>7. CASE UNCHANGED vars
    BY <2>7
  <2> QED
    BY <2>1, <2>2, <2>3, <2>4, <2>5, <2>6, <2>7 DEF Next, Play, UpdateGameTimer
<1>2. Inv /\ [Next]_vars => [Charges]_vars
  BY <1>1
<1>3. [Charges]_vars <=>
        [\A c \in Controllers : count'[c] # count[c] =>
           \/ Restarts
           \/ ~IsValid(c)'
           \/ c = Current /\ count'[c] = count[c] + 1 /\ turn' = NextIndex(turn)]_vars
  BY DEF Charges
<1> QED  BY <1>2, <1>3, InvHolds, PTL DEF Spec, OnlyTheCurrentIsCharged

Frozen ==
  CurrentIsGone =>
    /\ CurrentIsGone'
    /\ turn' = turn /\ secret' = secret
    /\ \A c \in Controllers : IsValid(c)' /\ IsValid(c) => count'[c] = count[c]

\* A departed player's turn never ends: no later step moves it on.
THEOREM DepartureFreezes == Spec => DepartureFreezesTheGame
<1>1. ASSUME Inv, [Next]_vars
      PROVE  [Frozen]_vars
  <2> SUFFICES ASSUME CurrentIsGone, Next
               PROVE  /\ CurrentIsGone'
                      /\ turn' = turn /\ secret' = secret
                      /\ \A c \in Controllers : IsValid(c)' /\ IsValid(c) =>
                           count'[c] = count[c]
    BY <1>1 DEF Frozen
  <2> USE <1>1 DEF Inv
  <2>1. /\ Current \in Controllers /\ status[Current] \in {"left", "freed"}
        /\ phase # "loading"
        /\ turn < Len(roster) /\ turn + 1 \in DOMAIN roster
    BY DEF CurrentIsGone, ValidIndex, Current, SeatsOK, TypeOK, IsValid, Statuses,
           NobodyLeft
  <2>2. CASE Crash \/ Countdown \/ TimeoutOfDeparted
    BY <2>2 DEF Crash, Countdown, TimeoutOfDeparted, CurrentIsGone, ValidIndex, Current,
                IsValid
  <2>3. ASSUME NEW c \in Controllers, Chat(c) \/ RefuseGuess(c)
        PROVE  /\ CurrentIsGone' /\ UNCHANGED <<turn, secret, count>>
    BY <2>3 DEF Chat, RefuseGuess, CurrentIsGone, ValidIndex, Current, IsValid
  <2>4. ASSUME NEW c \in Controllers, Login(c)
        PROVE  /\ CurrentIsGone' /\ UNCHANGED <<turn, secret, count>>
    <3>1. roster'[turn + 1] = roster[turn + 1] /\ turn < Len(roster')
      <4>1. roster' = Append(roster, c) /\ roster \in Seq(Controllers) /\ turn \in Nat
        BY <2>4 DEF Login, TypeOK
      <4>2. turn + 1 \in 1 .. Len(roster) /\ Len(roster') = Len(roster) + 1
        BY <2>1, <4>1
      <4> QED  BY <4>1, <4>2
    <3>2. Current' = Current /\ status'[Current] = status[Current]
      BY <2>1, <2>4, <3>1 DEF Login, Current, TypeOK
    <3> QED  BY <2>1, <2>4, <3>1, <3>2 DEF Login, CurrentIsGone, ValidIndex, IsValid
  <2>5. ASSUME NEW c \in Controllers, Logout(c) \/ CollectGarbage(c)
        PROVE  /\ CurrentIsGone' /\ UNCHANGED <<turn, secret>>
               /\ \A d \in Controllers : IsValid(d)' /\ IsValid(d) => count'[d] = count[d]
    <3>1. Current' = Current /\ UNCHANGED <<turn, secret, roster>>
      BY <2>5 DEF Logout, CollectGarbage, Current
    <3>2. ~IsValid(Current)'
      BY <2>1, <2>5, <3>1 DEF Logout, CollectGarbage, IsValid, TypeOK
    <3>3. \A d \in Controllers : IsValid(d)' /\ IsValid(d) => count'[d] = count[d]
      BY <2>5 DEF Logout, CollectGarbage, IsValid, TypeOK
    <3> QED  BY <3>1, <3>2, <3>3 DEF CurrentIsGone, ValidIndex
  <2>6. ASSUME NEW c \in Controllers, NEW g \in Guesses,
               WinningGuess(c, g) \/ MissedGuess(c, g)
        PROVE  FALSE
    BY <2>6 DEF WinningGuess, MissedGuess, CanChat, CurrentIsGone
  <2>7. ~Timeout /\ ~BeginPlay
    BY <2>1 DEF Timeout, BeginPlay, CurrentIsGone
  <2> QED  BY <2>2, <2>3, <2>4, <2>5, <2>6, <2>7 DEF Next, Play, UpdateGameTimer
<1>2. Inv /\ [Next]_vars => [Frozen]_vars
  BY <1>1
<1>3. [Frozen]_vars <=>
        [CurrentIsGone =>
           /\ CurrentIsGone'
           /\ turn' = turn /\ secret' = secret
           /\ \A c \in Controllers : IsValid(c)' /\ IsValid(c) => count'[c] = count[c]]_vars
  BY DEF Frozen
<1> QED  BY <1>2, <1>3, InvHolds, PTL DEF Spec, DepartureFreezesTheGame

-------------------------------------------------------------------------------
(***************************************************************************)
(* While nobody leaves, JudgeGame never misses a draw.                     *)
(***************************************************************************)

\* After a restart every seated player still there has all attempts.
LEMMA RestartOpensGame ==
  ASSUME TypeOK, SeatsOK, ResetScores, UNCHANGED <<status, roster>>, roster # << >>
  PROVE  GameOpen'
<1> SUFFICES ASSUME NobodyLeft
             PROVE  \E i \in DOMAIN roster : count'[roster[i]] < MaxGuessCount
  BY DEF GameOpen, NobodyLeft
<1>1. 1 \in DOMAIN roster /\ roster[1] \in Controllers
  BY DEF TypeOK
<1>2. IsValid(roster[1])
  BY <1>1 DEF SeatsOK, NobodyLeft, IsValid
<1>3. count'[roster[1]] = 0
  BY <1>1, <1>2 DEF ResetScores
<1> QED  BY <1>1, <1>3, GameAssumption

LEMMA EndTurnOpensGame ==
  ASSUME TypeOK, SeatsOK, ValidIndex, NEW c \in Controllers, NEW said,
         EndTurn(c, said), UNCHANGED <<status, roster>>
  PROVE  GameOpen'
<1>1. CASE ~IsDraw(IncreaseGuessCount(c)) /\ count' = IncreaseGuessCount(c)
  <2>1. PICK i \in DOMAIN roster : ~(count'[roster[i]] >= MaxGuessCount)
    BY <1>1 DEF IsDraw
  <2>2. roster[i] \in Controllers
    BY DEF TypeOK
  <2>3. count'[roster[i]] \in Nat
    BY <1>1, <2>2 DEF IncreaseGuessCount, TypeOK
  <2>4. count'[roster[i]] < MaxGuessCount
    BY <2>1, <2>3, GameAssumption
  <2> QED  BY <2>4 DEF GameOpen
<1>2. CASE ResetScores
  <2>1. roster # << >>
    BY DEF ValidIndex, TypeOK
  <2> QED  BY <1>2, <2>1, RestartOpensGame
<1> QED  BY <1>1, <1>2 DEF EndTurn

\* As long as no player has left, a running game has a player with attempts to spare.
THEOREM GameStaysOpen == Spec => []GameOpen
<1>1. Init => GameOpen
  BY DEF Init, GameOpen
<1>2. ASSUME Inv, GameOpen, [Next]_vars
      PROVE  GameOpen'
  <2> USE <1>2 DEF Inv
  <2>1. CASE BeginPlay \/ Crash \/ Countdown \/ TimeoutOfDeparted \/ UNCHANGED vars
    BY <2>1 DEF BeginPlay, Crash, Countdown, TimeoutOfDeparted, vars, GameOpen, NobodyLeft
  <2>2. ASSUME NEW c \in Controllers, Chat(c) \/ RefuseGuess(c)
        PROVE  GameOpen'
    BY <2>2 DEF Chat, RefuseGuess, GameOpen, NobodyLeft
  <2>3. ASSUME NEW c \in Controllers, Logout(c) \/ CollectGarbage(c)
        PROVE  GameOpen'
    BY <2>3 DEF Logout, CollectGarbage, GameOpen, NobodyLeft, TypeOK
  <2>4. ASSUME NEW c \in Controllers, Login(c)
        PROVE  GameOpen'
    <3>1. roster' = Append(roster, c) /\ roster \in Seq(Controllers)
      BY <2>4 DEF Login, TypeOK
    <3>2. count'[c] = 0 /\ 0 < MaxGuessCount
      BY <2>4, GameAssumption DEF Login, SeatsOK
    <3>3. Len(roster) + 1 \in DOMAIN roster' /\ roster'[Len(roster) + 1] = c
      BY <3>1
    <3> QED  BY <3>2, <3>3 DEF GameOpen
  <2>5. ASSUME NEW c \in Controllers, NEW g \in Guesses, WinningGuess(c, g)
        PROVE  GameOpen'
    <3>1. roster # << >> /\ ResetScores /\ UNCHANGED <<status, roster>>
      BY <2>5 DEF WinningGuess, CanChat, ValidIndex, TypeOK
    <3> QED  BY <3>1, RestartOpensGame
  <2>6. ASSUME NEW c \in Controllers, NEW g \in Guesses, MissedGuess(c, g)
        PROVE  GameOpen'
    BY <2>6, EndTurnOpensGame DEF MissedGuess, CanChat
  <2>7. CASE Timeout
    <3>1. Current \in Controllers
      BY <2>7 DEF Timeout, TimedOut, ValidIndex, Current, TypeOK
    <3> QED  BY <2>7, <3>1, EndTurnOpensGame DEF Timeout, TimedOut
  <2> QED
    BY <2>1, <2>2, <2>3, <2>4, <2>5, <2>6, <2>7 DEF Next, Play, UpdateGameTimer
<1>3. Inv /\ GameOpen /\ [Next]_vars => GameOpen'
  BY <1>2
<1> QED  BY <1>1, <1>3, InvHolds, PTL DEF Spec

-------------------------------------------------------------------------------
(***************************************************************************)
(* Fairness of the turns at a fixed table.                                 *)
(*                                                                         *)
(* FairTurns is inductive once nobody leaves and nobody joins after the    *)
(* first turn: a missed turn either adds its player to those who have      *)
(* played this round, or completes the round.                              *)
(***************************************************************************)
TableInv ==
  /\ Inv
  /\ NobodyLeft
  /\ phase = "loading" => turn = 0
  /\ ~AllSeated => turn = 0 /\ \A c \in Controllers : count[c] = 0
  /\ FairTurns

\* Seat t's turn was the round's last: the next seat begins a new round.
RoundEnds(n, start, t, next) ==
  /\ \A s \in 0 .. n - 1 : HasPlayed(s, start, t) \/ s = t
  /\ \A s \in 0 .. n - 1 : ~HasPlayed(s, start, next)
  /\ ~HasPlayed(t, start, t)

\* Seat t joins those that have played this round.
RoundGoesOn(n, start, t, next) ==
  /\ \A s \in 0 .. n - 1 : HasPlayed(s, start, next) <=> HasPlayed(s, start, t) \/ s = t
  /\ ~HasPlayed(t, start, t)

LEMMA RoundStep ==
  ASSUME NEW n \in Nat, n > 0, NEW t \in Nat, t < n, NEW start \in {0, 1},
         start = 1 => n > 1, NEW next, next = (IF t + 1 = n THEN 0 ELSE t + 1)
  PROVE  RoundEnds(n, start, t, next) \/ RoundGoesOn(n, start, t, next)
BY DEF HasPlayed, RoundEnds, RoundGoesOn

\* All counts at zero is a fair table, with the first seat to begin or the second.
LEMMA NewGameIsFair ==
  ASSUME NEW r \in Seq(Controllers), NEW cnt, NEW t \in Nat,
         \A i \in DOMAIN r : cnt[r[i]] = 0,
         t = 0 \/ (t = 1 /\ Len(r) > 1)
  PROVE  FairAt(r, t, cnt)
<1>1. 0 \in 0 .. MaxGuessCount - 1
  BY GameAssumption
<1>2. \A i \in DOMAIN r : i \in Nat /\ i >= 1
  OBVIOUS
<1>3. CASE t = 0
  <2>1. \A i \in DOMAIN r : ~HasPlayed(i - 1, 0, t)
    BY <1>2, <1>3 DEF HasPlayed
  <2>2. \A i \in DOMAIN r : cnt[r[i]] = 0 + (IF HasPlayed(i - 1, 0, t) THEN 1 ELSE 0)
    BY <2>1
  <2> QED  BY <1>1, <2>2 DEF FairAt
<1>4. CASE t = 1 /\ Len(r) > 1
  <2>1. \A i \in DOMAIN r : ~HasPlayed(i - 1, 1, t)
    BY <1>2, <1>4 DEF HasPlayed
  <2>2. \A i \in DOMAIN r : cnt[r[i]] = 0 + (IF HasPlayed(i - 1, 1, t) THEN 1 ELSE 0)
    BY <2>1
  <2> QED  BY <1>1, <1>4, <2>2 DEF FairAt
<1> QED  BY <1>3, <1>4

LEMMA SecondSeat ==
  ASSUME NEW r \in Seq(Controllers), 0 < Len(r)
  PROVE  /\ (0 + 1) % Len(r) \in Nat
         /\ (0 + 1) % Len(r) = 0 \/ ((0 + 1) % Len(r) = 1 /\ Len(r) > 1)
BY ModuloIsNextSeat

\* A missed turn that does not make the draw keeps the table fair.
LEMMA MissIsFair ==
  ASSUME NEW r \in Seq(Controllers), NEW t \in Nat, t < Len(r),
         NEW cnt \in [Controllers -> Nat], NEW cnt2, FairAt(r, t, cnt),
         \A i \in DOMAIN r :
           cnt2[r[i]] = cnt[r[i]] + (IF i - 1 = t THEN 1 ELSE 0),
         \E i \in DOMAIN r : ~(cnt2[r[i]] >= MaxGuessCount)
  PROVE  FairAt(r, (t + 1) % Len(r), cnt2)
<1> DEFINE n == Len(r)
           next == IF t + 1 = n THEN 0 ELSE t + 1
<1>1. n \in Nat /\ n > 0 /\ DOMAIN r = 1 .. n
  OBVIOUS
<1>2. (t + 1) % n = next
  BY <1>1, ModuloIsNextSeat
<1>3. PICK rounds \in 0 .. MaxGuessCount - 1, start \in {0, 1} :
        /\ start = 1 => n > 1
        /\ \A i \in DOMAIN r :
             cnt[r[i]] = rounds + (IF HasPlayed(i - 1, start, t) THEN 1 ELSE 0)
  BY DEF FairAt
<1>4. \A i \in DOMAIN r : i \in Nat /\ i - 1 \in 0 .. n - 1
  BY <1>1
<1>5. CASE RoundEnds(n, start, t, next)
  <2> HIDE DEF n, next
  <2>1. \A i \in DOMAIN r : cnt2[r[i]] = rounds + 1
    <3> SUFFICES ASSUME NEW i \in DOMAIN r PROVE cnt2[r[i]] = rounds + 1
      OBVIOUS
    <3>1. CASE i - 1 = t
      <4>1. cnt[r[i]] = rounds + 0
        BY <1>3, <1>5, <3>1 DEF RoundEnds
      <4> QED  BY <3>1, <4>1
    <3>2. CASE i - 1 # t
      <4>1. HasPlayed(i - 1, start, t)
        BY <1>4, <1>5, <3>2 DEF RoundEnds
      <4>2. cnt[r[i]] = rounds + 1
        BY <1>3, <4>1
      <4> QED  BY <3>2, <4>2
    <3> QED  BY <3>1, <3>2
  <2>2. rounds + 1 \in 0 .. MaxGuessCount - 1
    <3>1. ~(rounds + 1 >= MaxGuessCount)
      BY <2>1
    <3> QED  BY <3>1, GameAssumption
  <2>3. \A i \in DOMAIN r :
          cnt2[r[i]] = rounds + 1 + (IF HasPlayed(i - 1, start, next) THEN 1 ELSE 0)
    BY <1>4, <1>5, <2>1, SMTT(30) DEF RoundEnds
  <2>4. FairAt(r, next, cnt2)
    BY <1>3, <2>2, <2>3 DEF FairAt, n
  <2> QED  BY <1>2, <2>4 DEF n
<1>6. CASE RoundGoesOn(n, start, t, next)
  <2> HIDE DEF n, next
  <2>1. \A i \in DOMAIN r :
          cnt2[r[i]] = rounds + (IF HasPlayed(i - 1, start, next) THEN 1 ELSE 0)
    <3> SUFFICES ASSUME NEW i \in DOMAIN r
                 PROVE  cnt2[r[i]]
                          = rounds + (IF HasPlayed(i - 1, start, next) THEN 1 ELSE 0)
      OBVIOUS
    <3>1. HasPlayed(i - 1, start, next) <=> HasPlayed(i - 1, start, t) \/ i - 1 = t
      BY <1>4, <1>6 DEF RoundGoesOn
    <3>2. CASE i - 1 = t
      <4>1. cnt[r[i]] = rounds + 0
        BY <1>3, <1>6, <3>2 DEF RoundGoesOn
      <4> QED  BY <3>1, <3>2, <4>1
    <3>3. CASE i - 1 # t
      <4>1. cnt2[r[i]] = cnt[r[i]] + 0
        BY <3>3
      <4>2. CASE HasPlayed(i - 1, start, t)
        BY <1>3, <3>1, <4>1, <4>2
      <4>3. CASE ~HasPlayed(i - 1, start, t)
        BY <1>3, <3>1, <3>3, <4>1, <4>3
      <4> QED  BY <4>2, <4>3
    <3> QED  BY <3>2, <3>3
  <2>2. FairAt(r, next, cnt2)
    BY <1>3, <2>1 DEF FairAt, n
  <2> QED  BY <1>2, <2>2 DEF n
<1>7. RoundEnds(n, start, t, next) \/ RoundGoesOn(n, start, t, next)
  BY <1>1, <1>3, RoundStep
<1> HIDE DEF n, next
<1> QED  BY <1>5, <1>6, <1>7

LEMMA EndTurnIsFair ==
  ASSUME TableInv, AllSeated, ValidIndex, NEW said, EndTurn(Current, said),
         UNCHANGED <<status, roster>>
  PROVE  FairTurns'
<1>1. /\ roster \in Seq(Controllers) /\ turn \in Nat /\ turn < Len(roster)
      /\ count \in [Controllers -> Nat]
      /\ FairAt(roster, turn, count)
      /\ \A i, j \in DOMAIN roster : roster[i] = roster[j] => i = j
      /\ \A c \in Controllers : IsValid(c)
  BY DEF TableInv, Inv, TypeOK, SeatsOK, ValidIndex, AllSeated, IsValid, FairTurns
<1>2. \A i \in DOMAIN roster : i \in Nat /\ roster[i] \in Controllers
  BY <1>1
<1>3. CASE /\ ~IsDraw(IncreaseGuessCount(Current))
           /\ count' = IncreaseGuessCount(Current)
           /\ TurnToNextPlayer(turn, said)
  <2>1. turn' = (turn + 1) % Len(roster)
    BY <1>3 DEF TurnToNextPlayer, NextIndex
  <2>2. \A i \in DOMAIN roster :
          count'[roster[i]] = count[roster[i]] + (IF i - 1 = turn THEN 1 ELSE 0)
    <3> SUFFICES ASSUME NEW i \in DOMAIN roster
                 PROVE  count'[roster[i]]
                          = count[roster[i]] + (IF i - 1 = turn THEN 1 ELSE 0)
      OBVIOUS
    <3>1. turn + 1 \in DOMAIN roster /\ Current \in Controllers
      BY <1>1 DEF Current
    <3>2. roster[i] = Current <=> i = turn + 1
      BY <1>1, <3>1 DEF Current
    <3>3. count' = [count EXCEPT ![Current] = @ + 1]
      BY <1>1, <1>3, <3>1 DEF IncreaseGuessCount
    <3>4. i = turn + 1 <=> i - 1 = turn
      BY <1>1, <1>2
    <3>5. count'[roster[i]]
            = IF roster[i] = Current THEN count[roster[i]] + 1 ELSE count[roster[i]]
      BY <1>1, <1>2, <3>3
    <3> QED  BY <1>1, <1>2, <3>2, <3>4, <3>5
  <2>3. \E i \in DOMAIN roster : ~(count'[roster[i]] >= MaxGuessCount)
    BY <1>3 DEF IsDraw
  <2>4. FairAt(roster, (turn + 1) % Len(roster), count')
    BY <1>1, <2>2, <2>3, MissIsFair
  <2> QED  BY <2>1, <2>4 DEF FairTurns
<1>4. CASE ResetScores /\ \E ms : TurnToNextPlayer(0, ms)
  <2>1. turn' = (0 + 1) % Len(roster)
    BY <1>4 DEF TurnToNextPlayer, NextIndex
  <2>2. \A i \in DOMAIN roster : count'[roster[i]] = 0
    BY <1>1, <1>2, <1>4 DEF ResetScores
  <2>3. turn' \in Nat /\ (turn' = 0 \/ (turn' = 1 /\ Len(roster) > 1))
    BY <1>1, <2>1, SecondSeat
  <2>4. FairAt(roster, turn', count')
    BY <1>1, <2>2, <2>3, NewGameIsFair
  <2> QED  BY <2>4 DEF FairTurns
<1> QED  BY <1>3, <1>4 DEF EndTurn

LEMMA FixedStepsAreSteps == FixedNext => Next
BY DEF FixedNext, Next

LEMMA TableInvInductive ==
  ASSUME TableInv, [FixedNext]_vars
  PROVE  TableInv'
<1>1. Inv'
  BY NextTyping, NextSeats, FixedStepsAreSteps DEF TableInv, Inv
<1>2. CASE BeginPlay
  BY <1>1, <1>2 DEF BeginPlay, TableInv, NobodyLeft, AllSeated, FairTurns
<1>3. ASSUME NEW c \in Controllers, Login(c)
      PROVE  TableInv'
  <2>1. ~AllSeated
    BY <1>3 DEF Login, AllSeated
  <2>2. turn' = 0 /\ \A d \in Controllers : count'[d] = 0
    BY <1>3, <2>1 DEF Login, TableInv
  <2>3. NobodyLeft'
    BY <1>3 DEF Login, TableInv, NobodyLeft, Inv, TypeOK
  <2>4. roster' \in Seq(Controllers) /\ \A i \in DOMAIN roster' : count'[roster'[i]] = 0
    BY <1>1, <2>2 DEF Inv, TypeOK
  <2>5. FairTurns'
    BY <2>2, <2>4, NewGameIsFair DEF FairTurns
  <2> QED  BY <1>1, <2>2, <2>3, <2>5 DEF TableInv
<1>4. CASE AllSeated /\ Play
  <2>1. UNCHANGED <<status, roster>>
    BY <1>4 DEF Play, Chat, RefuseGuess, WinningGuess, MissedGuess, UpdateGameTimer,
                Countdown, Timeout, TimeoutOfDeparted
  <2>2. NobodyLeft' /\ AllSeated'
    BY <1>4, <2>1 DEF NobodyLeft, AllSeated, TableInv
  <2>3. ASSUME NEW c \in Controllers, Chat(c) \/ RefuseGuess(c)
        PROVE  FairTurns'
    BY <2>3 DEF Chat, RefuseGuess, TableInv, FairTurns
  <2>4. ASSUME NEW c \in Controllers, NEW g \in Guesses, WinningGuess(c, g)
        PROVE  FairTurns'
    <3>1. turn' = 0 /\ \A i \in DOMAIN roster : count'[roster[i]] = 0
      BY <1>4, <2>4 DEF WinningGuess, ResetScores, AllSeated, IsValid, TableInv, Inv, TypeOK
    <3>2. roster \in Seq(Controllers)
      BY DEF TableInv, Inv, TypeOK
    <3> QED  BY <2>1, <3>1, <3>2, NewGameIsFair DEF FairTurns
  <2>5. ASSUME NEW c \in Controllers, NEW g \in Guesses, MissedGuess(c, g)
        PROVE  FairTurns'
    BY <1>4, <2>1, <2>5, EndTurnIsFair DEF MissedGuess, CanChat
  <2>6. ASSUME UpdateGameTimer PROVE FairTurns'
    <3>1. CASE Countdown \/ TimeoutOfDeparted
      BY <3>1 DEF Countdown, TimeoutOfDeparted, TableInv, FairTurns
    <3>2. CASE Timeout
      BY <1>4, <2>1, <3>2, EndTurnIsFair DEF Timeout, TimedOut
    <3> QED  BY <2>6, <3>1, <3>2 DEF UpdateGameTimer
  <2>7. FairTurns'
    BY <1>4, <2>3, <2>4, <2>5, <2>6 DEF Play
  <2>8. phase' # "loading"
    BY <1>4 DEF Play, Chat, RefuseGuess, WinningGuess, MissedGuess, CanChat,
                UpdateGameTimer, Countdown, Timeout, TimeoutOfDeparted, TimedOut
  <2> QED  BY <1>1, <2>2, <2>7, <2>8 DEF TableInv
<1>5. CASE UNCHANGED vars
  BY <1>1, <1>5 DEF vars, TableInv, NobodyLeft, AllSeated, FairTurns
<1> QED  BY <1>2, <1>3, <1>4, <1>5 DEF FixedNext

LEMMA TableAtFirst == Init => TableInv
<1> SUFFICES ASSUME Init PROVE TableInv
  OBVIOUS
<1>1. Inv
  BY InitInv
<1>2. /\ roster = << >> /\ turn = 0 /\ status = [c \in Controllers |-> "away"]
      /\ count = [c \in Controllers |-> 0]
  BY DEF Init
<1>3. FairTurns
  <2>1. roster \in Seq(Controllers) /\ \A i \in DOMAIN roster : count[roster[i]] = 0
    BY <1>2
  <2> QED  BY <1>2, <2>1, NewGameIsFair DEF FairTurns
<1> QED  BY <1>1, <1>2, <1>3 DEF TableInv, NobodyLeft

\* At a table whose players are all there from the first turn on, nobody ever has more
\* than one guess more than another, and nobody more than MaxGuessCount.
THEOREM TurnsAreFair == FixedSpec => []FairTurns
<1>1. TableInv /\ [FixedNext]_vars => TableInv'
  BY TableInvInductive
<1>2. TableInv => FairTurns
  BY DEF TableInv
<1> QED  BY <1>1, <1>2, TableAtFirst, PTL DEF FixedSpec

-------------------------------------------------------------------------------
(***************************************************************************)
(* What players are told of the turn.                                      *)
(***************************************************************************)

\* Nothing sent to p says whose turn it is, or the last thing that does is about `who`.
TellsOf(said, who) ==
  \A i \in DOMAIN said :
    /\ IsAnnouncement(said[i])
    /\ \A j \in DOMAIN said : IsAnnouncement(said[j]) => j <= i
    => said[i].name = who

LEMMA EndsWithTheTurn ==
  ASSUME NEW said \in Seq(Msgs), NEW who \in Nat
  PROVE  TellsOf(said \o <<[kind |-> "turnOf", name |-> who]>>, who)
<1> DEFINE m == [kind |-> "turnOf", name |-> who]
           s == said \o <<m>>
<1>1. m \in Msgs /\ IsAnnouncement(m) /\ m.name = who
  BY DEF Msgs, IsAnnouncement
<1> HIDE DEF m
<1>2. s \in Seq(Msgs) /\ Len(s) = Len(said) + 1 /\ s[Len(said) + 1] = m /\ Len(said) \in Nat
  BY <1>1
<1> HIDE DEF s
<1>3. Len(said) + 1 \in DOMAIN s /\ \A i \in DOMAIN s : i \in Nat /\ i <= Len(said) + 1
  BY <1>2
<1>4. ASSUME NEW i \in DOMAIN s, \A j \in DOMAIN s : IsAnnouncement(s[j]) => j <= i
      PROVE  s[i].name = who
  <2>1. i = Len(said) + 1
    BY <1>1, <1>2, <1>3, <1>4
  <2> QED  BY <1>1, <1>2, <2>1
<1> QED  BY <1>4 DEF TellsOf, s, m

LEMMA RestartTellsOfOne ==
  ASSUME NEW m \in Msgs, ~IsAnnouncement(m), TypeOK
  PROVE  TellsOf(<<m>> \o ResetAnnouncements, 1)
<1> DEFINE s == <<m>> \o ResetAnnouncements
<1>1. ResetAnnouncements \in Seq(Msgs) /\ <<m>> \in Seq(Msgs)
  BY MessageTyping
<1>2. \A i \in DOMAIN ResetAnnouncements : ResetAnnouncements[i].name = 1
  BY DEF ResetAnnouncements
<1> DEFINE R == ResetAnnouncements
<1> HIDE DEF R
<1>3. \A i \in DOMAIN (<<m>> \o R) :
           \/ i = 1 /\ (<<m>> \o R)[i] = m
           \/ i - 1 \in DOMAIN R /\ (<<m>> \o R)[i] = R[i - 1]
  <2>1. PICK t \in Seq(Msgs) : t = <<m>> /\ Len(t) = 1 /\ t[1] = m
    BY <1>1
  <2>2. R \in Seq(Msgs) /\ Len(R) \in Nat
    BY <1>1 DEF R
  <2>3. DOMAIN (t \o R) = 1 .. Len(R) + 1 /\ DOMAIN R = 1 .. Len(R)
    BY <2>1, <2>2
  <2>4. ASSUME NEW i \in 1 .. Len(R) + 1
        PROVE  \/ i = 1 /\ (t \o R)[i] = m
               \/ i - 1 \in 1 .. Len(R) /\ (t \o R)[i] = R[i - 1]
    <3>1. (t \o R)[i] = IF i <= Len(t) THEN t[i] ELSE R[i - Len(t)]
      BY <2>1, <2>2
    <3> QED  BY <2>1, <2>2, <3>1
  <2> QED  BY <2>1, <2>3, <2>4
<1> QED  BY <1>2, <1>3 DEF TellsOf, R

\* Who is told by TurnToNextPlayer, at a table where all are seated, is whose turn it is.
LEMMA TurnToNextPlayerTells ==
  ASSUME TypeOK, AllSeated, NEW i \in Nat, i < Len(roster),
         NEW said \in [Controllers -> Seq(Msgs)], TurnToNextPlayer(i, said),
         UNCHANGED <<status, roster, name>>
  PROVE  AnnouncedTurnIsTrue'
<1> DEFINE next == roster[NextIndex(i) + 1]
           announcement == IF IsValid(next)
                           THEN <<[kind |-> "turnOf", name |-> name[next]]>> ELSE << >>
<1>1. NextIndex(i) \in Nat /\ NextIndex(i) < Len(roster)
  BY ModuloIsNextSeat DEF NextIndex, TypeOK
<1>2. next \in Controllers /\ name[next] \in Nat /\ next = Current'
  BY <1>1, SMTT(30) DEF TypeOK, TurnToNextPlayer, Current
<1>3. IsValid(next)
  BY <1>2 DEF AllSeated, IsValid
<1>4. announcement = <<[kind |-> "turnOf", name |-> name[next]]>>
  BY <1>3
<1>5. out' = [p \in Controllers |-> said[p] \o Broadcast(announcement)[p]]
  BY DEF TurnToNextPlayer
<1> HIDE DEF next, announcement
<1>6. ASSUME NEW p \in Controllers PROVE TellsOf(out'[p], name[next])
  <2>1. Broadcast(announcement)[p] = announcement
    BY DEF Broadcast, AllSeated, IsValid
  <2>2. out'[p] = said[p] \o announcement
    BY <1>5, <2>1
  <2>3. said[p] \in Seq(Msgs)
    OBVIOUS
  <2> QED  BY <1>2, <1>4, <2>2, <2>3, EndsWithTheTurn
<1>7. name'[Current'] = name[next]
  BY <1>2
<1> QED  BY <1>6, <1>7 DEF TellsOf, AnnouncedTurnIsTrue

LEMMA EndTurnTells ==
  ASSUME TypeOK, AllSeated, ValidIndex, NEW c \in Controllers,
         NEW said \in [Controllers -> Seq(Msgs)], EndTurn(c, said),
         UNCHANGED <<status, roster, name>>
  PROVE  AnnouncedTurnIsTrue'
<1>1. turn \in Nat /\ turn < Len(roster) /\ 0 < Len(roster)
  BY DEF ValidIndex, TypeOK
<1>2. CASE TurnToNextPlayer(turn, said)
  BY <1>1, <1>2, TurnToNextPlayerTells
<1>3. CASE TurnToNextPlayer(0, [p \in Controllers |->
                                  said[p] \o Broadcast(ResetAnnouncements)[p]])
  <2>1. Broadcast(ResetAnnouncements) \in [Controllers -> Seq(Msgs)]
    BY MessageTyping
  <2> DEFINE both == [p \in Controllers |-> said[p] \o Broadcast(ResetAnnouncements)[p]]
  <2>2. both \in [Controllers -> Seq(Msgs)]
    BY <2>1
  <2>3. TurnToNextPlayer(0, both)
    BY <1>3
  <2> HIDE DEF both
  <2> QED  BY <1>1, <2>2, <2>3, TurnToNextPlayerTells
<1> QED  BY <1>2, <1>3 DEF EndTurn

\* What no handler of these says is whose turn it is.
Quiet == \A p \in Controllers : \A i \in DOMAIN out'[p] : ~IsAnnouncement(out'[p][i])

LEMMA QuietSteps ==
  ASSUME \/ BeginPlay \/ Countdown \/ TimeoutOfDeparted
         \/ \E c \in Controllers : Login(c) \/ Chat(c) \/ RefuseGuess(c)
  PROVE  Quiet
<1>1. CASE BeginPlay \/ TimeoutOfDeparted
  <2>1. out' = Silence
    BY <1>1 DEF BeginPlay, TimeoutOfDeparted
  <2> QED  BY <2>1 DEF Silence, Quiet
<1>2. \A m : /\ DOMAIN << m >> = {1} /\ << m >>[1] = m
             /\ DOMAIN << >> = {}
  OBVIOUS
<1>3. CASE \/ Countdown
           \/ \E c \in Controllers : Login(c) \/ Chat(c) \/ RefuseGuess(c)
  <2>1. PICK m : /\ ~IsAnnouncement(m)
                 /\ \A p \in Controllers : out'[p] \in {<< >>, <<m>>}
    <3>1. CASE Countdown
      <4>1. out' = Broadcast(<<Msg("timerUi")>>) /\ ~IsAnnouncement(Msg("timerUi"))
        BY <3>1 DEF Countdown, Msg, IsAnnouncement
      <4> QED  BY <4>1 DEF Broadcast
    <3>2. ASSUME NEW c \in Controllers, Login(c)
          PROVE  \E m : /\ ~IsAnnouncement(m)
                        /\ \A p \in Controllers : out'[p] \in {<< >>, <<m>>}
      <4> DEFINE m == [kind |-> "joined", name |-> Len(roster) + 1]
      <4>1. ~IsAnnouncement(m)
        BY DEF IsAnnouncement
      <4>2. out' = [p \in Controllers |->
                      IF p # Host /\ (IsValid(p) \/ p = c) THEN <<m>> ELSE << >>]
        BY <3>2 DEF Login
      <4> HIDE DEF m
      <4> QED  BY <4>1, <4>2
    <3>3. ASSUME NEW c \in Controllers, Chat(c)
          PROVE  \E m : /\ ~IsAnnouncement(m)
                        /\ \A p \in Controllers : out'[p] \in {<< >>, <<m>>}
      <4>1. out' = Broadcast(<<Msg("chat")>>) /\ ~IsAnnouncement(Msg("chat"))
        BY <3>3 DEF Chat, Msg, IsAnnouncement
      <4> QED  BY <4>1 DEF Broadcast
    <3>4. ASSUME NEW c \in Controllers, RefuseGuess(c)
          PROVE  \E m : /\ ~IsAnnouncement(m)
                        /\ \A p \in Controllers : out'[p] \in {<< >>, <<m>>}
      <4>1. out' = OnlyTo(c, Msg("notYourTurn")) /\ ~IsAnnouncement(Msg("notYourTurn"))
        BY <3>4 DEF RefuseGuess, Msg, IsAnnouncement
      <4> QED  BY <4>1 DEF OnlyTo, Silence
    <3> QED  BY <1>3, <3>1, <3>2, <3>3, <3>4
  <2> QED  BY <1>2, <2>1 DEF Quiet
<1> QED  BY <1>1, <1>3

LEMMA AnnouncedStep ==
  ASSUME TableInv, AnnouncedTurnIsTrue, [FixedNext]_vars
  PROVE  AnnouncedTurnIsTrue'
<1>1. TypeOK /\ SeatsOK
  BY DEF TableInv, Inv
<1>2. CASE Quiet
  BY <1>2 DEF Quiet, AnnouncedTurnIsTrue
<1>3. CASE UNCHANGED vars
  BY <1>3 DEF vars, AnnouncedTurnIsTrue, Current
<1>4. ASSUME AllSeated, NEW c \in Controllers, NEW g \in Guesses, WinningGuess(c, g)
      PROVE  AnnouncedTurnIsTrue'
  <2>1. /\ out' = Broadcast(<<Judged(c)>> \o ResetAnnouncements) /\ turn' = 0
        /\ UNCHANGED <<roster, name>> /\ 0 < Len(roster)
    BY <1>1, <1>4 DEF WinningGuess, CanChat, ValidIndex, TypeOK
  <2>2. roster[1] \in Controllers /\ 1 \in DOMAIN roster /\ Current' = roster[1]
    BY <1>1, <2>1 DEF TypeOK, Current
  <2>3. name[roster[1]] = 1
    <3>1. IsValid(roster[1])
      BY <1>4, <2>2 DEF AllSeated, IsValid
    <3> QED  BY <1>1, <2>2, <3>1 DEF SeatsOK
  <2>4. Judged(c) \in Msgs /\ ~IsAnnouncement(Judged(c))
    BY <1>1, MessageTyping DEF Judged, IsAnnouncement
  <2>5. TellsOf(<<Judged(c)>> \o ResetAnnouncements, 1)
    BY <1>1, <2>4, RestartTellsOfOne
  <2> DEFINE s == <<Judged(c)>> \o ResetAnnouncements
  <2> HIDE DEF s
  <2>6. \A p \in Controllers : out'[p] = s
    BY <1>4, <2>1 DEF s, Broadcast, AllSeated, IsValid
  <2>7. \A p \in Controllers : TellsOf(out'[p], 1)
    BY <2>5, <2>6 DEF s
  <2> QED  BY <2>1, <2>2, <2>3, <2>7 DEF TellsOf, AnnouncedTurnIsTrue
<1>5. ASSUME AllSeated, NEW c \in Controllers, NEW g \in Guesses, MissedGuess(c, g)
      PROVE  AnnouncedTurnIsTrue'
  <2>1. <<Judged(c)>> \in Seq(Msgs)
    BY <1>1, MessageTyping
  <2>2. Broadcast(<<Judged(c)>>) \in [Controllers -> Seq(Msgs)]
    BY <1>1, <2>1, MessageTyping
  <2> QED  BY <1>1, <1>5, <2>2, EndTurnTells DEF MissedGuess, CanChat
<1>6. ASSUME AllSeated, Timeout PROVE AnnouncedTurnIsTrue'
  <2>1. ValidIndex /\ Current \in Controllers
    BY <1>1, <1>6 DEF Timeout, TimedOut, ValidIndex, Current, TypeOK
  <2>2. OnlyTo(Current, Msg("timeOut")) \in [Controllers -> Seq(Msgs)]
    BY <1>1, <2>1, MessageTyping
  <2> QED  BY <1>1, <1>6, <2>1, <2>2, EndTurnTells DEF Timeout
<1> QED
  BY <1>2, <1>3, <1>4, <1>5, <1>6, QuietSteps DEF FixedNext, Play, UpdateGameTimer

LEMMA TableHolds == FixedSpec => []TableInv
<1> QED  BY TableAtFirst, TableInvInductive, PTL DEF FixedSpec

\* At a table whose players are all there from the first turn on, the last announcement
\* of the turn that a handler sends anyone names the player whose turn it is
\* (HWGameModeBase.cpp, TurnToNextPlayer and ResetGame).
THEOREM AnnouncementsAreTrue == FixedSpec => []AnnouncedTurnIsTrue
<1>1. Init => AnnouncedTurnIsTrue
  <2> SUFFICES ASSUME Init PROVE AnnouncedTurnIsTrue
    OBVIOUS
  <2>1. \A p \in Controllers : out[p] = << >>
    BY DEF Init, Silence
  <2>2. DOMAIN << >> = {}
    OBVIOUS
  <2> QED  BY <2>1, <2>2 DEF AnnouncedTurnIsTrue
<1>2. TableInv /\ AnnouncedTurnIsTrue /\ [FixedNext]_vars => AnnouncedTurnIsTrue'
  BY AnnouncedStep
<1> QED  BY <1>1, <1>2, TableHolds, PTL DEF FixedSpec

-------------------------------------------------------------------------------
(***************************************************************************)
(* The game at a fixed table implements HwRound, step by step.  What has   *)
(* to be counted is how many attempts all players have used together.      *)
(***************************************************************************)
Cells == Controllers \X (1 .. MaxGuessCount)

LEMMA CellsAreFinite ==
  ASSUME IsFiniteSet(Controllers), NEW cnt
  PROVE  /\ IsFiniteSet(Cells) /\ Cardinality(Cells) = Cardinality(Controllers) * MaxGuessCount
         /\ IsFiniteSet(UsedBy(cnt)) /\ Cardinality(UsedBy(cnt)) <= Cardinality(Cells)
         /\ Cardinality(UsedBy(cnt)) \in Nat /\ Cardinality(Cells) \in Nat
         /\ Cardinality(Cells) = Cardinality(UsedBy(cnt)) => UsedBy(cnt) = Cells
<1>1. IsFiniteSet(1 .. MaxGuessCount) /\ Cardinality(1 .. MaxGuessCount) = MaxGuessCount
  BY GameAssumption, FS_Interval
<1>2. IsFiniteSet(Cells) /\ Cardinality(Cells) = Cardinality(Controllers) * MaxGuessCount
  BY <1>1, FS_Product DEF Cells
<1>3. UsedBy(cnt) \in SUBSET Cells
  BY DEF UsedBy, Cells
<1>4. /\ IsFiniteSet(UsedBy(cnt)) /\ Cardinality(UsedBy(cnt)) <= Cardinality(Cells)
      /\ Cardinality(Cells) = Cardinality(UsedBy(cnt)) => UsedBy(cnt) = Cells
  BY <1>2, <1>3, FS_Subset
<1> QED  BY <1>2, <1>4, FS_CardinalityType

LEMMA NoneUsed ==
  ASSUME NEW cnt, \A c \in Controllers : cnt[c] = 0
  PROVE  Cardinality(UsedBy(cnt)) = 0
<1>1. UsedBy(cnt) = {}
  BY GameAssumption DEF UsedBy
<1> QED  BY <1>1, FS_EmptySet

\* One more guess of a player who has one left is one more attempt used.
LEMMA OneMoreUsed ==
  ASSUME IsFiniteSet(Controllers), NEW cnt \in [Controllers -> Nat], NEW c \in Controllers,
         cnt[c] < MaxGuessCount, NEW cnt2, cnt2 = [cnt EXCEPT ![c] = @ + 1]
  PROVE  Cardinality(UsedBy(cnt2)) = Cardinality(UsedBy(cnt)) + 1
<1> DEFINE new == <<c, cnt[c] + 1>>
<1>1. cnt[c] + 1 \in 1 .. MaxGuessCount
  BY GameAssumption
<1>2. ASSUME NEW d \in Controllers, NEW k \in 1 .. MaxGuessCount
      PROVE  k <= cnt2[d] <=> (k <= cnt[d] \/ <<d, k>> = new)
  <2>1. CASE d = c
    BY <2>1
  <2>2. CASE d # c
    BY <2>2
  <2> QED  BY <2>1, <2>2
<1>3. new \in Cells /\ new \notin UsedBy(cnt)
  BY <1>1 DEF Cells, UsedBy
<1>4. UsedBy(cnt2) = UsedBy(cnt) \cup {new}
  <2> HIDE DEF new
  <2>1. ASSUME NEW a \in Cells PROVE a \in UsedBy(cnt2) <=> a \in UsedBy(cnt) \cup {new}
    <3>1. PICK d \in Controllers, k \in 1 .. MaxGuessCount : a = <<d, k>>
      BY DEF Cells
    <3> QED  BY <1>2, <3>1 DEF UsedBy, Cells
  <2> QED  BY <1>3, <2>1 DEF UsedBy, Cells
<1> QED  BY <1>3, <1>4, CellsAreFinite, FS_AddElement

\* All attempts are used exactly when no player has one left.
LEMMA AllUsed ==
  ASSUME IsFiniteSet(Controllers), NEW cnt \in [Controllers -> Nat]
  PROVE  Cardinality(UsedBy(cnt)) = Cardinality(Controllers) * MaxGuessCount
           <=> \A c \in Controllers : cnt[c] >= MaxGuessCount
<1>1. ASSUME \A c \in Controllers : cnt[c] >= MaxGuessCount
      PROVE  UsedBy(cnt) = Cells
  <2>1. ASSUME NEW d \in Controllers, NEW k \in 1 .. MaxGuessCount PROVE k <= cnt[d]
    BY <1>1, GameAssumption
  <2> QED  BY <2>1 DEF UsedBy, Cells
<1>2. ASSUME UsedBy(cnt) = Cells, NEW c \in Controllers
      PROVE  cnt[c] >= MaxGuessCount
  <2>1. <<c, MaxGuessCount>> \in Cells
    BY GameAssumption DEF Cells
  <2>2. <<c, MaxGuessCount>> \in UsedBy(cnt)
    BY <1>2, <2>1
  <2> QED  BY <2>2, GameAssumption DEF UsedBy
<1> QED  BY <1>1, <1>2, CellsAreFinite

\* A table where all are seated has a seat for each controller.
LEMMA SeatsAreControllers ==
  ASSUME TypeOK, SeatsOK, AllSeated
  PROVE  /\ IsFiniteSet(Controllers) /\ Cardinality(Controllers) = Len(roster)
         /\ Len(roster) \in Nat
<1> DEFINE n == Len(roster)
<1>1. n \in Nat /\ DOMAIN roster = 1 .. n /\ roster \in [1 .. n -> Controllers]
  BY DEF TypeOK
<1>2. \A i, j \in 1 .. n : roster[i] = roster[j] => i = j
  BY <1>1 DEF SeatsOK
<1>3. \A c \in Controllers : \E i \in 1 .. n : roster[i] = c
  BY <1>1 DEF SeatsOK, AllSeated, IsValid
<1> HIDE DEF n
<1>4. roster \in Bijection(1 .. n, Controllers)
  BY <1>1, <1>2, <1>3, Fun_IsBij
<1>5. ExistsBijection(1 .. n, Controllers)
  BY <1>4 DEF ExistsBijection
<1> QED  BY <1>1, <1>5, FS_CountingElements, FS_NatBijection DEF n

\* The player whose turn it is has not used all attempts.
LEMMA CurrentHasAttempts ==
  ASSUME TypeOK, FairTurns, ValidIndex PROVE count[Current] < MaxGuessCount
<1>1. turn + 1 \in DOMAIN roster /\ turn \in Nat
  BY DEF ValidIndex, TypeOK
<1>2. PICK rounds \in 0 .. MaxGuessCount - 1, start \in {0, 1} :
        count[roster[turn + 1]]
          = rounds + (IF HasPlayed((turn + 1) - 1, start, turn) THEN 1 ELSE 0)
  BY <1>1 DEF FairTurns, FairAt
<1>3. ~HasPlayed((turn + 1) - 1, start, turn)
  BY <1>1 DEF HasPlayed
<1> QED  BY <1>2, <1>3, GameAssumption DEF Current

LEMMA EndTurnIsAnAttempt ==
  ASSUME TableInv, AllSeated, phase = "playing", ValidIndex, NEW said,
         EndTurn(Current, said), UNCHANGED <<phase, status, roster, name>>
  PROVE  Table!Next
<1>1. TypeOK /\ SeatsOK /\ FairTurns
  BY DEF TableInv, Inv
<1>2. /\ IsFiniteSet(Controllers) /\ Cardinality(Controllers) = Len(roster)
      /\ Current \in Controllers /\ count \in [Controllers -> Nat]
      /\ count[Current] < MaxGuessCount
  BY <1>1, SeatsAreControllers, CurrentHasAttempts, SMTT(30) DEF ValidIndex, Current, TypeOK
<1> DEFINE cnt2 == IncreaseGuessCount(Current)
           seats == Cardinality(Controllers)
           used == Cardinality(UsedBy(count))
<1>3. cnt2 = [count EXCEPT ![Current] = @ + 1] /\ cnt2 \in [Controllers -> Nat]
  BY <1>2 DEF IncreaseGuessCount, AllSeated, IsValid
<1> HIDE DEF cnt2
<1>4. Cardinality(UsedBy(cnt2)) = used + 1 /\ used \in Nat
  BY <1>2, <1>3, OneMoreUsed, CellsAreFinite
<1>5. IsDraw(cnt2) <=> \A c \in Controllers : cnt2[c] >= MaxGuessCount
  <2>1. \A i \in DOMAIN roster : roster[i] \in Controllers
    BY <1>1 DEF TypeOK
  <2>2. \A c \in Controllers : \E i \in DOMAIN roster : roster[i] = c
    BY <1>1 DEF SeatsOK, AllSeated, IsValid
  <2> QED  BY <2>1, <2>2 DEF IsDraw, AllSeated, IsValid
<1>6. used + 1 = seats * MaxGuessCount <=> IsDraw(cnt2)
  BY <1>2, <1>3, <1>4, <1>5, AllUsed
<1>7. used + 1 <= seats * MaxGuessCount /\ seats * MaxGuessCount \in Nat
  BY <1>2, <1>4, CellsAreFinite
<1>8. (AllSeated /\ phase = "playing")' /\ AllSeated /\ phase = "playing"
  BY DEF AllSeated
<1>9. Cardinality(UsedBy(count))' = Cardinality(UsedBy(count'))
  BY DEF UsedBy
<1>10. CASE ~IsDraw(cnt2) /\ count' = cnt2 /\ TurnToNextPlayer(turn, said)
  <2>1. turn' = (turn + 1) % seats
    BY <1>2, <1>10 DEF TurnToNextPlayer, NextIndex
  <2>2. used + 1 < seats * MaxGuessCount
    BY <1>4, <1>6, <1>7, <1>10
  <2>3. Cardinality(UsedBy(count))' = used + 1
    BY <1>4, <1>9, <1>10
  <2> QED  BY <1>8, <2>1, <2>2, <2>3 DEF Table!Next, Table!Attempt, Table!Miss
<1>11. CASE IsDraw(cnt2) /\ ResetScores /\ \E ms : TurnToNextPlayer(0, ms)
  <2>1. turn' = 1 % seats
    BY <1>2, <1>11 DEF TurnToNextPlayer, NextIndex
  <2>2. \A c \in Controllers : count'[c] = 0
    BY <1>11 DEF ResetScores, AllSeated, IsValid
  <2>3. Cardinality(UsedBy(count))' = 0
    BY <1>9, <2>2, NoneUsed
  <2> QED  BY <1>6, <1>8, <1>11, <2>1, <2>3 DEF Table!Next, Table!Attempt, Table!Draw
<1> QED  BY <1>10, <1>11 DEF EndTurn, cnt2

LEMMA TableStep ==
  ASSUME TableInv, [FixedNext]_vars PROVE [Table!Next]_(Table!vars)
<1> USE DEF Table!vars
<1>1. TypeOK /\ SeatsOK
  BY DEF TableInv, Inv
<1>2. ASSUME UNCHANGED <<phase, status, turn, count>> PROVE UNCHANGED Table!vars
  BY <1>2 DEF AllSeated, UsedBy
<1>3. CASE BeginPlay
  <2>1. UNCHANGED <<status, count>> /\ phase' = "playing" /\ phase = "loading"
        /\ turn' = turn
    BY <1>3 DEF BeginPlay, TableInv
  <2>2. UNCHANGED Cardinality(UsedBy(count))
    BY <2>1 DEF UsedBy
  <2>3. ~(AllSeated /\ phase = "playing") /\ AllSeated' = AllSeated
    BY <2>1 DEF AllSeated
  <2> QED  BY <2>1, <2>2, <2>3 DEF Table!Next, Table!Open
<1>4. ASSUME NEW c \in Controllers, Login(c) PROVE [Table!Next]_(Table!vars)
  <2>1. ~AllSeated /\ UNCHANGED <<turn, count>>
    BY <1>4 DEF Login, AllSeated
  <2>2. UNCHANGED Cardinality(UsedBy(count))
    BY <2>1 DEF UsedBy
  <2>3. CASE (AllSeated /\ phase = "playing")'
    BY <2>1, <2>2, <2>3 DEF Table!Next, Table!Open
  <2>4. CASE ~(AllSeated /\ phase = "playing")'
    <3>1. (AllSeated /\ phase = "playing")' = (AllSeated /\ phase = "playing")
      BY <2>1, <2>4
    <3> QED  BY <2>1, <2>2, <3>1
  <2> QED  BY <2>3, <2>4
<1>5. ASSUME AllSeated, NEW c \in Controllers, NEW g \in Guesses, WinningGuess(c, g)
      PROVE  [Table!Next]_(Table!vars)
  <2>1. UNCHANGED <<phase, status>> /\ phase = "playing" /\ turn' = 0 /\ ResetScores
    BY <1>5 DEF WinningGuess, CanChat
  <2>2. \A d \in Controllers : count'[d] = 0
    BY <1>5, <2>1 DEF ResetScores, AllSeated, IsValid
  <2>3. Cardinality(UsedBy(count))' = Cardinality(UsedBy(count'))
    BY DEF UsedBy
  <2>4. Cardinality(UsedBy(count))' = 0
    BY <2>2, <2>3, NoneUsed
  <2>5. AllSeated'
    BY <1>5, <2>1 DEF AllSeated
  <2> QED  BY <1>5, <2>1, <2>4, <2>5 DEF Table!Next, Table!Attempt, Table!Win
<1>6. ASSUME AllSeated, NEW c \in Controllers, NEW g \in Guesses, MissedGuess(c, g)
      PROVE  [Table!Next]_(Table!vars)
  BY <1>6, EndTurnIsAnAttempt DEF MissedGuess, CanChat
<1>7. ASSUME AllSeated, Timeout PROVE [Table!Next]_(Table!vars)
  BY <1>7, EndTurnIsAnAttempt DEF Timeout, TimedOut
<1>8. CASE \/ Countdown \/ TimeoutOfDeparted \/ UNCHANGED vars
           \/ \E c \in Controllers : Chat(c) \/ RefuseGuess(c)
  BY <1>2, <1>8 DEF Countdown, TimeoutOfDeparted, vars, Chat, RefuseGuess
<1> QED
  BY <1>3, <1>4, <1>5, <1>6, <1>7, <1>8 DEF FixedNext, Play, UpdateGameTimer

\* At a table of any size, attempts are taken in seat order, one after the other, and a
\* game is drawn exactly with the attempt that uses up the last of all players': each
\* step of the server is a step of HwRound or none for it (HWGameModeBase.cpp, JudgeGame
\* and TurnToNextPlayer).
THEOREM StepsImplementRound == FixedSpec => Table!Init /\ [][Table!Next]_(Table!vars)
<1>1. Init => Table!Init
  <2> SUFFICES ASSUME Init PROVE Table!Init
    OBVIOUS
  <2>1. \A c \in Controllers : count[c] = 0
    BY DEF Init
  <2> QED  BY <2>1, NoneUsed DEF Init, Table!Init
<1>2. TableInv /\ [FixedNext]_vars => [Table!Next]_(Table!vars)
  BY TableStep
<1> QED  BY <1>1, <1>2, TableHolds, PTL DEF FixedSpec
===============================================================================
