-------------------------------- MODULE HwJudge -------------------------------
(***************************************************************************)
(* The data side of a guess: GenerateSecretNumber, the last three          *)
(* characters that PrintChatMessageString takes from a chat line,          *)
(* IsGuessNumberString and JudgeResult.  A character is a digit 0..9, or   *)
(* Other for anything that is no digit.                                    *)
(***************************************************************************)
EXTENDS Integers, Sequences, FiniteSets, SequencesExt

CONSTANTS
  TopDigit,       \* the loop's bound 9
  Other,          \* a character that is not a digit
  MaxTyped        \* bound on the length of a typed line

ASSUME JudgeAssumption == TopDigit \in 3 .. 9 /\ Other \notin 0 .. 9 /\ MaxTyped \in Nat

VARIABLES
  numbers,   \* Numbers: the digits not drawn yet
  secret,    \* Result, then SecretNumberString
  line       \* the chat line under judgement, << >> before there is one

vars == <<numbers, secret, line>>

Digits == 1 .. TopDigit

Characters == 0 .. TopDigit \cup {Other}

-------------------------------------------------------------------------------
\* The server is handed the player's info, ": " and what was typed.
Message(typed) == <<Other, Other, Other>> \o typed

\* RightChop(Len - 3).
LastThree(message) == SubSeq(message, Len(message) - 2, Len(message))

\* Fault: the zero is not excluded.
IsGuessNumberStringWithZero(s) ==
  Len(s) = 3 /\ \A i \in DOMAIN s : s[i] \in 0 .. TopDigit

\* UniqueDigits is filled but never compared with the length: repeated digits pass.
IsGuessNumberString(s) ==
  Len(s) = 3 /\ \A i \in DOMAIN s : s[i] \in Digits

IsStrike(s, g, i) == s[i] = g[i]

StrikeCount(s, g) == Cardinality({i \in 1 .. 3 : IsStrike(s, g, i)})

\* Fault: a strike is counted as a ball too.
BallCountWithStrikes(s, g) == Cardinality({i \in 1 .. 3 : Contains(s, g[i])})

BallCount(s, g) ==
  Cardinality({i \in 1 .. 3 : ~IsStrike(s, g, i) /\ Contains(s, g[i])})

JudgeResult(s, g) == [strikes |-> StrikeCount(s, g), balls |-> BallCount(s, g)]

-------------------------------------------------------------------------------
Init ==
  /\ numbers = [i \in 1 .. TopDigit |-> i]
  /\ secret = << >>
  /\ line = << >>

\* Fault: the drawn digit stays in the pool.
DrawDigitWithReplacement(i) ==
  /\ Len(secret) < 3
  /\ secret' = Append(secret, numbers[i])
  /\ UNCHANGED <<numbers, line>>

\* One turn of GenerateSecretNumber's loop: RandRange picks a position of the pool.
DrawDigit(i) ==
  /\ Len(secret) < 3
  /\ secret' = Append(secret, numbers[i])
  /\ numbers' = RemoveAt(numbers, i)
  /\ UNCHANGED line

\* Any line a player can type arrives for judgement.
Judge(typed) ==
  /\ Len(secret) = 3 /\ line = << >>
  /\ line' = Message(typed)
  /\ UNCHANGED <<numbers, secret>>

Next ==
  \/ \E i \in DOMAIN numbers : DrawDigit(i)
  \/ \E typed \in BoundedSeq(Characters, MaxTyped) : Judge(typed)

Spec == Init /\ [][Next]_vars

-------------------------------------------------------------------------------
guess == LastThree(line)

Judging == line # << >> /\ IsGuessNumberString(guess)

\* The secret is three different digits, none of them zero, whatever positions of the
\* shrinking pool are drawn.
SecretWellFormed ==
  /\ Len(secret) <= 3 /\ IsInjective(secret) /\ ToSet(secret) \subseteq Digits
  /\ Len(secret) = 3 => IsGuessNumberString(secret)

\* Only what the player typed can make a guess: no line whose last three typed
\* characters are not all digits 1..9 counts, whatever the info before it holds.
OnlyTypedDigitsGuess ==
  line # << >> =>
    LET typed == SubSeq(line, 4, Len(line))
    IN  Judging <=> /\ Len(typed) >= 3
                    /\ \A i \in Len(typed) - 2 .. Len(typed) : typed[i] \in Digits

\* Against a reference scoring: the winning comparison of the strings and three
\* strikes are the same thing, and for a guess of different digits strikes and balls
\* together are the digits it shares with the secret, so that two strikes and one ball
\* never show.
ScoresLikeBullsAndCows ==
  Judging =>
    LET r == JudgeResult(secret, guess)
    IN  /\ guess = secret <=> r.strikes = 3
        /\ r.strikes + r.balls <= 3
        /\ IsInjective(guess) =>
             /\ r.strikes + r.balls = Cardinality(ToSet(secret) \cap ToSet(guess))
             /\ ~(r.strikes = 2 /\ r.balls = 1)
===============================================================================
