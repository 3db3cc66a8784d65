----------------------------- MODULE HwJudgeProofs -----------------------------
(***************************************************************************)
(* The secret is three different digits whatever is drawn, and only digits *)
(* that were typed make a guess: for any number of digits up to the code's *)
(* nine and lines of any length.                                           *)
(***************************************************************************)
EXTENDS HwJudge, SequenceTheorems, FiniteSetTheorems, TLAPS

\* The pool and what has been drawn from it are different digits.
Pool ==
  /\ numbers \in Seq(Digits) /\ secret \in Seq(Digits) /\ Len(secret) <= 3
  /\ \A i, j \in DOMAIN numbers : numbers[i] = numbers[j] => i = j
  /\ \A i, j \in DOMAIN secret : secret[i] = secret[j] => i = j
  /\ \A i \in DOMAIN numbers, j \in DOMAIN secret : numbers[i] # secret[j]

Lines ==
  \/ line = << >>
  \/ Len(secret) = 3 /\ \E typed \in Seq(Characters) : line = Message(typed)

LEMMA Lengths ==
  ASSUME NEW T, NEW s \in Seq(T)
  PROVE  /\ Len(s) \in Nat /\ DOMAIN s = 1 .. Len(s)
         /\ s = << >> <=> Len(s) = 0
         /\ \A i \in 1 .. Len(s) : s[i] \in T
  BY LenProperties, EmptySeq, ElementOfSeq

\* What stays when a position is taken out: everything but what was there.
LEMMA Removed ==
  ASSUME NEW T, NEW s \in Seq(T), NEW i \in DOMAIN s
  PROVE  /\ RemoveAt(s, i) \in Seq(T)
         /\ DOMAIN RemoveAt(s, i) = 1 .. Len(s) - 1
         /\ \A k \in 1 .. Len(s) - 1 :
              RemoveAt(s, i)[k] = IF k < i THEN s[k] ELSE s[k + 1]
<1>1. /\ Len(s) \in Nat /\ DOMAIN s = 1 .. Len(s) /\ i \in 1 .. Len(s)
      /\ \A k \in 1 .. Len(s) : s[k] \in T
  BY Lengths
<1>2. PICK a \in Seq(T) :
        /\ a = SubSeq(s, 1, i - 1) /\ Len(a) = i - 1
        /\ \A k \in 1 .. i - 1 : a[k] = s[k]
  <2>1. 1 \in Int /\ i - 1 \in Int /\ \A k \in 1 .. i - 1 : s[k] \in T
    BY <1>1
  <2>2. /\ SubSeq(s, 1, i - 1) \in Seq(T)
        /\ Len(SubSeq(s, 1, i - 1)) = IF 1 <= i - 1 THEN (i - 1) - 1 + 1 ELSE 0
        /\ \A k \in 1 .. (i - 1) - 1 + 1 : SubSeq(s, 1, i - 1)[k] = s[1 + k - 1]
    BY <2>1, SubSeqProperties
  <2>3. /\ Len(SubSeq(s, 1, i - 1)) = i - 1
        /\ \A k \in 1 .. i - 1 : SubSeq(s, 1, i - 1)[k] = s[k]
    BY <1>1, <2>2
  <2> QED
    BY <2>2, <2>3
<1>3. PICK b \in Seq(T) :
        /\ b = SubSeq(s, i + 1, Len(s)) /\ Len(b) = Len(s) - i
        /\ \A k \in 1 .. Len(s) - i : b[k] = s[i + k]
  <2>1. i + 1 \in Int /\ Len(s) \in Int /\ \A k \in i + 1 .. Len(s) : s[k] \in T
    BY <1>1
  <2>2. /\ SubSeq(s, i + 1, Len(s)) \in Seq(T)
        /\ Len(SubSeq(s, i + 1, Len(s))) =
             IF i + 1 <= Len(s) THEN Len(s) - (i + 1) + 1 ELSE 0
        /\ \A k \in 1 .. Len(s) - (i + 1) + 1 :
             SubSeq(s, i + 1, Len(s))[k] = s[i + 1 + k - 1]
    BY <2>1, SubSeqProperties
  <2>3. /\ Len(SubSeq(s, i + 1, Len(s))) = Len(s) - i
        /\ \A k \in 1 .. Len(s) - i : SubSeq(s, i + 1, Len(s))[k] = s[i + k]
    BY <1>1, <2>2
  <2> QED
    BY <2>2, <2>3
<1>4. RemoveAt(s, i) = a \o b
  BY <1>2, <1>3 DEF RemoveAt
<1>5. /\ a \o b \in Seq(T) /\ Len(a \o b) = Len(s) - 1
      /\ \A k \in 1 .. Len(s) - 1 : (a \o b)[k] = IF k <= i - 1 THEN a[k] ELSE b[k - (i - 1)]
  <2>1. /\ a \o b \in Seq(T) /\ Len(a \o b) = Len(a) + Len(b)
        /\ \A k \in 1 .. Len(a) + Len(b) :
             (a \o b)[k] = IF k <= Len(a) THEN a[k] ELSE b[k - Len(a)]
    BY ConcatProperties
  <2>2. Len(a) + Len(b) = Len(s) - 1
    <3>1. Len(s) \in Int /\ i \in Int /\ Len(a) = i - 1 /\ Len(b) = Len(s) - i
      BY <1>1, <1>2, <1>3
    <3> QED
      BY <3>1
  <2> QED
    BY <1>2, <2>1, <2>2
<1>6. DOMAIN (a \o b) = 1 .. Len(s) - 1
  BY <1>5, LenProperties
<1>7. \A k \in 1 .. Len(s) - 1 : (a \o b)[k] = IF k < i THEN s[k] ELSE s[k + 1]
  <2> SUFFICES ASSUME NEW k \in 1 .. Len(s) - 1
               PROVE  (a \o b)[k] = IF k < i THEN s[k] ELSE s[k + 1]
    OBVIOUS
  <2>1. CASE k < i
    <3>1. k \in 1 .. i - 1 /\ k <= i - 1
      BY <1>1, <2>1
    <3>2. (a \o b)[k] = a[k] /\ a[k] = s[k]
      BY <1>2, <1>5, <3>1
    <3> QED
      BY <2>1, <3>2
  <2>2. CASE ~(k < i)
    <3>1. k - (i - 1) \in 1 .. Len(s) - i /\ i + (k - (i - 1)) = k + 1 /\ ~(k <= i - 1)
      BY <1>1, <2>2
    <3> QED
      BY <1>3, <1>5, <2>2, <3>1
  <2> QED
    BY <2>1, <2>2
<1> QED
  BY <1>4, <1>5, <1>6, <1>7

LEMMA InitKeeps == ASSUME Init PROVE Pool /\ Lines
<1>1. TopDigit \in Nat /\ Digits = 1 .. TopDigit
  BY JudgeAssumption DEF Digits
<1>2. << >> \in Seq(Digits) /\ Len(<< >>) = 0 /\ DOMAIN << >> = {}
  BY EmptySeq
<1>3. numbers \in Seq(Digits) /\ DOMAIN numbers = 1 .. TopDigit
  <2>1. numbers = [i \in 1 .. TopDigit |-> i]
    BY DEF Init
  <2>2. numbers \in [1 .. TopDigit -> Digits]
    BY <1>1, <2>1
  <2> QED
    BY <1>1, <2>1, <2>2, SeqDef
<1> QED
  BY <1>2, <1>3 DEF Init, Pool, Lines

\* A drawn digit leaves the pool.
LEMMA DrawKeeps ==
  ASSUME Pool, NEW i \in DOMAIN numbers, DrawDigit(i) PROVE Pool'
<1>1. /\ numbers \in Seq(Digits) /\ secret \in Seq(Digits)
      /\ numbers' = RemoveAt(numbers, i) /\ secret' = Append(secret, numbers[i])
      /\ Len(secret) < 3
  BY DEF Pool, DrawDigit
<1>2. /\ Len(numbers) \in Nat /\ DOMAIN numbers = 1 .. Len(numbers)
      /\ Len(secret) \in Nat /\ DOMAIN secret = 1 .. Len(secret)
      /\ numbers[i] \in Digits
  BY <1>1, Lengths
<1>3. /\ numbers' \in Seq(Digits) /\ DOMAIN numbers' = 1 .. Len(numbers) - 1
      /\ \A k \in 1 .. Len(numbers) - 1 :
           numbers'[k] = IF k < i THEN numbers[k] ELSE numbers[k + 1]
  BY <1>1, Removed
<1>4. /\ secret' \in Seq(Digits) /\ Len(secret') = Len(secret) + 1
      /\ \A k \in 1 .. Len(secret) : secret'[k] = secret[k]
      /\ secret'[Len(secret) + 1] = numbers[i]
  BY <1>1, <1>2, AppendProperties
<1>5. DOMAIN secret' = 1 .. Len(secret) + 1
  BY <1>4, LenProperties
<1>6. \A k \in DOMAIN numbers' :
        \E l \in DOMAIN numbers :
          /\ l = (IF k < i THEN k ELSE k + 1) /\ l # i /\ numbers'[k] = numbers[l]
  BY <1>2, <1>3
<1>7. \A k, l \in DOMAIN numbers' : numbers'[k] = numbers'[l] => k = l
  <2> SUFFICES ASSUME NEW k \in DOMAIN numbers', NEW l \in DOMAIN numbers',
                      numbers'[k] = numbers'[l]
               PROVE  k = l
    OBVIOUS
  <2>1. (IF k < i THEN k ELSE k + 1) = (IF l < i THEN l ELSE l + 1)
    BY <1>6 DEF Pool
  <2> QED
    BY <1>2, <1>3, <2>1
<1>8. \A k, l \in DOMAIN secret' : secret'[k] = secret'[l] => k = l
  BY <1>2, <1>4, <1>5 DEF Pool
<1>9. \A k \in DOMAIN numbers', l \in DOMAIN secret' : numbers'[k] # secret'[l]
  <2> SUFFICES ASSUME NEW k \in DOMAIN numbers', NEW l \in DOMAIN secret'
               PROVE  numbers'[k] # secret'[l]
    OBVIOUS
  <2>1. PICK n \in DOMAIN numbers : n # i /\ numbers'[k] = numbers[n]
    BY <1>6
  <2>2. CASE l = Len(secret) + 1
    BY <1>4, <2>1, <2>2 DEF Pool
  <2>3. CASE l \in DOMAIN secret
    BY <1>2, <1>4, <2>1, <2>3 DEF Pool
  <2> QED
    BY <1>2, <1>5, <2>2, <2>3
<1> QED
  BY <1>1, <1>2, <1>3, <1>4, <1>7, <1>8, <1>9 DEF Pool

LEMMA JudgeKeeps ==
  ASSUME NEW typed \in BoundedSeq(Characters, MaxTyped), Judge(typed) PROVE Lines'
<1>1. PICK m \in 0 .. MaxTyped : typed \in [1 .. m -> Characters]
  BY DEF BoundedSeq, SeqOf
<1>2. m \in Nat
  BY JudgeAssumption
<1>3. typed \in Seq(Characters)
  BY <1>1, <1>2, SeqDef
<1> QED
  BY <1>3 DEF Judge, Lines

LEMMA PoolAndLines == Spec => [](Pool /\ Lines)
<1>1. Pool /\ Lines /\ [Next]_vars => (Pool /\ Lines)'
  <2> SUFFICES ASSUME Pool, Lines, [Next]_vars PROVE Pool' /\ Lines'
    OBVIOUS
  <2>1. ASSUME NEW i \in DOMAIN numbers, DrawDigit(i) PROVE Pool' /\ Lines'
    <3>1. Len(secret) # 3 /\ line' = line
      <4>1. Len(secret) < 3 /\ Len(secret) \in Nat
        BY <2>1, Lengths DEF DrawDigit, Pool
      <4> QED
        BY <2>1, <4>1 DEF DrawDigit
    <3>2. line = << >>
      BY <3>1 DEF Lines
    <3>3. Lines'
      BY <3>1, <3>2 DEF Lines
    <3> QED
      BY <2>1, <3>3, DrawKeeps
  <2>2. ASSUME NEW typed \in BoundedSeq(Characters, MaxTyped), Judge(typed)
        PROVE  Pool' /\ Lines'
    BY <2>2, JudgeKeeps DEF Judge, Pool
  <2>3. CASE UNCHANGED vars
    BY <2>3 DEF vars, Pool, Lines
  <2> QED
    BY <2>1, <2>2, <2>3 DEF Next
<1> QED
  BY <1>1, InitKeeps, PTL DEF Spec

\* The secret has three different digits, none of them zero, whatever positions of the
\* shrinking pool are drawn (HWGameModeBase.cpp, GenerateSecretNumber).
THEOREM SecretsAreWellFormed == Spec => []SecretWellFormed
<1>1. Pool => SecretWellFormed
  <2> SUFFICES ASSUME Pool PROVE SecretWellFormed
    OBVIOUS
  <2>1. /\ Len(secret) \in Nat /\ DOMAIN secret = 1 .. Len(secret)
        /\ \A i \in 1 .. Len(secret) : secret[i] \in Digits
    BY Lengths DEF Pool
  <2>2. ToSet(secret) \subseteq Digits
    BY <2>1 DEF ToSet
  <2> QED
    BY <2>1, <2>2 DEF Pool, SecretWellFormed, IsInjective, IsGuessNumberString
<1> QED
  BY <1>1, PoolAndLines, PTL

\* A message is three characters of info and what was typed; the guess is its end.
LEMMA GuessOf ==
  ASSUME NEW typed \in Seq(Characters), line = Message(typed)
  PROVE  LET n == Len(typed)
         IN  /\ Len(line) = n + 3
             /\ \A i \in 1 .. n + 3 : line[i] = IF i <= 3 THEN Other ELSE typed[i - 3]
             /\ Len(SubSeq(line, 4, n + 3)) = n
             /\ \A i \in 1 .. n : SubSeq(line, 4, n + 3)[i] = typed[i]
             /\ guess \in Seq(Characters) /\ Len(guess) = 3 /\ DOMAIN guess = 1 .. 3
             /\ \A i \in 1 .. 3 : guess[i] = line[n + i]
<1> DEFINE n == Len(typed)
<1>1. n \in Nat /\ DOMAIN typed = 1 .. n /\ \A i \in 1 .. n : typed[i] \in Characters
  BY Lengths
<1>2. Other \in Characters /\ Other \notin Digits
  BY JudgeAssumption DEF Characters, Digits
<1>3. <<Other, Other, Other>> \in Seq(Characters)
  BY <1>2
<1>4. /\ line \in Seq(Characters) /\ Len(line) = n + 3
      /\ \A i \in 1 .. n + 3 : line[i] = IF i <= 3 THEN Other ELSE typed[i - 3]
  <2>1. /\ line \in Seq(Characters) /\ Len(line) = 3 + n
        /\ \A i \in 1 .. 3 + n :
             line[i] = IF i <= 3 THEN <<Other, Other, Other>>[i] ELSE typed[i - 3]
    BY <1>3, ConcatProperties DEF Message
  <2> QED
    BY <1>1, <2>1
<1>5. \A i \in 1 .. n + 3 : line[i] \in Characters
  BY <1>4, Lengths
<1>6. /\ Len(SubSeq(line, 4, n + 3)) = n
      /\ \A i \in 1 .. n : SubSeq(line, 4, n + 3)[i] = typed[i]
  <2>1. 4 \in Int /\ n + 3 \in Int /\ \A i \in 4 .. n + 3 : line[i] \in Characters
    BY <1>1, <1>5
  <2>2. /\ Len(SubSeq(line, 4, n + 3)) = IF 4 <= n + 3 THEN n + 3 - 4 + 1 ELSE 0
        /\ \A i \in 1 .. n + 3 - 4 + 1 : SubSeq(line, 4, n + 3)[i] = line[4 + i - 1]
    BY <2>1, SubSeqProperties
  <2> QED
    BY <1>1, <1>4, <2>2
<1>7. /\ guess \in Seq(Characters) /\ Len(guess) = 3 /\ DOMAIN guess = 1 .. 3
      /\ \A i \in 1 .. 3 : guess[i] = line[n + i]
  <2>1. n + 1 \in Int /\ n + 3 \in Int /\ \A i \in n + 1 .. n + 3 : line[i] \in Characters
    BY <1>1, <1>5
  <2>2. /\ SubSeq(line, n + 1, n + 3) \in Seq(Characters)
        /\ Len(SubSeq(line, n + 1, n + 3)) =
             IF n + 1 <= n + 3 THEN n + 3 - (n + 1) + 1 ELSE 0
        /\ \A i \in 1 .. n + 3 - (n + 1) + 1 :
             SubSeq(line, n + 1, n + 3)[i] = line[n + 1 + i - 1]
    BY <2>1, SubSeqProperties
  <2>3. guess = SubSeq(line, n + 1, n + 3)
    <3>1. Len(line) - 2 = n + 1
      BY <1>1, <1>4
    <3> QED
      BY <1>4, <3>1 DEF guess, LastThree
  <2>4. /\ Len(SubSeq(line, n + 1, n + 3)) = 3
        /\ \A i \in 1 .. 3 : SubSeq(line, n + 1, n + 3)[i] = line[n + i]
    BY <1>1, <2>2
  <2>5. DOMAIN SubSeq(line, n + 1, n + 3) = 1 .. 3
    BY <2>2, <2>4, LenProperties
  <2> QED
    BY <2>2, <2>3, <2>4, <2>5
<1> QED
  BY <1>4, <1>6, <1>7

\* A line is judged as a guess only for the last three characters that were typed
\* (HWGameModeBase.cpp, PrintChatMessageString and IsGuessNumberString).
THEOREM OnlyTypedIsJudged == Spec => []OnlyTypedDigitsGuess
<1>1. Lines => OnlyTypedDigitsGuess
  <2> SUFFICES ASSUME NEW typed \in Seq(Characters), line = Message(typed), line # << >>
               PROVE  OnlyTypedDigitsGuess
    BY DEF Lines, OnlyTypedDigitsGuess
  <2> DEFINE n == Len(typed)
  <2>1. n \in Nat /\ DOMAIN typed = 1 .. n /\ \A i \in 1 .. n : typed[i] \in Characters
    BY Lengths
  <2>2. Other \in Characters /\ Other \notin Digits
    BY JudgeAssumption DEF Characters, Digits
  <2>4. /\ Len(line) = n + 3
        /\ \A i \in 1 .. n + 3 : line[i] = IF i <= 3 THEN Other ELSE typed[i - 3]
    BY GuessOf
  <2>6. /\ Len(SubSeq(line, 4, n + 3)) = n
        /\ \A i \in 1 .. n : SubSeq(line, 4, n + 3)[i] = typed[i]
    BY GuessOf
  <2>7. /\ Len(guess) = 3 /\ DOMAIN guess = 1 .. 3
        /\ \A i \in 1 .. 3 : guess[i] = line[n + i]
    BY GuessOf
  <2>8. Judging <=> \A i \in 1 .. 3 : line[n + i] \in Digits
    BY <2>7 DEF Judging, IsGuessNumberString
  <2>9. (\A i \in 1 .. 3 : line[n + i] \in Digits) <=>
          n >= 3 /\ \A i \in n - 2 .. n : typed[i] \in Digits
    <3>1. CASE n < 3
      BY <2>1, <2>2, <2>4, <3>1
    <3>2. CASE n >= 3
      <4>1. \A i \in 1 .. 3 : line[n + i] = typed[n + i - 3] /\ n + i - 3 \in n - 2 .. n
        BY <2>1, <2>4, <3>2
      <4>2. \A i \in n - 2 .. n : i - n + 3 \in 1 .. 3 /\ line[n + (i - n + 3)] = typed[i]
        BY <2>1, <2>4, <3>2
      <4> QED
        BY <3>2, <4>1, <4>2
    <3> QED
      BY <2>1, <3>1, <3>2
  <2>10. \A i \in n - 2 .. n : n >= 3 => SubSeq(line, 4, n + 3)[i] = typed[i]
    BY <2>1, <2>6
  <2> QED
    BY <2>1, <2>4, <2>6, <2>8, <2>9, <2>10 DEF OnlyTypedDigitsGuess
<1> QED
  BY <1>1, PoolAndLines, PTL

-------------------------------------------------------------------------------
(***************************************************************************)
(* Scoring: sets of the three positions are counted member by member, and  *)
(* a guess of different digits has as many positions among the secret's    *)
(* digits as it shares digits with it.                                     *)
(***************************************************************************)
At(A, i) == IF i \in A THEN 1 ELSE 0

LEMMA Counted ==
  ASSUME NEW A \in SUBSET (1 .. 3)
  PROVE  IsFiniteSet(A) /\ Cardinality(A) = At(A, 1) + At(A, 2) + At(A, 3)
<1>0. \A i \in A : i = 1 \/ i = 2 \/ i = 3
  OBVIOUS
<1>1. IsFiniteSet({}) /\ Cardinality({}) = 0
  BY FS_EmptySet
<1> DEFINE A1 == A \cap {1}
           A2 == A \cap {1, 2}
<1>2. IsFiniteSet(A1) /\ Cardinality(A1) = At(A, 1)
  <2>1. CASE 1 \in A
    <3>1. A1 = {} \cup {1} /\ 1 \notin {}
      BY <2>1
    <3> QED
      BY <1>1, <2>1, <3>1, FS_AddElement DEF At
  <2>2. CASE 1 \notin A
    BY <1>1, <2>2 DEF At
  <2> QED
    BY <2>1, <2>2
<1>3. IsFiniteSet(A2) /\ Cardinality(A2) = At(A, 1) + At(A, 2)
  <2>1. CASE 2 \in A
    <3>1. A2 = A1 \cup {2} /\ 2 \notin A1
      BY <2>1
    <3> QED
      BY <1>2, <2>1, <3>1, FS_AddElement DEF At
  <2>2. CASE 2 \notin A
    <3>1. A2 = A1
      BY <2>2
    <3> QED
      BY <1>2, <2>2, <3>1 DEF At
  <2> QED
    BY <2>1, <2>2
<1>4. CASE 3 \in A
  <2>1. \A i : i \in A <=> i \in A2 \cup {3}
    BY <1>0, <1>4
  <2>2. 3 \notin A2
    OBVIOUS
  <2> QED
    <3>1. A = A2 \cup {3}
      BY <2>1
    <3> QED
      BY <1>3, <1>4, <2>2, <3>1, FS_AddElement DEF At
<1>5. CASE 3 \notin A
  <2>1. A = A2
    BY <1>0, <1>5
  <2> QED
    BY <1>3, <1>5, <2>1 DEF At
<1> QED
  BY <1>4, <1>5

\* Scores of two strings of three characters.
LEMMA Scores ==
  ASSUME NEW S, NEW s \in [1 .. 3 -> S], NEW g \in [1 .. 3 -> S], Len(s) = 3
  PROVE  LET strikes == StrikeCount(s, g)
             balls == BallCount(s, g)
         IN  /\ g = s <=> strikes = 3
             /\ strikes + balls <= 3
             /\ (\A i, j \in 1 .. 3 : g[i] = g[j] => i = j) =>
                  /\ strikes + balls = Cardinality(ToSet(s) \cap ToSet(g))
                  /\ (\A i, j \in 1 .. 3 : s[i] = s[j] => i = j) =>
                       ~(strikes = 2 /\ balls = 1)
<1> DEFINE A == {i \in 1 .. 3 : IsStrike(s, g, i)}
           B == {i \in 1 .. 3 : ~IsStrike(s, g, i) /\ Contains(s, g[i])}
           C == {i \in 1 .. 3 : Contains(s, g[i])}
<1>1. /\ StrikeCount(s, g) = At(A, 1) + At(A, 2) + At(A, 3)
      /\ BallCount(s, g) = At(B, 1) + At(B, 2) + At(B, 3)
      /\ Cardinality(C) = At(C, 1) + At(C, 2) + At(C, 3) /\ IsFiniteSet(C)
  BY Counted DEF StrikeCount, BallCount
<1>2. \A i \in 1 .. 3 :
        /\ i \in A <=> s[i] = g[i]
        /\ i \in C <=> \E j \in 1 .. 3 : s[j] = g[i]
        /\ i \in B <=> i \in C /\ i \notin A
        /\ i \in A => i \in C
  BY DEF IsStrike, Contains
<1>3. /\ At(A, 1) + At(B, 1) = At(C, 1)
      /\ At(A, 2) + At(B, 2) = At(C, 2)
      /\ At(A, 3) + At(B, 3) = At(C, 3)
  BY <1>2 DEF At
<1>4. \A i \in 1 .. 3 : At(A, i) \in {0, 1} /\ At(B, i) \in {0, 1} /\ At(C, i) \in {0, 1}
  BY DEF At
<1>5. StrikeCount(s, g) + BallCount(s, g) = Cardinality(C)
  BY <1>1, <1>3, <1>4
<1>6. StrikeCount(s, g) + BallCount(s, g) <= 3
  BY <1>1, <1>4, <1>5
<1>7. g = s <=> StrikeCount(s, g) = 3
  <2>1. StrikeCount(s, g) = 3 <=> 1 \in A /\ 2 \in A /\ 3 \in A
    BY <1>1 DEF At
  <2>2. g = s <=> \A i \in 1 .. 3 : s[i] = g[i]
    OBVIOUS
  <2> QED
    BY <1>2, <2>1, <2>2
<1>8. ASSUME \A i, j \in 1 .. 3 : g[i] = g[j] => i = j
      PROVE  StrikeCount(s, g) + BallCount(s, g) = Cardinality(ToSet(s) \cap ToSet(g))
  <2> DEFINE T == ToSet(s) \cap ToSet(g)
             f == [i \in C |-> g[i]]
  <2>1. \A x : x \in T <=> \E i \in C : g[i] = x
    BY <1>2 DEF ToSet
  <2>2. f \in [C -> T]
    BY <2>1
  <2>3. \A i, j \in C : f[i] = f[j] => i = j
    BY <1>8
  <2>4. \A x \in T : \E i \in C : f[i] = x
    BY <2>1
  <2>5. f \in Bijection(C, T)
    <3> HIDE DEF f, T, C
    <3>1. f \in Injection(C, T)
      BY <2>2, <2>3 DEF Injection, IsInjective
    <3>2. f \in Surjection(C, T)
      BY <2>2, <2>4 DEF Surjection
    <3> QED
      BY <3>1, <3>2 DEF Bijection
  <2>6. ExistsBijection(C, T)
    BY <2>5 DEF ExistsBijection
  <2> QED
    BY <1>1, <1>5, <2>6, FS_Bijection
<1>9. ASSUME \A i, j \in 1 .. 3 : g[i] = g[j] => i = j,
             \A i, j \in 1 .. 3 : s[i] = s[j] => i = j
      PROVE  ~(StrikeCount(s, g) = 2 /\ BallCount(s, g) = 1)
  <2> SUFFICES ASSUME StrikeCount(s, g) = 2, BallCount(s, g) = 1 PROVE FALSE
    OBVIOUS
  <2>1. 1 \in C /\ 2 \in C /\ 3 \in C
    BY <1>1, <1>5 DEF At
  <2>2. \/ 1 \in A /\ 2 \in A /\ 3 \notin A
        \/ 1 \in A /\ 3 \in A /\ 2 \notin A
        \/ 2 \in A /\ 3 \in A /\ 1 \notin A
    BY <1>1 DEF At
  <2>3. /\ \E j \in 1 .. 3 : s[j] = g[1]
        /\ \E j \in 1 .. 3 : s[j] = g[2]
        /\ \E j \in 1 .. 3 : s[j] = g[3]
    BY <1>2, <2>1
  <2>4. \A i \in 1 .. 3 : i \in A <=> s[i] = g[i]
    BY <1>2
  <2>5. 1 .. 3 = {1, 2, 3}
    OBVIOUS
  <2> HIDE DEF A, B, C
  <2> QED
    BY <1>9, <2>2, <2>3, <2>4, <2>5
<1> QED
  BY <1>6, <1>7, <1>8, <1>9

\* However secret and guess fall out, three strikes are the winning comparison, strikes and
\* balls of different digits are the digits shared, and two strikes and a ball never show
\* (HWGameModeBase.cpp, JudgeResult).
THEOREM ScoresAreRight == Spec => []ScoresLikeBullsAndCows
<1>1. Pool /\ Lines => ScoresLikeBullsAndCows
  <2> SUFFICES ASSUME Pool, Lines, Judging PROVE ScoresLikeBullsAndCows
    BY DEF ScoresLikeBullsAndCows
  <2>1. /\ secret \in [1 .. 3 -> Digits] /\ Len(secret) = 3 /\ DOMAIN secret = 1 .. 3
    BY LenProperties DEF Lines, Pool, Judging
  <2>2. Len(guess) = 3 /\ \A i \in DOMAIN guess : guess[i] \in Digits
    BY DEF Judging, IsGuessNumberString
  <2>3. DOMAIN guess = 1 .. 3 /\ guess \in Seq(Characters)
    <3>1. PICK typed \in Seq(Characters) : line = Message(typed)
      BY DEF Lines, Judging
    <3> QED
      BY <3>1, GuessOf
  <2>4. guess = [i \in 1 .. 3 |-> guess[i]]
    BY <2>3, SeqDef
  <2>5. guess \in [1 .. 3 -> Digits]
    BY <2>2, <2>3, <2>4
  <2>6. \A i, j \in 1 .. 3 : secret[i] = secret[j] => i = j
    BY <2>1 DEF Pool
  <2>7. IsInjective(guess) => \A i, j \in 1 .. 3 : guess[i] = guess[j] => i = j
    BY <2>3 DEF IsInjective
  <2> DEFINE strikes == StrikeCount(secret, guess)
             balls == BallCount(secret, guess)
  <2>8. /\ guess = secret <=> strikes = 3
        /\ strikes + balls <= 3
        /\ IsInjective(guess) =>
             /\ strikes + balls = Cardinality(ToSet(secret) \cap ToSet(guess))
             /\ ~(strikes = 2 /\ balls = 1)
    BY <2>1, <2>5, <2>6, <2>7, Scores
  <2> QED
    BY <2>8 DEF ScoresLikeBullsAndCows, JudgeResult
<1> QED
  BY <1>1, PoolAndLines, PTL
===============================================================================
