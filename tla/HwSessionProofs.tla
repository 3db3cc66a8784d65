---------------------------- MODULE HwSessionProofs ----------------------------
(***************************************************************************)
(* The game over the network, for any number of clients and of messages on *)
(* their way: every guess has its one answer, and a client that has read   *)
(* everything knows whose turn it is.  The server's half comes from        *)
(* HwGameProofs; here is what its RPCs do to those on their way.           *)
(***************************************************************************)
EXTENDS HwSession, HwGameProofs, SequenceTheorems

-------------------------------------------------------------------------------
(***************************************************************************)
(* Counting in sequences.                                                  *)
(***************************************************************************)
Places(s, A) == {i \in DOMAIN s : s[i] \in A}

LEMMA PlacesAreFinite ==
  ASSUME NEW S, NEW s \in Seq(S), NEW A
  PROVE  /\ IsFiniteSet(Places(s, A)) /\ Number(s, A) \in Nat
         /\ Number(s, A) = Cardinality(Places(s, A))
<1>1. DOMAIN s = 1 .. Len(s) /\ Len(s) \in Nat
  BY LenProperties
<1>2. Places(s, A) \in SUBSET (1 .. Len(s)) /\ IsFiniteSet(1 .. Len(s))
  BY <1>1, FS_Interval DEF Places
<1>3. IsFiniteSet(Places(s, A))
  BY <1>2, FS_Subset
<1> QED
  BY <1>3, FS_CardinalityType DEF Number, Places

\* Moving positions on changes none of their number.
LEMMA Shifted ==
  ASSUME NEW I \in SUBSET Nat, IsFiniteSet(I), NEW k \in Nat
  PROVE  LET J == {i + k : i \in I}
         IN  IsFiniteSet(J) /\ Cardinality(J) = Cardinality(I)
<1> DEFINE J == {i + k : i \in I}
           f == [i \in I |-> i + k]
<1>1. f \in [I -> J] /\ \A i \in I : f[i] = i + k
  OBVIOUS
<1>2. \A i, j \in I : f[i] = f[j] => i = j
  BY <1>1
<1>3. \A y \in J : \E i \in I : f[i] = y
  BY <1>1
<1> HIDE DEF f, J
<1>4. f \in Bijection(I, J)
  BY <1>1, <1>2, <1>3, Fun_IsBij
<1>5. ExistsBijection(I, J)
  BY <1>4 DEF ExistsBijection
<1> QED
  BY <1>5, FS_Bijection DEF J

\* What is in two sequences is in the one that joins them.
LEMMA NumberOfBoth ==
  ASSUME NEW S, NEW s \in Seq(S), NEW t \in Seq(S), NEW A
  PROVE  Number(s \o t, A) = Number(s, A) + Number(t, A)
<1> DEFINE n == Len(s)
           I == Places(s, A)
           T == Places(t, A)
           J == {i + n : i \in T}
<1>1. /\ s \o t \in Seq(S) /\ DOMAIN (s \o t) = 1 .. Len(s) + Len(t)
      /\ \A i \in 1 .. Len(s) + Len(t) :
           (s \o t)[i] = IF i <= Len(s) THEN s[i] ELSE t[i - Len(s)]
  BY ConcatProperties, LenProperties
<1>2. /\ n \in Nat /\ DOMAIN s = 1 .. n /\ Len(t) \in Nat /\ DOMAIN t = 1 .. Len(t)
  BY LenProperties
<1>3. /\ IsFiniteSet(I) /\ IsFiniteSet(T)
      /\ Number(s, A) = Cardinality(I) /\ Number(t, A) = Cardinality(T)
      /\ Number(s, A) \in Nat /\ Number(t, A) \in Nat
      /\ Number(s \o t, A) = Cardinality(Places(s \o t, A))
  BY <1>1, PlacesAreFinite
<1>4. T \in SUBSET Nat /\ I \in SUBSET (1 .. n) /\ T \in SUBSET (1 .. Len(t))
  BY <1>2 DEF Places
<1> HIDE DEF n
<1>5. IsFiniteSet(J) /\ Cardinality(J) = Cardinality(T)
  <2> HIDE DEF T
  <2> QED  BY <1>2, <1>3, <1>4, Shifted
<1>6. Places(s \o t, A) = I \cup J
  <2>1. ASSUME NEW i \in 1 .. n + Len(t) PROVE (s \o t)[i] \in A <=> i \in I \cup J
    <3>1. CASE i <= n
      <4>1. i \in 1 .. n /\ (s \o t)[i] = s[i]
        BY <1>1, <1>2, <2>1, <3>1 DEF n
      <4>2. i \notin J
        BY <1>2, <1>4, <3>1
      <4> QED  BY <1>2, <4>1, <4>2 DEF Places
    <3>2. CASE i > n
      <4>1. i - n \in 1 .. Len(t) /\ (s \o t)[i] = t[i - n]
        BY <1>1, <1>2, <2>1, <3>2 DEF n
      <4>2. i - n \in T <=> t[i - n] \in A
        BY <1>2, <4>1 DEF Places
      <4>3. i \in J <=> i - n \in T
        <5>1. i = (i - n) + n
          BY <1>2
        <5>2. ASSUME NEW j \in T, i = j + n PROVE j = i - n
          BY <1>2, <1>4, <5>2
        <5> HIDE DEF T
        <5> QED  BY <5>1, <5>2
      <4>4. i \notin I
        BY <1>2, <1>4, <3>2
      <4> QED  BY <4>1, <4>2, <4>3, <4>4
    <3> QED  BY <1>2, <3>1, <3>2
  <2>2. I \cup J \subseteq 1 .. n + Len(t)
    <3>1. J \subseteq 1 .. n + Len(t)
      <4> HIDE DEF T
      <4> QED  BY <1>2, <1>4
    <3> QED  BY <1>2, <1>4, <3>1
  <2>3. Places(s \o t, A) = {i \in 1 .. n + Len(t) : (s \o t)[i] \in A}
    BY <1>1 DEF Places, n
  <2> HIDE DEF I, J
  <2> QED  BY <2>1, <2>2, <2>3
<1>7. I \cap J = {}
  <2> HIDE DEF T
  <2> QED  BY <1>2, <1>4
<1>8. Cardinality(I \cup J) = Cardinality(I) + Cardinality(J) - Cardinality({})
  <2> HIDE DEF I, J
  <2> QED  BY <1>3, <1>5, <1>7, FS_Union
<1> QED
  BY <1>3, <1>5, <1>6, <1>8, FS_EmptySet

LEMMA NumberOfFew ==
  ASSUME NEW A
  PROVE  /\ Number(<< >>, A) = 0
         /\ \A m : Number(<<m>>, A) = IF m \in A THEN 1 ELSE 0
<1>1. DOMAIN << >> = {}
  OBVIOUS
<1>2. Number(<< >>, A) = 0
  BY <1>1, FS_EmptySet DEF Number
<1>3. ASSUME NEW m PROVE Number(<<m>>, A) = IF m \in A THEN 1 ELSE 0
  <2>1. DOMAIN <<m>> = {1} /\ <<m>>[1] = m
    OBVIOUS
  <2>2. {i \in DOMAIN <<m>> : <<m>>[i] \in A} = IF m \in A THEN {1} ELSE {}
    BY <2>1
  <2> QED  BY <2>2, FS_EmptySet, FS_Singleton DEF Number
<1> QED
  BY <1>2, <1>3

\* A sequence with one more at its end, and with one fewer at its front.
LEMMA NumberOfMore ==
  ASSUME NEW S, NEW s \in Seq(S), NEW e \in S, NEW A
  PROVE  Number(Append(s, e), A) = Number(s, A) + (IF e \in A THEN 1 ELSE 0)
<1>1. <<e>> \in Seq(S) /\ Append(s, e) = s \o <<e>>
  BY AppendIsConcat
<1>2. Number(s \o <<e>>, A) = Number(s, A) + Number(<<e>>, A)
  BY <1>1, NumberOfBoth
<1> QED
  BY <1>1, <1>2, NumberOfFew

LEMMA NumberOfFewer ==
  ASSUME NEW S, NEW s \in Seq(S), s # << >>, NEW A
  PROVE  /\ Number(s, A) = Number(Tail(s), A) + (IF Head(s) \in A THEN 1 ELSE 0)
         /\ Number(Tail(s), A) \in Nat
<1>1. /\ Head(s) \in S /\ Tail(s) \in Seq(S) /\ Len(Tail(s)) = Len(s) - 1
      /\ Head(s) = s[1] /\ \A i \in 1 .. Len(Tail(s)) : Tail(s)[i] = s[i + 1]
  BY HeadTailProperties
<1>2. PICK h \in Seq(S) : h = <<Head(s)>> /\ Len(h) = 1 /\ h[1] = Head(s)
  <2>1. PICK e \in S : e = Head(s)
    BY <1>1
  <2>2. <<e>> \in Seq(S) /\ Len(<<e>>) = 1 /\ <<e>>[1] = e
    OBVIOUS
  <2> QED  BY <2>1, <2>2
<1>3. h \o Tail(s) = s
  <2>1. /\ h \o Tail(s) \in Seq(S) /\ Len(h \o Tail(s)) = 1 + Len(Tail(s))
        /\ \A i \in 1 .. 1 + Len(Tail(s)) :
             (h \o Tail(s))[i] = IF i <= 1 THEN h[i] ELSE Tail(s)[i - 1]
    BY <1>1, <1>2, ConcatProperties
  <2>2. Len(s) \in Nat \ {0} /\ Len(h \o Tail(s)) = Len(s)
    BY <1>1, <2>1, LenProperties, EmptySeq
  <2>3. ASSUME NEW i \in 1 .. Len(s) PROVE (h \o Tail(s))[i] = s[i]
    <3>1. (h \o Tail(s))[i] = IF i <= 1 THEN h[i] ELSE Tail(s)[i - 1]
      BY <2>1, <2>2
    <3>2. CASE i = 1
      BY <1>1, <1>2, <3>1, <3>2
    <3>3. CASE i # 1
      <4>1. i - 1 \in 1 .. Len(Tail(s)) /\ (i - 1) + 1 = i /\ ~(i <= 1)
        BY <1>1, <2>2, <3>3
      <4>2. Tail(s)[i - 1] = s[(i - 1) + 1]
        BY <1>1, <4>1
      <4> QED  BY <3>1, <4>1, <4>2
    <3> QED  BY <3>2, <3>3
  <2> QED  BY <2>1, <2>2, <2>3, SeqEqual
<1>4. Number(h \o Tail(s), A) = Number(h, A) + Number(Tail(s), A)
  BY <1>1, NumberOfBoth
<1>5. Number(h, A) = (IF Head(s) \in A THEN 1 ELSE 0) /\ Number(Tail(s), A) \in Nat
  BY <1>1, <1>2, NumberOfFew, PlacesAreFinite
<1>6. Number(s, A) = Number(h, A) + Number(Tail(s), A)
  BY <1>3, <1>4
<1>7. Number(s, A) = Number(Tail(s), A) + Number(h, A)
  <2>1. Number(h, A) \in Nat
    BY PlacesAreFinite
  <2> QED  BY <1>5, <1>6, <2>1
<1> QED
  BY <1>5, <1>7

LEMMA NumberOfNone ==
  ASSUME NEW s, NEW A, \A i \in DOMAIN s : s[i] \notin A
  PROVE  Number(s, A) = 0
<1>1. {i \in DOMAIN s : s[i] \in A} = {}
  OBVIOUS
<1> QED
  BY <1>1, FS_EmptySet DEF Number

-------------------------------------------------------------------------------
(***************************************************************************)
(* Announcements in sequences of RPCs.                                     *)
(***************************************************************************)
Announces(said) == \E i \in DOMAIN said : IsAnnouncement(said[i])

\* Announcements name players who are seated.
NamesSeats(said, seats) ==
  \A i \in DOMAIN said : IsAnnouncement(said[i]) => said[i].name \in 1 .. seats

LEMMA BothTell ==
  ASSUME NEW s \in Seq(Msgs), NEW t \in Seq(Msgs), NEW who, NEW seats
  PROVE  /\ Announces(s \o t) <=> Announces(s) \/ Announces(t)
         /\ NamesSeats(s, seats) /\ NamesSeats(t, seats) => NamesSeats(s \o t, seats)
         /\ TellsOf(t, who) /\ (Announces(t) \/ TellsOf(s, who)) => TellsOf(s \o t, who)
<1> DEFINE st == s \o t
           n == Len(s)
<1>1. /\ DOMAIN st = 1 .. n + Len(t) /\ DOMAIN s = 1 .. n /\ DOMAIN t = 1 .. Len(t)
      /\ n \in Nat /\ Len(t) \in Nat
      /\ \A i \in 1 .. n + Len(t) : st[i] = IF i <= n THEN s[i] ELSE t[i - n]
  BY ConcatProperties, LenProperties
<1> HIDE DEF st, n
<1>2. /\ \A i \in DOMAIN s : i \in DOMAIN st /\ st[i] = s[i] /\ i \in Nat /\ i <= n
      /\ \A i \in DOMAIN t : n + i \in DOMAIN st /\ st[n + i] = t[i] /\ i \in Nat /\ i > 0
  <2>1. ASSUME NEW i \in DOMAIN s
        PROVE  i \in DOMAIN st /\ st[i] = s[i] /\ i \in Nat /\ i <= n
    BY <1>1
  <2>2. ASSUME NEW i \in DOMAIN t
        PROVE  n + i \in DOMAIN st /\ st[n + i] = t[i] /\ i \in Nat /\ i > 0
    <3>1. n + i \in 1 .. n + Len(t) /\ ~(n + i <= n) /\ (n + i) - n = i
      BY <1>1
    <3>2. st[n + i] = IF n + i <= n THEN s[n + i] ELSE t[(n + i) - n]
      BY <1>1, <3>1
    <3> QED  BY <1>1, <3>1, <3>2
  <2> QED  BY <2>1, <2>2
<1>3. \A i \in DOMAIN st : i \in DOMAIN s \/ (i - n \in DOMAIN t /\ i = n + (i - n))
  BY <1>1
<1>4. Announces(st) <=> Announces(s) \/ Announces(t)
  BY <1>2, <1>3 DEF Announces
<1>5. NamesSeats(s, seats) /\ NamesSeats(t, seats) => NamesSeats(st, seats)
  BY <1>2, <1>3 DEF NamesSeats
<1>6. ASSUME TellsOf(t, who), Announces(t) \/ TellsOf(s, who) PROVE TellsOf(st, who)
  <2> SUFFICES ASSUME NEW i \in DOMAIN st, IsAnnouncement(st[i]),
                      \A j \in DOMAIN st : IsAnnouncement(st[j]) => j <= i
               PROVE  st[i].name = who
    BY DEF TellsOf
  <2>1. CASE i \in DOMAIN s
    <3>1. ~Announces(t)
      <4>1. ASSUME NEW j \in DOMAIN t, IsAnnouncement(t[j]) PROVE FALSE
        <5>1. n + j <= i /\ i <= n /\ j > 0 /\ j \in Nat /\ i \in Nat
          BY <1>2, <2>1, <4>1
        <5> QED  BY <1>1, <5>1
      <4> QED  BY <4>1 DEF Announces
    <3>2. TellsOf(s, who)
      BY <1>6, <3>1
    <3>3. IsAnnouncement(s[i]) /\ \A j \in DOMAIN s : IsAnnouncement(s[j]) => j <= i
      BY <1>2, <2>1
    <3>4. s[i].name = who
      BY <2>1, <3>2, <3>3 DEF TellsOf
    <3> QED  BY <1>2, <2>1, <3>4
  <2>2. CASE i - n \in DOMAIN t /\ i = n + (i - n)
    <3> DEFINE k == i - n
    <3>1. k \in DOMAIN t /\ st[i] = t[k] /\ i = n + k /\ k \in Nat
      BY <1>2, <2>2
    <3> HIDE DEF k
    <3>2. ASSUME NEW j \in DOMAIN t, IsAnnouncement(t[j]) PROVE j <= k
      <4>1. n + j <= n + k /\ j \in Nat
        BY <1>2, <3>1, <3>2
      <4> QED  BY <1>1, <3>1, <4>1
    <3>3. t[k].name = who
      BY <1>6, <3>1, <3>2 DEF TellsOf
    <3> QED  BY <3>1, <3>3
  <2> QED  BY <1>3, <2>1, <2>2
<1> QED
  BY <1>4, <1>5, <1>6 DEF st

LEMMA RestTells ==
  ASSUME NEW s \in Seq(Msgs), s # << >>, NEW who, NEW seats,
         TellsOf(s, who), NamesSeats(s, seats)
  PROVE  /\ Tail(s) \in Seq(Msgs) /\ Head(s) \in Msgs
         /\ TellsOf(Tail(s), who) /\ NamesSeats(Tail(s), seats)
         /\ Announces(s) <=> IsAnnouncement(Head(s)) \/ Announces(Tail(s))
         /\ IsAnnouncement(Head(s)) => Head(s).name \in 1 .. seats
         /\ IsAnnouncement(Head(s)) /\ ~Announces(Tail(s)) => Head(s).name = who
<1> DEFINE t == Tail(s)
           h == Head(s)
<1>1. /\ t \in Seq(Msgs) /\ Len(t) = Len(s) - 1 /\ h \in Msgs /\ h = s[1]
      /\ \A i \in 1 .. Len(t) : t[i] = s[i + 1]
  BY HeadTailProperties
<1>2. Len(s) \in Nat \ {0} /\ DOMAIN s = 1 .. Len(s) /\ DOMAIN t = 1 .. Len(t)
  BY <1>1, LenProperties, EmptySeq
<1> HIDE DEF t, h
<1>3. /\ \A i \in DOMAIN t : i + 1 \in DOMAIN s /\ t[i] = s[i + 1] /\ i \in Nat
      /\ 1 \in DOMAIN s
      /\ \A i \in DOMAIN s : i = 1 \/ (i - 1 \in DOMAIN t /\ i = (i - 1) + 1)
      /\ \A i \in DOMAIN s : i \in Nat
  BY <1>1, <1>2
<1>4. Announces(s) <=> IsAnnouncement(h) \/ Announces(t)
  BY <1>1, <1>3 DEF Announces
<1>5. NamesSeats(t, seats) /\ (IsAnnouncement(h) => h.name \in 1 .. seats)
  BY <1>1, <1>3 DEF NamesSeats
<1>6. TellsOf(t, who)
  <2> SUFFICES ASSUME NEW i \in DOMAIN t, IsAnnouncement(t[i]),
                      \A j \in DOMAIN t : IsAnnouncement(t[j]) => j <= i
               PROVE  t[i].name = who
    BY DEF TellsOf
  <2>1. ASSUME NEW j \in DOMAIN s, IsAnnouncement(s[j]) PROVE j <= i + 1
    <3>1. CASE j = 1
      BY <1>3, <3>1
    <3>2. CASE j - 1 \in DOMAIN t /\ j = (j - 1) + 1
      <4>1. t[j - 1] = s[j]
        BY <1>3, <3>2
      <4>2. j - 1 <= i /\ j \in Nat /\ i \in Nat
        BY <1>3, <2>1, <3>2, <4>1
      <4> QED  BY <4>2
    <3> QED  BY <1>3, <3>1, <3>2
  <2>2. i + 1 \in DOMAIN s /\ s[i + 1] = t[i]
    BY <1>3
  <2> QED  BY <2>1, <2>2 DEF TellsOf
<1>7. ASSUME IsAnnouncement(h), ~Announces(t) PROVE h.name = who
  <2>1. ASSUME NEW j \in DOMAIN s, IsAnnouncement(s[j]) PROVE j <= 1
    <3>1. ~(j - 1 \in DOMAIN t /\ j = (j - 1) + 1)
      <4>1. ASSUME j - 1 \in DOMAIN t, j = (j - 1) + 1 PROVE FALSE
        <5>1. t[j - 1] = s[j]
          BY <1>3, <4>1
        <5> QED  BY <1>7, <2>1, <4>1, <5>1 DEF Announces
      <4> QED  BY <4>1
    <3> QED  BY <1>3, <3>1
  <2> QED  BY <1>1, <1>3, <1>7, <2>1 DEF TellsOf
<1> QED
  BY <1>1, <1>4, <1>5, <1>6, <1>7 DEF t, h

-------------------------------------------------------------------------------
(***************************************************************************)
(* What a step of the server says to p: something that announces nothing,  *)
(* with k answers in it, then announcements, if the turn has passed.       *)
(***************************************************************************)
Announced(t) ==
  /\ t \in Seq(Msgs)
  /\ \A i \in DOMAIN t : IsAnnouncement(t[i]) /\ t[i].name \in 1 .. Len(roster)

Speaks(p, k) ==
  \E q, t \in Seq(Msgs) :
    /\ out'[p] = q \o t
    /\ ~Announces(q) /\ Number(q, Answers(p)) = k
    /\ Announced(t)
    /\ t # << >> \/ UNCHANGED Current

LEMMA OneMessage ==
  ASSUME NEW m \in Msgs, ~IsAnnouncement(m), NEW p \in Controllers
  PROVE  /\ <<m>> \in Seq(Msgs) /\ ~Announces(<<m>>)
         /\ Number(<<m>>, Answers(p)) = IF IsAnswerTo(p, m) THEN 1 ELSE 0
<1>1. <<m>> \in Seq(Msgs) /\ DOMAIN <<m>> = {1} /\ <<m>>[1] = m
  OBVIOUS
<1>2. m \in Answers(p) <=> IsAnswerTo(p, m)
  BY DEF Answers
<1>3. ~Announces(<<m>>)
  BY <1>1 DEF Announces
<1> QED
  BY <1>1, <1>2, <1>3, NumberOfFew

LEMMA NoMessage ==
  ASSUME NEW p \in Controllers
  PROVE  /\ << >> \in Seq(Msgs) /\ ~Announces(<< >>)
         /\ Number(<< >>, Answers(p)) = 0 /\ Announced(<< >>)
<1>1. << >> \in Seq(Msgs) /\ DOMAIN << >> = {}
  OBVIOUS
<1> QED
  BY <1>1, NumberOfFew DEF Announces, Announced

\* A step that says one thing or nothing, and passes no turn.
LEMMA SpeaksOnce ==
  ASSUME NEW p \in Controllers, UNCHANGED Current, NEW m \in Msgs, ~IsAnnouncement(m),
         NEW told \in BOOLEAN, out'[p] = IF told THEN <<m>> ELSE << >>
  PROVE  Speaks(p, IF told /\ IsAnswerTo(p, m) THEN 1 ELSE 0)
<1> DEFINE q == IF told THEN <<m>> ELSE << >>
           k == IF told /\ IsAnswerTo(p, m) THEN 1 ELSE 0
<1>1. q \in Seq(Msgs) /\ ~Announces(q) /\ Number(q, Answers(p)) = k
  <2>1. CASE told
    BY <2>1, OneMessage
  <2>2. CASE ~told
    BY <2>2, NoMessage
  <2> QED  BY <2>1, <2>2
<1>2. << >> \in Seq(Msgs) /\ Announced(<< >>)
  BY NoMessage
<1>3. out'[p] = q \o << >>
  <2> HIDE DEF q
  <2>1. q \o << >> = q
    BY <1>1, ConcatEmptySeq
  <2> QED  BY <2>1 DEF q
<1> HIDE DEF q, k
<1>4. Speaks(p, k)
  BY <1>1, <1>2, <1>3 DEF Speaks
<1> QED
  BY <1>4 DEF k

\* ResetGame's announcements, of which there is at least one.
LEMMA ResetAnnounces ==
  ASSUME TypeOK, AllSeated, ValidIndex
  PROVE  Announced(ResetAnnouncements) /\ ResetAnnouncements # << >>
<1> DEFINE seated == {s \in DOMAIN roster : IsValid(roster[s])}
<1>1. Len(roster) \in Nat /\ Len(roster) > 0 /\ DOMAIN roster = 1 .. Len(roster)
      /\ roster \in Seq(Controllers)
  BY DEF TypeOK, ValidIndex
<1>2. IsFiniteSet(seated) /\ seated # {}
  <2>1. IsFiniteSet(1 .. Len(roster))
    BY <1>1, FS_Interval
  <2>2. seated \in SUBSET (1 .. Len(roster))
    BY <1>1
  <2>3. 1 \in DOMAIN roster /\ roster[1] \in Controllers
    BY <1>1, ElementOfSeq
  <2>4. 1 \in seated
    BY <2>3 DEF AllSeated, IsValid
  <2> QED  BY <2>1, <2>2, <2>4, FS_Subset
<1> HIDE DEF seated
<1>3. Cardinality(seated) \in Nat \ {0}
  BY <1>2, FS_CardinalityType, FS_EmptySet
<1> DEFINE m == [kind |-> "playerOnesTurn", name |-> 1]
<1>4. ResetAnnouncements = [i \in 1 .. Cardinality(seated) |-> m]
  BY DEF ResetAnnouncements, seated
<1>5. m \in Msgs /\ IsAnnouncement(m) /\ m.name = 1
  BY DEF Msgs, IsAnnouncement
<1> HIDE DEF m
<1>6. ResetAnnouncements \in Seq(Msgs)
  BY MessageTyping
<1>7. /\ DOMAIN ResetAnnouncements = 1 .. Cardinality(seated)
      /\ \A i \in DOMAIN ResetAnnouncements : ResetAnnouncements[i] = m
  BY <1>4
<1>8. 1 \in DOMAIN ResetAnnouncements /\ DOMAIN << >> = {}
  BY <1>3, <1>7
<1>9. ASSUME NEW i \in DOMAIN ResetAnnouncements
      PROVE  /\ IsAnnouncement(ResetAnnouncements[i])
             /\ ResetAnnouncements[i].name \in 1 .. Len(roster)
  <2>1. ResetAnnouncements[i] = m /\ 1 \in 1 .. Len(roster)
    BY <1>1, <1>7
  <2> QED  BY <1>5, <2>1
<1>10. Announced(ResetAnnouncements)
  BY <1>6, <1>9 DEF Announced
<1>11. ResetAnnouncements # << >>
  BY <1>8
<1> QED  BY <1>10, <1>11

LEMMA BothAnnounced ==
  ASSUME NEW s, NEW t, Announced(s), Announced(t)
  PROVE  Announced(s \o t) /\ (t # << >> => s \o t # << >>)
<1>1. s \in Seq(Msgs) /\ t \in Seq(Msgs)
  BY DEF Announced
<1>2. /\ s \o t \in Seq(Msgs) /\ DOMAIN (s \o t) = 1 .. Len(s) + Len(t)
      /\ DOMAIN s = 1 .. Len(s) /\ DOMAIN t = 1 .. Len(t)
      /\ Len(s) \in Nat /\ Len(t) \in Nat
      /\ \A i \in 1 .. Len(s) + Len(t) :
           (s \o t)[i] = IF i <= Len(s) THEN s[i] ELSE t[i - Len(s)]
  BY <1>1, ConcatProperties, LenProperties
<1>3. ASSUME NEW i \in 1 .. Len(s) + Len(t)
      PROVE  IsAnnouncement((s \o t)[i]) /\ (s \o t)[i].name \in 1 .. Len(roster)
  <2>1. CASE i <= Len(s)
    <3>1. i \in DOMAIN s /\ (s \o t)[i] = s[i]
      BY <1>2, <2>1
    <3> QED  BY <3>1 DEF Announced
  <2>2. CASE i > Len(s)
    <3>1. i - Len(s) \in DOMAIN t /\ (s \o t)[i] = t[i - Len(s)]
      BY <1>2, <2>2
    <3> QED  BY <3>1 DEF Announced
  <2> QED  BY <1>2, <2>1, <2>2
<1>4. t # << >> => s \o t # << >>
  BY <1>1, ConcatEqualIffEmpty
<1> QED
  BY <1>2, <1>3, <1>4 DEF Announced


-------------------------------------------------------------------------------
(***************************************************************************)
(* What each step of the server says at a full table.                      *)
(***************************************************************************)
\* The verdict on a guess is an answer to the player it names and to no other.
LEMMA VerdictAnswersOne ==
  ASSUME TypeOK, SeatsOK, AllSeated, NEW c \in Controllers, NEW p \in Controllers
  PROVE  /\ Judged(c) \in Msgs /\ ~IsAnnouncement(Judged(c))
         /\ IsAnswerTo(p, Judged(c)) <=> p = c
<1>1. Judged(c) \in Msgs /\ ~IsAnnouncement(Judged(c))
  BY MessageTyping DEF Judged, IsAnnouncement
<1>2. name[p] = name[c] => p = c
  BY DEF SeatsOK, AllSeated, IsValid
<1>3. IsAnswerTo(p, Judged(c)) <=> name[c] = name[p]
  BY DEF IsAnswerTo, Judged
<1> QED  BY <1>1, <1>2, <1>3

LEMMA PlainMessages ==
  ASSUME NEW k \in {"notYourTurn", "chat", "timeOut", "timerUi"}, NEW p \in Controllers, TypeOK
  PROVE  /\ Msg(k) \in Msgs /\ ~IsAnnouncement(Msg(k))
         /\ IsAnswerTo(p, Msg(k)) <=> k = "notYourTurn"
BY MessageTyping DEF Msg, IsAnnouncement, IsAnswerTo

\* A turn that ends says what the handler said before, and then announces a turn.
LEMMA EndTurnSpeaks ==
  ASSUME TypeOK, SeatsOK, AllSeated, ValidIndex, NEW c \in Controllers,
         NEW said \in [Controllers -> Seq(Msgs)], EndTurn(c, said), NEW p \in Controllers,
         ~Announces(said[p])
  PROVE  Speaks(p, Number(said[p], Answers(p)))
<1>1. ASSUME NEW i \in Nat, i < Len(roster), NEW ms, TurnToNextPlayer(i, ms)
      PROVE  \E t : Announced(t) /\ t # << >> /\ out'[p] = ms[p] \o t
  <2> DEFINE next == roster[NextIndex(i) + 1]
             m == [kind |-> "turnOf", name |-> name[next]]
  <2>1. next \in Controllers
    <3>1. NextIndex(i) \in Nat /\ NextIndex(i) < Len(roster) /\ Len(roster) \in Nat
      <4> roster \in Seq(Controllers)
        BY DEF TypeOK
      <4>1. Len(roster) \in Nat /\ Len(roster) > 0
        BY <1>1, LenProperties
      <4>2. /\ (i + 1) % Len(roster) \in Nat /\ (i + 1) % Len(roster) < Len(roster)
        BY <1>1, <4>1, ModuloIsNextSeat
      <4> QED  BY <4>1, <4>2 DEF NextIndex
    <3> QED  BY <3>1, SMTT(30) DEF TypeOK
  <2>2. IsValid(next) /\ IsValid(p) /\ name[next] \in 1 .. Len(roster) /\ name[next] \in Nat
    <3>1. IsValid(next) /\ IsValid(p)
      BY <2>1 DEF AllSeated, IsValid
    <3>2. name[next] \in DOMAIN roster
      BY <2>1, <3>1 DEF SeatsOK
    <3>3. DOMAIN roster = 1 .. Len(roster) /\ Len(roster) \in Nat
      BY DEF TypeOK
    <3> HIDE DEF next
    <3> QED  BY <3>1, <3>2, <3>3
  <2>3. m \in Msgs /\ IsAnnouncement(m) /\ m.name \in 1 .. Len(roster)
    BY <2>2 DEF Msgs, IsAnnouncement
  <2>4. out'[p] = ms[p] \o <<m>>
    BY <1>1, <2>2 DEF TurnToNextPlayer, Broadcast
  <2> HIDE DEF m
  <2>5. Announced(<<m>>)
    <3>1. <<m>> \in Seq(Msgs) /\ DOMAIN <<m>> = {1} /\ <<m>>[1] = m
      BY <2>3
    <3> QED  BY <2>3, <3>1 DEF Announced
  <2>6. <<m>> # << >>
    OBVIOUS
  <2> QED  BY <2>4, <2>5, <2>6
<1>2. turn \in Nat /\ turn < Len(roster) /\ 0 < Len(roster) /\ 0 \in Nat
  BY DEF ValidIndex, TypeOK
<1>3. said[p] \in Seq(Msgs) /\ IsValid(p)
  BY DEF AllSeated, IsValid
<1>4. \E t : Announced(t) /\ t # << >> /\ out'[p] = said[p] \o t
  <2>1. CASE TurnToNextPlayer(turn, said)
    BY <1>1, <1>2, <2>1
  <2> DEFINE restarted == [q \in Controllers |-> said[q] \o Broadcast(ResetAnnouncements)[q]]
  <2>2. CASE TurnToNextPlayer(0, restarted)
    <3>1. restarted[p] = said[p] \o ResetAnnouncements
      BY <1>3 DEF Broadcast
    <3> HIDE DEF restarted
    <3>2. PICK t : Announced(t) /\ t # << >> /\ out'[p] = restarted[p] \o t
      BY <1>1, <1>2, <2>2
    <3>3. Announced(ResetAnnouncements \o t) /\ ResetAnnouncements \o t # << >>
      BY <3>2, ResetAnnounces, BothAnnounced
    <3>4. ResetAnnouncements \in Seq(Msgs) /\ t \in Seq(Msgs)
      BY <3>2, MessageTyping DEF Announced
    <3>5. (said[p] \o ResetAnnouncements) \o t = said[p] \o (ResetAnnouncements \o t)
      BY <1>3, <3>4, ConcatAssociative
    <3> QED  BY <3>1, <3>2, <3>3, <3>5
  <2> QED  BY <2>1, <2>2 DEF EndTurn
<1> QED
  BY <1>3, <1>4 DEF Speaks, Announced

LEMMA WinSpeaks ==
  ASSUME TypeOK, SeatsOK, AllSeated, NEW c \in Controllers, NEW g, WinningGuess(c, g),
         NEW p \in Controllers
  PROVE  Speaks(p, IF p = c THEN 1 ELSE 0)
<1>1. ValidIndex /\ out'[p] = <<Judged(c)>> \o ResetAnnouncements
  BY DEF WinningGuess, CanChat, Broadcast, AllSeated, IsValid
<1>2. Announced(ResetAnnouncements) /\ ResetAnnouncements # << >>
  BY <1>1, ResetAnnounces
<1>3. /\ <<Judged(c)>> \in Seq(Msgs) /\ ~Announces(<<Judged(c)>>)
      /\ Number(<<Judged(c)>>, Answers(p)) = IF p = c THEN 1 ELSE 0
  BY VerdictAnswersOne, OneMessage
<1> QED
  BY <1>1, <1>2, <1>3 DEF Speaks, Announced

LEMMA MissSpeaks ==
  ASSUME TypeOK, SeatsOK, AllSeated, NEW c \in Controllers, NEW g, MissedGuess(c, g),
         NEW p \in Controllers
  PROVE  Speaks(p, IF p = c THEN 1 ELSE 0)
<1> DEFINE said == Broadcast(<<Judged(c)>>)
<1>1. ValidIndex /\ EndTurn(c, said)
  BY DEF MissedGuess, CanChat
<1>2. /\ <<Judged(c)>> \in Seq(Msgs) /\ ~Announces(<<Judged(c)>>)
      /\ Number(<<Judged(c)>>, Answers(p)) = IF p = c THEN 1 ELSE 0
  BY VerdictAnswersOne, OneMessage
<1>3. said \in [Controllers -> Seq(Msgs)]
  BY <1>2, MessageTyping
<1>4. said[p] = <<Judged(c)>>
  BY DEF Broadcast, AllSeated, IsValid
<1> HIDE DEF said
<1>5. Speaks(p, Number(said[p], Answers(p)))
  BY <1>1, <1>2, <1>3, <1>4, EndTurnSpeaks
<1> QED
  BY <1>2, <1>4, <1>5

LEMMA TimerSpeaks ==
  ASSUME TypeOK, SeatsOK, AllSeated, UpdateGameTimer, NEW p \in Controllers
  PROVE  Speaks(p, 0)
<1>1. CASE Countdown
  <2>1. UNCHANGED Current /\ out'[p] = <<Msg("timerUi")>>
    BY <1>1 DEF Countdown, Broadcast, AllSeated, IsValid, Current
  <2>2. /\ Msg("timerUi") \in Msgs /\ ~IsAnnouncement(Msg("timerUi"))
        /\ ~IsAnswerTo(p, Msg("timerUi"))
    BY PlainMessages
  <2>3. Speaks(p, IF TRUE /\ IsAnswerTo(p, Msg("timerUi")) THEN 1 ELSE 0)
    BY <2>1, <2>2, SpeaksOnce
  <2> QED  BY <2>2, <2>3
<1>2. CASE TimeoutOfDeparted
  <2>1. ~IsValid(Current) /\ ValidIndex
    BY <1>2 DEF TimeoutOfDeparted, TimedOut
  <2>2. Current \in Controllers
    BY <2>1 DEF ValidIndex, Current, TypeOK
  <2> QED  BY <2>1, <2>2 DEF AllSeated, IsValid
<1>3. CASE Timeout
  <2> DEFINE said == OnlyTo(Current, Msg("timeOut"))
  <2>1. ValidIndex /\ EndTurn(Current, said) /\ Current \in Controllers
    BY <1>3 DEF Timeout, TimedOut, ValidIndex, Current, TypeOK
  <2>2. /\ Msg("timeOut") \in Msgs /\ ~IsAnnouncement(Msg("timeOut"))
        /\ ~IsAnswerTo(p, Msg("timeOut"))
    BY PlainMessages
  <2>3. said \in [Controllers -> Seq(Msgs)]
    BY <2>1, <2>2, MessageTyping
  <2>4. said[p] = <<Msg("timeOut")>> \/ said[p] = << >>
    BY DEF OnlyTo, Silence
  <2> HIDE DEF said
  <2>5. ~Announces(said[p]) /\ Number(said[p], Answers(p)) = 0
    BY <2>2, <2>4, OneMessage, NoMessage
  <2>6. Speaks(p, Number(said[p], Answers(p)))
    BY <2>1, <2>3, <2>5, EndTurnSpeaks
  <2> QED  BY <2>5, <2>6
<1> QED
  BY <1>1, <1>2, <1>3 DEF UpdateGameTimer

LEMMA ChatSpeaks ==
  ASSUME TypeOK, NEW c \in Controllers, NEW p \in Controllers, AllSeated
  PROVE  /\ Chat(c) => Speaks(p, 0)
         /\ RefuseGuess(c) => Speaks(p, IF p = c THEN 1 ELSE 0)
<1>1. ASSUME Chat(c) PROVE Speaks(p, 0)
  <2>1. UNCHANGED Current /\ out'[p] = <<Msg("chat")>>
    BY <1>1 DEF Chat, Broadcast, AllSeated, IsValid, Current
  <2>2. /\ Msg("chat") \in Msgs /\ ~IsAnnouncement(Msg("chat"))
        /\ ~IsAnswerTo(p, Msg("chat"))
    BY PlainMessages
  <2>3. Speaks(p, IF TRUE /\ IsAnswerTo(p, Msg("chat")) THEN 1 ELSE 0)
    BY <2>1, <2>2, SpeaksOnce
  <2> QED  BY <2>2, <2>3
<1>2. ASSUME RefuseGuess(c) PROVE Speaks(p, IF p = c THEN 1 ELSE 0)
  <2>1. UNCHANGED Current /\ out'[p] = IF p = c THEN <<Msg("notYourTurn")>> ELSE << >>
    BY <1>2 DEF RefuseGuess, OnlyTo, Silence, Current
  <2>2. /\ Msg("notYourTurn") \in Msgs /\ ~IsAnnouncement(Msg("notYourTurn"))
        /\ IsAnswerTo(p, Msg("notYourTurn")) /\ (p = c) \in BOOLEAN
    BY PlainMessages
  <2>3. Speaks(p, IF p = c /\ IsAnswerTo(p, Msg("notYourTurn")) THEN 1 ELSE 0)
    BY <2>1, <2>2, SpeaksOnce
  <2> QED  BY <2>2, <2>3
<1> QED  BY <1>1, <1>2

-------------------------------------------------------------------------------
(***************************************************************************)
(* The session.  Until all are seated the clients have only read about     *)
(* joins; then each follows the game: whatever it still has to read ends   *)
(* with the turn as it is, or it has announced that turn already.          *)
(***************************************************************************)
Waits(c) ==
  /\ up[c] = << >> /\ announced[c] = 0 /\ waiting[c] = 0
  /\ \A i \in DOMAIN down[c] : down[c][i].kind = "joined"

Follows(c) ==
  /\ announced[c] \in 0 .. Len(roster)
  /\ NamesSeats(down[c], Len(roster))
  /\ TellsOf(down[c], name[Current])
  /\ Announces(down[c]) \/ announced[c] \in {0, name[Current]}

LinesTypeOK ==
  /\ up \in [Controllers -> Seq(Lines)]
  /\ down \in [Controllers -> Seq(Msgs)]
  /\ announced \in [Controllers -> Nat]
  /\ waiting \in [Controllers -> Nat]

SessionInv ==
  /\ TableInv /\ AnnouncedTurnIsTrue
  /\ LinesTypeOK
  /\ EveryGuessHasOneAnswer
  /\ IF AllSeated THEN \A c \in Controllers : Follows(c) ELSE \A c \in Controllers : Waits(c)

\* Joins alone answer nothing and announce nothing.
LEMMA JoinsAreQuiet ==
  ASSUME NEW s, NEW p, NEW seats, NEW who, \A i \in DOMAIN s : s[i].kind = "joined"
  PROVE  /\ Number(s, Answers(p)) = 0
         /\ ~Announces(s) /\ NamesSeats(s, seats) /\ TellsOf(s, who)
<1>1. \A i \in DOMAIN s : s[i] \notin Answers(p) /\ ~IsAnnouncement(s[i])
  BY DEF Answers, IsAnswerTo, IsAnnouncement
<1> QED
  BY <1>1, NumberOfNone DEF Announces, NamesSeats, TellsOf

\* A client that follows the game goes on doing so when the server speaks.
LEMMA FollowsWhatIsSaid ==
  ASSUME LinesTypeOK, NEW p \in Controllers, NEW k \in Nat, Speaks(p, k), Follows(p),
         UNCHANGED <<roster, name, announced>>, Deliver, AnnouncedTurnIsTrue'
  PROVE  /\ Follows(p)'
         /\ Number(down'[p], Answers(p)) = Number(down[p], Answers(p)) + k
<1> DEFINE said == out'[p]
           seats == Len(roster)
           who == name[Current']
<1>1. PICK q, t \in Seq(Msgs) :
        /\ said = q \o t
        /\ ~Announces(q) /\ Number(q, Answers(p)) = k
        /\ Announced(t)
        /\ t # << >> \/ UNCHANGED Current
  BY DEF Speaks
<1>2. /\ said \in Seq(Msgs) /\ down[p] \in Seq(Msgs)
      /\ down'[p] = down[p] \o said /\ Number(down[p], Answers(p)) \in Nat
  <2>1. q \o t \in Seq(Msgs)
    BY <1>1, ConcatProperties
  <2>2. down[p] \in Seq(Msgs)
    BY DEF LinesTypeOK
  <2> QED  BY <1>1, <2>1, <2>2, PlacesAreFinite DEF Deliver
<1>3. TellsOf(said, who)
  <2>1. (name[Current])' = who
    OBVIOUS
  <2> QED  BY <2>1 DEF AnnouncedTurnIsTrue, TellsOf
<1> HIDE DEF said
<1>4. NamesSeats(said, seats)
  <2>1. NamesSeats(q, seats) /\ NamesSeats(t, seats)
    BY <1>1 DEF Announces, NamesSeats, Announced
  <2> QED  BY <1>1, <2>1, BothTell
<1>5. Number(t, Answers(p)) = 0
  <2>1. \A i \in DOMAIN t : t[i] \notin Answers(p)
    BY <1>1 DEF Announced, Answers, IsAnswerTo, IsAnnouncement
  <2> QED  BY <2>1, NumberOfNone
<1>6. Number(down'[p], Answers(p)) = Number(down[p], Answers(p)) + k
  <2>1. Number(said, Answers(p)) = k + 0
    BY <1>1, <1>5, NumberOfBoth
  <2> QED  BY <1>2, <2>1, NumberOfBoth
<1>7. NamesSeats(down'[p], seats)
  BY <1>2, <1>4, BothTell DEF Follows
<1>8. /\ TellsOf(said, who) /\ (Announces(said) \/ TellsOf(down[p], who))
           => TellsOf(down[p] \o said, who)
      /\ Announces(down[p] \o said) <=> Announces(down[p]) \/ Announces(said)
  BY <1>2, BothTell
<1>9. /\ TellsOf(down'[p], who)
      /\ Announces(down'[p]) \/ announced[p] \in {0, who}
  <2>1. CASE t # << >>
    <3>1. Len(t) \in Nat \ {0} /\ DOMAIN t = 1 .. Len(t)
      BY <1>1, <2>1, LenProperties, EmptySeq
    <3>2. 1 \in DOMAIN t
      BY <3>1
    <3>3. Announces(t)
      BY <1>1, <3>2 DEF Announced, Announces
    <3>4. Announces(said)
      BY <1>1, <3>3, BothTell
    <3> QED  BY <1>2, <1>3, <1>8, <3>4
  <2>2. CASE UNCHANGED Current
    <3>1. TellsOf(down[p], who) /\ (Announces(down[p]) \/ announced[p] \in {0, who})
      BY <2>2 DEF Follows
    <3> QED  BY <1>2, <1>3, <1>8, <3>1
  <2> QED  BY <1>1, <2>1, <2>2
<1>10. Follows(p)'
  <2>1. Current' = Current' /\ name' = name /\ roster' = roster /\ announced' = announced
    OBVIOUS
  <2>2. announced[p] \in 0 .. Len(roster)
    BY DEF Follows
  <2>3. /\ (Announces(down[p]))' = Announces(down'[p])
        /\ (TellsOf(down[p], name[Current]))' = TellsOf(down'[p], who)
    BY DEF Announces, TellsOf
  <2>4. (NamesSeats(down[p], Len(roster)))' = NamesSeats(down'[p], seats)
    BY DEF NamesSeats
  <2> QED  BY <1>7, <1>9, <2>1, <2>2, <2>3, <2>4 DEF Follows
<1> QED  BY <1>6, <1>10

\* A step of the server at a full table: each of its k[p] answers to p is to a guess that
\* it takes from p's lines.
LEMMA ServerStep ==
  ASSUME SessionInv, AllSeated, AllSeated', TableInv', AnnouncedTurnIsTrue', Deliver,
         UNCHANGED <<roster, name, announced, waiting>>,
         NEW k \in [Controllers -> Nat], \A p \in Controllers : Speaks(p, k[p]),
         up' \in [Controllers -> Seq(Lines)],
         \A p \in Controllers : Number(up[p], Guesses) = Number(up'[p], Guesses) + k[p]
  PROVE  SessionInv'
<1>1. LinesTypeOK /\ \A p \in Controllers : Follows(p) /\ k[p] \in Nat
  BY DEF SessionInv
<1>2. LinesTypeOK'
  <2>1. out' \in [Controllers -> Seq(Msgs)]
    BY DEF TableInv, Inv, TypeOK
  <2>2. ASSUME NEW p \in Controllers PROVE down[p] \o out'[p] \in Seq(Msgs)
    BY <1>1, <2>1, ConcatProperties DEF LinesTypeOK
  <2>3. down' \in [Controllers -> Seq(Msgs)]
    BY <2>2 DEF Deliver
  <2> QED  BY <1>1, <2>3 DEF LinesTypeOK
<1>3. \A p \in Controllers :
        /\ Follows(p)'
        /\ Number(down'[p], Answers(p)) = Number(down[p], Answers(p)) + k[p]
  BY <1>1, FollowsWhatIsSaid
<1>4. EveryGuessHasOneAnswer'
  <2> SUFFICES ASSUME NEW p \in Controllers
               PROVE  waiting[p] = Number(up'[p], Guesses) + Number(down'[p], Answers(p))
    <3>1. \A p \in Controllers :
            /\ (Number(up[p], Guesses))' = Number(up'[p], Guesses)
            /\ (Number(down[p], Answers(p)))' = Number(down'[p], Answers(p))
      BY DEF Number, Answers, IsAnswerTo
    <3> QED  BY <3>1 DEF EveryGuessHasOneAnswer
  <2>1. waiting[p] = Number(up[p], Guesses) + Number(down[p], Answers(p))
    BY DEF SessionInv, EveryGuessHasOneAnswer
  <2>2. Number(up'[p], Guesses) \in Nat /\ Number(down[p], Answers(p)) \in Nat
    BY <1>1, <1>2, PlacesAreFinite DEF LinesTypeOK
  <2>3. /\ Number(down'[p], Answers(p)) = Number(down[p], Answers(p)) + k[p]
        /\ Number(up[p], Guesses) = Number(up'[p], Guesses) + k[p] /\ k[p] \in Nat
    BY <1>1, <1>3
  <2> QED  BY <2>1, <2>2, <2>3
<1> QED
  BY <1>2, <1>3, <1>4 DEF SessionInv

\* One line more for the server to read.
LEMMA LineSent ==
  ASSUME SessionInv, NEW c \in Controllers, NEW text \in Lines, SendLine(c, text)
  PROVE  SessionInv'
<1>1. /\ LinesTypeOK /\ AllSeated /\ UNCHANGED <<vars, down, announced>>
      /\ up' = [up EXCEPT ![c] = Append(@, text)]
      /\ waiting' = [waiting EXCEPT ![c] = @ + (IF text \in Guesses THEN 1 ELSE 0)]
  BY DEF SessionInv, SendLine
<1> DEFINE more(p) == IF p = c /\ text \in Guesses THEN 1 ELSE 0
<1>2. ASSUME NEW p \in Controllers
      PROVE  /\ Number(up'[p], Guesses) = Number(up[p], Guesses) + more(p)
             /\ waiting'[p] = waiting[p] + more(p) /\ waiting'[p] \in Nat
             /\ up'[p] \in Seq(Lines) /\ Number(up[p], Guesses) \in Nat
  <2>1. up[p] \in Seq(Lines) /\ Append(up[p], text) \in Seq(Lines) /\ waiting[p] \in Nat
    BY <1>1, AppendProperties DEF LinesTypeOK
  <2>2. /\ Number(Append(up[p], text), Guesses)
             = Number(up[p], Guesses) + (IF text \in Guesses THEN 1 ELSE 0)
        /\ Number(up[p], Guesses) \in Nat
    BY <2>1, NumberOfMore, PlacesAreFinite
  <2>3. CASE p = c
    <3>1. up'[p] = Append(up[p], text)
      BY <1>1, <2>3 DEF LinesTypeOK
    <3>2. waiting'[p] = waiting[p] + (IF text \in Guesses THEN 1 ELSE 0)
      BY <1>1, <2>3 DEF LinesTypeOK
    <3> QED  BY <2>1, <2>2, <2>3, <3>1, <3>2
  <2>4. CASE p # c
    <3>1. up'[p] = up[p] /\ waiting'[p] = waiting[p]
      BY <1>1, <2>4 DEF LinesTypeOK
    <3> QED  BY <2>1, <2>2, <2>4, <3>1
  <2> QED  BY <2>3, <2>4
<1> HIDE DEF more
<1>3. LinesTypeOK'
  <2>1. DOMAIN up' = Controllers /\ DOMAIN waiting' = Controllers
        /\ up' = [p \in Controllers |-> up'[p]] /\ waiting' = [p \in Controllers |-> waiting'[p]]
    BY <1>1 DEF LinesTypeOK
  <2> QED  BY <1>1, <1>2, <2>1 DEF LinesTypeOK
<1>4. EveryGuessHasOneAnswer'
  <2> SUFFICES ASSUME NEW p \in Controllers
               PROVE  waiting'[p] = Number(up'[p], Guesses) + Number(down[p], Answers(p))
    <3>1. \A p \in Controllers :
            /\ (Number(up[p], Guesses))' = Number(up'[p], Guesses)
            /\ (Number(down[p], Answers(p)))' = Number(down[p], Answers(p))
      BY <1>1 DEF Number, Answers, IsAnswerTo, vars
    <3> QED  BY <3>1 DEF EveryGuessHasOneAnswer
  <2>1. waiting[p] = Number(up[p], Guesses) + Number(down[p], Answers(p))
    BY DEF SessionInv, EveryGuessHasOneAnswer
  <2>2. Number(down[p], Answers(p)) \in Nat /\ more(p) \in Nat
    BY <1>1, PlacesAreFinite DEF LinesTypeOK, more
  <2> QED  BY <1>2, <2>1, <2>2
<1>5. AllSeated' /\ \A p \in Controllers : Follows(p)'
  <2>1. \A p \in Controllers : Follows(p)
    BY <1>1 DEF SessionInv
  <2> QED  BY <1>1, <2>1 DEF vars, AllSeated, Follows, NamesSeats, TellsOf, Announces, Current
<1>6. TableInv' /\ AnnouncedTurnIsTrue'
  <2>1. TableInv /\ AnnouncedTurnIsTrue
    BY DEF SessionInv
  <2>2. [FixedNext]_vars
    BY <1>1
  <2> QED  BY <2>1, <2>2, TableInvInductive, AnnouncedStep
<1> QED  BY <1>3, <1>4, <1>5, <1>6 DEF SessionInv

\* One RPC less for the client to handle.
LEMMA RpcHandled ==
  ASSUME SessionInv, NEW c \in Controllers, ClientStep(c)
  PROVE  SessionInv'
<1>1. /\ LinesTypeOK /\ UNCHANGED <<vars, up>> /\ down[c] # << >>
      /\ down' = [down EXCEPT ![c] = Tail(@)]
      /\ announced' = IF IsAnnouncement(Head(down[c]))
                      THEN [announced EXCEPT ![c] = Head(down[c]).name] ELSE announced
      /\ waiting' = IF IsAnswerTo(c, Head(down[c]))
                    THEN [waiting EXCEPT ![c] = @ - 1] ELSE waiting
  BY DEF SessionInv, ClientStep
<1> DEFINE m == Head(down[c])
           rest == Tail(down[c])
           seats == Len(roster)
           who == name[Current]
<1>2. down[c] \in Seq(Msgs) /\ rest \in Seq(Msgs) /\ m \in Msgs
  BY <1>1, HeadTailProperties DEF LinesTypeOK
<1>3. m.name \in Nat /\ (m \in Answers(c) <=> IsAnswerTo(c, m))
  BY <1>2 DEF Msgs, Answers
<1>4. /\ Number(down[c], Answers(c))
           = Number(rest, Answers(c)) + (IF m \in Answers(c) THEN 1 ELSE 0)
      /\ Number(rest, Answers(c)) \in Nat /\ Number(up[c], Guesses) \in Nat
  BY <1>1, <1>2, NumberOfFewer, PlacesAreFinite DEF LinesTypeOK
<1>5. waiting[c] = Number(up[c], Guesses) + Number(down[c], Answers(c)) /\ waiting[c] \in Nat
  BY <1>1 DEF SessionInv, EveryGuessHasOneAnswer, LinesTypeOK
<1> HIDE DEF m, rest
<1>6. /\ down' = [down EXCEPT ![c] = rest]
      /\ announced' = IF IsAnnouncement(m) THEN [announced EXCEPT ![c] = m.name] ELSE announced
      /\ waiting' = IF IsAnswerTo(c, m) THEN [waiting EXCEPT ![c] = @ - 1] ELSE waiting
  BY <1>1 DEF m, rest
<1>7. /\ waiting'[c] = Number(up[c], Guesses) + Number(rest, Answers(c)) /\ waiting'[c] \in Nat
      /\ down'[c] = rest /\ announced'[c] = (IF IsAnnouncement(m) THEN m.name ELSE announced[c])
      /\ \A p \in Controllers : p # c => /\ waiting'[p] = waiting[p] /\ down'[p] = down[p]
                                         /\ announced'[p] = announced[p]
  <2>1. waiting'[c] = IF IsAnswerTo(c, m) THEN waiting[c] - 1 ELSE waiting[c]
    BY <1>1, <1>6 DEF LinesTypeOK
  <2>2. /\ down'[c] = rest /\ announced'[c] = (IF IsAnnouncement(m) THEN m.name ELSE announced[c])
        /\ \A p \in Controllers : p # c => /\ waiting'[p] = waiting[p] /\ down'[p] = down[p]
                                           /\ announced'[p] = announced[p]
    BY <1>1, <1>6 DEF LinesTypeOK
  <2>3. waiting'[c] = Number(up[c], Guesses) + Number(rest, Answers(c)) /\ waiting'[c] \in Nat
    BY <1>3, <1>4, <1>5, <2>1
  <2> QED  BY <2>2, <2>3
<1>8. LinesTypeOK'
  <2>1. down' \in [Controllers -> Seq(Msgs)]
    BY <1>1, <1>2, <1>6 DEF LinesTypeOK
  <2>2. announced' \in [Controllers -> Nat]
    BY <1>1, <1>3, <1>6 DEF LinesTypeOK
  <2>3. waiting' \in [Controllers -> Nat]
    <3>1. CASE IsAnswerTo(c, m)
      <4>1. waiting' = [waiting EXCEPT ![c] = waiting'[c]]
        BY <1>1, <1>6, <3>1 DEF LinesTypeOK
      <4> QED  BY <1>1, <1>7, <4>1 DEF LinesTypeOK
    <3>2. CASE ~IsAnswerTo(c, m)
      BY <1>1, <1>6, <3>2 DEF LinesTypeOK
    <3> QED  BY <3>1, <3>2
  <2> QED  BY <1>1, <2>1, <2>2, <2>3 DEF LinesTypeOK
<1>9. EveryGuessHasOneAnswer'
  <2> SUFFICES ASSUME NEW p \in Controllers
               PROVE  waiting'[p] = Number(up[p], Guesses) + Number(down'[p], Answers(p))
    <3>1. \A p \in Controllers :
            /\ (Number(up[p], Guesses))' = Number(up[p], Guesses)
            /\ (Number(down[p], Answers(p)))' = Number(down'[p], Answers(p))
      BY <1>1 DEF Number, Answers, IsAnswerTo, vars
    <3> QED  BY <3>1 DEF EveryGuessHasOneAnswer
  <2>1. waiting[p] = Number(up[p], Guesses) + Number(down[p], Answers(p))
    BY DEF SessionInv, EveryGuessHasOneAnswer
  <2> QED  BY <1>7, <2>1
<1>10. /\ AllSeated' = AllSeated /\ Len(roster)' = seats /\ (name[Current])' = who
       /\ \A p \in Controllers :
            /\ Follows(p)' <=> /\ announced'[p] \in 0 .. seats
                               /\ NamesSeats(down'[p], seats)
                               /\ TellsOf(down'[p], who)
                               /\ Announces(down'[p]) \/ announced'[p] \in {0, who}
            /\ Waits(p)' <=> /\ up[p] = << >> /\ announced'[p] = 0 /\ waiting'[p] = 0
                             /\ \A i \in DOMAIN down'[p] : down'[p][i].kind = "joined"
  BY <1>1 DEF vars, AllSeated, Current, Follows, Waits, NamesSeats, TellsOf, Announces
<1>11. ASSUME AllSeated, NEW p \in Controllers PROVE Follows(p)'
  <2>1. Follows(p)
    BY <1>11 DEF SessionInv
  <2>2. CASE p # c
    BY <1>7, <1>10, <2>1, <2>2 DEF Follows
  <2>3. CASE p = c
    <3>1. /\ NamesSeats(down[c], seats) /\ TellsOf(down[c], who)
          /\ Announces(down[c]) \/ announced[c] \in {0, who}
          /\ announced[c] \in 0 .. seats
      BY <2>1, <2>3 DEF Follows
    <3>2. /\ TellsOf(rest, who) /\ NamesSeats(rest, seats)
          /\ Announces(down[c]) <=> IsAnnouncement(m) \/ Announces(rest)
          /\ IsAnnouncement(m) => m.name \in 1 .. seats
          /\ IsAnnouncement(m) /\ ~Announces(rest) => m.name = who
      BY <1>1, <1>2, <3>1, RestTells DEF m, rest
    <3>3. announced'[c] \in 0 .. seats
      <4>1. CASE IsAnnouncement(m)
        <5>1. m.name \in 1 .. seats /\ announced'[c] = m.name
          BY <1>7, <3>2, <4>1
        <5> QED  BY <5>1
      <4>2. CASE ~IsAnnouncement(m)
        BY <1>7, <3>1, <4>2
      <4> QED  BY <4>1, <4>2
    <3>4. Announces(rest) \/ announced'[c] \in {0, who}
      BY <1>7, <3>1, <3>2
    <3>5. down'[c] = rest
      BY <1>7
    <3> QED  BY <1>10, <2>3, <3>2, <3>3, <3>4, <3>5
  <2> QED  BY <2>2, <2>3
<1>12. ASSUME ~AllSeated, NEW p \in Controllers PROVE Waits(p)'
  <2>1. Waits(p)
    BY <1>12 DEF SessionInv
  <2>2. CASE p # c
    BY <1>7, <1>10, <2>1, <2>2 DEF Waits
  <2>3. CASE p = c
    <3>1. \A i \in DOMAIN down[c] : down[c][i].kind = "joined"
      BY <2>1, <2>3 DEF Waits
    <3>2. /\ \A i \in DOMAIN rest : rest[i].kind = "joined"
          /\ m.kind = "joined"
      <4>1. /\ Len(rest) = Len(down[c]) - 1 /\ m = down[c][1]
            /\ \A i \in 1 .. Len(rest) : rest[i] = down[c][i + 1]
            /\ Len(down[c]) \in Nat \ {0} /\ DOMAIN down[c] = 1 .. Len(down[c])
            /\ DOMAIN rest = 1 .. Len(rest)
        BY <1>1, <1>2, HeadTailProperties, LenProperties, EmptySeq DEF m, rest
      <4>2. 1 \in DOMAIN down[c] /\ \A i \in DOMAIN rest : i + 1 \in DOMAIN down[c]
        BY <4>1
      <4> QED  BY <3>1, <4>1, <4>2
    <3>3. ~IsAnnouncement(m) /\ ~IsAnswerTo(c, m)
      BY <3>2 DEF IsAnnouncement, IsAnswerTo
    <3>4. announced'[c] = announced[c] /\ waiting' = waiting /\ down'[c] = rest
      BY <1>6, <1>7, <3>3
    <3> QED  BY <1>10, <2>1, <2>3, <3>2, <3>4 DEF Waits
  <2> QED  BY <2>2, <2>3
<1>13. TableInv' /\ AnnouncedTurnIsTrue'
  <2>1. TableInv /\ AnnouncedTurnIsTrue
    BY DEF SessionInv
  <2>2. [FixedNext]_vars
    BY <1>1
  <2> QED  BY <2>1, <2>2, TableInvInductive, AnnouncedStep
<1> QED  BY <1>8, <1>9, <1>10, <1>11, <1>12, <1>13 DEF SessionInv

\* The server reads a line: it answers its sender once if it is a guess.
LEMMA LineRead ==
  ASSUME SessionInv, NEW c \in Controllers, Receive(c)
  PROVE  SessionInv'
<1> DEFINE text == Head(up[c])
           k == [p \in Controllers |-> IF p = c /\ text \in Guesses THEN 1 ELSE 0]
<1>1. /\ AllSeated /\ up[c] # << >> /\ up' = [up EXCEPT ![c] = Tail(@)] /\ Deliver
      /\ UNCHANGED <<announced, waiting>>
      /\ \/ text = "chat" /\ Chat(c)
         \/ text # "chat" /\ RefuseGuess(c)
         \/ \E g \in Guesses : text = g /\ (WinningGuess(c, g) \/ MissedGuess(c, g))
  BY DEF Receive, clientVars
<1>2. TypeOK /\ SeatsOK /\ LinesTypeOK /\ TableInv /\ AnnouncedTurnIsTrue
  BY DEF SessionInv, TableInv, Inv
<1>3. up[c] \in Seq(Lines) /\ text \in Lines /\ Tail(up[c]) \in Seq(Lines)
  BY <1>1, <1>2, HeadTailProperties DEF LinesTypeOK
<1>4. /\ Number(up[c], Guesses) = Number(Tail(up[c]), Guesses) + (IF text \in Guesses THEN 1 ELSE 0)
      /\ Number(Tail(up[c]), Guesses) \in Nat
  BY <1>1, <1>3, NumberOfFewer
<1>5. up' \in [Controllers -> Seq(Lines)]
  BY <1>1, <1>2, <1>3 DEF LinesTypeOK
<1>6. text \in Guesses <=> text # "chat"
  BY <1>3, SessionAssumption DEF Lines
<1> HIDE DEF text
<1>7. k \in [Controllers -> Nat]
  OBVIOUS
<1>8. \A p \in Controllers : Number(up[p], Guesses) = Number(up'[p], Guesses) + k[p]
  <2> SUFFICES ASSUME NEW p \in Controllers
               PROVE  Number(up[p], Guesses) = Number(up'[p], Guesses) + k[p]
    OBVIOUS
  <2>1. CASE p = c
    <3>1. up'[p] = Tail(up[c])
      BY <1>1, <1>2, <2>1 DEF LinesTypeOK
    <3> QED  BY <1>4, <2>1, <3>1
  <2>2. CASE p # c
    <3>1. up'[p] = up[p] /\ Number(up[p], Guesses) \in Nat
      BY <1>1, <1>2, <2>2, PlacesAreFinite DEF LinesTypeOK
    <3> QED  BY <2>2, <3>1
  <2> QED  BY <2>1, <2>2
<1>9. \A p \in Controllers : Speaks(p, k[p])
  <2> SUFFICES ASSUME NEW p \in Controllers PROVE Speaks(p, k[p])
    OBVIOUS
  <2>1. CASE text = "chat" /\ Chat(c)
    <3>1. Speaks(p, 0) /\ k[p] = 0
      BY <1>1, <1>2, <1>6, <2>1, ChatSpeaks
    <3> QED  BY <3>1
  <2>2. CASE text \in Guesses /\ (\/ RefuseGuess(c)
                                  \/ \E g : WinningGuess(c, g) \/ MissedGuess(c, g))
    <3>1. Speaks(p, IF p = c THEN 1 ELSE 0)
      BY <1>1, <1>2, <2>2, ChatSpeaks, WinSpeaks, MissSpeaks
    <3>2. k[p] = IF p = c THEN 1 ELSE 0
      BY <2>2
    <3> QED  BY <3>1, <3>2
  <2> QED  BY <1>1, <1>6, <2>1, <2>2
<1>10. FixedNext /\ UNCHANGED <<status, roster, name>>
  <2>1. \/ Chat(c) \/ RefuseGuess(c)
        \/ \E g \in Guesses : WinningGuess(c, g) \/ MissedGuess(c, g)
    BY <1>1
  <2>2. UNCHANGED <<status, roster, name>>
    BY <2>1 DEF Chat, RefuseGuess, WinningGuess, MissedGuess
  <2> QED  BY <1>1, <2>1, <2>2 DEF FixedNext, Play
<1>11. TableInv' /\ AnnouncedTurnIsTrue' /\ AllSeated'
  BY <1>1, <1>2, <1>10, TableInvInductive, AnnouncedStep DEF AllSeated
<1> HIDE DEF k
<1> QED
  BY <1>1, <1>5, <1>7, <1>8, <1>9, <1>10, <1>11, ServerStep

\* The clock ticks at a full table, or play begins there: nobody is answered.
LEMMA NobodyAnswered ==
  ASSUME SessionInv, AllSeated, UpdateGameTimer \/ BeginPlay, Deliver,
         UNCHANGED <<up, announced, waiting>>
  PROVE  SessionInv'
<1> DEFINE k == [p \in Controllers |-> 0]
<1>1. TypeOK /\ SeatsOK /\ LinesTypeOK /\ TableInv /\ AnnouncedTurnIsTrue
  BY DEF SessionInv, TableInv, Inv
<1>2. k \in [Controllers -> Nat] /\ \A p \in Controllers : k[p] = 0
  OBVIOUS
<1> HIDE DEF k
<1>3. up' \in [Controllers -> Seq(Lines)]
      /\ \A p \in Controllers : Number(up[p], Guesses) = Number(up'[p], Guesses) + k[p]
  BY <1>1, <1>2, PlacesAreFinite DEF LinesTypeOK
<1>4. \A p \in Controllers : Speaks(p, k[p])
  <2> SUFFICES ASSUME NEW p \in Controllers PROVE Speaks(p, 0)
    BY <1>2
  <2>1. CASE UpdateGameTimer
    BY <1>1, <2>1, TimerSpeaks
  <2>2. CASE BeginPlay
    <3>1. out'[p] = << >> /\ UNCHANGED Current
      BY <1>1, <2>2 DEF BeginPlay, TableInv, Current, Silence
    <3>2. << >> \o << >> = << >>
      OBVIOUS
    <3> QED  BY <3>1, <3>2, NoMessage DEF Speaks
  <2> QED  BY <2>1, <2>2
<1>5. FixedNext /\ UNCHANGED <<status, roster, name>>
  <2>1. UNCHANGED <<status, roster, name>>
    BY DEF UpdateGameTimer, Countdown, Timeout, TimeoutOfDeparted, BeginPlay
  <2> QED  BY <2>1 DEF FixedNext, Play
<1>6. TableInv' /\ AnnouncedTurnIsTrue' /\ AllSeated'
  BY <1>1, <1>5, TableInvInductive, AnnouncedStep DEF AllSeated
<1> QED
  BY <1>2, <1>3, <1>4, <1>5, <1>6, ServerStep

\* While the table fills, clients are told of joins and of nothing else.
LEMMA TableFills ==
  ASSUME SessionInv, ~AllSeated, Seat
  PROVE  SessionInv'
<1>1. /\ BeginPlay \/ \E c \in Controllers : Login(c)
      /\ Deliver /\ UNCHANGED <<up, announced, waiting>>
  BY DEF Seat, clientVars
<1>2. /\ TypeOK /\ LinesTypeOK /\ TableInv /\ AnnouncedTurnIsTrue
      /\ \A p \in Controllers : Waits(p)
  BY DEF SessionInv, TableInv, Inv
<1>3. FixedNext
  BY <1>1 DEF FixedNext
<1>4. TableInv' /\ AnnouncedTurnIsTrue' /\ TypeOK'
  BY <1>2, <1>3, TableInvInductive, AnnouncedStep DEF TableInv, Inv
<1>5. ASSUME NEW p \in Controllers
      PROVE  /\ down'[p] \in Seq(Msgs)
             /\ \A i \in DOMAIN down'[p] : down'[p][i].kind = "joined"
  <2> DEFINE s == down[p]
             t == out'[p]
  <2>1. s \in Seq(Msgs) /\ t \in Seq(Msgs) /\ down'[p] = s \o t
    BY <1>1, <1>2, <1>4 DEF LinesTypeOK, TypeOK, Deliver
  <2>2. \A i \in DOMAIN s : s[i].kind = "joined"
    BY <1>2 DEF Waits
  <2>3. \A i \in DOMAIN t : t[i].kind = "joined"
    <3>1. CASE t = << >>
      <4>1. DOMAIN << >> = {}
        OBVIOUS
      <4> QED  BY <3>1, <4>1
    <3>2. ASSUME NEW c \in Controllers, Login(c), t # << >>
          PROVE  \A i \in DOMAIN t : t[i].kind = "joined"
      <4> DEFINE m == [kind |-> "joined", name |-> Len(roster) + 1]
      <4>1. t = <<m>> /\ m.kind = "joined"
        BY <3>2 DEF Login
      <4> HIDE DEF m, t
      <4>2. DOMAIN <<m>> = {1} /\ <<m>>[1] = m
        OBVIOUS
      <4> QED  BY <4>1, <4>2
    <3>3. CASE BeginPlay
      <4>1. t = << >>
        BY <3>3 DEF BeginPlay, Silence
      <4> QED  BY <3>1, <4>1
    <3> QED  BY <1>1, <3>1, <3>2, <3>3
  <2> HIDE DEF s, t
  <2>4. /\ s \o t \in Seq(Msgs) /\ DOMAIN (s \o t) = 1 .. Len(s) + Len(t)
        /\ DOMAIN s = 1 .. Len(s) /\ DOMAIN t = 1 .. Len(t)
        /\ Len(s) \in Nat /\ Len(t) \in Nat
        /\ \A i \in 1 .. Len(s) + Len(t) :
             (s \o t)[i] = IF i <= Len(s) THEN s[i] ELSE t[i - Len(s)]
    BY <2>1, ConcatProperties, LenProperties
  <2>5. ASSUME NEW i \in 1 .. Len(s) + Len(t) PROVE (s \o t)[i].kind = "joined"
    <3>1. CASE i <= Len(s)
      <4>1. i \in DOMAIN s /\ (s \o t)[i] = s[i]
        BY <2>4, <3>1
      <4> QED  BY <2>2, <4>1
    <3>2. CASE i > Len(s)
      <4>1. i - Len(s) \in DOMAIN t /\ (s \o t)[i] = t[i - Len(s)]
        BY <2>4, <3>2
      <4> QED  BY <2>3, <4>1
    <3> QED  BY <2>4, <3>1, <3>2
  <2> QED  BY <2>1, <2>4, <2>5
<1>6. LinesTypeOK'
  <2>1. down' = [p \in Controllers |-> down'[p]]
    BY <1>1 DEF Deliver
  <2>2. down' \in [Controllers -> Seq(Msgs)]
    BY <1>5, <2>1
  <2> QED  BY <1>1, <1>2, <2>2 DEF LinesTypeOK
<1>7. ASSUME NEW p \in Controllers
      PROVE  /\ up'[p] = << >> /\ announced'[p] = 0 /\ waiting'[p] = 0
             /\ Number(up'[p], Guesses) = 0
             /\ Number(down'[p], Answers(p)') = 0
             /\ ~Announces(down'[p]) /\ NamesSeats(down'[p], Len(roster'))
             /\ TellsOf(down'[p], (name[Current])')
  <2>1. up'[p] = << >> /\ announced'[p] = 0 /\ waiting'[p] = 0
    BY <1>1, <1>2 DEF Waits
  <2>2. \A i \in DOMAIN down'[p] : down'[p][i] \notin Answers(p)'
    BY <1>5 DEF Answers, IsAnswerTo
  <2>3. Number(down'[p], Answers(p)') = 0
    BY <2>2, NumberOfNone
  <2> QED  BY <1>5, <2>1, <2>3, NumberOfFew, JoinsAreQuiet
<1>8. EveryGuessHasOneAnswer'
  <2>1. \A p \in Controllers :
          /\ (Number(up[p], Guesses))' = Number(up'[p], Guesses)
          /\ (Number(down[p], Answers(p)))' = Number(down'[p], Answers(p)')
    BY DEF Number
  <2> QED  BY <1>7, <2>1 DEF EveryGuessHasOneAnswer
<1>9. ASSUME NEW p \in Controllers PROVE Follows(p)' /\ Waits(p)'
  <2>1. Len(roster') \in Nat
    BY <1>4 DEF TypeOK
  <2>2. announced'[p] \in 0 .. Len(roster')
    BY <1>7, <2>1
  <2>3. /\ (NamesSeats(down[p], Len(roster)))' = NamesSeats(down'[p], Len(roster'))
        /\ (TellsOf(down[p], name[Current]))' = TellsOf(down'[p], (name[Current])')
        /\ (\A i \in DOMAIN down[p] : down[p][i].kind = "joined")'
             = (\A i \in DOMAIN down'[p] : down'[p][i].kind = "joined")
    BY DEF NamesSeats, TellsOf
  <2> QED  BY <1>5, <1>7, <2>2, <2>3 DEF Follows, Waits
<1> QED  BY <1>4, <1>6, <1>8, <1>9 DEF SessionInv

LEMMA SessionInvInductive ==
  ASSUME SessionInv, [SessionNext]_sessionVars
  PROVE  SessionInv'
<1>1. CASE Seat
  <2>1. CASE AllSeated
    <3>1. BeginPlay /\ Deliver /\ UNCHANGED <<up, announced, waiting>>
      BY <1>1, <2>1 DEF Seat, Login, AllSeated, clientVars
    <3> QED  BY <2>1, <3>1, NobodyAnswered
  <2> QED  BY <1>1, <2>1, TableFills
<1>2. CASE Tick
  BY <1>2, NobodyAnswered DEF Tick, clientVars
<1>3. CASE UNCHANGED sessionVars
  <2>1. SessionInv' = SessionInv
    <3>1. /\ UNCHANGED <<up, down, announced, waiting>>
          /\ UNCHANGED <<phase, status, roster, turn, acted, count, name>>
          /\ [FixedNext]_vars
      BY <1>3 DEF sessionVars, vars
    <3>2. TableInv /\ AnnouncedTurnIsTrue /\ TableInv' /\ AnnouncedTurnIsTrue'
      BY <3>1, TableInvInductive, AnnouncedStep DEF SessionInv
    <3> QED  BY <3>1, <3>2 DEF SessionInv, LinesTypeOK, EveryGuessHasOneAnswer, Number, Answers,
                  IsAnswerTo, AllSeated, Follows, Waits, NamesSeats, TellsOf, Announces, Current
  <2> QED  BY <2>1
<1> QED
  BY <1>1, <1>2, <1>3, LineSent, LineRead, RpcHandled DEF SessionNext

LEMMA SessionHolds == SessionSpec => []SessionInv
<1>1. SessionInit => SessionInv
  <2> SUFFICES ASSUME SessionInit PROVE SessionInv
    OBVIOUS
  <2>1. Init /\ TableInv
    BY TableAtFirst DEF SessionInit
  <2>2. /\ up = [c \in Controllers |-> << >>] /\ down = [c \in Controllers |-> << >>]
        /\ announced = [c \in Controllers |-> 0] /\ waiting = [c \in Controllers |-> 0]
    BY DEF SessionInit
  <2>3. DOMAIN << >> = {} /\ << >> \in Seq(Msgs) /\ << >> \in Seq(Lines)
    OBVIOUS
  <2>4. LinesTypeOK
    BY <2>2, <2>3 DEF LinesTypeOK
  <2>5. AnnouncedTurnIsTrue
    <3>1. \A p \in Controllers : out[p] = << >>
      BY <2>1 DEF Init, Silence
    <3> QED  BY <2>3, <3>1 DEF AnnouncedTurnIsTrue
  <2>6. EveryGuessHasOneAnswer
    BY <2>2, NumberOfFew DEF EveryGuessHasOneAnswer
  <2>7. ASSUME NEW c \in Controllers PROVE Waits(c) /\ Follows(c)
    <3>1. up[c] = << >> /\ down[c] = << >> /\ announced[c] = 0 /\ waiting[c] = 0
      BY <2>2
    <3>2. Len(roster) \in Nat
      BY <2>1 DEF TableInv, Inv, TypeOK
    <3> QED  BY <2>3, <3>1, <3>2 DEF Waits, Follows, NamesSeats, TellsOf
  <2> QED  BY <2>1, <2>4, <2>5, <2>6, <2>7 DEF SessionInv
<1> QED
  BY <1>1, SessionInvInductive, PTL DEF SessionSpec

\* The RPCs on their way are ones the code sends, what a client's screen announces is a
\* seat, and no player waits for less than nothing: no answer comes to a guess that was
\* not sent (HwPlayerController.cpp, the RPCs of both directions).
THEOREM SessionTypeCorrect == SessionSpec => []SessionTypeOK
<1>1. SessionInv => SessionTypeOK
  <2> SUFFICES ASSUME SessionInv, NEW c \in Controllers
               PROVE  /\ \A i \in DOMAIN up[c] : up[c][i] \in Lines
                      /\ \A i \in DOMAIN down[c] : down[c][i] \in Msgs
                      /\ announced[c] \in 0 .. Len(roster) /\ waiting[c] \in Nat
    BY DEF SessionTypeOK, SessionInv, TableInv, Inv
  <2>1. up[c] \in Seq(Lines) /\ down[c] \in Seq(Msgs) /\ waiting[c] \in Nat
    BY DEF SessionInv, LinesTypeOK
  <2>2. /\ \A i \in DOMAIN up[c] : up[c][i] \in Lines
        /\ \A i \in DOMAIN down[c] : down[c][i] \in Msgs
    BY <2>1, ElementOfSeq, LenProperties
  <2>3. announced[c] \in 0 .. Len(roster)
    <3>1. Len(roster) \in Nat
      BY DEF SessionInv, TableInv, Inv, TypeOK
    <3> QED  BY <3>1 DEF SessionInv, Follows, Waits
  <2> QED  BY <2>1, <2>2, <2>3
<1> QED  BY <1>1, SessionHolds, PTL

\* For any number of players and any texts in any order, each guess a player sent is still
\* on its way to the server or its one answer is on its way back: none is dropped,
\* none answered twice, and the verdict on another's guess is never taken for one's own
\* (ServerRPCPrintChatMessageString and PrintChatMessageString).
THEOREM GuessesHaveOneAnswer == SessionSpec => []EveryGuessHasOneAnswer
<1> QED  BY SessionHolds, PTL DEF SessionInv

\* A client that has handled every RPC sent to it and has seen a turn announced shows the
\* turn that it is on the server, however long the game has gone on.
THEOREM ClientsAreInformed == SessionSpec => []InformedWhenQuiet
<1>1. SessionInv => InformedWhenQuiet
  <2> SUFFICES ASSUME SessionInv, NEW c \in Controllers, down[c] = << >>, announced[c] # 0
               PROVE  announced[c] = name[Current]
    BY DEF InformedWhenQuiet
  <2>1. ~Announces(down[c])
    <3>1. DOMAIN << >> = {}
      OBVIOUS
    <3> QED  BY <3>1 DEF Announces
  <2> QED  BY <2>1 DEF SessionInv, Follows, Waits
<1> QED  BY <1>1, SessionHolds, PTL
===============================================================================
