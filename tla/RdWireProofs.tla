----------------------------- MODULE RdWireProofs ------------------------------
(***************************************************************************)
(* Proofs about the send buffer and the wire, for any number of messages.  *)
(* First the buffer by itself forgets nothing, whatever processor answers  *)
(* and whenever it is paused, resumed and stopped: one lemma per action    *)
(* that moves messages.  Then the wire forgets nothing, over any network   *)
(* and for any number of lost connections and restarts of the sender: what *)
(* the buffer supposes of acknowledgements, that they are of what was      *)
(* sent, is shown here of the wire's.  Then types.  Last, under Prompt,    *)
(* what arrives: in order, without a gap.                                  *)
(***************************************************************************)
EXTENDS RdWire, SequenceTheorems, TLAPS

Kept == BufferTypeOK /\ NothingForgotten

\* The variables NothingForgotten is about.
messages == <<put, data, queue, pending, maxSent, current>>

-------------------------------------------------------------------------------
\* What the operations of a deque do to a run of consecutive numbers.
LEMMA AppendConsecutive ==
  ASSUME NEW s \in Seq(Nat), NEW first \in Nat, Consecutive(s, first)
  PROVE  /\ Append(s, first + Len(s)) \in Seq(Nat)
         /\ Len(Append(s, first + Len(s))) = Len(s) + 1
         /\ Consecutive(Append(s, first + Len(s)), first)
<1> DEFINE t == Append(s, first + Len(s))
<1>1. /\ t \in Seq(Nat) /\ Len(t) = Len(s) + 1
      /\ \A i \in 1 .. Len(s) : t[i] = s[i]
      /\ t[Len(s) + 1] = first + Len(s)
  BY AppendProperties, LenProperties
<1>2. ASSUME NEW i \in 1 .. Len(t) PROVE t[i] = first - 1 + i
  <2> HIDE DEF t
  <2>1. Len(s) \in Nat
    BY LenProperties
  <2>2. CASE i \in 1 .. Len(s)
    BY <1>1, <2>2 DEF Consecutive
  <2>3. CASE i = Len(s) + 1
    BY <1>1, <2>1, <2>3
  <2> QED
    BY <1>1, <2>1, <2>2, <2>3
<1> QED
  BY <1>1, <1>2 DEF Consecutive

LEMMA TailConsecutive ==
  ASSUME NEW s \in Seq(Nat), s # << >>, NEW first \in Nat, Consecutive(s, first)
  PROVE  /\ Tail(s) \in Seq(Nat)
         /\ Len(Tail(s)) = Len(s) - 1
         /\ Head(s) = first
         /\ Consecutive(Tail(s), first + 1)
<1>1. /\ Tail(s) \in Seq(Nat) /\ Len(Tail(s)) = Len(s) - 1
      /\ \A i \in 1 .. Len(Tail(s)) : Tail(s)[i] = s[i + 1]
      /\ Head(s) = s[1]
  BY HeadTailProperties
<1>2. Len(s) \in Nat \ {0}
  BY LenProperties, EmptySeq
<1>3. Head(s) = first
  BY <1>1, <1>2 DEF Consecutive
<1>4. ASSUME NEW i \in 1 .. Len(Tail(s)) PROVE Tail(s)[i] = (first + 1) - 1 + i
  <2>1. i + 1 \in 1 .. Len(s)
    BY <1>1, <1>2
  <2>2. s[i + 1] = first - 1 + (i + 1)
    BY <2>1 DEF Consecutive
  <2> QED
    BY <1>1, <2>1, <2>2
<1> QED
  BY <1>1, <1>3, <1>4 DEF Consecutive

LEMMA ConcatConsecutive ==
  ASSUME NEW s \in Seq(Nat), NEW t \in Seq(Nat), NEW first \in Nat,
         Consecutive(s, first), Consecutive(t, first + Len(s))
  PROVE  /\ s \o t \in Seq(Nat)
         /\ Len(s \o t) = Len(s) + Len(t)
         /\ Consecutive(s \o t, first)
<1>1. /\ s \o t \in Seq(Nat) /\ Len(s \o t) = Len(s) + Len(t)
      /\ \A i \in 1 .. Len(s) + Len(t) :
           (s \o t)[i] = IF i <= Len(s) THEN s[i] ELSE t[i - Len(s)]
  BY ConcatProperties
<1>2. Len(s) \in Nat /\ Len(t) \in Nat
  BY LenProperties
<1>3. ASSUME NEW i \in 1 .. Len(s) + Len(t) PROVE (s \o t)[i] = first - 1 + i
  <2>1. CASE i <= Len(s)
    BY <1>1, <1>2, <2>1 DEF Consecutive
  <2>2. CASE i > Len(s)
    <3>1. i - Len(s) \in 1 .. Len(t)
      BY <1>2, <2>2
    <3>2. t[i - Len(s)] = (first + Len(s)) - 1 + (i - Len(s))
      BY <3>1 DEF Consecutive
    <3> QED
      BY <1>1, <1>2, <2>2, <3>2
  <2> QED
    BY <1>2, <2>1, <2>2
<1> QED
  BY <1>1, <1>3 DEF Consecutive

LEMMA DropConsecutive ==
  ASSUME NEW s \in Seq(Nat), NEW first \in Nat, NEW k \in 0 .. Len(s),
         Consecutive(s, first)
  PROVE  /\ SubSeq(s, k + 1, Len(s)) \in Seq(Nat)
         /\ Len(SubSeq(s, k + 1, Len(s))) = Len(s) - k
         /\ Consecutive(SubSeq(s, k + 1, Len(s)), first + k)
<1> DEFINE t == SubSeq(s, k + 1, Len(s))
<1>1. Len(s) \in Nat /\ k \in Nat /\ k <= Len(s)
  BY LenProperties
<1>2. \A i \in (k + 1) .. Len(s) : s[i] \in Nat
  BY <1>1, ElementOfSeq
<1>3. /\ t \in Seq(Nat)
      /\ Len(t) = IF k + 1 <= Len(s) THEN Len(s) - (k + 1) + 1 ELSE 0
      /\ \A i \in 1 .. Len(s) - (k + 1) + 1 : t[i] = s[(k + 1) + i - 1]
  BY <1>1, <1>2, SubSeqProperties
<1>4. Len(t) = Len(s) - k
  BY <1>1, <1>3
<1>5. ASSUME NEW i \in 1 .. Len(t) PROVE t[i] = (first + k) - 1 + i
  <2> HIDE DEF t
  <2>1. i \in 1 .. Len(s) - (k + 1) + 1 /\ (k + 1) + i - 1 \in 1 .. Len(s)
    BY <1>1, <1>4
  <2>2. s[(k + 1) + i - 1] = first - 1 + ((k + 1) + i - 1)
    BY <2>1 DEF Consecutive
  <2>3. t[i] = s[(k + 1) + i - 1]
    BY <1>3, <2>1
  <2> QED
    BY <1>1, <2>1, <2>2, <2>3
<1> QED
  BY <1>3, <1>4, <1>5 DEF Consecutive

-------------------------------------------------------------------------------
LEMMA LengthsAreNatural ==
  ASSUME BufferTypeOK PROVE Len(data) \in Nat /\ Len(queue) \in Nat /\ Len(pending) \in Nat
BY LenProperties DEF BufferTypeOK

\* The counting half of Kept, without the sequences.
LEMMA Counts ==
  ASSUME Kept
  PROVE  /\ put \in Nat /\ maxSent \in Nat /\ current \in Nat /\ acked \in Nat
         /\ Len(data) \in Nat /\ Len(queue) \in Nat /\ Len(pending) \in Nat
         /\ current + Len(pending) = maxSent + 1
         /\ maxSent + Len(queue) + Len(data) = put
BY LengthsAreNatural DEF Kept, BufferTypeOK, NothingForgotten

\* A put appends one message with the next number to data.
LEMMA PutKeeps == ASSUME Kept, Put PROVE Kept'
<1>1. BufferTypeOK /\ NothingForgotten
  BY DEF Kept
<1> DEFINE first == maxSent + Len(queue) + 1
<1>2. first \in Nat /\ put + 1 = first + Len(data)
  BY Counts
<1>3. data' = Append(data, first + Len(data))
  BY <1>2 DEF Put
<1>4. data \in Seq(Nat) /\ Consecutive(data, first)
  BY <1>1 DEF BufferTypeOK, NothingForgotten
<1> HIDE DEF first
<1>5. data' \in Seq(Nat) /\ Len(data') = Len(data) + 1 /\ Consecutive(data', first)
  BY <1>2, <1>3, <1>4, AppendConsecutive
<1>6. BufferTypeOK'
  BY <1>1, <1>5 DEF BufferTypeOK, Put
<1>7. /\ queue' = queue /\ pending' = pending /\ maxSent' = maxSent /\ current' = current
      /\ put' = put + 1
  BY DEF Put
<1>8. maxSent' + Len(queue') + Len(data') = put'
  <2>1. maxSent + Len(queue) + (Len(data) + 1) = put + 1
    BY Counts
  <2> QED
    BY <1>5, <1>7, <2>1
<1>9. NothingForgotten'
  BY <1>1, <1>5, <1>7, <1>8 DEF NothingForgotten, first
<1> QED
  BY <1>6, <1>9 DEF Kept

\* Grab moves all of data behind the queue.
LEMMA GrabKeeps == ASSUME Kept, Grab PROVE Kept'
<1>1. BufferTypeOK /\ NothingForgotten
  BY DEF Kept
<1>2. /\ queue \in Seq(Nat) /\ data \in Seq(Nat) /\ maxSent + 1 \in Nat
      /\ Consecutive(queue, maxSent + 1)
  BY <1>1 DEF BufferTypeOK, NothingForgotten
<1>3. Consecutive(data, (maxSent + 1) + Len(queue))
  <2>1. maxSent + Len(queue) + 1 = (maxSent + 1) + Len(queue)
    BY <1>1, LengthsAreNatural DEF BufferTypeOK
  <2> QED
    BY <1>1, <2>1 DEF NothingForgotten
<1>4. /\ queue' \in Seq(Nat) /\ Len(queue') = Len(queue) + Len(data)
      /\ Consecutive(queue', maxSent + 1)
  BY <1>2, <1>3, ConcatConsecutive DEF Grab
<1>5. data' \in Seq(Nat) /\ Len(data') = 0 /\ Consecutive(data', maxSent' + Len(queue') + 1)
  BY EmptySeq DEF Grab, Consecutive
<1>6. BufferTypeOK'
  BY <1>1, <1>4, <1>5 DEF BufferTypeOK, Grab
<1>7. NothingForgotten'
  BY <1>1, <1>4, <1>5, LengthsAreNatural DEF NothingForgotten, BufferTypeOK, Grab
<1> QED
  BY <1>6, <1>7 DEF Kept

\* The head of the queue becomes the last of pending, under its own number.
LEMMA ProcessOneKeeps == ASSUME Kept, NEW ok \in BOOLEAN, ProcessOne(ok) PROVE Kept'
<1>1. BufferTypeOK /\ NothingForgotten
  BY DEF Kept
<1>2. CASE ~ok
  BY <1>1, <1>2 DEF ProcessOne, Kept, BufferTypeOK, NothingForgotten
<1>3. CASE ok
  <2>1. /\ queue \in Seq(Nat) /\ queue # << >> /\ maxSent + 1 \in Nat
        /\ Consecutive(queue, maxSent + 1)
        /\ pending \in Seq(Nat) /\ current \in Nat /\ Consecutive(pending, current)
        /\ maxSent + 1 = current + Len(pending)
    BY <1>1 DEF ProcessOne, BufferTypeOK, NothingForgotten
  <2>2. /\ queue' = Tail(queue) /\ pending' = Append(pending, Head(queue))
        /\ maxSent' = maxSent + 1
    BY <1>3 DEF ProcessOne
  <2>3. /\ queue' \in Seq(Nat) /\ Len(queue') = Len(queue) - 1
        /\ Head(queue) = maxSent + 1 /\ Consecutive(queue', maxSent' + 1)
    BY <2>1, <2>2, TailConsecutive
  <2>4. pending' = Append(pending, current + Len(pending))
    BY <2>1, <2>2, <2>3
  <2>5. /\ pending' \in Seq(Nat) /\ Len(pending') = Len(pending) + 1
        /\ Consecutive(pending', current)
    BY <2>1, <2>4, AppendConsecutive
  <2>6. /\ UNCHANGED <<put, state, data, current, acked, balance, resent, owner, thread>>
    BY <1>3 DEF ProcessOne
  <2>7. BufferTypeOK'
    BY <1>1, <2>2, <2>3, <2>5, <2>6 DEF BufferTypeOK
  <2>8. maxSent' + Len(queue') + 1 = maxSent + Len(queue) + 1
    BY <1>1, <2>2, <2>3, LengthsAreNatural DEF BufferTypeOK
  <2>9. NothingForgotten'
    <3>1. current' + Len(pending') = maxSent' + 1
      BY <2>2, <2>5, <2>6, Counts
    <3>2. maxSent' + Len(queue') + Len(data') = put'
      BY <2>2, <2>3, <2>6, Counts
    <3>3. Consecutive(data', maxSent' + Len(queue') + 1)
      BY <1>1, <2>6, <2>8 DEF NothingForgotten
    <3> QED
      BY <2>3, <2>5, <2>6, <3>1, <3>2, <3>3 DEF NothingForgotten
  <2> QED
    BY <2>7, <2>9 DEF Kept
<1> QED
  BY <1>2, <1>3

\* Trimming drops as many messages as it moves current, none that is not there.
LEMMA BeginResumeKeeps == ASSUME Kept, TrimIsSafe, BeginResume PROVE Kept'
<1>1. BufferTypeOK /\ NothingForgotten /\ acked <= maxSent
  BY DEF Kept, TrimIsSafe
<1> DEFINE k == current' - current
<1>2. /\ current' \in Nat \ {0} /\ k \in 0 .. Len(pending) /\ current' = current + k
  BY <1>1, LengthsAreNatural DEF BufferTypeOK, NothingForgotten, BeginResume, Trim
<1>3. pending' = SubSeq(pending, k + 1, Len(pending))
  BY DEF BeginResume, Trim
<1>4. pending \in Seq(Nat) /\ current \in Nat /\ Consecutive(pending, current)
  BY <1>1 DEF BufferTypeOK, NothingForgotten
<1> HIDE DEF k
<1>5. /\ pending' \in Seq(Nat) /\ Len(pending') = Len(pending) - k
      /\ Consecutive(pending', current')
  BY <1>2, <1>3, <1>4, DropConsecutive
<1>6. BufferTypeOK'
  BY <1>1, <1>2, <1>5 DEF BufferTypeOK, BeginResume
<1>7. current' + Len(pending') = maxSent' + 1
  <2>1. maxSent' = maxSent
    BY DEF BeginResume
  <2> QED
    BY <1>2, <1>5, <2>1, Counts
<1>8. NothingForgotten'
  BY <1>1, <1>5, <1>7 DEF NothingForgotten, BeginResume
<1> QED
  BY <1>6, <1>8 DEF Kept

\* Every other step leaves the messages where they are.
LEMMA UnmovedKeeps == ASSUME Kept, UNCHANGED messages, BufferTypeOK' PROVE Kept'
BY DEF Kept, messages, NothingForgotten

-------------------------------------------------------------------------------
LEMMA OtherStepsTyping ==
  ASSUME BufferTypeOK,
         \/ StartProcess \/ ProcessDone \/ Exit
         \/ BeginPause \/ EndPause \/ EndResume \/ Stop \/ Cleanup
         \/ \E ok \in BOOLEAN : ResendOne(ok)
         \/ \E seqn \in Nat : Acknowledge(seqn)
  PROVE  BufferTypeOK' /\ UNCHANGED messages
<1> USE DEF BufferTypeOK, messages
<1>1. CASE StartProcess \/ ProcessDone \/ Exit
  BY <1>1 DEF StartProcess, ProcessDone, Exit
<1>2. CASE BeginPause \/ EndPause \/ EndResume
  BY <1>2 DEF BeginPause, EndPause, EndResume, Resumed
<1>3. CASE Stop \/ Cleanup
  BY <1>3 DEF Stop, Cleanup
<1>4. CASE \E ok \in BOOLEAN : ResendOne(ok)
  BY <1>4 DEF ResendOne, Resumed
<1>5. CASE \E seqn \in Nat : Acknowledge(seqn)
  BY <1>5 DEF Acknowledge
<1> QED
  BY <1>1, <1>2, <1>3, <1>4, <1>5

LEMMA InitKeeps == Init => Kept /\ TrimIsSafe
<1> SUFFICES ASSUME Init PROVE Kept /\ TrimIsSafe
  OBVIOUS
<1>1. << >> \in Seq(Nat) /\ Len(<< >>) = 0
  BY EmptySeq
<1>2. BufferTypeOK /\ TrimIsSafe
  BY <1>1 DEF Init, BufferTypeOK, TrimIsSafe
<1>3. \A first \in Nat : Consecutive(<< >>, first)
  BY <1>1 DEF Consecutive
<1>4. NothingForgotten
  BY <1>1, <1>3 DEF Init, NothingForgotten
<1> QED
  BY <1>2, <1>4 DEF Kept

\* Every action keeps the messages, and acked within what was sent.
LEMMA BufferStep == ASSUME Kept, TrimIsSafe, Next PROVE Kept' /\ TrimIsSafe'
<1>1. CASE Put
  BY <1>1, PutKeeps DEF Put, TrimIsSafe
<1>2. CASE Grab
  BY <1>2, GrabKeeps DEF Grab, TrimIsSafe
<1>3. CASE \E ok \in BOOLEAN : ProcessOne(ok)
  <2>1. PICK ok \in BOOLEAN : ProcessOne(ok)
    BY <1>3
  <2>2. maxSent' \in {maxSent, maxSent + 1} /\ acked' = acked
    BY <2>1 DEF ProcessOne
  <2> QED
    BY <2>1, <2>2, ProcessOneKeeps DEF TrimIsSafe, Kept, BufferTypeOK
<1>4. CASE BeginResume
  BY <1>4, BeginResumeKeeps DEF BeginResume, TrimIsSafe
<1>5. CASE \E seqn \in 1 .. maxSent : Acknowledge(seqn)
  <2>1. PICK seqn \in 1 .. maxSent : Acknowledge(seqn)
    BY <1>5
  <2>2. seqn \in Nat /\ TrimIsSafe'
    BY <2>1 DEF Acknowledge, TrimIsSafe, Kept, BufferTypeOK
  <2> QED
    BY <2>1, <2>2, OtherStepsTyping, UnmovedKeeps DEF Kept
<1>6. CASE \E ok \in BOOLEAN : ResendOne(ok)
  <2>1. TrimIsSafe'
    BY <1>6 DEF ResendOne, TrimIsSafe
  <2> QED
    BY <1>6, <2>1, OtherStepsTyping, UnmovedKeeps DEF Kept
<1>7. CASE \/ StartProcess \/ ProcessDone \/ Exit
           \/ BeginPause \/ EndPause \/ EndResume \/ Stop \/ Cleanup
  <2>1. TrimIsSafe'
    BY <1>7 DEF StartProcess, ProcessDone, Exit, BeginPause, EndPause, EndResume, Stop,
                Cleanup, TrimIsSafe
  <2> QED
    BY <1>7, <2>1, OtherStepsTyping, UnmovedKeeps DEF Kept
<1> QED
  BY <1>1, <1>2, <1>3, <1>4, <1>5, <1>6, <1>7 DEF Next

LEMMA BufferStutter ==
  ASSUME Kept, TrimIsSafe, UNCHANGED bufferVars PROVE Kept' /\ TrimIsSafe'
BY DEF Kept, BufferTypeOK, NothingForgotten, TrimIsSafe, bufferVars

\* The buffer by itself forgets nothing and never pops an empty queue, for any
\* processor and any acknowledgements of what it was given.
THEOREM BufferForgetsNothing == Spec => [](NothingForgotten /\ TrimIsSafe)
<1>1. Init => Kept /\ TrimIsSafe
  BY InitKeeps
<1>2. Kept /\ TrimIsSafe /\ [Next]_bufferVars => Kept' /\ TrimIsSafe'
  BY BufferStep, BufferStutter
<1>3. Kept /\ TrimIsSafe => NothingForgotten /\ TrimIsSafe
  BY DEF Kept
<1> QED
  BY <1>1, <1>2, <1>3, PTL DEF Spec

-------------------------------------------------------------------------------
(***************************************************************************)
(* The wire: what is on its way carries numbers that have been used.       *)
(***************************************************************************)
Package == [seqn : 1 .. maxSent, message : Nat]

\* Whatever is on its way carries a number that has been used, in both directions; and
\* nothing is left of a sender that starts anew.
OnTheWay ==
  /\ toReceiver \in Seq(Package)
  /\ toSender \in Seq(1 .. maxSent)
  /\ link = "up" => peer = "open"
  /\ peer = "idle" => toReceiver = << >>

Inv == Kept /\ TrimIsSafe /\ OnTheWay

-------------------------------------------------------------------------------
\* Every step of the wire is a step of the buffer by itself, leaves the buffer alone, or
\* is a restart of the sender.
LEMMA WireStepsTheBuffer ==
  ASSUME Inv, [WireNext]_wireVars
  PROVE  Next \/ UNCHANGED bufferVars \/ SenderRestarts
<1>1. CASE Application
  BY <1>1 DEF Application, Next
<1>2. CASE Thread
  BY <1>2 DEF Thread, Next
<1>3. CASE Process
  BY <1>3 DEF Process, Next
<1>4. CASE Resume \/ Resend \/ ResendDone
  BY <1>4 DEF Resume, Resend, ResendDone, Next
<1>5. CASE ReadAck
  <2>1. Head(toSender) \in 1 .. maxSent
    BY <1>5, HeadTailProperties DEF ReadAck, Inv, OnTheWay
  <2> QED
    BY <1>5, <2>1 DEF ReadAck, Next
<1>6. CASE Disconnect \/ Disconnected \/ Terminate
  BY <1>6 DEF Disconnect, Disconnected, Terminate, Next
<1>7. CASE Connect \/ Receive \/ PeerDisconnect \/ Drop
  BY <1>7 DEF Connect, Receive, PeerDisconnect, Drop
<1>8. CASE UNCHANGED wireVars
  BY <1>8 DEF wireVars
<1> QED
  BY <1>1, <1>2, <1>3, <1>4, <1>5, <1>6, <1>7, <1>8 DEF WireNext

\* A sender that starts anew has an empty buffer.
LEMMA RestartKeeps == ASSUME Inv, SenderRestarts PROVE Inv'
<1>1. /\ put' = 0 /\ state' = "AsyncProcessing"
      /\ data' = << >> /\ queue' = << >> /\ pending' = << >>
      /\ maxSent' = 0 /\ current' = 1 /\ acked' = 0
      /\ balance' = 1 /\ resent' = 0 /\ thread' = "waiting" /\ owner' = "nobody"
      /\ toReceiver' = << >> /\ toSender' = << >>
      /\ link' = "cut" /\ peer' = "idle"
  BY DEF SenderRestarts, Inv, OnTheWay
<1>2. << >> \in Seq(Nat) /\ << >> \in Seq(1 .. 0) /\ Len(<< >>) = 0
      /\ << >> \in Seq([seqn : 1 .. 0, message : Nat])
  BY EmptySeq
<1>3. BufferTypeOK' /\ TrimIsSafe'
  BY <1>1, <1>2 DEF BufferTypeOK, TrimIsSafe
<1>4. NothingForgotten'
  <2>1. \A first \in Nat : Consecutive(<< >>, first)
    BY <1>2 DEF Consecutive
  <2> QED
    BY <1>1, <1>2, <2>1 DEF NothingForgotten
<1>5. OnTheWay'
  BY <1>1, <1>2 DEF OnTheWay, Package
<1> QED
  BY <1>3, <1>4, <1>5 DEF Inv, Kept

-------------------------------------------------------------------------------
\* Numbers are not taken back.
LEMMA MaxSentGrows ==
  ASSUME Kept, Next \/ UNCHANGED bufferVars
  PROVE  maxSent \in Nat /\ maxSent' \in {maxSent, maxSent + 1}
<1>1. maxSent \in Nat
  BY Counts
<1>2. CASE \E ok \in BOOLEAN : ProcessOne(ok)
  BY <1>1, <1>2 DEF ProcessOne
<1>3. CASE Put \/ Grab \/ StartProcess \/ ProcessDone \/ Exit \/ Stop \/ Cleanup
  BY <1>1, <1>3 DEF Put, Grab, StartProcess, ProcessDone, Exit, Stop, Cleanup
<1>4. CASE BeginPause \/ EndPause \/ BeginResume \/ EndResume
  BY <1>1, <1>4 DEF BeginPause, EndPause, BeginResume, EndResume
<1>5. CASE \E ok \in BOOLEAN : ResendOne(ok)
  BY <1>1, <1>5 DEF ResendOne
<1>6. CASE \E seqn \in 1 .. maxSent : Acknowledge(seqn)
  BY <1>1, <1>6 DEF Acknowledge
<1>7. CASE UNCHANGED bufferVars
  BY <1>1, <1>7 DEF bufferVars
<1> QED
  BY <1>1, <1>2, <1>3, <1>4, <1>5, <1>6, <1>7 DEF Next

\* So what was on its way stays within the numbers used.
LEMMA StillOnTheWay ==
  ASSUME Inv, Next \/ UNCHANGED bufferVars
  PROVE  toReceiver \in Seq(Package') /\ toSender \in Seq(1 .. maxSent')
<1>1. maxSent \in Nat /\ maxSent' \in {maxSent, maxSent + 1}
  BY MaxSentGrows DEF Inv
<1>2. 1 .. maxSent \subseteq 1 .. maxSent'
  BY <1>1
<1>3. Package \subseteq Package'
  BY <1>2 DEF Package
<1> QED
  BY <1>2, <1>3, SeqMonotonic DEF Inv, OnTheWay

\* send0 puts a package with a used number into a connection that someone reads.
LEMMA SendStaysOnTheWay ==
  ASSUME Inv, NEW message \in Nat, NEW seqn \in 1 .. maxSent', NEW ok \in BOOLEAN,
         Send0(message, seqn, ok), toReceiver \in Seq(Package')
  PROVE  toReceiver' \in Seq(Package') /\ (peer = "idle" => toReceiver' = << >>)
<1>1. CASE link = "up" /\ toReceiver' = Append(toReceiver, [seqn |-> seqn, message |-> message])
  <2>1. [seqn |-> seqn, message |-> message] \in Package'
    BY DEF Package
  <2> QED
    BY <1>1, <2>1, AppendProperties DEF Inv, OnTheWay
<1>2. CASE UNCHANGED toReceiver
  BY <1>2 DEF Inv, OnTheWay
<1> QED
  BY <1>1, <1>2 DEF Send0

\* A connection that breaks, or the end a reader has reached, takes nothing out of order.
LEMMA PrefixesTyped ==
  ASSUME NEW S, NEW s \in Seq(S), NEW t \in Prefixes(s) PROVE t \in Seq(S)
<1>1. PICK n \in 0 .. Len(s) : t = SubSeq(s, 1, n)
  BY LenProperties DEF Prefixes
<1>2. n \in Int /\ n <= Len(s) /\ Len(s) \in Nat
  BY LenProperties
<1>3. \A i \in 1 .. n : s[i] \in S
  BY <1>2, ElementOfSeq
<1> QED
  BY <1>1, <1>2, <1>3, SubSeqProperties

-------------------------------------------------------------------------------
\* The network half of every step but the restart.
LEMMA OnTheWayKeeps ==
  ASSUME Inv, [WireNext]_wireVars, Next \/ UNCHANGED bufferVars, ~SenderRestarts
  PROVE  OnTheWay'
<1>1. toReceiver \in Seq(Package') /\ toSender \in Seq(1 .. maxSent')
  BY StillOnTheWay
<1>2. link = "up" => peer = "open"
  BY DEF Inv, OnTheWay
<1>3. peer = "idle" => toReceiver = << >>
  BY DEF Inv, OnTheWay
<1>4. CASE UNCHANGED networkVars
  BY <1>1, <1>2, <1>3, <1>4 DEF OnTheWay, networkVars
<1>5. CASE Process
  <2>1. PICK ok \in BOOLEAN : ProcessOne(ok) /\ Send0(Head(queue), maxSent + 1, ok)
    BY <1>5 DEF Process
  <2>2. Head(queue) \in Nat
    BY <2>1, HeadTailProperties DEF ProcessOne, Inv, Kept, BufferTypeOK
  <2>3. UNCHANGED <<link, peer, toSender>>
    BY <1>5 DEF Process, receiverVars
  <2>4. CASE ok
    <3>1. maxSent + 1 \in 1 .. maxSent'
      BY <2>1, <2>4, MaxSentGrows DEF ProcessOne, Inv
    <3>2. toReceiver' \in Seq(Package') /\ (peer = "idle" => toReceiver' = << >>)
      BY <1>1, <2>1, <2>2, <3>1, SendStaysOnTheWay
    <3> QED
      BY <1>1, <1>2, <2>3, <3>2 DEF OnTheWay
  <2>5. CASE ~ok
    <3>1. UNCHANGED toReceiver
      BY <2>1, <2>5 DEF Send0
    <3> QED
      BY <1>1, <1>2, <1>3, <2>3, <3>1 DEF OnTheWay
  <2> QED
    BY <2>4, <2>5
<1>6. CASE Resend
  <2>1. PICK ok \in BOOLEAN : ResendOne(ok) /\ Send0(pending[resent + 1], current + resent, ok)
    BY <1>6 DEF Resend
  <2>2. /\ resent \in Nat /\ resent < Len(pending) /\ pending \in Seq(Nat)
        /\ current \in Nat \ {0} /\ maxSent' = maxSent
    BY <2>1 DEF ResendOne, Inv, Kept, BufferTypeOK
  <2>3. /\ maxSent \in Nat /\ Len(pending) \in Nat
        /\ current + Len(pending) = maxSent + 1
    BY Counts DEF Inv
  <2>4. pending[resent + 1] \in Nat /\ current + resent \in 1 .. maxSent'
    <3>1. resent + 1 \in 1 .. Len(pending) /\ current + resent \in 1 .. maxSent'
      BY <2>2, <2>3
    <3> QED
      BY <2>2, <3>1, ElementOfSeq
  <2>5. toReceiver' \in Seq(Package') /\ (peer = "idle" => toReceiver' = << >>)
    BY <1>1, <2>1, <2>4, SendStaysOnTheWay
  <2>6. UNCHANGED <<link, peer, toSender>>
    BY <1>6 DEF Resend, receiverVars
  <2> QED
    BY <1>1, <1>2, <2>5, <2>6 DEF OnTheWay
<1>7. CASE Connect
  BY <1>7, EmptySeq DEF Connect, OnTheWay
<1>8. CASE ReadAck
  BY <1>1, <1>2, <1>3, <1>8, HeadTailProperties DEF ReadAck, receiverVars, OnTheWay
<1>9. CASE ResendDone \/ Disconnected
  BY <1>1, <1>2, <1>3, <1>9 DEF ResendDone, Disconnected, receiverVars, OnTheWay
<1>10. CASE Receive
  <2>1. toReceiver # << >> /\ toReceiver' = Tail(toReceiver) /\ peer = "open"
        /\ UNCHANGED <<link, peer>> /\ SendAck(Head(toReceiver).seqn)
    BY <1>10 DEF Receive
  <2>2. toReceiver' \in Seq(Package') /\ Head(toReceiver) \in Package'
    BY <1>1, <2>1, HeadTailProperties
  <2>3. Head(toReceiver).seqn \in 1 .. maxSent'
    BY <2>2 DEF Package
  <2>4. toSender' \in Seq(1 .. maxSent')
    BY <1>1, <2>1, <2>3, AppendProperties DEF SendAck
  <2> QED
    BY <2>1, <2>2, <2>4 DEF OnTheWay
<1>11. CASE PeerDisconnect
  BY <1>1, <1>11 DEF PeerDisconnect, OnTheWay
<1>12. CASE Drop
  <2>1. toReceiver' \in Seq(Package') /\ toSender' \in Seq(1 .. maxSent')
    BY <1>1, <1>12, PrefixesTyped DEF Drop
  <2> QED
    BY <1>2, <1>12, <2>1 DEF Drop, receiverVars, OnTheWay
<1>13. CASE Terminate
  <2>1. UNCHANGED <<toReceiver, toSender, peer>> /\ link' \in {link, "cut"}
    BY <1>13 DEF Terminate, networkVars, receiverVars
  <2> QED
    BY <1>1, <1>2, <1>3, <2>1 DEF OnTheWay
<1>14. CASE Application \/ Thread \/ Resume \/ Disconnect
  BY <1>4, <1>14 DEF Application, Thread, Resume, Disconnect
<1>15. CASE UNCHANGED wireVars
  BY <1>4, <1>15 DEF wireVars, networkVars
<1> QED
  BY <1>5, <1>6, <1>7, <1>8, <1>9, <1>10, <1>11, <1>12, <1>13, <1>14, <1>15 DEF WireNext

-------------------------------------------------------------------------------
LEMMA InvInit == WireInit => Inv
<1> SUFFICES ASSUME WireInit PROVE Inv
  OBVIOUS
<1>1. Kept /\ TrimIsSafe
  BY InitKeeps DEF WireInit
<1>2. OnTheWay
  BY EmptySeq DEF WireInit, OnTheWay
<1> QED
  BY <1>1, <1>2 DEF Inv

LEMMA InvStep == Inv /\ [WireNext]_wireVars => Inv'
<1> SUFFICES ASSUME Inv, [WireNext]_wireVars PROVE Inv'
  OBVIOUS
<1>1. CASE SenderRestarts
  BY <1>1, RestartKeeps
<1>2. CASE ~SenderRestarts
  <2>1. Next \/ UNCHANGED bufferVars
    BY <1>2, WireStepsTheBuffer
  <2>2. OnTheWay'
    BY <1>2, <2>1, OnTheWayKeeps
  <2>3. Kept' /\ TrimIsSafe'
    BY <2>1, BufferStep, BufferStutter DEF Inv
  <2> QED
    BY <2>2, <2>3 DEF Inv
<1> QED
  BY <1>1, <1>2

\* Whatever the network and the receiver do, the buffer of a wire holds every message
\* that may still have to be sent, once and under one number for ever
\* (ByteBufferAsyncProcessor.cpp, process and reprocess).
THEOREM WireForgetsNothing == WireSpec => []NothingForgotten
<1>1. Inv => NothingForgotten
  BY DEF Inv, Kept
<1> QED
  BY <1>1, InvInit, InvStep, PTL DEF WireSpec

\* reprocess() never pops an empty pending_queue: whatever an acknowledgement says has
\* been sent (ByteBufferAsyncProcessor.cpp, reprocess and acknowledge).
THEOREM WireTrimsSafely == WireSpec => []TrimIsSafe
<1>1. Inv => TrimIsSafe
  BY DEF Inv
<1> QED
  BY <1>1, InvInit, InvStep, PTL DEF WireSpec

-------------------------------------------------------------------------------
(***************************************************************************)
(* Types.  The buffer is paused exactly while no connection is open, but   *)
(* for the step in which its end is noticed; and a package carries the     *)
(* message it is numbered for.                                             *)
(***************************************************************************)
Balanced ==
  /\ balance = IF conn = "open" /\ owner # "pause" THEN 0 ELSE 1
  /\ owner = "pause" => conn = "open" /\ link # "up"
  /\ owner = "resume" => conn = "attached" /\ thread # "processing" /\ resent <= Len(pending)
  /\ link = "up" => conn # "idle"
  /\ conn \in {"idle", "attached", "open"} /\ peer \in {"idle", "open"}
  /\ link \in {"none", "up", "cut"}
  /\ junk \in 0 .. Misframed /\ put <= MaxPut

Numbered == \A i \in 1 .. Len(toReceiver) : toReceiver[i].message = toReceiver[i].seqn

LEMMA BalancedKeeps == ASSUME Inv, Inv', Balanced, [WireNext]_wireVars PROVE Balanced'
<1> USE DEF Balanced
<1>1. Len(pending) \in Nat /\ Len(pending') \in Nat /\ put \in Nat /\ resent \in Nat
  BY LenProperties DEF Inv, Kept, BufferTypeOK
<1>2. CASE Application
  BY <1>1, <1>2, SendBufferAssumption DEF Application, Put, networkVars
<1>3. CASE Thread
  BY <1>1, <1>3 DEF Thread, Grab, StartProcess, ProcessDone, Exit, networkVars
<1>4. CASE Process
  BY <1>1, <1>4 DEF Process, ProcessOne, receiverVars
<1>5. CASE Connect
  BY <1>1, <1>5 DEF Connect, bufferVars
<1>6. CASE Resume
  BY <1>1, <1>6 DEF Resume, BeginResume, networkVars
<1>7. CASE Resend
  <2>1. PICK ok \in BOOLEAN : ResendOne(ok)
    BY <1>7 DEF Resend
  <2> QED
    BY <1>1, <1>7, <2>1 DEF Resend, ResendOne, Resumed, Opened, receiverVars
<1>8. CASE ResendDone
  BY <1>1, <1>8 DEF ResendDone, EndResume, Resumed, Opened, receiverVars
<1>9. CASE ReadAck
  BY <1>1, <1>9 DEF ReadAck, Acknowledge, receiverVars
<1>10. CASE Disconnect
  BY <1>1, <1>10 DEF Disconnect, BeginPause, networkVars
<1>11. CASE Disconnected
  BY <1>1, <1>11 DEF Disconnected, EndPause, receiverVars
<1>12. CASE Receive
  BY <1>1, <1>12 DEF Receive, bufferVars, Misframed
<1>13. CASE PeerDisconnect
  BY <1>1, <1>13 DEF PeerDisconnect, bufferVars, Misframed
<1>14. CASE Drop
  BY <1>1, <1>14 DEF Drop, bufferVars, receiverVars
<1>15. CASE SenderRestarts
  BY <1>1, <1>15, SendBufferAssumption DEF SenderRestarts
<1>16. CASE Terminate
  BY <1>1, <1>16 DEF Terminate, Stop, Cleanup, networkVars, receiverVars
<1>17. CASE UNCHANGED wireVars
  BY <1>1, <1>17 DEF wireVars, bufferVars
<1> QED
  BY <1>2, <1>3, <1>4, <1>5, <1>6, <1>7, <1>8, <1>9, <1>10, <1>11, <1>12, <1>13, <1>14,
     <1>15, <1>16, <1>17 DEF WireNext

\* What a sequence of packages is after one more, one fewer, or a cut.
LEMMA PackageAppended ==
  ASSUME NEW S, NEW s \in Seq(S), NEW p \in S
  PROVE  /\ Len(Append(s, p)) = Len(s) + 1 /\ Append(s, p) # << >>
         /\ \A i \in 1 .. Len(s) : Append(s, p)[i] = s[i]
         /\ Append(s, p)[Len(s) + 1] = p
         /\ Len(s) \in Nat /\ (s = << >> <=> Len(s) = 0)
  BY AppendProperties, LenProperties, EmptySeq

LEMMA PackageTaken ==
  ASSUME NEW S, NEW s \in Seq(S), s # << >>
  PROVE  /\ Len(s) \in Nat \ {0} /\ Len(Tail(s)) = Len(s) - 1
         /\ \A i \in 1 .. Len(s) - 1 : Tail(s)[i] = s[i + 1]
         /\ Head(s) = s[1] /\ s[1] \in S
         /\ (Tail(s) = << >> <=> Len(s) = 1)
<1>1. /\ Tail(s) \in Seq(S) /\ Len(Tail(s)) = Len(s) - 1
      /\ \A i \in 1 .. Len(Tail(s)) : Tail(s)[i] = s[i + 1]
      /\ Head(s) \in S /\ Head(s) = s[1]
  BY HeadTailProperties
<1>2. Len(s) \in Nat \ {0}
  BY LenProperties, EmptySeq
<1>3. Tail(s) = << >> <=> Len(Tail(s)) = 0
  BY <1>1, EmptySeq
<1> QED
  BY <1>1, <1>2, <1>3

LEMMA PackagesCut ==
  ASSUME NEW S, NEW s \in Seq(S), NEW t \in Prefixes(s)
  PROVE  /\ Len(t) \in Nat /\ Len(s) \in Nat /\ Len(t) <= Len(s)
         /\ \A i \in 1 .. Len(t) : t[i] = s[i]
         /\ (t = << >> <=> Len(t) = 0) /\ (s = << >> <=> Len(s) = 0)
<1>1. PICK n \in 0 .. Len(s) : t = SubSeq(s, 1, n)
  BY LenProperties DEF Prefixes
<1>2. n \in Int /\ 0 <= n /\ n <= Len(s) /\ Len(s) \in Nat
  BY LenProperties
<1>3. \A i \in 1 .. n : s[i] \in S
  BY <1>2, ElementOfSeq
<1>4. /\ SubSeq(s, 1, n) \in Seq(S)
      /\ Len(SubSeq(s, 1, n)) = IF 1 <= n THEN n - 1 + 1 ELSE 0
      /\ \A i \in 1 .. n - 1 + 1 : SubSeq(s, 1, n)[i] = s[1 + i - 1]
  BY <1>2, <1>3, SubSeqProperties
<1>5. Len(t) = n /\ \A i \in 1 .. n : t[i] = s[i]
  BY <1>1, <1>2, <1>4
<1> QED
  BY <1>1, <1>2, <1>4, <1>5, EmptySeq

\* process() and reprocess() put the message into the connection that its number says.
LEMMA SentUnderItsNumber ==
  ASSUME Inv
  PROVE  /\ \A ok \in BOOLEAN : ProcessOne(ok) => Head(queue) = maxSent + 1
         /\ \A ok \in BOOLEAN : ResendOne(ok) => pending[resent + 1] = current + resent
<1>1. Kept
  BY DEF Inv
<1>2. ASSUME NEW ok \in BOOLEAN, ProcessOne(ok) PROVE Head(queue) = maxSent + 1
  <2>1. /\ queue \in Seq(Nat) /\ queue # << >> /\ maxSent + 1 \in Nat
        /\ Consecutive(queue, maxSent + 1)
    BY <1>1, <1>2 DEF Kept, BufferTypeOK, NothingForgotten, ProcessOne
  <2> QED
    BY <2>1, TailConsecutive
<1>3. ASSUME NEW ok \in BOOLEAN, ResendOne(ok) PROVE pending[resent + 1] = current + resent
  <2>1. resent \in Nat /\ resent < Len(pending) /\ Consecutive(pending, current)
    BY <1>1, <1>3 DEF Kept, BufferTypeOK, NothingForgotten, ResendOne
  <2>2. current \in Nat /\ Len(pending) \in Nat
    BY <1>1, Counts
  <2>3. resent + 1 \in 1 .. Len(pending)
    BY <2>1, <2>2
  <2>4. pending[resent + 1] = current - 1 + (resent + 1)
    BY <2>1, <2>3 DEF Consecutive
  <2> QED
    BY <2>1, <2>2, <2>4
<1> QED
  BY <1>2, <1>3

\* send0 with a message under its own number.
LEMMA SendNumbered ==
  ASSUME Inv, Numbered, NEW n \in Nat, NEW ok \in BOOLEAN, Send0(n, n, ok)
  PROVE  Numbered'
<1>1. CASE link = "up" /\ toReceiver' = Append(toReceiver, [seqn |-> n, message |-> n])
  <2> DEFINE S == [seqn : Nat, message : Nat]
  <2>1. toReceiver \in Seq(S)
    <3>1. maxSent \in Nat
      BY Counts DEF Inv
    <3>2. Package \subseteq S
      BY <3>1 DEF Package
    <3> QED
      BY <3>2, SeqMonotonic DEF Inv, OnTheWay
  <2>2. PICK p \in S : p = [seqn |-> n, message |-> n]
    OBVIOUS
  <2>3. toReceiver' = Append(toReceiver, p) /\ p.message = p.seqn
    BY <1>1, <2>2
  <2> HIDE DEF S
  <2> QED
    BY <2>1, <2>3, PackageAppended DEF Numbered
<1>2. CASE UNCHANGED toReceiver
  BY <1>2 DEF Numbered
<1> QED
  BY <1>1, <1>2 DEF Send0

LEMMA NumberedKeeps == ASSUME Inv, Inv', Numbered, [WireNext]_wireVars PROVE Numbered'
<1>1. CASE UNCHANGED toReceiver
  BY <1>1 DEF Numbered
<1>2. CASE Process
  <2>1. PICK ok \in BOOLEAN : ProcessOne(ok) /\ Send0(Head(queue), maxSent + 1, ok)
    BY <1>2 DEF Process
  <2>2. Head(queue) = maxSent + 1 /\ maxSent + 1 \in Nat
    BY <2>1, SentUnderItsNumber, Counts DEF Inv
  <2> QED
    BY <2>1, <2>2, SendNumbered
<1>3. CASE Resend
  <2>1. PICK ok \in BOOLEAN : ResendOne(ok) /\ Send0(pending[resent + 1], current + resent, ok)
    BY <1>3 DEF Resend
  <2>2. pending[resent + 1] = current + resent /\ current + resent \in Nat
    BY <2>1, SentUnderItsNumber DEF Inv, Kept, BufferTypeOK
  <2> QED
    BY <2>1, <2>2, SendNumbered
<1>4. CASE Connect
  BY <1>4, EmptySeq DEF Connect, Numbered
<1>5. CASE Receive
  <2>1. toReceiver \in Seq(Package) /\ toReceiver # << >> /\ toReceiver' = Tail(toReceiver)
    BY <1>5 DEF Receive, Inv, OnTheWay
  <2> QED
    BY <2>1, PackageTaken DEF Numbered
<1>6. CASE Drop
  <2>1. toReceiver \in Seq(Package) /\ toReceiver' \in Prefixes(toReceiver)
    BY <1>6 DEF Drop, Inv, OnTheWay
  <2> QED
    BY <2>1, PackagesCut DEF Numbered
<1>7. CASE Application \/ Thread \/ Resume \/ Disconnect
  BY <1>1, <1>7 DEF Application, Thread, Resume, Disconnect, networkVars
<1>8. CASE ResendDone \/ ReadAck \/ Disconnected
  BY <1>1, <1>8 DEF ResendDone, ReadAck, Disconnected, receiverVars
<1>9. CASE PeerDisconnect \/ SenderRestarts \/ Terminate
  BY <1>1, <1>9 DEF PeerDisconnect, SenderRestarts, Terminate, networkVars
<1>10. CASE UNCHANGED wireVars
  BY <1>1, <1>10 DEF wireVars
<1> QED
  BY <1>2, <1>3, <1>4, <1>5, <1>6, <1>7, <1>8, <1>9, <1>10 DEF WireNext

LEMMA WireTypes == WireSpec => [](Inv /\ Balanced /\ Numbered)
<1>1. WireInit => Balanced /\ Numbered
  BY SendBufferAssumption, EmptySeq DEF WireInit, Init, Balanced, Numbered, Misframed
<1>2. /\ Inv /\ Balanced /\ Numbered /\ [WireNext]_wireVars
      => (Inv /\ Balanced /\ Numbered)'
  BY InvStep, BalancedKeeps, NumberedKeeps
<1> QED
  BY <1>1, <1>2, InvInit, PTL DEF WireSpec

\* Every variable of the wire keeps its type, for any number of messages and of lost
\* connections: the buffer is paused once at most, and no package carries a message that
\* was never put (SocketWire.cpp, ByteBufferAsyncProcessor.cpp).
THEOREM WireTypeCorrect == WireSpec => []WireTypeOK
<1>1. Inv /\ Balanced /\ Numbered => WireTypeOK
  <2> SUFFICES ASSUME Inv, Balanced, Numbered PROVE WireTypeOK
    OBVIOUS
  <2>1. BufferTypeOK /\ maxSent \in Nat /\ maxSent <= MaxPut
    <3>1. BufferTypeOK /\ maxSent <= put
      BY Counts DEF Inv, Kept
    <3> QED
      BY <3>1, Counts, SendBufferAssumption DEF Inv, Balanced, Kept
  <2>2. ASSUME NEW i \in DOMAIN toReceiver
        PROVE  toReceiver[i] \in [seqn : Nat \ {0}, message : 1 .. MaxPut]
    <3>1. i \in 1 .. Len(toReceiver) /\ toReceiver[i] \in Package
      BY LenProperties, ElementOfSeq DEF Inv, OnTheWay
    <3>2. toReceiver[i].message = toReceiver[i].seqn
      BY <3>1 DEF Numbered
    <3> QED
      BY <2>1, <3>1, <3>2, SendBufferAssumption DEF Package
  <2>3. ASSUME NEW i \in DOMAIN toSender PROVE toSender[i] \in Nat \ {0}
    <3>1. toSender \in Seq(1 .. maxSent)
      BY DEF Inv, OnTheWay
    <3>2. i \in 1 .. Len(toSender) /\ toSender[i] \in 1 .. maxSent
      BY <3>1, LenProperties, ElementOfSeq
    <3> QED
      BY <2>1, <3>2
  <2> QED
    BY <2>1, <2>2, <2>3 DEF Balanced, WireTypeOK
<1> QED
  BY <1>1, WireTypes, PTL

-------------------------------------------------------------------------------
(***************************************************************************)
(* In order, without a gap, when the send thread is prompt.  Everything    *)
(* rests on three positions that stay level while a connection lasts:      *)
(* acknowledgements on their way go on where the sender has read them,     *)
(* packages on their way go on where the receiver has acknowledged, and    *)
(* what is sent next goes on where the packages end.  A new connection     *)
(* begins behind the last acknowledgement, so at or before what the        *)
(* receiver has.                                                           *)
(***************************************************************************)
\* What is sent next on a connection that lasts.
NextToSend ==
  IF conn = "open" THEN maxSent + 1
  ELSE IF owner = "resume" THEN current + resent ELSE acked + 1

\* What the receiver reads next on it.
NextToRead == acked + Len(toSender) + 1

\* What Prompt is for: no new message goes out before the old ones are repeated.
Calm == conn = "attached" => thread \in {"waiting", "exited"}

Trimmed == current <= acked + 1 /\ (owner = "resume" => current = acked + 1)

\* Acknowledgements come one after the other, and only of what has been heard.
AcksFollow ==
  /\ Consecutive(toSender, acked + 1)
  /\ acked + Len(toSender) >= 1 => heard # {} /\ acked + Len(toSender) <= maxReceived

\* max_received_seqn may be a former sender's until the present one is heard.
HeardUpTo == heard # {} => maxReceived >= 1 /\ 1 .. maxReceived \subseteq heard

PackagesFollow ==
  /\ \A i \in 1 .. Len(toReceiver) : toReceiver[i].seqn = toReceiver[1].seqn + i - 1
  /\ toReceiver # << >> =>
       /\ NextToRead <= toReceiver[1].seqn
       /\ toReceiver[1].seqn > 1 => heard # {} /\ toReceiver[1].seqn <= maxReceived + 1
  /\ link = "up" =>
       /\ NextToRead + Len(toReceiver) = NextToSend
       /\ toReceiver # << >> => toReceiver[1].seqn = NextToRead

GotLast == junk # Misframed => got = maxReceived

Streams ==
  /\ Calm /\ Trimmed /\ AcksFollow /\ HeardUpTo /\ PackagesFollow /\ GotLast
  /\ maxReceived \in Nat

Ordered == Inv /\ Balanced /\ Numbered /\ Streams

\* The numbers these are about.
LEMMA Numbers ==
  ASSUME Ordered
  PROVE  /\ acked \in Nat /\ current \in Nat \ {0} /\ maxSent \in Nat /\ resent \in Nat
         /\ Len(toSender) \in Nat /\ Len(toReceiver) \in Nat /\ Len(pending) \in Nat
         /\ maxReceived \in Nat /\ put \in Nat /\ maxSent <= put
         /\ current + Len(pending) = maxSent + 1
         /\ toReceiver = << >> <=> Len(toReceiver) = 0
         /\ toSender = << >> <=> Len(toSender) = 0
         /\ \A i \in 1 .. Len(toReceiver) : toReceiver[i].seqn \in 1 .. maxSent
<1>1. Kept /\ toReceiver \in Seq(Package) /\ toSender \in Seq(1 .. maxSent)
  BY DEF Ordered, Inv, OnTheWay
<1>2. \A i \in 1 .. Len(toReceiver) : toReceiver[i] \in Package
  BY <1>1, ElementOfSeq
<1>3. acked \in Nat /\ current \in Nat \ {0} /\ resent \in Nat
  BY <1>1 DEF Kept, BufferTypeOK
<1>4. Len(data) \in Nat /\ Len(queue) \in Nat /\ maxSent + Len(queue) + Len(data) = put
      /\ maxSent \in Nat /\ put \in Nat /\ Len(pending) \in Nat
      /\ current + Len(pending) = maxSent + 1
  BY <1>1, Counts
<1>5. maxSent <= put
  BY <1>4
<1>6. /\ Len(toSender) \in Nat /\ Len(toReceiver) \in Nat
      /\ toReceiver = << >> <=> Len(toReceiver) = 0
      /\ toSender = << >> <=> Len(toSender) = 0
  BY <1>1, LenProperties, EmptySeq
<1>7. \A i \in 1 .. Len(toReceiver) : toReceiver[i].seqn \in 1 .. maxSent
  BY <1>2 DEF Package
<1> QED
  BY <1>3, <1>4, <1>5, <1>6, <1>7 DEF Ordered, Streams

LEMMA StreamsInit == ASSUME WireInit PROVE Streams
<1>1. Len(<< >>) = 0
  BY EmptySeq
<1> QED
  BY <1>1 DEF WireInit, Init, Streams, Calm, Trimmed, AcksFollow, Consecutive, HeardUpTo,
              PackagesFollow, NextToRead, NextToSend, GotLast

\* A package that continues the stream.
LEMMA SendKeeps ==
  ASSUME Ordered, NEW n \in Nat, Send0(n, n, TRUE), link = "up", conn # "idle",
         n = NextToSend, n <= maxSent'
  PROVE  /\ Len(toReceiver') = Len(toReceiver) + 1
         /\ \A i \in 1 .. Len(toReceiver') : toReceiver'[i].seqn = toReceiver'[1].seqn + i - 1
         /\ toReceiver'[1].seqn = NextToRead
<1> DEFINE S == [seqn : Nat, message : Nat]
<1>1. toReceiver \in Seq(S)
  <2>1. maxSent \in Nat
    BY Numbers
  <2>2. Package \subseteq S
    BY <2>1 DEF Package
  <2> QED
    BY <2>2, SeqMonotonic DEF Ordered, Inv, OnTheWay
<1>2. PICK p \in S : p = [seqn |-> n, message |-> n]
  OBVIOUS
<1>3. toReceiver' = Append(toReceiver, p) /\ p.seqn = n
  BY <1>2 DEF Send0
<1> HIDE DEF S
<1>4. /\ Len(toReceiver') = Len(toReceiver) + 1 /\ Len(toReceiver) \in Nat
      /\ \A i \in 1 .. Len(toReceiver) : toReceiver'[i] = toReceiver[i]
      /\ toReceiver'[Len(toReceiver) + 1] = p
  BY <1>1, <1>3, PackageAppended
<1>5. /\ \A i \in 1 .. Len(toReceiver) : toReceiver[i].seqn = toReceiver[1].seqn + i - 1
      /\ NextToRead + Len(toReceiver) = n /\ NextToRead \in Nat
      /\ Len(toReceiver) # 0 => toReceiver[1].seqn = NextToRead
  BY Numbers DEF Ordered, Streams, PackagesFollow, NextToRead
<1>6. toReceiver'[1].seqn = NextToRead
  <2>1. CASE Len(toReceiver) = 0
    BY <1>3, <1>4, <1>5, <2>1
  <2>2. CASE Len(toReceiver) # 0
    <3>1. 1 \in 1 .. Len(toReceiver)
      BY <1>4, <2>2
    <3> QED
      BY <1>4, <1>5, <2>2, <3>1
  <2> QED
    BY <2>1, <2>2
<1>7. ASSUME NEW i \in 1 .. Len(toReceiver) + 1
      PROVE  toReceiver'[i].seqn = NextToRead + i - 1
  <2>1. CASE i = Len(toReceiver) + 1
    BY <1>3, <1>4, <1>5, <2>1
  <2>2. CASE i # Len(toReceiver) + 1
    <3>1. i \in 1 .. Len(toReceiver) /\ Len(toReceiver) # 0
      BY <1>4, <2>2
    <3> QED
      BY <1>4, <1>5, <3>1
  <2> QED
    BY <2>1, <2>2
<1> QED
  BY <1>4, <1>6, <1>7

\* A step that moves nothing on the wire.
LEMMA QuietKeeps ==
  ASSUME Ordered, UNCHANGED <<acked, toReceiver, toSender, maxReceived, got, heard>>,
         Calm', Trimmed', GotLast', link' = "up" => link = "up" /\ NextToSend' = NextToSend
  PROVE  Streams'
<1>1. Streams
  BY DEF Ordered
<1>2. AcksFollow' /\ HeardUpTo' /\ maxReceived' \in Nat
  BY <1>1 DEF Streams, AcksFollow, Consecutive, HeardUpTo
<1>3. NextToRead' = NextToRead
  BY DEF NextToRead
<1>4. PackagesFollow'
  BY <1>1, <1>3 DEF Streams, PackagesFollow
<1> QED
  BY <1>2, <1>4 DEF Streams

\* A step that sends what is to be sent next.
LEMMA SentKeeps ==
  ASSUME Ordered, NEW n \in Nat, Send0(n, n, TRUE), link = "up", conn # "idle",
         n = NextToSend, n <= maxSent', NextToSend' = n + 1,
         UNCHANGED <<link, acked, toSender, maxReceived, junk, got, heard>>,
         Calm', Trimmed'
  PROVE  Streams'
<1>1. Streams
  BY DEF Ordered
<1>2. AcksFollow' /\ HeardUpTo' /\ GotLast' /\ maxReceived' \in Nat
  BY <1>1 DEF Streams, AcksFollow, Consecutive, HeardUpTo, GotLast
<1>3. NextToRead' = NextToRead /\ NextToRead = acked + Len(toSender) + 1
  BY DEF NextToRead
<1>4. /\ Len(toReceiver') = Len(toReceiver) + 1
      /\ \A i \in 1 .. Len(toReceiver') : toReceiver'[i].seqn = toReceiver'[1].seqn + i - 1
      /\ toReceiver'[1].seqn = NextToRead
  BY SendKeeps
<1>5. NextToRead + Len(toReceiver) = n
  BY <1>1 DEF Streams, PackagesFollow
<1>6. NextToRead > 1 => heard # {} /\ NextToRead <= maxReceived + 1
  BY <1>1, <1>3, Numbers DEF Streams, AcksFollow
<1>7. NextToRead \in Nat /\ Len(toReceiver) \in Nat /\ maxReceived \in Nat
  BY <1>3, Numbers
<1>8. NextToRead' + Len(toReceiver') = NextToSend'
  <2>1. NextToRead + (Len(toReceiver) + 1) = n + 1
    BY <1>5, <1>7
  <2> QED
    BY <1>3, <1>4, <2>1
<1>9. /\ NextToRead' <= toReceiver'[1].seqn
      /\ toReceiver'[1].seqn > 1 => heard' # {} /\ toReceiver'[1].seqn <= maxReceived' + 1
  BY <1>3, <1>4, <1>6, <1>7
<1>10. PackagesFollow'
  BY <1>3, <1>4, <1>8, <1>9 DEF PackagesFollow
<1> QED
  BY <1>2, <1>10 DEF Streams

LEMMA ProcessInOrder == ASSUME Ordered, Inv', Process PROVE Streams'
<1>1. PICK ok \in BOOLEAN : ProcessOne(ok) /\ Send0(Head(queue), maxSent + 1, ok)
  BY DEF Process
<1>2. UNCHANGED <<link, drops, conn, toSender, peer, maxReceived, junk, got, heard,
                  current, acked, balance, resent, owner>>
  BY <1>1 DEF Process, ProcessOne, receiverVars
<1>3. Streams /\ Balanced /\ thread = "processing"
  BY <1>1 DEF Ordered, ProcessOne
<1>4. Calm' /\ Trimmed' /\ GotLast'
  BY <1>1, <1>2, <1>3 DEF Calm, Streams, Trimmed, GotLast
<1>5. CASE ok /\ link = "up"
  <2>1. conn = "open"
    BY <1>3, <1>5 DEF Balanced, Streams, Calm
  <2>2. Head(queue) = maxSent + 1 /\ maxSent + 1 \in Nat /\ maxSent' = maxSent + 1
    <3>1. Head(queue) = maxSent + 1
      BY <1>1, SentUnderItsNumber DEF Ordered
    <3>2. maxSent' = maxSent + 1
      BY <1>1, <1>5 DEF ProcessOne
    <3> QED
      BY <3>1, <3>2, Numbers
  <2>3. NextToSend = maxSent + 1 /\ NextToSend' = maxSent + 1 + 1
    BY <1>2, <2>1, <2>2 DEF NextToSend
  <2>4. Send0(maxSent + 1, maxSent + 1, TRUE)
    BY <1>1, <1>5, <2>2
  <2>5. maxSent + 1 <= maxSent'
    BY <2>2
  <2> QED
    BY <1>2, <1>4, <1>5, <2>1, <2>2, <2>3, <2>4, <2>5, SentKeeps
<1>6. CASE ~(ok /\ link = "up")
  <2>1. UNCHANGED toReceiver /\ link # "up"
    BY <1>1, <1>6 DEF Send0
  <2> QED
    BY <1>2, <1>4, <2>1, QuietKeeps
<1> QED
  BY <1>5, <1>6

LEMMA ResendInOrder == ASSUME Ordered, Inv', Resend PROVE Streams'
<1>1. PICK ok \in BOOLEAN : ResendOne(ok) /\ Send0(pending[resent + 1], current + resent, ok)
  BY DEF Resend
<1>2. UNCHANGED <<link, drops, toSender, peer, maxReceived, junk, got, heard,
                  maxSent, current, acked, thread>>
  BY <1>1 DEF Resend, ResendOne, receiverVars
<1>3. Streams /\ Balanced /\ owner = "resume" /\ resent < Len(pending)
  BY <1>1 DEF Ordered, ResendOne
<1>4. conn = "attached" /\ owner' \in {"resume", "nobody"}
      /\ conn' = IF owner' = "nobody" THEN "open" ELSE conn
  BY <1>1, <1>3 DEF Balanced, Resend, ResendOne, Resumed, Opened
<1>5. Calm' /\ Trimmed' /\ GotLast'
  BY <1>2, <1>3, <1>4 DEF Calm, Streams, Trimmed, GotLast
<1>6. CASE ok /\ link = "up"
  <2>1. /\ pending[resent + 1] = current + resent /\ current + resent \in Nat
        /\ owner' = "resume" /\ conn' = conn /\ resent' = resent + 1
    <3>1. pending[resent + 1] = current + resent
      BY <1>1, SentUnderItsNumber DEF Ordered
    <3>2. owner' = owner /\ resent' = resent + 1
      BY <1>1, <1>6 DEF ResendOne
    <3>3. conn' = conn
      BY <1>3, <1>4, <3>2
    <3> QED
      BY <1>3, <3>1, <3>2, <3>3, Numbers
  <2>2. current + resent <= maxSent'
    BY <1>2, <1>3, Numbers
  <2>3. NextToSend = current + resent
    BY <1>3, <1>4 DEF NextToSend
  <2>4. NextToSend' = current + resent + 1
    BY <1>2, <1>4, <2>1, Numbers DEF NextToSend
  <2>5. Send0(current + resent, current + resent, TRUE)
    BY <1>1, <1>6, <2>1
  <2> QED
    BY <1>2, <1>4, <1>5, <1>6, <2>1, <2>2, <2>3, <2>4, <2>5, SentKeeps
<1>7. CASE ~(ok /\ link = "up")
  <2>1. UNCHANGED toReceiver /\ link # "up"
    BY <1>1, <1>7 DEF Send0
  <2> QED
    BY <1>2, <1>5, <2>1, QuietKeeps
<1> QED
  BY <1>6, <1>7

LEMMA ConnectionInOrder ==
  ASSUME Ordered, (Connect /\ Prompt) \/ Resume \/ ResendDone
  PROVE  Streams'
<1>1. Streams /\ Balanced
  BY DEF Ordered
<1>2. CASE Connect /\ Prompt
  <2>1. /\ UNCHANGED <<maxSent, current, acked, resent, thread, owner, maxReceived, junk, got, heard>>
        /\ conn = "idle" /\ conn' = "attached"
        /\ toReceiver' = << >> /\ toSender' = << >> /\ thread \in {"waiting", "exited"}
    BY <1>2 DEF Connect, Prompt, bufferVars
  <2>2. owner \notin {"pause", "resume"}
    BY <1>1, <2>1 DEF Balanced
  <2>3. Len(<< >>) = 0
    BY EmptySeq
  <2>4. Calm' /\ Trimmed' /\ HeardUpTo' /\ GotLast' /\ maxReceived' \in Nat
    BY <1>1, <2>1 DEF Streams, Calm, Trimmed, HeardUpTo, GotLast
  <2>5. NextToRead' = acked + 0 + 1 /\ NextToSend' = acked + 1
    BY <2>1, <2>2, <2>3 DEF NextToRead, NextToSend
  <2>6. PackagesFollow'
    BY <2>1, <2>3, <2>5, Numbers DEF PackagesFollow
  <2>7. acked >= 1 => heard # {} /\ acked <= maxReceived
    BY <1>1, Numbers DEF Streams, AcksFollow
  <2>8. AcksFollow'
    BY <2>1, <2>3, <2>7, Numbers DEF AcksFollow, Consecutive
  <2> QED
    BY <2>4, <2>6, <2>8 DEF Streams
<1>3. CASE Resume
  <2>1. /\ UNCHANGED <<maxSent, acked, thread, link, conn, toReceiver, toSender,
                       maxReceived, junk, got, heard>>
        /\ conn = "attached" /\ owner = "nobody" /\ owner' = "resume" /\ resent' = 0
        /\ current' = IF current <= acked THEN acked + 1 ELSE current
    BY <1>3 DEF Resume, BeginResume, Trim, networkVars
  <2>2. current' = acked + 1
    BY <1>1, <2>1, Numbers DEF Streams, Trimmed
  <2>3. NextToSend' = NextToSend
    BY <2>1, <2>2, Numbers DEF NextToSend
  <2>4. Calm' /\ Trimmed' /\ GotLast'
    BY <1>1, <2>1, <2>2, Numbers DEF Streams, Calm, Trimmed, GotLast
  <2> QED
    BY <2>1, <2>3, <2>4, QuietKeeps
<1>4. CASE ResendDone
  <2>1. /\ UNCHANGED <<maxSent, current, acked, thread, link, toReceiver, toSender,
                       maxReceived, junk, got, heard>>
        /\ owner = "resume" /\ owner' = "nobody" /\ conn' = "open" /\ resent = Len(pending)
    BY <1>4 DEF ResendDone, EndResume, Resumed, Opened, receiverVars
  <2>2. NextToSend' = NextToSend
    BY <1>1, <2>1, Numbers DEF NextToSend, Balanced
  <2>3. Calm' /\ Trimmed' /\ GotLast'
    BY <1>1, <2>1 DEF Streams, Calm, Trimmed, GotLast
  <2> QED
    BY <2>1, <2>2, <2>3, QuietKeeps
<1> QED
  BY <1>2, <1>3, <1>4

LEMMA SilenceInOrder ==
  ASSUME Ordered, \/ Application \/ Thread \/ Disconnect \/ Disconnected \/ Terminate
                  \/ PeerDisconnect \/ UNCHANGED wireVars
  PROVE  Streams'
<1>1. Streams /\ Balanced
  BY DEF Ordered
<1>2. CASE Application \/ Disconnect
  <2>1. UNCHANGED <<maxSent, current, acked, resent, thread, networkVars>>
    BY <1>2 DEF Application, Put, Disconnect, BeginPause
  <2>2. owner' = owner \/ (owner' # "resume" /\ conn = "open")
    BY <1>2 DEF Application, Put, Disconnect, BeginPause
  <2>3. Calm' /\ Trimmed' /\ GotLast' /\ NextToSend' = NextToSend
    BY <1>1, <2>1, <2>2 DEF networkVars, Streams, Calm, Trimmed, GotLast, NextToSend
  <2> QED
    BY <2>1, <2>3, QuietKeeps DEF networkVars
<1>3. CASE Thread
  <2>1. UNCHANGED <<maxSent, current, acked, resent, owner, networkVars>>
    BY <1>3 DEF Thread, Grab, StartProcess, ProcessDone, Exit
  <2>2. \/ thread' \in {"waiting", "exited"} \/ balance = 0 \/ thread = "grabbed"
    BY <1>3 DEF Thread, Grab, StartProcess, ProcessDone, Exit
  <2>3. Calm'
    BY <1>1, <2>1, <2>2 DEF networkVars, Streams, Calm, Balanced
  <2>4. Trimmed' /\ GotLast' /\ NextToSend' = NextToSend
    BY <1>1, <2>1 DEF networkVars, Streams, Trimmed, GotLast, NextToSend
  <2> QED
    BY <2>1, <2>3, <2>4, QuietKeeps DEF networkVars
<1>4. CASE Disconnected
  <2>1. UNCHANGED <<maxSent, current, acked, resent, link, toReceiver, toSender,
                    maxReceived, junk, got, heard>>
        /\ owner = "pause" /\ owner' = "nobody" /\ conn' = "idle"
    BY <1>4 DEF Disconnected, EndPause, receiverVars
  <2>2. link # "up" /\ Calm' /\ Trimmed' /\ GotLast'
    BY <1>1, <2>1 DEF Streams, Calm, Trimmed, GotLast, Balanced
  <2> QED
    BY <2>1, <2>2, QuietKeeps
<1>5. CASE Terminate \/ UNCHANGED wireVars
  <2>1. /\ UNCHANGED <<maxSent, current, acked, resent, thread, owner, conn, toReceiver,
                       toSender, maxReceived, junk, got, heard>>
        /\ link' \in {link, "cut"}
    BY <1>5 DEF Terminate, Stop, Cleanup, networkVars, receiverVars, wireVars, bufferVars
  <2>2. Calm' /\ Trimmed' /\ GotLast' /\ NextToSend' = NextToSend
    BY <1>1, <2>1 DEF Streams, Calm, Trimmed, GotLast, NextToSend
  <2> QED
    BY <2>1, <2>2, QuietKeeps
<1>6. CASE PeerDisconnect
  <2>1. UNCHANGED <<bufferVars, link, conn, toReceiver, toSender, maxReceived, got, heard>>
        /\ junk' = IF junk = Misframed THEN Misframed ELSE 0
    BY <1>6 DEF PeerDisconnect
  <2>2. Calm' /\ Trimmed' /\ GotLast' /\ NextToSend' = NextToSend
    BY <1>1, <2>1 DEF bufferVars, Streams, Calm, Trimmed, GotLast, NextToSend
  <2> QED
    BY <2>1, <2>2, QuietKeeps DEF bufferVars
<1> QED
  BY <1>2, <1>3, <1>4, <1>5, <1>6

\* An acknowledgement that arrives is of the message after the last one acknowledged.
LEMMA AckIsNext ==
  ASSUME Ordered, ReadAck
  PROVE  /\ Head(toSender) = acked + 1 /\ acked' = acked + 1
         /\ Len(toSender') = Len(toSender) - 1
         /\ Consecutive(toSender', acked' + 1)
<1>1. toSender \in Seq(Nat) /\ toSender # << >> /\ toSender' = Tail(toSender)
  <2>1. 1 .. maxSent \subseteq Nat
    OBVIOUS
  <2> QED
    BY <2>1, SeqMonotonic DEF Ordered, Inv, OnTheWay, ReadAck
<1>2. acked + 1 \in Nat /\ acked \in Nat
  BY Numbers
<1>3. Consecutive(toSender, acked + 1)
  BY DEF Ordered, Streams, AcksFollow
<1>4. /\ Len(Tail(toSender)) = Len(toSender) - 1 /\ Head(toSender) = acked + 1
      /\ Consecutive(Tail(toSender), acked + 1 + 1)
  BY <1>1, <1>2, <1>3, TailConsecutive
<1>5. acked' = acked + 1
  BY <1>2, <1>4 DEF ReadAck, Acknowledge
<1> QED
  BY <1>1, <1>4, <1>5

LEMMA ReadAckInOrder == ASSUME Ordered, ReadAck PROVE Streams'
<1>1. Streams
  BY DEF Ordered
<1>2. /\ UNCHANGED <<maxSent, current, resent, thread, owner, link, conn, toReceiver,
                     maxReceived, junk, got, heard>>
      /\ owner = "nobody" /\ conn = "open"
  BY DEF ReadAck, Acknowledge, receiverVars
<1>3. /\ acked' = acked + 1 /\ Len(toSender') = Len(toSender) - 1
      /\ Consecutive(toSender', acked' + 1)
  BY AckIsNext
<1>4. /\ acked' + Len(toSender') = acked + Len(toSender) /\ current <= acked' + 1
      /\ acked' + Len(toSender') \in Nat
  <2>1. /\ acked \in Nat /\ Len(toSender) \in Nat /\ current \in Nat
        /\ current <= acked + 1
    BY <1>1, Numbers DEF Streams, Trimmed
  <2> QED
    BY <1>3, <2>1
<1>5. NextToRead' = NextToRead /\ NextToSend' = NextToSend
  BY <1>2, <1>4 DEF NextToRead, NextToSend
<1>6. Calm' /\ Trimmed' /\ GotLast' /\ HeardUpTo' /\ maxReceived' \in Nat
  BY <1>1, <1>2, <1>4 DEF Streams, Calm, Trimmed, GotLast, HeardUpTo
<1>7. AcksFollow'
  BY <1>1, <1>2, <1>3, <1>4 DEF Streams, AcksFollow
<1>8. PackagesFollow'
  BY <1>1, <1>2, <1>5 DEF Streams, PackagesFollow
<1> QED
  BY <1>6, <1>7, <1>8 DEF Streams

\* The package that is read, and where it stands.
LEMMA PackageRead ==
  ASSUME Ordered, Receive
  PROVE  LET n == Head(toReceiver).seqn
         IN  /\ n \in 1 .. maxSent /\ Head(toReceiver).message = n
             /\ n > 1 => heard # {} /\ n <= maxReceived + 1
             /\ link = "up" => n = NextToRead
             /\ NextToRead <= n
             /\ Len(toReceiver) \in Nat \ {0} /\ Len(toReceiver') = Len(toReceiver) - 1
             /\ \A i \in 1 .. Len(toReceiver') : toReceiver'[i].seqn = n + i
<1>1. toReceiver \in Seq(Package) /\ toReceiver # << >> /\ toReceiver' = Tail(toReceiver)
  BY DEF Receive, Ordered, Inv, OnTheWay
<1>2. /\ Len(toReceiver) \in Nat \ {0} /\ Len(Tail(toReceiver)) = Len(toReceiver) - 1
      /\ \A i \in 1 .. Len(toReceiver) - 1 : Tail(toReceiver)[i] = toReceiver[i + 1]
      /\ Head(toReceiver) = toReceiver[1] /\ toReceiver[1] \in Package
  BY <1>1, PackageTaken
<1>3. PICK n \in 1 .. maxSent : n = toReceiver[1].seqn
  BY <1>2 DEF Package
<1>4. n \in Nat \ {0}
  BY Numbers
<1>5. toReceiver[1].message = n
  BY <1>2, <1>3 DEF Ordered, Numbered
<1>6. /\ \A i \in 1 .. Len(toReceiver) : toReceiver[i].seqn = n + i - 1
      /\ NextToRead <= n
      /\ n > 1 => heard # {} /\ n <= maxReceived + 1
      /\ link = "up" => n = NextToRead
  BY <1>1, <1>3 DEF Ordered, Streams, PackagesFollow
<1>7. ASSUME NEW i \in 1 .. Len(toReceiver) - 1 PROVE Tail(toReceiver)[i].seqn = n + i
  <2>1. i + 1 \in 1 .. Len(toReceiver)
    BY <1>2
  <2>2. toReceiver[i + 1].seqn = n + (i + 1) - 1
    BY <1>6, <2>1
  <2> QED
    BY <1>2, <1>4, <2>2
<1> QED
  BY <1>1, <1>2, <1>3, <1>5, <1>6, <1>7

\* What the receiver makes of it: a duplicate it has, or the next one it lacks.
LEMMA PackageTakenUp ==
  ASSUME Ordered, Receive
  PROVE  LET n == Head(toReceiver).seqn
         IN  /\ maxReceived' \in Nat /\ n <= maxReceived' /\ heard' # {}
             /\ IsDuplicate(n) => n \in heard
             /\ ~IsDuplicate(n) => n = 1 \/ (n = maxReceived + 1 /\ maxReceived >= 1)
             /\ HeardUpTo' /\ GotLast'
<1> DEFINE n == Head(toReceiver).seqn
<1>1. /\ n \in Nat \ {0} /\ Head(toReceiver).message = n
      /\ n > 1 => heard # {} /\ n <= maxReceived + 1
      /\ maxReceived \in Nat
  <2>1. n \in 1 .. maxSent /\ Head(toReceiver).message = n
        /\ (n > 1 => heard # {} /\ n <= maxReceived + 1)
    BY PackageRead
  <2> QED
    BY <2>1, Numbers
<1>2. HeardUpTo /\ GotLast
  BY DEF Ordered, Streams
<1>3. IF IsDuplicate(n)
      THEN /\ junk' = IF junk < Misframed THEN junk + 1 ELSE junk
           /\ UNCHANGED <<maxReceived, got, heard>>
      ELSE /\ maxReceived' = n /\ heard' = heard \cup {n}
           /\ IF junk = 0 THEN got' = n /\ junk' = 0 ELSE junk' = Misframed /\ UNCHANGED got
  BY <1>1 DEF Receive
<1> HIDE DEF n
<1>4. CASE IsDuplicate(n)
  <2>1. n > 1 /\ n <= maxReceived
    BY <1>1, <1>4 DEF IsDuplicate
  <2>2. n \in heard
    BY <1>1, <1>2, <2>1 DEF HeardUpTo
  <2>3. HeardUpTo'
    BY <1>2, <1>3, <1>4 DEF HeardUpTo
  <2>4. GotLast'
    BY <1>2, <1>3, <1>4 DEF GotLast, Misframed
  <2> QED
    BY <1>1, <1>3, <1>4, <2>1, <2>2, <2>3, <2>4 DEF n
<1>5. CASE ~IsDuplicate(n)
  <2>1. n = 1 \/ (n = maxReceived + 1 /\ maxReceived >= 1)
    BY <1>1, <1>5 DEF IsDuplicate
  <2>2. 1 .. n \subseteq heard \cup {n}
    <3>1. CASE n = 1
      BY <3>1
    <3>2. CASE n = maxReceived + 1 /\ maxReceived >= 1
      <4>1. heard # {}
        BY <1>1, <3>2
      <4>2. 1 .. maxReceived \subseteq heard
        BY <1>2, <4>1 DEF HeardUpTo
      <4> QED
        BY <1>1, <3>2, <4>2
    <3> QED
      BY <2>1, <3>1, <3>2
  <2>3. HeardUpTo'
    BY <1>1, <1>3, <1>5, <2>2 DEF HeardUpTo
  <2>4. GotLast'
    BY <1>3, <1>5 DEF GotLast
  <2> QED
    BY <1>1, <1>3, <1>5, <2>1, <2>3, <2>4 DEF n
<1> QED
  BY <1>4, <1>5

LEMMA ReceiveInOrder == ASSUME Ordered, Receive PROVE Streams'
<1> DEFINE n == Head(toReceiver).seqn
<1>1. Streams
  BY DEF Ordered
<1>2. /\ UNCHANGED <<maxSent, current, acked, resent, thread, owner, link, conn>>
      /\ toSender' = IF link = "up" THEN Append(toSender, n) ELSE toSender
  BY DEF Receive, SendAck, bufferVars
<1>3. /\ n \in 1 .. maxSent
      /\ link = "up" => n = NextToRead
      /\ NextToRead <= n
      /\ Len(toReceiver) \in Nat \ {0} /\ Len(toReceiver') = Len(toReceiver) - 1
      /\ \A i \in 1 .. Len(toReceiver') : toReceiver'[i].seqn = n + i
  BY PackageRead
<1>4. /\ maxReceived' \in Nat /\ n <= maxReceived' /\ heard' # {}
      /\ HeardUpTo' /\ GotLast'
  BY PackageTakenUp
<1> HIDE DEF n
<1>5. /\ acked \in Nat /\ Len(toSender) \in Nat /\ maxSent \in Nat /\ n \in Nat \ {0}
      /\ NextToRead = acked + Len(toSender) + 1 /\ NextToRead \in Nat
  BY <1>3, Numbers DEF NextToRead
<1>6. Consecutive(toSender, acked + 1) /\ toSender \in Seq(Nat)
  <2>1. 1 .. maxSent \subseteq Nat
    OBVIOUS
  <2> QED
    BY <1>1, <2>1, SeqMonotonic DEF Streams, AcksFollow, Ordered, Inv, OnTheWay
<1>7. /\ Consecutive(toSender', acked + 1)
      /\ Len(toSender') = IF link = "up" THEN Len(toSender) + 1 ELSE Len(toSender)
  <2>1. CASE link = "up"
    <3>1. n = (acked + 1) + Len(toSender) /\ acked + 1 \in Nat
      BY <1>3, <1>5, <2>1
    <3> QED
      BY <1>2, <1>6, <2>1, <3>1, AppendConsecutive
  <2>2. CASE link # "up"
    BY <1>2, <1>6, <2>2
  <2> QED
    BY <2>1, <2>2
<1>8. NextToRead' = (IF link = "up" THEN n + 1 ELSE NextToRead) /\ NextToRead' <= n + 1
      /\ acked' + Len(toSender') <= n
  BY <1>2, <1>3, <1>5, <1>7 DEF NextToRead
<1>9. NextToSend' = NextToSend
  BY <1>2, <1>5 DEF NextToSend
<1>10. Calm' /\ Trimmed'
  BY <1>1, <1>2 DEF Streams, Calm, Trimmed
<1>11. AcksFollow'
  BY <1>2, <1>4, <1>5, <1>7, <1>8 DEF AcksFollow
<1>12. PackagesFollow'
  <2>1. CASE Len(toReceiver) = 1
    <3>1. Len(toReceiver') = 0
      BY <1>3, <2>1
    <3>2. toReceiver' = << >>
      <4>1. toReceiver \in Seq(Package) /\ toReceiver # << >> /\ toReceiver' = Tail(toReceiver)
        BY DEF Receive, Ordered, Inv, OnTheWay
      <4> QED
        BY <2>1, <4>1, PackageTaken
    <3>3. link = "up" => NextToRead' + 0 = NextToSend'
      BY <1>1, <1>3, <1>5, <1>8, <1>9, <2>1 DEF Streams, PackagesFollow
    <3> QED
      BY <1>2, <3>1, <3>2, <3>3 DEF PackagesFollow
  <2>2. CASE Len(toReceiver) > 1
    <3>1. toReceiver'[1].seqn = n + 1
      BY <1>3, <2>2
    <3>2. \A i \in 1 .. Len(toReceiver') : toReceiver'[i].seqn = toReceiver'[1].seqn + i - 1
      BY <1>3, <1>5, <3>1
    <3>3. link = "up" => NextToRead' + Len(toReceiver') = NextToSend'
      <4>1. link = "up" => NextToRead + Len(toReceiver) = NextToSend
        BY <1>1 DEF Streams, PackagesFollow
      <4> QED
        BY <1>3, <1>5, <1>8, <1>9, <4>1
    <3>4. NextToRead' <= n + 1 /\ heard' # {}
      BY <1>4, <1>8
    <3>6. n + 1 <= maxReceived' + 1 /\ n + 1 \in Nat /\ n + 1 > 1
      <4>1. n <= maxReceived' /\ maxReceived' \in Nat
        BY <1>4
      <4>2. n \in Nat /\ n > 0
        BY <1>5
      <4>3. n + 1 <= maxReceived' + 1
        <5>1. \A i, j \in Nat : i <= j => i + 1 <= j + 1
          OBVIOUS
        <5> QED
          BY <4>1, <4>2, <5>1
      <4>4. n + 1 \in Nat
        BY <4>2
      <4>5. n + 1 > 1
        BY <4>2
      <4> QED
        BY <4>3, <4>4, <4>5
    <3>5. link' = "up" => n + 1 = NextToRead'
      BY <1>2, <1>8
    <3> QED
      BY <1>2, <3>1, <3>2, <3>3, <3>4, <3>5, <3>6 DEF PackagesFollow
  <2> QED
    BY <1>3, <2>1, <2>2
<1> QED
  BY <1>4, <1>10, <1>11, <1>12 DEF Streams

LEMMA PrefixConsecutive ==
  ASSUME NEW s, NEW t, NEW first, Consecutive(s, first),
         Len(t) \in Nat, Len(s) \in Nat, Len(t) <= Len(s),
         \A i \in 1 .. Len(t) : t[i] = s[i]
  PROVE  Consecutive(t, first)
<1>1. 1 .. Len(t) \subseteq 1 .. Len(s)
  OBVIOUS
<1> QED
  BY <1>1 DEF Consecutive

LEMMA DropInOrder == ASSUME Ordered, Drop PROVE Streams'
<1>1. Streams
  BY DEF Ordered
<1>2. /\ UNCHANGED <<maxSent, current, acked, resent, thread, owner, conn,
                     maxReceived, junk, got, heard>>
      /\ link' = "cut"
  BY DEF Drop, receiverVars, bufferVars
<1>3. /\ Len(toReceiver') \in Nat /\ Len(toReceiver) \in Nat
      /\ Len(toReceiver') <= Len(toReceiver)
      /\ \A i \in 1 .. Len(toReceiver') : toReceiver'[i] = toReceiver[i]
      /\ toReceiver' = << >> <=> Len(toReceiver') = 0
      /\ toReceiver = << >> <=> Len(toReceiver) = 0
  <2>1. toReceiver \in Seq(Package) /\ toReceiver' \in Prefixes(toReceiver)
    BY DEF Drop, Ordered, Inv, OnTheWay
  <2> QED
    BY <2>1, PackagesCut
<1>4. /\ Len(toSender') \in Nat /\ Len(toSender) \in Nat
      /\ Len(toSender') <= Len(toSender)
      /\ \A i \in 1 .. Len(toSender') : toSender'[i] = toSender[i]
  <2>1. toSender \in Seq(1 .. maxSent) /\ toSender' \in Prefixes(toSender)
    BY DEF Drop, Ordered, Inv, OnTheWay
  <2> QED
    BY <2>1, PackagesCut
<1>5. Calm' /\ Trimmed' /\ GotLast' /\ HeardUpTo' /\ maxReceived' \in Nat
  BY <1>1, <1>2 DEF Streams, Calm, Trimmed, GotLast, HeardUpTo
<1>6. AcksFollow'
  <2>1. AcksFollow
    BY <1>1 DEF Streams
  <2>2. Consecutive(toSender', acked + 1)
    BY <1>4, <2>1, PrefixConsecutive DEF AcksFollow
  <2>3. acked + Len(toSender') <= acked + Len(toSender)
    BY <1>4, Numbers
  <2> QED
    BY <1>2, <1>4, <2>1, <2>2, <2>3, Numbers DEF AcksFollow
<1>7. NextToRead' <= NextToRead /\ NextToRead \in Nat /\ NextToRead' \in Nat
  BY <1>2, <1>4, Numbers, SMTT(30) DEF NextToRead
<1>8. CASE toReceiver' = << >>
  BY <1>2, <1>3, <1>5, <1>6, <1>8 DEF Streams, PackagesFollow
<1>9. CASE toReceiver' # << >>
  <2>1. 1 \in 1 .. Len(toReceiver') /\ toReceiver # << >> /\ 1 \in 1 .. Len(toReceiver)
    BY <1>3, <1>9
  <2>2. toReceiver'[1] = toReceiver[1] /\ toReceiver[1].seqn \in Nat
    <3>1. toReceiver[1].seqn \in 1 .. maxSent
      BY <2>1, Numbers
    <3> QED
      BY <1>3, <2>1, <3>1
  <2>3. \A i \in 1 .. Len(toReceiver') : toReceiver[i].seqn = toReceiver[1].seqn + i - 1
    BY <1>1, <1>3 DEF Streams, PackagesFollow
  <2>4. /\ NextToRead <= toReceiver[1].seqn
        /\ toReceiver[1].seqn > 1 => heard # {} /\ toReceiver[1].seqn <= maxReceived + 1
    BY <1>1, <2>1 DEF Streams, PackagesFollow
  <2>5. PackagesFollow'
    BY <1>2, <1>3, <1>7, <2>2, <2>3, <2>4 DEF PackagesFollow
  <2> QED
    BY <1>5, <1>6, <2>5 DEF Streams
<1> QED
  BY <1>8, <1>9

LEMMA RestartInOrder == ASSUME Ordered, SenderRestarts PROVE Streams'
<1>1. /\ toReceiver' = << >> /\ toSender' = << >> /\ Len(<< >>) = 0
      /\ link' = "cut" /\ conn' = "idle" /\ owner' = "nobody"
      /\ acked' = 0 /\ current' = 1 /\ heard' = {}
      /\ UNCHANGED <<maxReceived, junk, got>>
  BY EmptySeq DEF SenderRestarts, Ordered, Inv, OnTheWay
<1> QED
  BY <1>1 DEF Ordered, Streams, Calm, Trimmed, AcksFollow, Consecutive, HeardUpTo,
              PackagesFollow, GotLast, NextToRead

LEMMA OrderedStep == Ordered /\ [WireNext /\ Prompt]_wireVars => Ordered'
<1> SUFFICES ASSUME Ordered, [WireNext /\ Prompt]_wireVars PROVE Ordered'
  OBVIOUS
<1>1. [WireNext]_wireVars
  OBVIOUS
<1>2. Inv' /\ Balanced' /\ Numbered'
  BY <1>1, InvStep, BalancedKeeps, NumberedKeeps DEF Ordered
<1>3. Connect => Prompt
  BY DEF Connect, wireVars
<1>4. Streams'
  <2>1. CASE Process \/ Resend
    BY <1>2, <2>1, ProcessInOrder, ResendInOrder
  <2>2. CASE Connect \/ Resume \/ ResendDone
    BY <1>3, <2>2, ConnectionInOrder
  <2>3. CASE ReadAck \/ Receive
    BY <2>3, ReadAckInOrder, ReceiveInOrder
  <2>4. CASE Drop \/ SenderRestarts
    BY <2>4, DropInOrder, RestartInOrder
  <2>5. CASE \/ Application \/ Thread \/ Disconnect \/ Disconnected \/ Terminate
             \/ PeerDisconnect \/ UNCHANGED wireVars
    BY <2>5, SilenceInOrder
  <2> QED
    BY <1>1, <2>1, <2>2, <2>3, <2>4, <2>5 DEF WireNext
<1> QED
  BY <1>2, <1>4 DEF Ordered

LEMMA AlwaysOrdered == WireInit /\ [][WireNext /\ Prompt]_wireVars => []Ordered
<1>1. WireInit => Ordered
  <2>1. WireInit => Balanced /\ Numbered
    BY SendBufferAssumption, EmptySeq DEF WireInit, Init, Balanced, Numbered, Misframed
  <2> QED
    BY <2>1, InvInit, StreamsInit DEF Ordered
<1> QED
  BY <1>1, OrderedStep, PTL

-------------------------------------------------------------------------------
\* With a prompt send thread a message leaves pending_queue only when the receiver has
\* it, through any number of lost connections and restarts (ByteBufferAsyncProcessor.cpp,
\* acknowledge and reprocess; SocketWire.cpp, read_package).
THEOREM PromptAcksAreHeard == PromptSpec => []AckedWasHeard
<1>1. Ordered => AckedWasHeard
  <2> SUFFICES ASSUME Ordered PROVE AckedWasHeard
    OBVIOUS
  <2>1. /\ acked + Len(toSender) >= 1 => heard # {} /\ acked + Len(toSender) <= maxReceived
        /\ heard # {} => 1 .. maxReceived \subseteq heard
    BY DEF Ordered, Streams, AcksFollow, HeardUpTo
  <2> QED
    BY <2>1, Numbers DEF AckedWasHeard
<1> QED
  BY <1>1, AlwaysOrdered, PTL DEF PromptSpec

\* With a prompt send thread what read_package throws away as a duplicate has been
\* accepted from this sender before, whatever number a former sender had reached.
THEOREM PromptDuplicatesWereHeard == PromptSpec => AcceptsWhatIsNew
<1>1. Ordered /\ [WireNext /\ Prompt]_wireVars
      => [Receive /\ IsDuplicate(Head(toReceiver).seqn)
            => Head(toReceiver).seqn \in heard]_wireVars
  BY PackageTakenUp
<1> QED
  BY <1>1, AlwaysOrdered, PTL DEF PromptSpec, AcceptsWhatIsNew

\* With a prompt send thread acknowledge() never logs its error: each acknowledgement it
\* is given is greater than the last (ByteBufferAsyncProcessor.cpp, acknowledge).
THEOREM PromptAcksGrow == PromptSpec => AcknowledgementsGrow
<1>1. Ordered /\ [WireNext /\ Prompt]_wireVars
      => [ReadAck => Head(toSender) > acked]_wireVars
  <2> SUFFICES ASSUME Ordered, ReadAck PROVE Head(toSender) > acked
    OBVIOUS
  <2>1. Head(toSender) = acked + 1 /\ acked \in Nat
    BY AckIsNext, Numbers
  <2> QED
    BY <2>1
<1> QED
  BY <1>1, AlwaysOrdered, PTL DEF PromptSpec, AcknowledgementsGrow

\* Each step of the wire is a step of the channel, or none for it.
LEMMA WireStepsTheChannel ==
  ASSUME Ordered, [WireNext /\ Prompt]_wireVars
  PROVE  [Channel!Next]_(Channel!vars)
<1> USE DEF Channel!Next, Channel!vars
<1>1. CASE Application
  <2>1. put' = put + 1 /\ UNCHANGED got
    BY <1>1 DEF Application, Put, networkVars
  <2> QED
    BY <2>1 DEF Channel!Send
<1>2. CASE SenderRestarts
  <2>1. put' = 0 /\ UNCHANGED got
    BY <1>2 DEF SenderRestarts
  <2> QED
    BY <2>1 DEF Channel!Restart
<1>3. CASE Receive
  <2> DEFINE n == Head(toReceiver).seqn
  <2>1. /\ n \in 1 .. maxSent /\ Head(toReceiver).message = n
        /\ maxSent \in Nat /\ put \in Nat /\ maxSent <= put /\ maxReceived \in Nat
    BY <1>3, PackageRead, Numbers
  <2>2. ~IsDuplicate(n) => n = 1 \/ (n = maxReceived + 1 /\ maxReceived >= 1)
    BY <1>3, PackageTakenUp
  <2>3. UNCHANGED put /\ (IsDuplicate(n) \/ junk # 0 => UNCHANGED got)
        /\ (~IsDuplicate(n) /\ junk = 0 => got' = n)
    BY <1>3, <2>1 DEF Receive, bufferVars
  <2>4. junk = 0 => got = maxReceived
    BY DEF Ordered, Streams, GotLast, Misframed
  <2> HIDE DEF n
  <2>5. CASE IsDuplicate(n) \/ junk # 0
    BY <2>3, <2>5
  <2>6. CASE ~IsDuplicate(n) /\ junk = 0 /\ n = 1
    <3>1. put > 0
      BY <2>1, <2>6
    <3> QED
      BY <2>3, <2>6, <3>1 DEF Channel!DeliverFirst
  <2>7. CASE ~IsDuplicate(n) /\ junk = 0 /\ n # 1
    <3>1. got = maxReceived /\ n = maxReceived + 1 /\ maxReceived >= 1
      BY <2>2, <2>4, <2>7
    <3>2. got \in 1 .. put - 1 /\ got' = got + 1 /\ UNCHANGED put
      BY <2>1, <2>3, <2>7, <3>1
    <3> QED
      BY <3>2 DEF Channel!Deliver
  <2> QED
    BY <2>5, <2>6, <2>7
<1>4. CASE Thread \/ Process \/ Resume \/ Resend \/ ResendDone
  <2>1. UNCHANGED <<put, got>>
    BY <1>4 DEF Thread, Grab, StartProcess, ProcessDone, Exit, Process, ProcessOne, Resume,
                BeginResume, Resend, ResendOne, ResendDone, EndResume, networkVars,
                receiverVars
  <2> QED
    BY <2>1
<1>5. CASE Connect \/ ReadAck \/ Disconnect \/ Disconnected
  <2>1. UNCHANGED <<put, got>>
    BY <1>5 DEF Connect, ReadAck, Acknowledge, Disconnect, BeginPause, Disconnected,
                EndPause, networkVars, receiverVars, bufferVars
  <2> QED
    BY <2>1
<1>6. CASE PeerDisconnect \/ Drop \/ Terminate \/ UNCHANGED wireVars
  <2>1. UNCHANGED <<put, got>>
    BY <1>6 DEF PeerDisconnect, Drop, Terminate, Stop, Cleanup, networkVars, receiverVars,
                bufferVars, wireVars
  <2> QED
    BY <2>1
<1> QED
  BY <1>1, <1>2, <1>3, <1>4, <1>5, <1>6 DEF WireNext

\* With a prompt send thread the wire is a channel that delivers in the order of put and
\* leaves nothing out, whatever connections are lost in between; it starts over only
\* with the first message of a sender that has restarted (SocketWire.cpp, send0,
\* read_package; ByteBufferAsyncProcessor.cpp, process and reprocess).
THEOREM PromptImplementsChannel == PromptSpec => ImplementsChannel
<1>1. WireInit => Channel!Init
  BY DEF WireInit, Init, Channel!Init
<1>2. Ordered /\ [WireNext /\ Prompt]_wireVars => [Channel!Next]_(Channel!vars)
  BY WireStepsTheChannel
<1> QED
  BY <1>1, <1>2, AlwaysOrdered, PTL DEF PromptSpec, ImplementsChannel, Channel!Spec

===============================================================================
