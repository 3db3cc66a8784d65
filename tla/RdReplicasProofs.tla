---------------------------- MODULE RdReplicasProofs ----------------------------
(***************************************************************************)
(* Calls, properties, sets and lists for any number of calls and changes,  *)
(* any values and any order of deliveries.                                 *)
(***************************************************************************)
EXTENDS RdReplicas, SequenceTheorems, FiniteSetTheorems, TLAPS

(***************************************************************************)
(* Wires.                                                                  *)
(***************************************************************************)
LEMMA Peers ==
  /\ \A e \in Ends : Peer(e) \in Ends /\ Peer(e) # e /\ Peer(Peer(e)) = e
  /\ \A e, f \in Ends : f # e <=> f = Peer(e)
  BY DEF Ends, Peer

LEMMA Lengths ==
  ASSUME NEW T, NEW s \in Seq(T)
  PROVE  /\ Len(s) \in Nat /\ DOMAIN s = 1 .. Len(s)
         /\ s = << >> <=> Len(s) = 0
         /\ \A i \in 1 .. Len(s) : s[i] \in T
  BY LenProperties, EmptySeq, ElementOfSeq

\* What an end has sent: one message more.
LEMMA Sent ==
  ASSUME NEW T, NEW s \in Seq(T), NEW m \in T
  PROVE  LET sent == s \o <<m>>
         IN  /\ sent \in Seq(T)
             /\ Len(sent) = Len(s) + 1
             /\ \A i \in 1 .. Len(s) : sent[i] = s[i]
             /\ sent[Len(s) + 1] = m
  BY AppendIsConcat, AppendProperties

\* And once the other has handled one: the first is gone.
LEMMA Taken ==
  ASSUME NEW T, NEW s \in Seq(T), s # << >>
  PROVE  Tail(s) \in Seq(T) /\ Head(s) \in T
  BY HeadTailProperties

TakenOff(s, first, left) ==
  /\ first = Head(s) /\ left = Tail(s)
  /\ Len(s) \in Nat \ {0} /\ DOMAIN s = 1 .. Len(s)
  /\ Len(left) = Len(s) - 1 /\ DOMAIN left = 1 .. Len(s) - 1
  /\ left = << >> <=> Len(s) = 1
  /\ first = s[1]
  /\ \A i \in 1 .. Len(s) - 1 : left[i] = s[i + 1]

LEMMA TakingOff ==
  ASSUME NEW T, NEW s \in Seq(T), s # << >>
  PROVE  \E first \in T, left \in Seq(T) : TakenOff(s, first, left)
<1>1. /\ Head(s) \in T /\ Tail(s) \in Seq(T)
      /\ Len(Tail(s)) = Len(s) - 1
      /\ \A i \in 1 .. Len(Tail(s)) : Tail(s)[i] = s[i + 1]
      /\ Head(s) = s[1]
  BY HeadTailProperties
<1>2. Len(s) \in Nat \ {0} /\ DOMAIN s = 1 .. Len(s)
  BY Lengths
<1>3. DOMAIN Tail(s) = 1 .. Len(Tail(s)) /\ (Tail(s) = << >> <=> Len(Tail(s)) = 0)
  BY <1>1, Lengths
<1>4. DOMAIN Tail(s) = 1 .. Len(s) - 1 /\ (Tail(s) = << >> <=> Len(s) = 1)
  BY <1>1, <1>2, <1>3
<1> WITNESS Head(s) \in T, Tail(s) \in Seq(T)
<1> QED
  BY <1>1, <1>2, <1>4 DEF TakenOff

-------------------------------------------------------------------------------
(***************************************************************************)
(* Calls.  A request carries its task's identity, an answer what was asked *)
(* for, on its way and in the scheduler's queue.  A thread that is to set  *)
(* an answer still has it at the head of the queue it takes it from.       *)
(***************************************************************************)
TrueAnswers == {a \in Answers : a.result \in {Fault, a.id}}

Queues == Seq(Requests) \cup Seq(TrueAnswers)

OnTheWay ==
  /\ callWire \in [Ends -> Queues]
  /\ callWire[Caller] \in Seq(Requests)
  /\ callWire[Callee] \in Seq(TrueAnswers)
  /\ scheduled \in Seq(TrueAnswers)
  /\ awaiting \subseteq TaskIds

Heads(q, id) == q # << >> /\ Head(q).id = id

AtHand ==
  /\ checked["receiver"] # NoTask => Heads(callWire[Callee], checked["receiver"])
  /\ checked["scheduler"] # NoTask => Heads(scheduled, checked["scheduler"])

CallTypeOK ==
  /\ tasks \in 0 .. MaxCalls
  /\ spinning \in TaskIds \cup {NoTask}
  /\ failed \in BOOLEAN
  /\ result \in [TaskIds -> {Empty, Cancelled, Fault} \cup TaskIds]
  /\ checked \in [Threads -> TaskIds \cup {NoTask}]
  /\ toCancel \subseteq TaskIds

CallInv == CallTypeOK /\ OnTheWay /\ AtHand /\ AnswersMatch /\ OneFailureRefusesAll

LEMMA CallInitKeeps == ASSUME CallInit PROVE CallInv
<1>1. << >> \in Seq(Requests) /\ << >> \in Seq(TrueAnswers)
  BY EmptySeq
<1>2. OnTheWay
  BY <1>1 DEF CallInit, OnTheWay, EmptyWire, Ends, Caller, Callee, Queues
<1>3. CallTypeOK
  <2>1. tasks \in 0 .. MaxCalls
    BY CallAssumption DEF CallInit
  <2>2. result \in [TaskIds -> {Empty, Cancelled, Fault} \cup TaskIds]
        /\ checked \in [Threads -> TaskIds \cup {NoTask}]
    BY DEF CallInit
  <2> QED
    BY <2>1, <2>2 DEF CallInit, CallTypeOK
<1>4. AtHand
  BY DEF CallInit, AtHand, Threads
<1> QED
  BY <1>2, <1>3, <1>4 DEF CallInit, CallInv, AnswersMatch, OneFailureRefusesAll

\* One queue or both of the wire changed.
LEMMA Changed ==
  ASSUME CallInv, NEW caller \in Seq(Requests), NEW callee \in Seq(TrueAnswers),
         callWire' \in {[callWire EXCEPT ![Caller] = caller],
                        [callWire EXCEPT ![Callee] = callee],
                        [callWire EXCEPT ![Caller] = caller, ![Callee] = callee]},
         scheduled' \in Seq(TrueAnswers), awaiting' \subseteq TaskIds
  PROVE  OnTheWay'
<1>1. Caller \in Ends /\ Callee \in Ends /\ Caller # Callee
  BY DEF Ends, Caller, Callee
<1>2. caller \in Queues /\ callee \in Queues
  BY DEF Queues
<1> QED
  BY <1>1, <1>2 DEF CallInv, OnTheWay

\* What is put behind the head of a queue leaves it in place.
LEMMA HeadStays ==
  ASSUME NEW s \in Seq(TrueAnswers), NEW m \in TrueAnswers, NEW id, Heads(s, id)
  PROVE  Heads(s \o <<m>>, id)
<1>1. s # << >> /\ Head(s).id = id /\ Len(s) \in Nat \ {0}
  BY Lengths DEF Heads
<1>2. s \o <<m>> \in Seq(TrueAnswers) /\ Len(s \o <<m>>) = Len(s) + 1
      /\ (s \o <<m>>)[1] = s[1]
  BY <1>1, Sent
<1>3. s \o <<m>> # << >> /\ Head(s \o <<m>>) = (s \o <<m>>)[1] /\ Head(s) = s[1]
  BY <1>1, <1>2, Lengths, HeadTailProperties
<1> QED
  BY <1>1, <1>2, <1>3 DEF Heads

\* A request sent.
LEMMA RequestKeeps ==
  ASSUME CallInv, NewTask, Request, UNCHANGED <<scheduled, awaiting, checked>>
  PROVE  /\ OnTheWay' /\ AtHand'
         /\ tasks' \in 0 .. MaxCalls /\ tasks' \in TaskIds /\ tasks' = tasks + 1
<1>1. tasks' \in 0 .. MaxCalls /\ tasks' \in TaskIds /\ tasks' = tasks + 1
  BY CallAssumption DEF CallInv, CallTypeOK, NewTask, TaskIds
<1>2. PICK m \in Requests : m = [id |-> tasks + 1]
  BY <1>1 DEF Requests
<1>3. PICK s \in Seq(Requests) : s = callWire[Caller] \o <<m>>
  BY <1>2, Sent DEF CallInv, OnTheWay
<1>4. callWire' = [callWire EXCEPT ![Caller] = s]
  BY <1>2, <1>3 DEF Request, Send
<1>5. callWire'[Callee] = callWire[Callee]
  BY <1>4 DEF Caller, Callee, CallInv, OnTheWay, Ends
<1>6. AtHand'
  BY <1>5 DEF CallInv, AtHand
<1> QED
  BY <1>1, <1>4, <1>6, Changed DEF CallInv, OnTheWay

\* An answer sent.
LEMMA AnswerSent ==
  ASSUME CallInv, NEW id \in TaskIds, NEW r \in {id, Fault}
  PROVE  /\ Answer(id, r) \in TrueAnswers /\ Answer(id, r).id = id
         /\ callWire[Callee] \o <<Answer(id, r)>> \in Seq(TrueAnswers)
<1>1. Answer(id, r) \in TrueAnswers /\ Answer(id, r).id = id
  BY DEF Answer, TrueAnswers, Answers
<1> QED
  BY <1>1, Sent DEF CallInv, OnTheWay

\* set(): one thread is done with one task.
LEMMA SettingKeeps ==
  ASSUME CallInv, NEW t \in Threads, NEW id \in TaskIds, NEW r \in {Fault, Cancelled, id},
         checked[t] = id, SetResult(t, id, r), UNCHANGED <<tasks, spinning, failed>>,
         toCancel' \subseteq TaskIds
  PROVE  /\ CallTypeOK' /\ AnswersMatch'
         /\ checked'[t] = NoTask
         /\ \A u \in Threads \ {t} : checked'[u] = checked[u]
         /\ \A i \in TaskIds \ {id} : result'[i] = result[i]
         /\ result'[id] \in {result[id], r}
<1>1. checked' = [checked EXCEPT ![t] = NoTask]
  BY DEF SetResult
<1>2. result' \in {result, [result EXCEPT ![id] = r]}
  BY DEF SetResult
<1>3. /\ checked' \in [Threads -> TaskIds \cup {NoTask}]
      /\ checked'[t] = NoTask
      /\ \A u \in Threads \ {t} : checked'[u] = checked[u]
  BY <1>1 DEF CallInv, CallTypeOK
<1>4. /\ result' \in [TaskIds -> {Empty, Cancelled, Fault} \cup TaskIds]
      /\ \A i \in TaskIds \ {id} : result'[i] = result[i]
      /\ result'[id] \in {result[id], r}
  BY <1>2 DEF CallInv, CallTypeOK
<1>5. AnswersMatch'
  BY <1>4 DEF CallInv, AnswersMatch
<1> QED
  BY <1>3, <1>4, <1>5 DEF CallInv, CallTypeOK

\* The test before it.
LEMMA FindingKeeps ==
  ASSUME CallInv, NEW t \in Threads, NEW id \in TaskIds, FindEmpty(t, id),
         UNCHANGED <<tasks, spinning, failed, result, toCancel>>
  PROVE  /\ CallTypeOK' /\ AnswersMatch'
         /\ checked'[t] = id
         /\ \A u \in Threads \ {t} : checked'[u] = checked[u]
<1>1. checked' = [checked EXCEPT ![t] = id]
  BY DEF FindEmpty
<1> QED
  BY <1>1 DEF CallInv, CallTypeOK, AnswersMatch

\* The answer the receiving thread takes off the wire.
LEMMA AnswerTaken ==
  ASSUME CallInv, callWire[Callee] # << >>, callWire' = Take(callWire, Caller),
         scheduled' \in Seq(TrueAnswers), UNCHANGED awaiting
  PROVE  OnTheWay' /\ callWire' = [callWire EXCEPT ![Callee] = Tail(callWire[Callee])]
<1>1. callWire[Callee] \in Seq(TrueAnswers)
      /\ callWire' = [callWire EXCEPT ![Callee] = Tail(callWire[Callee])]
  BY DEF Take, Peer, Caller, Callee, CallInv, OnTheWay
<1>2. PICK left \in Seq(TrueAnswers) : left = Tail(callWire[Callee])
  BY <1>1, Taken
<1>3. callWire' = [callWire EXCEPT ![Callee] = left]
  BY <1>1, <1>2
<1> QED
  BY <1>1, <1>3, Changed DEF CallInv, OnTheWay

LEMMA ReceiveAnswerKeeps == ASSUME CallInv, ReceiveAnswer PROVE CallInv'
<1>1. callWire[Callee] \in Seq(TrueAnswers) /\ callWire[Callee] # << >>
      /\ checked["receiver"] = NoTask
  BY DEF ReceiveAnswer, Arrived, Peer, Caller, Callee, CallInv, OnTheWay
<1>2. PICK m \in TrueAnswers : m = Message(callWire, Caller)
  BY <1>1, Taken DEF Message, Peer, Caller, Callee
<1>3. m = Head(callWire[Callee])
  BY <1>2 DEF Message, Peer, Caller, Callee
<1>4. UNCHANGED <<tasks, spinning, syncTask, failed, awaiting, result, toCancel>>
  BY DEF ReceiveAnswer, lifetimeVars
<1>5. m.id \in TaskIds
  BY <1>2 DEF TrueAnswers, Answers
<1>6. scheduled \in Seq(TrueAnswers)
  BY DEF CallInv, OnTheWay
<1>7. CASE /\ callWire' = Take(callWire, Caller)
           /\ UNCHANGED checked
           /\ scheduled' \in {scheduled, Append(scheduled, m)}
  <2>1. Append(scheduled, m) = scheduled \o <<m>> /\ Append(scheduled, m) \in Seq(TrueAnswers)
    BY <1>6, AppendProperties, AppendIsConcat
  <2>2. OnTheWay'
    BY <1>1, <1>4, <1>6, <1>7, <2>1, AnswerTaken
  <2>3. AtHand'
    BY <1>1, <1>6, <1>7, <2>1, HeadStays DEF CallInv, AtHand
  <2> QED
    BY <1>4, <1>7, <2>2, <2>3
       DEF CallInv, CallTypeOK, AnswersMatch, OneFailureRefusesAll
<1>8. CASE FindEmpty("receiver", m.id) /\ UNCHANGED <<callWire, scheduled>>
  <2>1. "receiver" \in Threads /\ "scheduler" \in Threads \ {"receiver"}
    BY DEF Threads
  <2>2. /\ CallTypeOK' /\ AnswersMatch'
        /\ checked'["receiver"] = m.id /\ checked'["scheduler"] = checked["scheduler"]
    BY <1>4, <1>5, <1>8, <2>1, FindingKeeps
  <2>3. OnTheWay'
    BY <1>4, <1>8 DEF CallInv, OnTheWay
  <2>4. AtHand'
    BY <1>1, <1>3, <1>8, <2>2 DEF CallInv, AtHand, Heads
  <2> QED
    BY <1>4, <2>2, <2>3, <2>4 DEF CallInv, OneFailureRefusesAll
<1> QED
  BY <1>2, <1>7, <1>8 DEF ReceiveAnswer, GivenTo, settingVars

LEMMA SetReceivedKeeps == ASSUME CallInv, SetReceived PROVE CallInv'
<1> DEFINE id == checked["receiver"]
           m == Head(callWire[Callee])
<1>1. "receiver" \in Threads /\ "scheduler" \in Threads \ {"receiver"}
  BY DEF Threads
<1>2. id \in TaskIds
  BY <1>1 DEF SetReceived, CallInv, CallTypeOK
<1>3. callWire[Callee] \in Seq(TrueAnswers) /\ callWire[Callee] # << >> /\ m.id = id
  BY DEF SetReceived, CallInv, OnTheWay, AtHand, Heads
<1>4. m \in TrueAnswers /\ m = Message(callWire, Caller)
  BY <1>3, Taken DEF Message, Peer, Caller, Callee
<1>5. m.result \in {Fault, Cancelled, id}
  BY <1>3, <1>4 DEF TrueAnswers
<1>6. UNCHANGED <<tasks, spinning, syncTask, failed, scheduled, awaiting, toCancel>>
      /\ SetResult("receiver", id, m.result) /\ callWire' = Take(callWire, Caller)
  BY <1>4 DEF SetReceived, lifetimeVars
<1>7. /\ CallTypeOK' /\ AnswersMatch'
      /\ checked'["receiver"] = NoTask /\ checked'["scheduler"] = checked["scheduler"]
  <2>1. toCancel' \subseteq TaskIds
    BY <1>6 DEF CallInv, CallTypeOK
  <2> HIDE DEF m
  <2> QED
    BY <1>1, <1>2, <1>5, <1>6, <2>1, SettingKeeps
<1>8. OnTheWay'
  BY <1>3, <1>6, AnswerTaken DEF CallInv, OnTheWay
<1>9. AtHand'
  BY <1>6, <1>7 DEF CallInv, AtHand
<1> QED
  BY <1>6, <1>7, <1>8, <1>9 DEF CallInv, OneFailureRefusesAll

LEMMA TestAnswerKeeps == ASSUME CallInv, TestAnswer PROVE CallInv'
<1> DEFINE m == Head(scheduled)
<1>1. scheduled \in Seq(TrueAnswers) /\ scheduled # << >> /\ checked["scheduler"] = NoTask
  BY DEF TestAnswer, Idle, CallInv, OnTheWay
<1>2. m \in TrueAnswers /\ Tail(scheduled) \in Seq(TrueAnswers)
  BY <1>1, Taken
<1>3. m.id \in TaskIds
  BY <1>2 DEF TrueAnswers, Answers
<1>4. UNCHANGED <<tasks, spinning, syncTask, failed, awaiting, callWire, result, toCancel>>
  BY DEF TestAnswer, lifetimeVars
<1>5. CASE scheduled' = Tail(scheduled) /\ UNCHANGED checked
  BY <1>1, <1>2, <1>4, <1>5
     DEF CallInv, CallTypeOK, OnTheWay, AtHand, AnswersMatch, OneFailureRefusesAll
<1>6. CASE FindEmpty("scheduler", m.id) /\ UNCHANGED scheduled
  <2>1. "scheduler" \in Threads /\ "receiver" \in Threads \ {"scheduler"}
    BY DEF Threads
  <2>2. /\ CallTypeOK' /\ AnswersMatch'
        /\ checked'["scheduler"] = m.id /\ checked'["receiver"] = checked["receiver"]
    BY <1>3, <1>4, <1>6, <2>1, FindingKeeps
  <2>3. AtHand' /\ OnTheWay'
    BY <1>1, <1>4, <1>6, <2>2 DEF CallInv, AtHand, OnTheWay, Heads
  <2> QED
    BY <1>4, <2>2, <2>3 DEF CallInv, OneFailureRefusesAll
<1> QED
  BY <1>5, <1>6 DEF TestAnswer, settingVars

LEMMA SetAnswerKeeps == ASSUME CallInv, SetAnswer PROVE CallInv'
<1> DEFINE id == checked["scheduler"]
           m == Head(scheduled)
<1>1. "scheduler" \in Threads /\ "receiver" \in Threads \ {"scheduler"}
  BY DEF Threads
<1>2. id \in TaskIds
  BY <1>1 DEF SetAnswer, CallInv, CallTypeOK
<1>3. scheduled \in Seq(TrueAnswers) /\ scheduled # << >> /\ m.id = id
  BY DEF SetAnswer, CallInv, OnTheWay, AtHand, Heads
<1>4. m \in TrueAnswers /\ scheduled' \in Seq(TrueAnswers)
  BY <1>3, Taken DEF SetAnswer
<1>5. m.result \in {Fault, Cancelled, id}
  BY <1>3, <1>4 DEF TrueAnswers
<1>6. UNCHANGED <<tasks, spinning, syncTask, failed, callWire, awaiting, toCancel>>
      /\ SetResult("scheduler", id, m.result)
  BY DEF SetAnswer, lifetimeVars
<1>7. /\ CallTypeOK' /\ AnswersMatch'
      /\ checked'["scheduler"] = NoTask /\ checked'["receiver"] = checked["receiver"]
  <2>1. toCancel' \subseteq TaskIds
    BY <1>6 DEF CallInv, CallTypeOK
  <2> HIDE DEF m
  <2> QED
    BY <1>1, <1>2, <1>5, <1>6, <2>1, SettingKeeps
<1>8. OnTheWay' /\ AtHand'
  BY <1>4, <1>6, <1>7 DEF CallInv, OnTheWay, AtHand
<1> QED
  BY <1>6, <1>7, <1>8 DEF CallInv, OneFailureRefusesAll

LEMMA CalleeKeeps == ASSUME CallInv, ReceiveRequest \/ AnswerLater PROVE CallInv'
<1>1. UNCHANGED <<tasks, result, spinning, syncTask, scheduled, failed, checked, toCancel>>
  BY DEF ReceiveRequest, AnswerLater, lifetimeVars, settingVars
<1>2. ASSUME callWire'[Callee] = callWire[Callee]
             \/ \E m \in TrueAnswers : callWire'[Callee] = callWire[Callee] \o <<m>>
      PROVE  AtHand'
  BY <1>1, <1>2, HeadStays DEF CallInv, AtHand, OnTheWay
<1>3. CASE ReceiveRequest
  <2>1. callWire[Caller] \in Seq(Requests) /\ callWire[Caller] # << >>
    BY <1>3 DEF ReceiveRequest, Arrived, Peer, Caller, Callee, CallInv, OnTheWay
  <2>2. PICK left \in Seq(Requests) : left = Tail(callWire[Caller])
    BY <2>1, Taken
  <2>3. PICK m \in Requests : m = Message(callWire, Callee)
    BY <2>1, Taken DEF Message, Peer, Caller, Callee
  <2>4. m.id \in TaskIds
    BY <2>3 DEF Requests
  <2>5. Take(callWire, Callee) = [callWire EXCEPT ![Caller] = left]
    BY <2>2 DEF Take, Peer, Caller, Callee
  <2>6. ASSUME callWire' = Take(callWire, Callee), awaiting' = awaiting \cup {m.id}
        PROVE  OnTheWay' /\ AtHand'
    <3>1. callWire'[Callee] = callWire[Callee]
      BY <2>5, <2>6 DEF Caller, Callee, CallInv, OnTheWay, Ends
    <3> QED
      BY <1>1, <1>2, <2>4, <2>5, <2>6, <3>1, Changed DEF CallInv, OnTheWay
  <2>7. ASSUME NEW r \in {m.id, Fault}, awaiting' = awaiting,
               callWire' = Send(Take(callWire, Callee), Callee, <<Answer(m.id, r)>>)
        PROVE  OnTheWay' /\ AtHand'
    <3>1. PICK sent \in Seq(TrueAnswers) : sent = callWire[Callee] \o <<Answer(m.id, r)>>
      BY <2>4, AnswerSent
    <3>2. callWire' = [callWire EXCEPT ![Caller] = left, ![Callee] = sent]
      <4>1. Take(callWire, Callee)[Callee] = callWire[Callee]
        BY <2>5 DEF Caller, Callee, CallInv, OnTheWay, Ends
      <4>2. callWire' = [Take(callWire, Callee) EXCEPT ![Callee] = sent]
        BY <2>7, <3>1, <4>1 DEF Send
      <4> QED
        BY <2>5, <4>2
    <3>3. callWire'[Callee] = callWire[Callee] \o <<Answer(m.id, r)>>
          /\ Answer(m.id, r) \in TrueAnswers
      BY <2>4, <3>1, <3>2, AnswerSent DEF Caller, Callee, CallInv, OnTheWay, Ends
    <3> QED
      BY <1>1, <1>2, <2>7, <3>2, <3>3, Changed DEF CallInv, OnTheWay
  <2>8. OnTheWay' /\ AtHand'
    BY <1>3, <2>3, <2>6, <2>7 DEF ReceiveRequest
  <2> QED
    BY <1>1, <2>8 DEF CallInv, CallTypeOK, AnswersMatch, OneFailureRefusesAll
<1>4. CASE AnswerLater
  <2>1. PICK id \in awaiting :
          /\ callWire' = Send(callWire, Callee, <<Answer(id, id)>>)
          /\ awaiting' = awaiting \ {id}
    BY <1>4 DEF AnswerLater
  <2>2. id \in TaskIds
    BY DEF CallInv, OnTheWay
  <2>3. PICK sent \in Seq(TrueAnswers) : sent = callWire[Callee] \o <<Answer(id, id)>>
    BY <2>2, AnswerSent
  <2>4. callWire' = [callWire EXCEPT ![Callee] = sent]
    BY <2>1, <2>3 DEF Send
  <2>5. callWire'[Callee] = callWire[Callee] \o <<Answer(id, id)>>
        /\ Answer(id, id) \in TrueAnswers
    BY <2>2, <2>3, <2>4, AnswerSent DEF Callee, CallInv, OnTheWay, Ends
  <2>6. OnTheWay' /\ AtHand'
    BY <1>1, <1>2, <2>1, <2>4, <2>5, Changed DEF CallInv, OnTheWay
  <2> QED
    BY <1>1, <2>6 DEF CallInv, CallTypeOK, AnswersMatch, OneFailureRefusesAll
<1> QED
  BY <1>3, <1>4

LEMMA CallerKeeps ==
  ASSUME CallInv,
         StartCall \/ SyncCall \/ RefuseSync \/ SyncReturns \/ SyncThrows
  PROVE  CallInv'
<1>1. CASE StartCall
  BY <1>1, RequestKeeps DEF StartCall, lifetimeVars, settingVars, CallInv, CallTypeOK,
                            AnswersMatch, OneFailureRefusesAll
<1>2. CASE SyncCall
  <2>1. /\ OnTheWay' /\ AtHand'
        /\ tasks' \in 0 .. MaxCalls /\ tasks' \in TaskIds /\ tasks' = tasks + 1
    BY <1>2, RequestKeeps DEF SyncCall, settingVars
  <2>2. tasks' # NoTask
    BY <2>1 DEF TaskIds, NoTask
  <2> QED
    BY <1>2, <2>1, <2>2 DEF SyncCall, Idle, lifetimeVars, settingVars, CallInv, CallTypeOK,
                            AnswersMatch, OneFailureRefusesAll
<1>3. CASE RefuseSync
  <2>1. tasks' \in 0 .. MaxCalls
    BY <1>3, CallAssumption DEF RefuseSync, NewTask, CallInv, CallTypeOK
  <2> QED
    BY <1>3, <2>1 DEF RefuseSync, NewTask, lifetimeVars, settingVars, CallInv, CallTypeOK,
                      OnTheWay, AtHand, AnswersMatch, OneFailureRefusesAll
<1>4. CASE SyncReturns
  BY <1>4 DEF SyncReturns, SyncTaskAfterReturn, lifetimeVars, settingVars, CallInv,
              CallTypeOK, OnTheWay, AtHand, AnswersMatch, OneFailureRefusesAll
<1>5. CASE SyncThrows
  BY <1>5 DEF SyncThrows, lifetimeVars, settingVars, CallInv, CallTypeOK, OnTheWay, AtHand,
              AnswersMatch, OneFailureRefusesAll
<1> QED
  BY <1>1, <1>2, <1>3, <1>4, <1>5

LEMMA UnbindKeeps ==
  ASSUME CallInv, BeginUnbind \/ CancelTask \/ SetCancelled \/ Unsubscribe
  PROVE  CallInv'
<1>1. UNCHANGED <<tasks, spinning, syncTask, failed, scheduled, awaiting, callWire>>
  BY DEF BeginUnbind, CancelTask, SetCancelled, Unsubscribe
<1>2. OnTheWay' /\ OneFailureRefusesAll'
  BY <1>1 DEF CallInv, OnTheWay, OneFailureRefusesAll
<1>3. /\ "terminator" \in Threads
      /\ {"receiver", "scheduler"} \subseteq Threads \ {"terminator"}
  BY DEF Threads
<1>4. ASSUME checked'["receiver"] = checked["receiver"],
             checked'["scheduler"] = checked["scheduler"]
      PROVE  AtHand'
  BY <1>1, <1>4 DEF CallInv, AtHand
<1>5. CASE BeginUnbind \/ Unsubscribe \/ (CancelTask /\ UNCHANGED checked)
  <2>1. UNCHANGED <<checked, result>>
    BY <1>5 DEF BeginUnbind, Unsubscribe, CancelTask, settingVars
  <2>2. toCancel' \subseteq TaskIds
    <3>1. toCancel \subseteq TaskIds /\ tasks \in 0 .. MaxCalls
      BY DEF CallInv, CallTypeOK
    <3>2. 1 .. tasks \subseteq TaskIds
      BY <3>1, CallAssumption DEF TaskIds
    <3>3. CASE BeginUnbind
      BY <3>2, <3>3 DEF BeginUnbind
    <3>4. CASE Unsubscribe
      BY <3>1, <3>4 DEF Unsubscribe, lifetimeVars
    <3>5. CASE CancelTask
      BY <3>1, <3>5 DEF CancelTask
    <3> QED
      BY <1>5, <3>3, <3>4, <3>5
  <2> QED
    BY <1>1, <1>2, <1>4, <2>1, <2>2 DEF CallInv, CallTypeOK, AnswersMatch
<1>6. CASE CancelTask /\ ~UNCHANGED checked
  <2>1. PICK id \in toCancel : FindEmpty("terminator", id) /\ UNCHANGED <<toCancel, result>>
    BY <1>6 DEF CancelTask, settingVars
  <2>2. id \in TaskIds
    BY DEF CallInv, CallTypeOK
  <2> QED
    BY <1>1, <1>2, <1>3, <1>4, <2>1, <2>2, FindingKeeps DEF CallInv
<1>7. CASE SetCancelled
  <2>1. PICK id : id = checked["terminator"]
    OBVIOUS
  <2>2. id \in TaskIds
    BY <1>3, <1>7, <2>1 DEF SetCancelled, CallInv, CallTypeOK
  <2>3. SetResult("terminator", id, Cancelled) /\ toCancel' \subseteq TaskIds
    BY <1>7, <2>1 DEF SetCancelled, CallInv, CallTypeOK
  <2> QED
    BY <1>1, <1>2, <1>3, <1>4, <2>1, <2>2, <2>3, SettingKeeps DEF CallInv
<1> QED
  BY <1>5, <1>6, <1>7

LEMMA CallStep == ASSUME CallInv, [ReplicasNext]_replicaVars PROVE CallInv'
<1>1. CASE UNCHANGED callVars
  BY <1>1 DEF callVars, lifetimeVars, settingVars, CallInv, CallTypeOK, OnTheWay, AtHand,
              AnswersMatch, OneFailureRefusesAll
<1>2. CASE CallNext
  BY <1>2, CallerKeeps, UnbindKeeps, ReceiveAnswerKeeps, SetReceivedKeeps, TestAnswerKeeps,
     SetAnswerKeeps, CalleeKeeps
     DEF CallNext
<1> QED
  BY <1>1, <1>2 DEF ReplicasNext, replicaVars

LEMMA CallInvariant == ReplicasSpec => []CallInv
<1>1. ReplicasInit => CallInv
  BY CallInitKeeps DEF ReplicasInit
<1>2. CallInv /\ [ReplicasNext]_replicaVars => CallInv'
  BY CallStep
<1> QED
  BY <1>1, <1>2, PTL DEF ReplicasSpec

\* Whatever is late, lost or cancelled, no task is given the answer to another's request
\* (WiredRdTaskImpl.h, RdCall.h, RdEndpoint.h).
THEOREM AnswersAreOwn == ReplicasSpec => []AnswersMatch
<1>1. CallInv => AnswersMatch
  BY DEF CallInv
<1> QED
  BY <1>1, CallInvariant, PTL

\* A synchronous call that fails locks the call for as long as it lives; none that
\* returns does (RdCall.h, sync).
THEOREM FailureLocks == ReplicasSpec => []OneFailureRefusesAll
<1>1. CallInv => OneFailureRefusesAll
  BY DEF CallInv
<1> QED
  BY <1>1, CallInvariant, PTL

-------------------------------------------------------------------------------
(***************************************************************************)
(* Results.  A task has one answer, which is in one place: asked for on    *)
(* the wire, to be given later, given on the wire, or queued, and once it  *)
(* is the result it is in none.  So of two settings of one result one is   *)
(* the cancellation, and both threads had found it empty.                  *)
(***************************************************************************)
Ids(q) == {q[i].id : i \in DOMAIN q}

Distinct(q) == \A i, j \in DOMAIN q : q[i].id = q[j].id => i = j

Asked == Ids(callWire[Caller])
Given == Ids(callWire[Callee])
Queued == Ids(scheduled)

DistinctIds ==
  Distinct(callWire[Caller]) /\ Distinct(callWire[Callee]) /\ Distinct(scheduled)

Apart ==
  /\ \A id \in Asked : id \in 1 .. tasks /\ id \notin awaiting \cup Given \cup Queued
  /\ \A id \in awaiting : id \in 1 .. tasks /\ id \notin Given \cup Queued
  /\ \A id \in Given : id \in 1 .. tasks /\ id \notin Queued
  /\ \A id \in Queued : id \in 1 .. tasks
  /\ \A id \in TaskIds : result[id] \in {Fault, id} =>
       id \in 1 .. tasks /\ id \notin Asked \cup awaiting \cup Given \cup Queued

Contests ==
  /\ \A t \in Threads :
       checked[t] # NoTask /\ result[checked[t]] # Empty => checked[t] \in contested
  /\ \A t, u \in Threads :
       t # u /\ checked[t] # NoTask /\ checked[u] = checked[t] => checked[t] \in contested

ResultInv == DistinctIds /\ Apart /\ Contests

LEMMA IdsOfNone == Ids(<< >>) = {} /\ Distinct(<< >>)
<1>1. DOMAIN << >> = {}
  BY EmptySeq, Lengths
<1> QED
  BY <1>1 DEF Ids, Distinct

LEMMA IdsLeft ==
  ASSUME NEW T, NEW q \in Seq(T), q # << >>, Distinct(q)
  PROVE  /\ Distinct(Tail(q)) /\ Head(q).id \in Ids(q)
         /\ Ids(Tail(q)) = Ids(q) \ {Head(q).id}
<1>1. PICK first \in T, left \in Seq(T) : TakenOff(q, first, left)
  BY TakingOff
<1>2. /\ first = Head(q) /\ left = Tail(q) /\ first = q[1]
      /\ Len(q) \in Nat \ {0} /\ DOMAIN q = 1 .. Len(q) /\ DOMAIN left = 1 .. Len(q) - 1
      /\ \A i \in 1 .. Len(q) - 1 : left[i] = q[i + 1]
  BY <1>1 DEF TakenOff
<1>3. \A i \in DOMAIN left : i + 1 \in DOMAIN q /\ i + 1 # 1 /\ left[i] = q[i + 1]
  BY <1>2
<1>4. \A i \in DOMAIN q : i # 1 => i - 1 \in DOMAIN left /\ left[i - 1] = q[i]
  <2> SUFFICES ASSUME NEW i \in 1 .. Len(q), i # 1
               PROVE  i - 1 \in 1 .. Len(q) - 1 /\ left[i - 1] = q[i]
    BY <1>2
  <2>1. i - 1 \in 1 .. Len(q) - 1 /\ (i - 1) + 1 = i
    BY <1>2
  <2> QED
    BY <1>2, <2>1
<1>5. 1 \in DOMAIN q
  BY <1>2
<1>6. Distinct(left)
  <2> SUFFICES ASSUME NEW i \in DOMAIN left, NEW j \in DOMAIN left, left[i].id = left[j].id
               PROVE  i = j
    BY DEF Distinct
  <2>1. q[i + 1].id = q[j + 1].id /\ i + 1 \in DOMAIN q /\ j + 1 \in DOMAIN q
    BY <1>3
  <2>2. i + 1 = j + 1
    BY <2>1 DEF Distinct
  <2> QED
    BY <1>2, <2>2
<1>7. Ids(left) \subseteq Ids(q) \ {q[1].id}
  BY <1>3, <1>5 DEF Ids, Distinct
<1>8. Ids(q) \ {q[1].id} \subseteq Ids(left)
  BY <1>4 DEF Ids
<1>9. q[1].id \in Ids(q)
  BY <1>5 DEF Ids
<1>10. Ids(left) = Ids(q) \ {q[1].id}
  BY <1>7, <1>8
<1> QED
  BY <1>2, <1>6, <1>9, <1>10

LEMMA IdsMore ==
  ASSUME NEW T, NEW q \in Seq(T), NEW m \in T, Distinct(q), m.id \notin Ids(q)
  PROVE  Distinct(q \o <<m>>) /\ Ids(q \o <<m>>) = Ids(q) \cup {m.id}
<1>1. PICK more \in Seq(T) : more = q \o <<m>>
  BY Sent
<1>2. /\ Len(q) \in Nat /\ DOMAIN q = 1 .. Len(q) /\ DOMAIN more = 1 .. Len(q) + 1
      /\ \A i \in 1 .. Len(q) : more[i] = q[i]
      /\ more[Len(q) + 1] = m
  BY <1>1, Sent, Lengths
<1>3. DOMAIN more = DOMAIN q \cup {Len(q) + 1}
  BY <1>2
<1>4. \A i \in DOMAIN q : more[i] = q[i] /\ q[i].id # m.id
  BY <1>2 DEF Ids
<1>5. Distinct(more)
  BY <1>2, <1>3, <1>4 DEF Distinct
<1>6. Ids(more) = Ids(q) \cup {m.id}
  BY <1>2, <1>3, <1>4 DEF Ids
<1> QED
  BY <1>1, <1>5, <1>6

LEMMA ResultInitKeeps == ASSUME CallInit PROVE ResultInv
<1>1. /\ callWire[Caller] = << >> /\ callWire[Callee] = << >> /\ scheduled = << >>
      /\ awaiting = {}
  BY DEF CallInit, EmptyWire, Ends, Caller, Callee
<1>2. Asked = {} /\ Given = {} /\ Queued = {} /\ DistinctIds
  BY <1>1, IdsOfNone DEF Asked, Given, Queued, DistinctIds
<1>3. \A id \in TaskIds : result[id] \notin {Fault, id}
  BY DEF CallInit, Empty, Fault, TaskIds
<1> QED
  BY <1>1, <1>2, <1>3 DEF ResultInv, Apart, Contests, CallInit

\* What a step does to the threads' tests and to the results.
LEMMA Settings ==
  ASSUME CallInv, CallNext
  PROVE  \/ UNCHANGED <<checked, contested, result>>
         \/ \E t \in Threads, id \in TaskIds :
              FindEmpty(t, id) /\ result[id] = Empty /\ UNCHANGED result
         \/ SetCancelled
         \/ SetReceived
         \/ SetAnswer
<1>1. Threads = {"receiver", "scheduler", "terminator"}
  BY DEF Threads
<1>2. CASE CancelTask
  <2>1. toCancel \subseteq TaskIds
    BY DEF CallInv, CallTypeOK
  <2> QED
    BY <1>1, <1>2, <2>1 DEF CancelTask, settingVars, Unset
<1>3. CASE ReceiveAnswer
  <2>1. callWire[Callee] \in Seq(TrueAnswers) /\ callWire[Callee] # << >>
    BY <1>3 DEF ReceiveAnswer, Arrived, Peer, Caller, Callee, CallInv, OnTheWay
  <2>2. PICK m \in TrueAnswers : m = Message(callWire, Caller)
    BY <2>1, Taken DEF Message, Peer, Caller, Callee
  <2>3. m.id \in TaskIds
    BY <2>2 DEF TrueAnswers, Answers
  <2> QED
    BY <1>1, <1>3, <2>2, <2>3 DEF ReceiveAnswer, settingVars, GivenTo, Unset
<1>4. CASE TestAnswer
  <2>1. scheduled \in Seq(TrueAnswers) /\ scheduled # << >>
    BY <1>4 DEF TestAnswer, CallInv, OnTheWay
  <2>2. Head(scheduled).id \in TaskIds
    BY <2>1, Taken DEF TrueAnswers, Answers
  <2> QED
    BY <1>1, <1>4, <2>2 DEF TestAnswer, settingVars, Unset
<1>5. CASE StartCall \/ SyncCall \/ RefuseSync \/ SyncReturns \/ SyncThrows
           \/ BeginUnbind \/ Unsubscribe \/ ReceiveRequest \/ AnswerLater
  BY <1>5 DEF StartCall, SyncCall, RefuseSync, SyncReturns, SyncThrows, BeginUnbind,
              Unsubscribe, ReceiveRequest, AnswerLater, settingVars
<1> QED
  BY <1>2, <1>3, <1>4, <1>5 DEF CallNext

\* Of one task: what set() leaves, whoever does it.
LEMMA OneSet ==
  ASSUME CallInv, SetCancelled \/ SetReceived \/ SetAnswer
  PROVE  \E t \in Threads, id \in TaskIds, r \in {Fault, Cancelled} \cup TaskIds :
           /\ checked[t] = id /\ SetResult(t, id, r)
           /\ r \in {Fault, Cancelled, id}
           /\ SetCancelled => r = Cancelled
           /\ SetReceived => t = "receiver"
           /\ SetAnswer => t = "scheduler"
<1>1. Threads = {"receiver", "scheduler", "terminator"}
  BY DEF Threads
<1>2. \A t \in Threads : checked[t] # NoTask => checked[t] \in TaskIds
  BY DEF CallInv, CallTypeOK
<1>3. ASSUME NEW q \in Seq(TrueAnswers), NEW id \in TaskIds, Heads(q, id)
      PROVE  Head(q).result \in {Fault, id}
  BY <1>3, Taken DEF Heads, TrueAnswers
<1>4. ~(SetCancelled /\ SetReceived) /\ ~(SetCancelled /\ SetAnswer)
      /\ ~(SetReceived /\ SetAnswer)
  <2>1. NoTask \notin TaskIds
    BY DEF NoTask, TaskIds
  <2>2. ASSUME NEW t \in Threads, NEW u \in Threads, t # u, NEW i, NEW j, NEW r, NEW w,
               checked[t] # NoTask, checked[u] # NoTask,
               SetResult(t, i, r), SetResult(u, j, w)
        PROVE  FALSE
    BY <2>2 DEF SetResult, CallInv, CallTypeOK
  <2> QED
    BY <1>1, <2>2 DEF SetCancelled, SetReceived, SetAnswer
<1>5. CASE SetCancelled
  BY <1>1, <1>2, <1>4, <1>5 DEF SetCancelled
<1>6. CASE SetReceived
  <2>1. checked["receiver"] \in TaskIds
    BY <1>1, <1>2, <1>6 DEF SetReceived
  <2>2. Message(callWire, Caller).result \in {Fault, checked["receiver"]}
    BY <1>3, <1>6, <2>1 DEF SetReceived, Message, Peer, Caller, Callee, CallInv, OnTheWay,
                            AtHand
  <2> QED
    BY <1>1, <1>4, <1>6, <2>1, <2>2 DEF SetReceived
<1>7. CASE SetAnswer
  <2>1. checked["scheduler"] \in TaskIds
    BY <1>1, <1>2, <1>7 DEF SetAnswer
  <2>2. Head(scheduled).result \in {Fault, checked["scheduler"]}
    BY <1>3, <1>7, <2>1 DEF SetAnswer, CallInv, OnTheWay, AtHand
  <2> QED
    BY <1>1, <1>4, <1>7, <2>1, <2>2 DEF SetAnswer
<1> QED
  BY <1>5, <1>6, <1>7

LEMMA ContestsKeep == ASSUME CallInv, Contests, CallNext PROVE Contests'
<1>1. NoTask \notin TaskIds
  BY DEF NoTask, TaskIds
<1>2. CASE UNCHANGED <<checked, contested, result>>
  BY <1>2 DEF Contests
<1>3. ASSUME NEW t \in Threads, NEW id \in TaskIds, FindEmpty(t, id), result[id] = Empty,
             UNCHANGED result
      PROVE  Contests'
  <2>1. /\ checked'[t] = id
        /\ \A u \in Threads \ {t} : checked'[u] = checked[u]
        /\ contested \subseteq contested'
        /\ (\E u \in Threads \ {t} : checked[u] = id) => id \in contested'
    BY <1>3 DEF FindEmpty, Contended, CallInv, CallTypeOK
  <2> QED
    BY <1>3, <2>1 DEF Contests
<1>4. ASSUME NEW t \in Threads, NEW id \in TaskIds, NEW r, checked[t] = id,
             SetResult(t, id, r)
      PROVE  Contests'
  <2>1. /\ checked'[t] = NoTask
        /\ \A u \in Threads \ {t} : checked'[u] = checked[u]
        /\ contested' = contested
        /\ \A i \in TaskIds \ {id} : result'[i] = result[i]
    BY <1>4 DEF SetResult, CallInv, CallTypeOK
  <2>2. \A u \in Threads \ {t} : checked[u] = id => id \in contested
    BY <1>1, <1>4 DEF Contests
  <2>3. \A u \in Threads : checked[u] \in TaskIds \cup {NoTask}
    BY DEF CallInv, CallTypeOK
  <2>4. ASSUME NEW u \in Threads, checked'[u] # NoTask, result'[checked'[u]] # Empty
        PROVE  checked'[u] \in contested'
    <3>1. u # t /\ checked'[u] = checked[u] /\ checked[u] \in TaskIds
      BY <2>1, <2>3, <2>4
    <3>2. CASE checked[u] = id
      BY <2>1, <2>2, <3>1, <3>2
    <3>3. CASE checked[u] # id
      BY <2>1, <2>4, <3>1, <3>3 DEF Contests
    <3> QED
      BY <3>2, <3>3
  <2>5. ASSUME NEW u \in Threads, NEW w \in Threads, u # w, checked'[u] # NoTask,
               checked'[w] = checked'[u]
        PROVE  checked'[u] \in contested'
    BY <2>1, <2>5 DEF Contests
  <2> QED
    BY <2>4, <2>5 DEF Contests
<1> QED
  BY <1>2, <1>3, <1>4, Settings, OneSet

\* The four places, when the results do not change.
LEMMA ApartMoves ==
  ASSUME Apart, NEW id \in TaskIds, UNCHANGED result, tasks \in Nat,
         \/ /\ tasks' = tasks + 1 /\ id = tasks + 1 /\ Asked' \subseteq Asked \cup {id}
            /\ UNCHANGED <<awaiting, Given, Queued>>
         \/ /\ UNCHANGED <<tasks, Queued>>
            /\ id \in Asked /\ Asked' = Asked \ {id}
            /\ \/ awaiting' = awaiting \cup {id} /\ Given' = Given
               \/ Given' = Given \cup {id} /\ awaiting' = awaiting
         \/ /\ UNCHANGED <<tasks, Asked, Queued>>
            /\ id \in awaiting /\ awaiting' = awaiting \ {id} /\ Given' = Given \cup {id}
         \/ /\ UNCHANGED <<tasks, Asked, awaiting>>
            /\ id \in Given /\ Given' = Given \ {id} /\ Queued' \subseteq Queued \cup {id}
         \/ /\ UNCHANGED <<tasks, Asked, awaiting, Given>>
            /\ Queued' \subseteq Queued
  PROVE  Apart'
<1>1. tasks' \in Nat /\ 1 .. tasks \subseteq 1 .. tasks' /\ (tasks' = tasks + 1 => tasks' \in 1 .. tasks' /\ tasks' \notin 1 .. tasks)
  OBVIOUS
<1> QED
  BY <1>1 DEF Apart

LEMMA PlacesKeep ==
  ASSUME CallInv, DistinctIds, Apart, CallNext
  PROVE  DistinctIds' /\ Apart'
<1>1. /\ callWire[Caller] \in Seq(Requests) /\ callWire[Callee] \in Seq(TrueAnswers)
      /\ scheduled \in Seq(TrueAnswers)
      /\ tasks \in 0 .. MaxCalls /\ tasks \in Nat /\ MaxCalls \in Nat
      /\ Distinct(callWire[Caller]) /\ Distinct(callWire[Callee]) /\ Distinct(scheduled)
  BY CallAssumption DEF CallInv, CallTypeOK, OnTheWay, DistinctIds
<1>2. Caller \in Ends /\ Callee \in Ends /\ Caller # Callee
      /\ Peer(Caller) = Callee /\ Peer(Callee) = Caller
      /\ DOMAIN callWire = Ends
  BY DEF Ends, Caller, Callee, Peer, CallInv, OnTheWay
<1>3. Asked \subseteq 1 .. tasks /\ tasks + 1 \notin Asked
  BY <1>1 DEF Apart
<1>4. CASE UNCHANGED <<tasks, result, scheduled, awaiting, callWire>>
  BY <1>4 DEF DistinctIds, Apart, Asked, Given, Queued
<1>5. CASE StartCall \/ SyncCall
  <2>0. tasks + 1 \in TaskIds
    BY <1>1, <1>5 DEF StartCall, SyncCall, NewTask, TaskIds
  <2>1. PICK m \in Requests : m = [id |-> tasks + 1]
    BY <1>1, <2>0 DEF Requests
  <2>2. callWire' = [callWire EXCEPT ![Caller] = callWire[Caller] \o <<m>>]
    BY <1>5, <2>1 DEF StartCall, SyncCall, Request, Send
  <2>3. callWire'[Caller] = callWire[Caller] \o <<m>> /\ callWire'[Callee] = callWire[Callee]
    BY <1>2, <2>2
  <2>4. Distinct(callWire'[Caller]) /\ Asked' = Asked \cup {tasks + 1}
    BY <1>1, <1>3, <2>1, <2>3, IdsMore DEF Asked
  <2>5. UNCHANGED <<result, scheduled, awaiting>> /\ tasks' = tasks + 1
    BY <1>5 DEF StartCall, SyncCall, NewTask
  <2>6. Given' = Given /\ Queued' = Queued
    BY <2>3, <2>5 DEF Given, Queued
  <2> QED
    BY <1>1, <2>0, <2>3, <2>4, <2>5, <2>6, ApartMoves DEF DistinctIds
<1>6. CASE RefuseSync
  <2>1. UNCHANGED <<result, scheduled, awaiting, callWire>> /\ tasks' = tasks + 1
        /\ tasks + 1 \in TaskIds
    BY <1>1, <1>6 DEF RefuseSync, NewTask, TaskIds
  <2>2. UNCHANGED <<Asked, Given, Queued>> /\ DistinctIds'
    BY <2>1 DEF Asked, Given, Queued, DistinctIds
  <2> QED
    BY <1>1, <2>1, <2>2, ApartMoves
<1>7. CASE ReceiveRequest
  <2>1. callWire[Caller] # << >>
    BY <1>2, <1>7 DEF ReceiveRequest, Arrived
  <2>2. PICK m \in Requests : m = Head(callWire[Caller])
    BY <1>1, <2>1, Taken
  <2>3. m.id \in TaskIds
    BY <2>2 DEF Requests
  <2>4. /\ Distinct(Tail(callWire[Caller])) /\ m.id \in Asked
        /\ Ids(Tail(callWire[Caller])) = Asked \ {m.id}
    BY <1>1, <2>1, <2>2, IdsLeft DEF Asked
  <2>5. /\ Take(callWire, Callee) = [callWire EXCEPT ![Caller] = Tail(callWire[Caller])]
        /\ Message(callWire, Callee) = m
    BY <1>2, <2>2 DEF Take, Message
  <2>6. UNCHANGED <<tasks, result, scheduled>>
    BY <1>7 DEF ReceiveRequest
  <2>7. ASSUME callWire' = Take(callWire, Callee), awaiting' = awaiting \cup {m.id}
        PROVE  DistinctIds' /\ Apart'
    <3>1. callWire'[Caller] = Tail(callWire[Caller]) /\ callWire'[Callee] = callWire[Callee]
      BY <1>2, <2>5, <2>7
    <3>2. Asked' = Asked \ {m.id} /\ Given' = Given /\ Queued' = Queued
      BY <2>4, <2>6, <3>1 DEF Asked, Given, Queued
    <3> QED
      BY <1>1, <2>3, <2>4, <2>6, <2>7, <3>1, <3>2, ApartMoves DEF DistinctIds
  <2>8. ASSUME NEW r \in {m.id, Fault}, awaiting' = awaiting,
               callWire' = Send(Take(callWire, Callee), Callee, <<Answer(m.id, r)>>)
        PROVE  DistinctIds' /\ Apart'
    <3>1. Answer(m.id, r) \in TrueAnswers /\ Answer(m.id, r).id = m.id
      BY <2>3, AnswerSent
    <3>2. /\ callWire'[Caller] = Tail(callWire[Caller])
          /\ callWire'[Callee] = callWire[Callee] \o <<Answer(m.id, r)>>
      BY <1>2, <2>5, <2>8 DEF Send
    <3>3. m.id \notin Given
      BY <2>4 DEF Apart
    <3>4. Distinct(callWire'[Callee]) /\ Given' = Given \cup {m.id}
      BY <1>1, <3>1, <3>2, <3>3, IdsMore DEF Given
    <3>5. Asked' = Asked \ {m.id} /\ Queued' = Queued
      BY <2>4, <2>6, <3>2 DEF Asked, Queued
    <3> QED
      BY <1>1, <2>3, <2>4, <2>6, <2>8, <3>2, <3>4, <3>5, ApartMoves DEF DistinctIds
  <2> QED
    BY <1>7, <2>5, <2>7, <2>8 DEF ReceiveRequest
<1>8. CASE AnswerLater
  <2>1. PICK id \in awaiting :
          /\ callWire' = Send(callWire, Callee, <<Answer(id, id)>>)
          /\ awaiting' = awaiting \ {id}
    BY <1>8 DEF AnswerLater
  <2>2. id \in TaskIds
    BY DEF CallInv, OnTheWay
  <2>3. Answer(id, id) \in TrueAnswers /\ Answer(id, id).id = id
    BY <2>2, AnswerSent
  <2>4. /\ callWire'[Caller] = callWire[Caller]
        /\ callWire'[Callee] = callWire[Callee] \o <<Answer(id, id)>>
    BY <1>2, <2>1 DEF Send
  <2>5. id \notin Given
    BY DEF Apart
  <2>6. Distinct(callWire'[Callee]) /\ Given' = Given \cup {id}
    BY <1>1, <2>3, <2>4, <2>5, IdsMore DEF Given
  <2>7. UNCHANGED <<tasks, result, scheduled>>
    BY <1>8 DEF AnswerLater
  <2>8. Asked' = Asked /\ Queued' = Queued
    BY <2>4, <2>7 DEF Asked, Queued
  <2> QED
    BY <1>1, <2>1, <2>2, <2>4, <2>6, <2>7, <2>8, ApartMoves DEF DistinctIds
<1>9. CASE callWire' = Take(callWire, Caller) /\ callWire[Callee] # << >>
           /\ UNCHANGED <<tasks, awaiting>>
           /\ \/ ReceiveAnswer
              \/ SetReceived
  <2>1. PICK m \in TrueAnswers : m = Head(callWire[Callee])
    BY <1>1, <1>9, Taken
  <2>2. m.id \in TaskIds /\ m.result \in {Fault, m.id} /\ m = Message(callWire, Caller)
    BY <1>2, <2>1 DEF TrueAnswers, Answers, Message
  <2>3. /\ Distinct(Tail(callWire[Callee])) /\ m.id \in Given
        /\ Ids(Tail(callWire[Callee])) = Given \ {m.id}
    BY <1>1, <1>9, <2>1, IdsLeft DEF Given
  <2>4. callWire'[Caller] = callWire[Caller] /\ callWire'[Callee] = Tail(callWire[Callee])
    BY <1>2, <1>9 DEF Take
  <2>5. Asked' = Asked /\ Given' = Given \ {m.id}
    BY <2>3, <2>4 DEF Asked, Given
  <2>6. m.id \notin Queued /\ m.id \in 1 .. tasks
        /\ m.id \notin Asked /\ m.id \notin awaiting
    BY <2>3 DEF Apart
  <2>7. CASE ReceiveAnswer
    <3>1. result' = result /\ scheduled' \in {scheduled, scheduled \o <<m>>}
      <4>1. Append(scheduled, m) = scheduled \o <<m>>
        BY <1>1, AppendIsConcat
      <4> QED
        BY <2>2, <2>7, <4>1 DEF ReceiveAnswer, GivenTo
    <3>2. Distinct(scheduled') /\ Queued' \subseteq Queued \cup {m.id}
      <4>1. CASE scheduled' = scheduled
        BY <1>1, <4>1 DEF Queued
      <4>2. CASE scheduled' = scheduled \o <<m>>
        BY <1>1, <2>6, <4>2, IdsMore DEF Queued
      <4> QED
        BY <3>1, <4>1, <4>2
    <3> QED
      BY <1>1, <1>9, <2>2, <2>3, <2>4, <2>5, <3>1, <3>2, ApartMoves DEF DistinctIds
  <2>8. CASE SetReceived
    <3>1. checked["receiver"] = m.id
      BY <2>1, <2>8 DEF SetReceived, CallInv, AtHand, Heads
    <3>2. result' \in {result, [result EXCEPT ![m.id] = m.result]} /\ scheduled' = scheduled
      BY <2>2, <2>8, <3>1 DEF SetReceived, SetResult
    <3>3. Queued' = Queued
      BY <3>2 DEF Queued
    <3>4. \A i \in TaskIds \ {m.id} : result'[i] = result[i]
      BY <3>2 DEF CallInv, CallTypeOK
    <3>5. Apart'
      BY <1>9, <2>2, <2>5, <2>6, <3>3, <3>4 DEF Apart
    <3> QED
      BY <1>1, <2>3, <2>4, <3>2, <3>5 DEF DistinctIds
  <2> QED
    BY <1>9, <2>7, <2>8
<1>10. CASE ReceiveAnswer \/ SetReceived
  <2>1. callWire[Callee] # << >>
    BY <1>2, <1>10 DEF ReceiveAnswer, SetReceived, Arrived, CallInv, AtHand, Heads
  <2>2. UNCHANGED <<tasks, awaiting>>
    BY <1>10 DEF ReceiveAnswer, SetReceived
  <2>3. callWire' = Take(callWire, Caller)
        \/ (ReceiveAnswer /\ UNCHANGED <<callWire, scheduled, result>>)
    BY <1>10 DEF ReceiveAnswer, SetReceived
  <2> QED
    BY <1>4, <1>9, <1>10, <2>1, <2>2, <2>3
<1>11. CASE TestAnswer \/ SetAnswer
  <2>1. scheduled # << >> /\ UNCHANGED <<tasks, awaiting, callWire>>
    BY <1>11 DEF TestAnswer, SetAnswer, CallInv, AtHand, Heads
  <2>2. PICK m \in TrueAnswers : m = Head(scheduled)
    BY <1>1, <2>1, Taken
  <2>3. m.id \in TaskIds /\ m.result \in {Fault, m.id}
    BY <2>2 DEF TrueAnswers, Answers
  <2>4. /\ Distinct(Tail(scheduled)) /\ m.id \in Queued
        /\ Ids(Tail(scheduled)) = Queued \ {m.id}
    BY <1>1, <2>1, <2>2, IdsLeft DEF Queued
  <2>5. Asked' = Asked /\ Given' = Given
    BY <2>1 DEF Asked, Given
  <2>6. CASE TestAnswer
    <3>1. result' = result /\ scheduled' \in {scheduled, Tail(scheduled)}
      BY <2>6 DEF TestAnswer
    <3>2. Distinct(scheduled') /\ Queued' \subseteq Queued
      BY <1>1, <2>4, <3>1 DEF Queued
    <3> QED
      BY <1>1, <2>1, <2>3, <2>5, <3>1, <3>2, ApartMoves DEF DistinctIds
  <2>7. CASE SetAnswer
    <3>1. checked["scheduler"] = m.id
      BY <2>2, <2>7 DEF SetAnswer, CallInv, AtHand, Heads
    <3>2. /\ result' \in {result, [result EXCEPT ![m.id] = m.result]}
          /\ scheduled' = Tail(scheduled)
      BY <2>2, <2>7, <3>1 DEF SetAnswer, SetResult
    <3>3. Queued' = Queued \ {m.id}
      BY <2>4, <3>2 DEF Queued
    <3>4. \A i \in TaskIds \ {m.id} : result'[i] = result[i]
      BY <3>2 DEF CallInv, CallTypeOK
    <3>5. Apart'
      BY <2>1, <2>3, <2>4, <2>5, <3>3, <3>4 DEF Apart
    <3> QED
      BY <1>1, <2>1, <2>4, <3>2, <3>5 DEF DistinctIds
  <2> QED
    BY <1>11, <2>6, <2>7
<1>12. CASE SetCancelled
  <2>1. UNCHANGED <<tasks, scheduled, awaiting, callWire>>
    BY <1>12 DEF SetCancelled
  <2>2. PICK id : result' \in {result, [result EXCEPT ![id] = Cancelled]}
    BY <1>12 DEF SetCancelled, SetResult
  <2>3. \A i \in TaskIds : result'[i] \in {result[i], Cancelled}
    BY <2>2 DEF CallInv, CallTypeOK
  <2>4. Cancelled # Fault /\ Cancelled \notin TaskIds
    BY DEF Cancelled, Fault, TaskIds
  <2>5. Asked' = Asked /\ Given' = Given /\ Queued' = Queued
    BY <2>1 DEF Asked, Given, Queued
  <2> QED
    BY <2>1, <2>3, <2>4, <2>5 DEF Apart, DistinctIds
<1>13. CASE SyncReturns \/ SyncThrows \/ BeginUnbind \/ CancelTask \/ Unsubscribe
  BY <1>4, <1>13 DEF SyncReturns, SyncThrows, BeginUnbind, CancelTask, Unsubscribe
<1> QED
  BY <1>5, <1>6, <1>7, <1>8, <1>10, <1>11, <1>12, <1>13 DEF CallNext

LEMMA ResultInvariant == ReplicasSpec => []ResultInv
<1>1. ReplicasInit => ResultInv
  BY ResultInitKeeps DEF ReplicasInit
<1>2. CallInv /\ ResultInv /\ [ReplicasNext]_replicaVars => ResultInv'
  <2> SUFFICES ASSUME CallInv, ResultInv, [ReplicasNext]_replicaVars PROVE ResultInv'
    OBVIOUS
  <2>1. CASE UNCHANGED callVars
    BY <2>1 DEF callVars, lifetimeVars, settingVars, ResultInv, DistinctIds, Apart, Contests,
                Asked, Given, Queued
  <2>2. CASE CallNext
    BY <2>2, PlacesKeep, ContestsKeep DEF ResultInv
  <2> QED
    BY <2>1, <2>2 DEF ReplicasNext, replicaVars
<1> QED
  BY <1>1, <1>2, CallInvariant, PTL DEF ReplicasSpec

\* A result is changed, by a late answer or by the end of the lifetime, only where an
\* answer and the cancellation had both found the task without one (IProperty.h,
\* set_if_empty; WiredRdTaskImpl.h).
THEOREM ResultsStay == ReplicasSpec => ResultsAreFinal
<1> DEFINE Step == \A id \in TaskIds : result[id] # Empty /\ result'[id] # result[id] =>
                     id \in contested /\ Cancelled \in {result[id], result'[id]}
<1>1. CallInv /\ ResultInv /\ [ReplicasNext]_replicaVars => [Step]_callVars
  <2> SUFFICES ASSUME CallInv, ResultInv, [ReplicasNext]_replicaVars, ~UNCHANGED callVars,
                      NEW id \in TaskIds, result[id] # Empty, result'[id] # result[id]
               PROVE  id \in contested /\ Cancelled \in {result[id], result'[id]}
    OBVIOUS
  <2>1. CallNext
    BY DEF ReplicasNext, replicaVars
  <2>2. SetCancelled \/ SetReceived \/ SetAnswer
    BY <2>1, Settings
  <2>3. PICK t \in Threads, i \in TaskIds, r \in {Fault, Cancelled} \cup TaskIds :
          /\ checked[t] = i /\ SetResult(t, i, r)
          /\ SetCancelled => r = Cancelled
          /\ SetReceived => t = "receiver"
          /\ SetAnswer => t = "scheduler"
    BY <2>2, OneSet
  <2>4. i = id /\ result'[id] = r
    BY <2>3 DEF SetResult, CallInv, CallTypeOK
  <2>5. id \in contested
    BY <2>3, <2>4 DEF ResultInv, Contests, NoTask, TaskIds
  <2>6. CASE SetCancelled
    BY <2>3, <2>4, <2>5, <2>6
  <2>7. CASE SetReceived \/ SetAnswer
    <3>1. id \in Given \cup Queued
      <4>1. ASSUME NEW q \in Seq(TrueAnswers), Heads(q, id), Distinct(q)
            PROVE  id \in Ids(q)
        BY <4>1, IdsLeft DEF Heads
      <4>2. checked[t] = id /\ id # NoTask
        BY <2>3, <2>4 DEF NoTask, TaskIds
      <4>3. (t = "receiver" /\ Heads(callWire[Callee], id))
            \/ (t = "scheduler" /\ Heads(scheduled, id))
        BY <2>3, <2>7, <4>2 DEF CallInv, AtHand
      <4> QED
        BY <4>1, <4>3 DEF Given, Queued, ResultInv, DistinctIds, CallInv, OnTheWay
    <3>2. result[id] \notin {Fault, id}
      BY <3>1 DEF ResultInv, Apart
    <3>3. result[id] = Cancelled
      BY <3>2 DEF CallInv, AnswersMatch
    <3> QED
      BY <2>5, <3>3
  <2> QED
    BY <2>2, <2>6, <2>7
<1> QED
  BY <1>1, CallInvariant, ResultInvariant, PTL DEF ReplicasSpec, ResultsAreFinal

-------------------------------------------------------------------------------
(***************************************************************************)
(* A property with one master.  The master's messages that have not        *)
(* arrived number the versions between the two counts, and the last of     *)
(* them is its value.  The other end's messages carry versions that end    *)
(* has known, in order: one that is not older than the master's count is   *)
(* newer than everything the master has sent.                              *)
(***************************************************************************)
PropertyTypeOK ==
  /\ value \in [Ends -> Values \cup {Absent}]
  /\ masterVersion \in [Ends -> Nat]
  /\ propertyWire \in [Ends -> Seq(PropertyMessages)]

MasterNumbers(m, s) ==
  /\ masterVersion[m] = masterVersion[s] + Len(propertyWire[m])
  /\ \A i \in DOMAIN propertyWire[m] :
       propertyWire[m][i].version = masterVersion[s] + i

SlaveRepeats(s) ==
  /\ \A i \in DOMAIN propertyWire[s] : propertyWire[s][i].version <= masterVersion[s]
  /\ \A i, j \in DOMAIN propertyWire[s] :
       i < j => propertyWire[s][i].version <= propertyWire[s][j].version

\* Which value the two ends will agree on.
ValuesConverge(m, s) ==
  /\ propertyWire[m] # << >> => value[m] = Last(propertyWire[m]).value
  /\ propertyWire[m] = << >> =>
       \/ /\ propertyWire[s] # << >>
          /\ Last(propertyWire[s]).version = masterVersion[m]
          /\ value[s] = Last(propertyWire[s]).value
       \/ /\ propertyWire[s] # << >> => Last(propertyWire[s]).version # masterVersion[m]
          /\ value[s] = value[m]

PropertyInv(m, s) ==
  PropertyTypeOK /\ MasterNumbers(m, s) /\ SlaveRepeats(s) /\ ValuesConverge(m, s)

OneMaster(m, s) == m \in Ends /\ s = Peer(m) /\ Masters = {m}

LEMMA PropertyInitKeeps ==
  ASSUME NEW m, NEW s, OneMaster(m, s), PropertyInit PROVE PropertyInv(m, s)
<1>1. << >> \in Seq(PropertyMessages) /\ Len(<< >>) = 0 /\ DOMAIN << >> = {}
  BY EmptySeq
<1>2. m \in Ends /\ s \in Ends
  BY Peers DEF OneMaster
<1>3. /\ value = [e \in Ends |-> Absent] /\ masterVersion = [e \in Ends |-> 0]
      /\ propertyWire = [e \in Ends |-> << >>]
  BY DEF PropertyInit, EmptyWire
<1> QED
  BY <1>1, <1>2, <1>3
     DEF PropertyInv, PropertyTypeOK, MasterNumbers, SlaveRepeats, ValuesConverge

\* The master sets the value: it numbers the change and sends it.
LEMMA MasterSets ==
  ASSUME NEW m, NEW s, OneMaster(m, s), PropertyInv(m, s), SetProperty(m)
  PROVE  PropertyInv(m, s)'
<1>1. m \in Ends /\ s \in Ends /\ m # s
  BY Peers DEF OneMaster
<1>2. PICK v \in Values :
        /\ value' = [value EXCEPT ![m] = v]
        /\ masterVersion' = [masterVersion EXCEPT ![m] = masterVersion[m] + 1]
        /\ propertyWire' = [propertyWire EXCEPT
             ![m] = @ \o <<[value |-> v, version |-> masterVersion[m] + 1]>>]
  BY DEF SetProperty, VersionOfChange, Send, OneMaster
<1>3. /\ masterVersion[m] \in Nat /\ masterVersion[s] \in Nat
      /\ propertyWire[m] \in Seq(PropertyMessages)
  BY <1>1 DEF PropertyInv, PropertyTypeOK
<1>4. PICK p \in PropertyMessages : p = [value |-> v, version |-> masterVersion[m] + 1]
  <2>1. masterVersion[m] + 1 \in Nat
    BY <1>3
  <2> QED
    BY <2>1 DEF PropertyMessages
<1>5. p.value = v /\ p.version = masterVersion[m] + 1
  BY <1>4
<1>6. PICK sent \in Seq(PropertyMessages) :
        /\ sent = propertyWire[m] \o <<p>>
        /\ Len(sent) = Len(propertyWire[m]) + 1
        /\ \A i \in 1 .. Len(propertyWire[m]) : sent[i] = propertyWire[m][i]
        /\ sent[Len(propertyWire[m]) + 1] = p
  BY <1>3, Sent, ZenonT(30)
<1>7. /\ Len(propertyWire[m]) \in Nat /\ DOMAIN propertyWire[m] = 1 .. Len(propertyWire[m])
      /\ \A i \in DOMAIN propertyWire[m] : propertyWire[m][i] \in PropertyMessages
      /\ DOMAIN sent = 1 .. Len(propertyWire[m]) + 1 /\ sent # << >>
  BY <1>3, <1>6, Lengths
<1>8. propertyWire' = [propertyWire EXCEPT ![m] = sent]
  BY <1>2, <1>4, <1>6
<1>9. PropertyTypeOK'
  BY <1>1, <1>2, <1>3, <1>8 DEF PropertyInv, PropertyTypeOK
<1>10. /\ propertyWire'[m] = sent /\ propertyWire'[s] = propertyWire[s]
       /\ masterVersion'[m] = masterVersion[m] + 1 /\ masterVersion'[s] = masterVersion[s]
       /\ value'[m] = v /\ value'[s] = value[s]
  BY <1>1, <1>2, <1>8 DEF PropertyInv, PropertyTypeOK
<1>11. MasterNumbers(m, s)'
  <2>1. masterVersion[m] = masterVersion[s] + Len(propertyWire[m])
    BY DEF PropertyInv, MasterNumbers
  <2>2. \A i \in 1 .. Len(propertyWire[m]) : sent[i].version = masterVersion[s] + i
    BY <1>6, <1>7 DEF PropertyInv, MasterNumbers
  <2>3. sent[Len(propertyWire[m]) + 1].version = masterVersion[s] + (Len(propertyWire[m]) + 1)
    BY <1>3, <1>5, <1>6, <1>7, <2>1
  <2>4. \A i \in DOMAIN sent : sent[i].version = masterVersion[s] + i
    BY <1>7, <2>2, <2>3
  <2>5. masterVersion[m] + 1 = masterVersion[s] + Len(sent)
    BY <1>3, <1>6, <1>7, <2>1
  <2> QED
    BY <1>10, <2>4, <2>5 DEF MasterNumbers
<1>12. SlaveRepeats(s)'
  BY <1>10 DEF PropertyInv, SlaveRepeats
<1>13. ValuesConverge(m, s)'
  BY <1>5, <1>6, <1>7, <1>10 DEF ValuesConverge, Last
<1> QED
  BY <1>9, <1>11, <1>12, <1>13 DEF PropertyInv

\* The other end sets the value: it sends the change with the count it knows.
LEMMA SlaveSets ==
  ASSUME NEW m, NEW s, OneMaster(m, s), PropertyInv(m, s), SetProperty(s)
  PROVE  PropertyInv(m, s)'
<1>1. m \in Ends /\ s \in Ends /\ m # s
  BY Peers DEF OneMaster
<1>2. PICK v \in Values :
        /\ value' = [value EXCEPT ![s] = v]
        /\ masterVersion' = [masterVersion EXCEPT ![s] = masterVersion[s]]
        /\ propertyWire' = [propertyWire EXCEPT
             ![s] = @ \o <<[value |-> v, version |-> masterVersion[s]]>>]
  BY <1>1 DEF SetProperty, VersionOfChange, Send, OneMaster
<1>3. /\ masterVersion[m] \in Nat /\ masterVersion[s] \in Nat
      /\ propertyWire[m] \in Seq(PropertyMessages) /\ propertyWire[s] \in Seq(PropertyMessages)
  BY <1>1 DEF PropertyInv, PropertyTypeOK
<1>4. PICK p \in PropertyMessages : p = [value |-> v, version |-> masterVersion[s]]
  BY <1>3 DEF PropertyMessages
<1>5. p.value = v /\ p.version = masterVersion[s]
  BY <1>4
<1>6. PICK sent \in Seq(PropertyMessages) :
        /\ sent = propertyWire[s] \o <<p>>
        /\ Len(sent) = Len(propertyWire[s]) + 1
        /\ \A i \in 1 .. Len(propertyWire[s]) : sent[i] = propertyWire[s][i]
        /\ sent[Len(propertyWire[s]) + 1] = p
  BY <1>3, Sent, ZenonT(30)
<1>7. /\ Len(propertyWire[s]) \in Nat /\ DOMAIN propertyWire[s] = 1 .. Len(propertyWire[s])
      /\ \A i \in DOMAIN propertyWire[s] : propertyWire[s][i] \in PropertyMessages
      /\ DOMAIN sent = 1 .. Len(propertyWire[s]) + 1 /\ sent # << >>
  BY <1>3, <1>6, Lengths
<1>8. propertyWire' = [propertyWire EXCEPT ![s] = sent]
  BY <1>2, <1>4, <1>6
<1>9. PropertyTypeOK'
  BY <1>1, <1>2, <1>3, <1>8 DEF PropertyInv, PropertyTypeOK
<1>10. /\ propertyWire'[s] = sent /\ propertyWire'[m] = propertyWire[m]
       /\ masterVersion'[m] = masterVersion[m] /\ masterVersion'[s] = masterVersion[s]
       /\ value'[s] = v /\ value'[m] = value[m]
  BY <1>1, <1>2, <1>8 DEF PropertyInv, PropertyTypeOK
<1>11. MasterNumbers(m, s)'
  BY <1>10 DEF PropertyInv, MasterNumbers
<1>12. SlaveRepeats(s)'
  <2>1. \A i \in DOMAIN sent : sent[i].version \in Nat /\ sent[i].version <= masterVersion[s]
    <3>1. \A i \in DOMAIN propertyWire[s] :
            propertyWire[s][i] \in PropertyMessages /\ propertyWire[s][i].version <= masterVersion[s]
      BY <1>7 DEF PropertyInv, SlaveRepeats
    <3> QED
      BY <1>3, <1>5, <1>6, <3>1 DEF PropertyMessages
  <2>2. \A i, j \in DOMAIN sent : i < j => sent[i].version <= sent[j].version
    BY <1>3, <1>5, <1>6, <2>1, SMTT(30) DEF PropertyInv, SlaveRepeats
  <2> QED
    BY <1>10, <2>1, <2>2 DEF SlaveRepeats
<1>13. ValuesConverge(m, s)'
  <2>1. propertyWire[m] = << >> => masterVersion[m] = masterVersion[s]
    BY <1>3, EmptySeq DEF PropertyInv, MasterNumbers
  <2> QED
    BY <1>5, <1>6, <1>7, <1>10, <2>1 DEF PropertyInv, ValuesConverge, Last
<1> QED
  BY <1>9, <1>11, <1>12, <1>13 DEF PropertyInv

\* The other end takes what the master sent.
LEMMA SlaveReceives ==
  ASSUME NEW m, NEW s, OneMaster(m, s), PropertyInv(m, s), ReceiveProperty(s)
  PROVE  PropertyInv(m, s)'
<1>1. m \in Ends /\ s \in Ends /\ m # s /\ m = Peer(s) /\ s \notin Masters
  BY Peers DEF OneMaster
<1>2. propertyWire[m] # << >>
  BY <1>1 DEF ReceiveProperty, Arrived
<1>3. /\ masterVersion[m] \in Nat /\ masterVersion[s] \in Nat
      /\ propertyWire[m] \in Seq(PropertyMessages) /\ propertyWire[s] \in Seq(PropertyMessages)
  BY <1>1 DEF PropertyInv, PropertyTypeOK
<1>4. PICK p \in PropertyMessages, left \in Seq(PropertyMessages) :
        TakenOff(propertyWire[m], p, left)
  BY <1>2, <1>3, TakingOff
<1>5. /\ Len(propertyWire[m]) \in Nat \ {0}
      /\ DOMAIN propertyWire[m] = 1 .. Len(propertyWire[m])
      /\ Len(left) = Len(propertyWire[m]) - 1 /\ DOMAIN left = 1 .. Len(propertyWire[m]) - 1
      /\ left = << >> <=> Len(propertyWire[m]) = 1
      /\ p = propertyWire[m][1] /\ 1 \in DOMAIN propertyWire[m]
      /\ \A i \in 1 .. Len(propertyWire[m]) - 1 : left[i] = propertyWire[m][i + 1]
  BY <1>4 DEF TakenOff
<1>6. p.value \in Values /\ p.version \in Nat
  BY DEF PropertyMessages
<1>7. /\ value' = [value EXCEPT ![s] = p.value]
      /\ masterVersion' = [masterVersion EXCEPT ![s] = p.version]
      /\ propertyWire' = [propertyWire EXCEPT ![m] = left]
  BY <1>1, <1>4 DEF TakenOff, ReceiveProperty, AcceptsProperty, Message, Take
<1>8. p.version = masterVersion[s] + 1
  BY <1>5 DEF PropertyInv, MasterNumbers
<1>9. PropertyTypeOK'
  BY <1>1, <1>7, <1>6, <1>8 DEF PropertyInv, PropertyTypeOK
<1>10. /\ propertyWire'[m] = left /\ propertyWire'[s] = propertyWire[s]
       /\ masterVersion'[m] = masterVersion[m] /\ masterVersion'[s] = masterVersion[s] + 1
       /\ value'[s] = p.value /\ value'[m] = value[m]
  BY <1>1, <1>7, <1>6, <1>8 DEF PropertyInv, PropertyTypeOK
<1>11. MasterNumbers(m, s)'
  <2>1. /\ masterVersion[m] = masterVersion[s] + Len(propertyWire[m])
        /\ \A i \in DOMAIN propertyWire[m] :
             propertyWire[m][i].version = masterVersion[s] + i
    BY DEF PropertyInv, MasterNumbers
  <2>2. masterVersion[m] = masterVersion[s] + 1 + Len(left)
    BY <1>3, <1>5, <2>1
  <2>3. \A i \in DOMAIN left : left[i].version = masterVersion[s] + 1 + i
    <3> SUFFICES ASSUME NEW i \in DOMAIN left PROVE left[i].version = masterVersion[s] + 1 + i
      OBVIOUS
    <3>1. i \in Nat /\ i + 1 \in DOMAIN propertyWire[m] /\ left[i] = propertyWire[m][i + 1]
      BY <1>5
    <3>2. left[i].version = masterVersion[s] + (i + 1)
      BY <2>1, <3>1
    <3>3. i \in Nat /\ masterVersion[s] \in Nat
      BY <1>3, <3>1
    <3>4. masterVersion[s] + (i + 1) = masterVersion[s] + 1 + i
      BY <3>3
    <3> QED
      BY <3>2, <3>4
  <2> QED
    BY <1>10, <2>2, <2>3 DEF MasterNumbers
<1>12. \A i \in DOMAIN propertyWire[s] :
         /\ propertyWire[s][i].version \in Nat
         /\ propertyWire[s][i].version <= masterVersion[s]
  <2>1. \A i \in DOMAIN propertyWire[s] : propertyWire[s][i] \in PropertyMessages
    BY <1>3, Lengths
  <2> QED
    BY <2>1 DEF PropertyInv, SlaveRepeats, PropertyMessages
<1>13. SlaveRepeats(s)'
  BY <1>3, <1>10, <1>12 DEF PropertyInv, SlaveRepeats
<1>14. ValuesConverge(m, s)'
  <2>1. value[m] = propertyWire[m][Len(propertyWire[m])].value
    BY <1>2 DEF PropertyInv, ValuesConverge, Last
  <2>2. CASE left # << >>
    BY <1>5, <1>10, <2>1, <2>2 DEF ValuesConverge, Last
  <2>3. CASE left = << >>
    <3>1. Len(propertyWire[m]) = 1 /\ masterVersion[m] = masterVersion[s] + 1
      BY <1>3, <1>5, <2>3 DEF PropertyInv, MasterNumbers
    <3>2. value'[s] = value[m]
      BY <1>5, <1>10, <2>1, <3>1
    <3>3. propertyWire[s] # << >> => Len(propertyWire[s]) \in DOMAIN propertyWire[s]
      BY <1>3, Lengths
    <3>4. propertyWire[s] # << >> => Last(propertyWire[s]).version # masterVersion[m]
      BY <1>3, <1>12, <3>1, <3>3 DEF Last
    <3> QED
      BY <1>10, <2>3, <3>2, <3>4 DEF ValuesConverge
  <2> QED
    BY <2>2, <2>3
<1> QED
  BY <1>9, <1>11, <1>13, <1>14 DEF PropertyInv

\* The master takes what the other end sent, or rejects it.
LEMMA MasterReceives ==
  ASSUME NEW m, NEW s, OneMaster(m, s), PropertyInv(m, s), ReceiveProperty(m)
  PROVE  PropertyInv(m, s)'
<1>1. m \in Ends /\ s \in Ends /\ m # s /\ s = Peer(m) /\ m \in Masters
  BY Peers DEF OneMaster
<1>2. propertyWire[s] # << >>
  BY <1>1 DEF ReceiveProperty, Arrived
<1>3. /\ masterVersion[m] \in Nat /\ masterVersion[s] \in Nat
      /\ propertyWire[m] \in Seq(PropertyMessages) /\ propertyWire[s] \in Seq(PropertyMessages)
  BY <1>1 DEF PropertyInv, PropertyTypeOK
<1>4. PICK p \in PropertyMessages, left \in Seq(PropertyMessages) :
        TakenOff(propertyWire[s], p, left)
  BY <1>2, <1>3, TakingOff
<1>5. /\ Len(propertyWire[s]) \in Nat \ {0}
      /\ DOMAIN propertyWire[s] = 1 .. Len(propertyWire[s])
      /\ Len(left) = Len(propertyWire[s]) - 1 /\ DOMAIN left = 1 .. Len(propertyWire[s]) - 1
      /\ left = << >> <=> Len(propertyWire[s]) = 1
      /\ p = propertyWire[s][1] /\ 1 \in DOMAIN propertyWire[s]
      /\ \A i \in 1 .. Len(propertyWire[s]) - 1 : left[i] = propertyWire[s][i + 1]
  BY <1>4 DEF TakenOff
<1>6. p.value \in Values /\ p.version \in Nat
  BY DEF PropertyMessages
<1>7. /\ propertyWire' = [propertyWire EXCEPT ![s] = left]
      /\ IF p.version >= masterVersion[m]
         THEN /\ value' = [value EXCEPT ![m] = p.value]
              /\ masterVersion' = [masterVersion EXCEPT ![m] = p.version]
         ELSE UNCHANGED <<value, masterVersion>>
  BY <1>1, <1>4 DEF TakenOff, ReceiveProperty, AcceptsProperty, Message, Take
<1>8. p.version <= masterVersion[s]
  BY <1>5 DEF PropertyInv, SlaveRepeats
<1>9. PropertyTypeOK'
  BY <1>1, <1>7, <1>6, <1>8 DEF PropertyInv, PropertyTypeOK
<1>10. Len(propertyWire[m]) \in Nat /\ (propertyWire[m] = << >> <=> Len(propertyWire[m]) = 0)
  BY <1>3, LenProperties, EmptySeq
<1>11. masterVersion[m] = masterVersion[s] + Len(propertyWire[m])
  BY DEF PropertyInv, MasterNumbers
<1>12. p.version >= masterVersion[m] =>
         propertyWire[m] = << >> /\ p.version = masterVersion[m]
  BY <1>3, <1>6, <1>8, <1>10, <1>11
<1>13. /\ propertyWire'[s] = left /\ propertyWire'[m] = propertyWire[m]
       /\ masterVersion'[m] = masterVersion[m] /\ masterVersion'[s] = masterVersion[s]
       /\ value'[s] = value[s]
       /\ value'[m] = IF p.version >= masterVersion[m] THEN p.value ELSE value[m]
  BY <1>1, <1>7, <1>12 DEF PropertyInv, PropertyTypeOK
<1>14. MasterNumbers(m, s)'
  BY <1>13 DEF PropertyInv, MasterNumbers
<1>15. SlaveRepeats(s)'
  <2>1. \A i \in DOMAIN left :
          i \in Nat /\ i + 1 \in DOMAIN propertyWire[s] /\ left[i] = propertyWire[s][i + 1]
    BY <1>5
  <2>2. \A i \in DOMAIN left : left[i].version <= masterVersion[s]
    BY <2>1 DEF PropertyInv, SlaveRepeats
  <2>3. \A i, j \in DOMAIN left : i < j => left[i].version <= left[j].version
    <3> SUFFICES ASSUME NEW i \in DOMAIN left, NEW j \in DOMAIN left, i < j
                 PROVE  left[i].version <= left[j].version
      OBVIOUS
    <3>1. i + 1 < j + 1
      BY <2>1
    <3> QED
      BY <2>1, <3>1 DEF PropertyInv, SlaveRepeats
  <2> QED
    BY <1>13, <2>2, <2>3 DEF SlaveRepeats
<1>16. ValuesConverge(m, s)'
  <2>1. CASE propertyWire[m] # << >>
    BY <1>12, <1>13, <2>1 DEF PropertyInv, ValuesConverge
  <2>2. CASE propertyWire[m] = << >> /\ left = << >>
    <3>1. Last(propertyWire[s]) = p
      BY <1>5, <2>2 DEF Last
    <3>2. masterVersion[m] = masterVersion[s]
      BY <1>3, <1>10, <1>11, <2>2
    <3>3. value'[s] = value'[m]
      BY <1>2, <1>3, <1>6, <1>8, <1>13, <2>2, <3>1, <3>2 DEF PropertyInv, ValuesConverge
    <3> QED
      BY <1>13, <2>2, <3>3 DEF ValuesConverge
  <2>3. CASE propertyWire[m] = << >> /\ left # << >>
    <3>1. Last(left) = Last(propertyWire[s])
      BY <1>5, <2>3 DEF Last
    <3>2. PICK l \in PropertyMessages :
            l = Last(propertyWire[s]) /\ p.version <= l.version
      <4>1. 1 < Len(propertyWire[s]) /\ Len(propertyWire[s]) \in DOMAIN propertyWire[s]
        BY <1>5, <2>3
      <4>2. Last(propertyWire[s]) \in PropertyMessages
        BY <1>3, <1>5, <4>1, Lengths DEF Last
      <4> QED
        BY <1>5, <4>1, <4>2 DEF Last, PropertyInv, SlaveRepeats
    <3>3. l.version \in Nat
      BY DEF PropertyMessages
    <3>4. l.version <= masterVersion[s]
      BY <1>5, <3>2 DEF Last, PropertyInv, SlaveRepeats
    <3>5. masterVersion[m] = masterVersion[s]
      BY <1>3, <1>10, <1>11, <2>3
    <3>6. CASE l.version = masterVersion[m]
      BY <1>2, <1>13, <2>3, <3>1, <3>2, <3>6 DEF PropertyInv, ValuesConverge
    <3>7. CASE l.version # masterVersion[m]
      <4>1. ~(p.version >= masterVersion[m])
        BY <1>3, <1>6, <1>8, <3>2, <3>3, <3>4, <3>5, <3>7
      <4> QED
        BY <1>2, <1>13, <2>3, <3>1, <3>2, <3>7, <4>1 DEF PropertyInv, ValuesConverge
    <3> QED
      BY <3>6, <3>7
  <2> QED
    BY <2>1, <2>2, <2>3
<1> QED
  BY <1>9, <1>14, <1>15, <1>16 DEF PropertyInv

LEMMA PropertyStep ==
  ASSUME NEW m, NEW s, OneMaster(m, s), PropertyInv(m, s), [ReplicasNext]_replicaVars
  PROVE  PropertyInv(m, s)'
<1>1. CASE UNCHANGED propertyVars
  BY <1>1 DEF propertyVars, PropertyInv, PropertyTypeOK, MasterNumbers, SlaveRepeats,
              ValuesConverge
<1>2. CASE PropertyNext
  <2>1. Ends = {m, s}
    BY DEF OneMaster, Ends, Peer
  <2> QED
    BY <1>2, <2>1, MasterSets, SlaveSets, MasterReceives, SlaveReceives DEF PropertyNext
<1> QED
  BY <1>1, <1>2 DEF ReplicasNext, replicaVars

\* With one master, which is what the code wants of every property, both ends come to the
\* same value however their changes cross (RdPropertyBase.h, on_wire_received and the
\* handler advised in init).
THEOREM PropertiesConverge ==
  ASSUME NEW CONSTANT m, NEW CONSTANT s, OneMaster(m, s)
  PROVE  ReplicasSpec => []PropertiesAgree
<1>1. ReplicasInit => PropertyInv(m, s)
  BY PropertyInitKeeps DEF ReplicasInit
<1>2. PropertyInv(m, s) /\ [ReplicasNext]_replicaVars => PropertyInv(m, s)'
  BY PropertyStep
<1>3. PropertyInv(m, s) => PropertiesAgree
  <2> SUFFICES ASSUME PropertyInv(m, s), Quiet(propertyWire)
               PROVE  value[1] = value[2] /\ masterVersion[1] = masterVersion[2]
    BY DEF PropertiesAgree
  <2>1. m \in Ends /\ s \in Ends /\ Ends = {m, s} /\ Ends = {1, 2}
    BY DEF OneMaster, Ends, Peer
  <2>2. propertyWire[m] = << >> /\ propertyWire[s] = << >> /\ Len(propertyWire[m]) = 0
    BY <2>1, EmptySeq DEF Quiet
  <2>3. masterVersion[m] = masterVersion[s] /\ value[m] = value[s]
    BY <2>1, <2>2 DEF PropertyInv, PropertyTypeOK, MasterNumbers, ValuesConverge
  <2> QED
    BY <2>1, <2>3
<1> QED
  BY <1>1, <1>2, <1>3, PTL DEF ReplicasSpec

-------------------------------------------------------------------------------
(***************************************************************************)
(* A set.  Of an element whose changes never crossed at most one end has   *)
(* messages on their way, the last of them tells what that end has, and    *)
(* when there is none both ends have the same.                             *)
(***************************************************************************)
Mentions(q, v) == \E i \in DOMAIN q : q[i].value = v

LastTells(q, v, present) ==
  \A i \in DOMAIN q :
    q[i].value = v /\ (\A j \in DOMAIN q : i < j => q[j].value # v) =>
      (q[i].op = "ADD" <=> present)

SetTypeOK ==
  /\ set \in [Ends -> SUBSET Values]
  /\ \A e \in Ends : IsFiniteSet(set[e])
  /\ setWire \in [Ends -> Seq(SetMessages)]

Undisputed(v, e, f) ==
  /\ ~(Mentions(setWire[e], v) /\ Mentions(setWire[f], v))
  /\ LastTells(setWire[e], v, v \in set[e])
  /\ LastTells(setWire[f], v, v \in set[f])
  /\ ~Mentions(setWire[e], v) /\ ~Mentions(setWire[f], v) => (v \in set[e] <=> v \in set[f])

SetInv == SetTypeOK /\ \A v \in Values \ setCrossed : Undisputed(v, 1, 2)

LEMMA EitherWay ==
  ASSUME NEW v, NEW e \in Ends PROVE Undisputed(v, 1, 2) <=> Undisputed(v, e, Peer(e))
<1>1. CASE e = 1
  BY <1>1 DEF Peer
<1>2. CASE e = 2
  BY <1>2 DEF Peer, Undisputed
<1> QED
  BY <1>1, <1>2 DEF Ends

LEMMA EitherWayNext ==
  ASSUME NEW v, NEW e \in Ends PROVE Undisputed(v, 1, 2)' <=> Undisputed(v, e, Peer(e))'
<1>1. CASE e = 1
  BY <1>1 DEF Peer
<1>2. CASE e = 2
  BY <1>2 DEF Peer, Undisputed
<1> QED
  BY <1>1, <1>2 DEF Ends

LEMMA SetInitKeeps == ASSUME SetInit PROVE SetInv
<1>1. << >> \in Seq(SetMessages) /\ DOMAIN << >> = {}
  BY EmptySeq
<1>2. IsFiniteSet({})
  BY FS_EmptySet
<1> QED
  BY <1>1, <1>2 DEF SetInit, EmptyWire, Ends, SetInv, SetTypeOK, Undisputed, Mentions,
                    LastTells

\* What the other end is told: of every element changed, and of no other.
Tells(r, op, changed) ==
  /\ \A i \in 1 .. Len(r) : r[i].op = op /\ r[i].value \in changed
  /\ \A v \in changed : \E i \in 1 .. Len(r) : r[i].value = v

LEMMA Told ==
  ASSUME NEW q \in Seq(SetMessages), NEW r \in Seq(SetMessages), NEW op, NEW changed,
         Tells(r, op, changed)
  PROVE  /\ q \o r \in Seq(SetMessages)
         /\ \A v \in changed : LastTells(q \o r, v, op = "ADD")
         /\ \A v : v \notin changed =>
              /\ Mentions(q \o r, v) => Mentions(q, v)
              /\ Mentions(q, v) => Mentions(q \o r, v)
              /\ \A b : LastTells(q, v, b) => LastTells(q \o r, v, b)
<1>1. PICK t \in Seq(SetMessages) : t = q \o r
  BY ConcatProperties
<1>2. /\ Len(t) = Len(q) + Len(r)
      /\ \A i \in 1 .. Len(q) + Len(r) : t[i] = IF i <= Len(q) THEN q[i] ELSE r[i - Len(q)]
  BY <1>1, ConcatProperties
<1>3. /\ Len(q) \in Nat /\ Len(r) \in Nat
      /\ DOMAIN q = 1 .. Len(q) /\ DOMAIN r = 1 .. Len(r) /\ DOMAIN t = 1 .. Len(q) + Len(r)
  BY <1>2, Lengths
<1>4. \A i \in DOMAIN q : i \in DOMAIN t /\ t[i] = q[i]
  BY <1>2, <1>3
<1>5. \A i \in DOMAIN r : i + Len(q) \in DOMAIN t /\ t[i + Len(q)] = r[i]
  BY <1>2, <1>3
<1>6. \A i \in DOMAIN t :
        \/ i \in DOMAIN q
        \/ i > Len(q) /\ i - Len(q) \in DOMAIN r /\ t[i] = r[i - Len(q)]
  BY <1>2, <1>3
<1>7. ASSUME NEW v \in changed PROVE LastTells(t, v, op = "ADD")
  <2> SUFFICES ASSUME NEW i \in DOMAIN t, t[i].value = v,
                      \A j \in DOMAIN t : i < j => t[j].value # v
               PROVE  t[i].op = "ADD" <=> op = "ADD"
    BY DEF LastTells
  <2>1. PICK k \in DOMAIN r : r[k].value = v
    BY <1>3 DEF Tells
  <2>2. k + Len(q) \in DOMAIN t /\ t[k + Len(q)].value = v
    BY <1>5, <2>1
  <2>3. i \notin DOMAIN q
    BY <1>3, <2>2
  <2>4. t[i].op = op
    BY <1>3, <1>6, <2>3 DEF Tells
  <2> QED
    BY <2>4
<1>8. ASSUME NEW v, v \notin changed
      PROVE  /\ Mentions(t, v) => Mentions(q, v)
             /\ Mentions(q, v) => Mentions(t, v)
             /\ \A b : LastTells(q, v, b) => LastTells(t, v, b)
  <2>1. \A i \in DOMAIN t : t[i].value = v => i \in DOMAIN q /\ t[i] = q[i]
    BY <1>3, <1>4, <1>6, <1>8 DEF Tells
  <2>2. Mentions(t, v) => Mentions(q, v)
    BY <2>1 DEF Mentions
  <2>3. Mentions(q, v) => Mentions(t, v)
    BY <1>4 DEF Mentions
  <2>4. ASSUME NEW b, LastTells(q, v, b) PROVE LastTells(t, v, b)
    BY <1>4, <2>1, <2>4 DEF LastTells
  <2> QED
    BY <2>2, <2>3, <2>4
<1> QED
  BY <1>1, <1>7, <1>8

\* An end that changes some elements and tells of them leaves those undisputed whose
\* changes did not cross.
LEMMA ChangeTold ==
  ASSUME SetInv, NEW e \in Ends, NEW op, NEW changed \in SUBSET Values, NEW r \in Seq(SetMessages),
         Tells(r, op, changed),
         NEW new \in SUBSET Values, IsFiniteSet(new),
         \A v \in changed : v \in new <=> op = "ADD",
         \A v \in Values \ changed : v \in new <=> v \in set[e],
         set' = [set EXCEPT ![e] = new],
         setWire' = Send(setWire, e, r),
         setCrossed' = setCrossed \cup (changed \cap OnItsWay(e))
  PROVE  SetInv'
<1>1. PICK f \in Ends : f = Peer(e) /\ f # e
  BY Peers
<1>2. setWire[e] \in Seq(SetMessages) /\ setWire[f] \in Seq(SetMessages)
  BY <1>1 DEF SetInv, SetTypeOK
<1>3. PICK q \in Seq(SetMessages) : q = setWire[e]
  BY <1>2
<1>4. PICK t \in Seq(SetMessages) : t = q \o r
  BY <1>3, Told
<1>5. /\ \A v \in changed : LastTells(t, v, op = "ADD")
      /\ \A v : v \notin changed =>
           /\ Mentions(t, v) <=> Mentions(q, v)
           /\ \A b : LastTells(q, v, b) => LastTells(t, v, b)
  BY <1>4, Told
<1>6. setWire' = [setWire EXCEPT ![e] = t]
  BY <1>3, <1>4 DEF Send
<1>7. /\ setWire'[e] = t /\ setWire'[f] = setWire[f]
      /\ set'[e] = new /\ set'[f] = set[f]
  BY <1>1, <1>6 DEF SetInv, SetTypeOK
<1>8. SetTypeOK'
  BY <1>6 DEF SetInv, SetTypeOK
<1>9. ASSUME NEW v \in Values \ setCrossed' PROVE Undisputed(v, 1, 2)'
  <2>1. v \in Values \ setCrossed
    OBVIOUS
  <2>2. Undisputed(v, e, f)
    BY <1>1, <2>1, EitherWay DEF SetInv
  <2>3. CASE v \in changed
    <3>1. ~Mentions(setWire[f], v)
      BY <1>1, <2>3 DEF OnItsWay, Mentions
    <3>2. Mentions(t, v)
      <4>1. PICK i \in 1 .. Len(r) : r[i].value = v
        BY <2>3 DEF Tells
      <4>2. /\ Len(q) \in Nat /\ Len(r) \in Nat /\ Len(t) = Len(q) + Len(r)
            /\ t[i + Len(q)] = r[i]
        <5>1. Len(q) \in Nat /\ Len(r) \in Nat
          BY Lengths
        <5>2. /\ Len(t) = Len(q) + Len(r)
              /\ \A j \in 1 .. Len(q) + Len(r) :
                   t[j] = IF j <= Len(q) THEN q[j] ELSE r[j - Len(q)]
          BY <1>4, ConcatProperties
        <5> QED
          BY <5>1, <5>2
      <4>3. DOMAIN t = 1 .. Len(t)
        BY Lengths
      <4> QED
        BY <4>1, <4>2, <4>3, SMTT(30) DEF Mentions
    <3>3. LastTells(t, v, v \in new)
      BY <1>5, <2>3 DEF LastTells
    <3>4. Undisputed(v, e, f)'
      BY <1>7, <2>2, <3>1, <3>2, <3>3 DEF Undisputed
    <3> QED
      BY <1>1, <3>4, EitherWayNext
  <2>4. CASE v \notin changed
    <3>1. v \in new <=> v \in set[e]
      BY <2>1, <2>4
    <3>2. /\ Mentions(t, v) <=> Mentions(setWire[e], v)
          /\ LastTells(setWire[e], v, v \in set[e]) => LastTells(t, v, v \in set[e])
      BY <1>3, <1>5, <2>4
    <3>3. LastTells(t, v, v \in new)
      BY <2>2, <3>1, <3>2 DEF Undisputed, LastTells
    <3>4. Undisputed(v, e, f)'
      BY <1>7, <2>2, <3>1, <3>2, <3>3 DEF Undisputed
    <3> QED
      BY <1>1, <3>4, EitherWayNext
  <2> QED
    BY <2>3, <2>4
<1> QED
  BY <1>8, <1>9 DEF SetInv

LEMMA AddKeeps == ASSUME SetInv, NEW e \in Ends, SetAdd(e) PROVE SetInv'
<1>1. PICK v \in Values \ set[e] :
        /\ set' = [set EXCEPT ![e] = @ \cup {v}]
        /\ setWire' = Send(setWire, e, <<[op |-> "ADD", value |-> v]>>)
        /\ setCrossed' = setCrossed \cup ({v} \cap OnItsWay(e))
  BY DEF SetAdd
<1>2. PICK m \in SetMessages : m = [op |-> "ADD", value |-> v]
  BY DEF SetMessages
<1>3. PICK r \in Seq(SetMessages) : r = <<m>>
  <2>1. <<m>> \in Seq(SetMessages)
    OBVIOUS
  <2> QED
    BY <2>1
<1>4. Tells(r, "ADD", {v})
  BY <1>2, <1>3 DEF Tells
<1>5. set[e] \in SUBSET Values /\ IsFiniteSet(set[e])
  BY DEF SetInv, SetTypeOK
<1>6. IsFiniteSet(set[e] \cup {v})
  BY <1>5, FS_AddElement
<1>7. set' = [set EXCEPT ![e] = set[e] \cup {v}] /\ setWire' = Send(setWire, e, r)
  BY <1>1, <1>2, <1>3
<1>8. set[e] \cup {v} \in SUBSET Values /\ {v} \in SUBSET Values
  BY <1>5
<1> QED
  BY <1>1, <1>4, <1>6, <1>7, <1>8, ChangeTold

\* Whatever their order, the messages of a removal name every element removed.
LEMMA RemovalsTell ==
  ASSUME NEW gone \in SUBSET Values, IsFiniteSet(gone), NEW order \in SetToSeqs(gone)
  PROVE  RemovalsOf(order) \in Seq(SetMessages) /\ Tells(RemovalsOf(order), "REMOVE", gone)
<1> DEFINE n == Cardinality(gone)
<1>1. n \in Nat /\ IsFiniteSet(1 .. n) /\ Cardinality(1 .. n) = n
  BY FS_CardinalityType, FS_Interval
<1>2. order \in [1 .. n -> gone] /\ \A i, j \in 1 .. n : i # j => order[i] # order[j]
  BY DEF SetToSeqs
<1>3. order \in Injection(1 .. n, gone)
  BY <1>2 DEF Injection, IsInjective
<1>4. order \in Surjection(1 .. n, gone)
  BY <1>1, <1>3, FS_Injection
<1>5. \A v \in gone : \E i \in 1 .. n : order[i] = v
  BY <1>4 DEF Surjection
<1>6. RemovalsOf(order) = [i \in 1 .. n |-> [op |-> "REMOVE", value |-> order[i]]]
  BY <1>2 DEF RemovalsOf
<1>7. RemovalsOf(order) \in [1 .. n -> SetMessages]
  BY <1>2, <1>6 DEF SetMessages
<1>8. RemovalsOf(order) \in Seq(SetMessages) /\ Len(RemovalsOf(order)) = n
  BY <1>1, <1>7
<1>9. \A i \in 1 .. n : /\ RemovalsOf(order)[i].op = "REMOVE"
                       /\ RemovalsOf(order)[i].value = order[i]
                       /\ order[i] \in gone
  BY <1>2, <1>6
<1> QED
  BY <1>5, <1>8, <1>9 DEF Tells

LEMMA RemoveKeeps == ASSUME SetInv, NEW e \in Ends, SetRemove(e) PROVE SetInv'
<1>1. PICK gone \in {{v} : v \in set[e]} \cup ({set[e]} \ {{}}) :
        /\ set' = [set EXCEPT ![e] = @ \ gone]
        /\ \E order \in SetToSeqs(gone) : setWire' = Send(setWire, e, RemovalsOf(order))
        /\ setCrossed' = setCrossed \cup (gone \cap OnItsWay(e))
  BY DEF SetRemove
<1>2. PICK order \in SetToSeqs(gone) : setWire' = Send(setWire, e, RemovalsOf(order))
  BY <1>1
<1>3. set[e] \in SUBSET Values /\ IsFiniteSet(set[e])
  BY DEF SetInv, SetTypeOK
<1>4. gone \subseteq set[e]
  OBVIOUS
<1>5. IsFiniteSet(gone) /\ IsFiniteSet(set[e] \ gone)
  BY <1>3, <1>4, FS_Subset
<1>6. gone \in SUBSET Values /\ set[e] \ gone \in SUBSET Values
  BY <1>3, <1>4
<1>7. RemovalsOf(order) \in Seq(SetMessages) /\ Tells(RemovalsOf(order), "REMOVE", gone)
  BY <1>2, <1>5, <1>6, RemovalsTell
<1>8. set' = [set EXCEPT ![e] = set[e] \ gone]
  BY <1>1
<1>9. \A v \in gone : v \in set[e] \ gone <=> "REMOVE" = "ADD"
  OBVIOUS
<1> QED
  BY <1>1, <1>2, <1>5, <1>6, <1>7, <1>8, <1>9, ChangeTold

LEMMA SetReceiveKeeps == ASSUME SetInv, NEW e \in Ends, ReceiveSetChange(e) PROVE SetInv'
<1>1. PICK f \in Ends : f = Peer(e) /\ f # e
  BY Peers
<1>2. setWire[f] \in Seq(SetMessages) /\ setWire[f] # << >>
  BY <1>1 DEF SetInv, SetTypeOK, ReceiveSetChange, Arrived
<1>3. PICK q \in Seq(SetMessages) : q = setWire[f]
  BY <1>2
<1>4. PICK m \in SetMessages, left \in Seq(SetMessages) : TakenOff(q, m, left)
  BY <1>2, <1>3, TakingOff
<1>5. /\ Len(q) \in Nat \ {0} /\ DOMAIN q = 1 .. Len(q) /\ DOMAIN left = 1 .. Len(q) - 1
      /\ m = q[1] /\ \A i \in 1 .. Len(q) - 1 : left[i] = q[i + 1]
  BY <1>4 DEF TakenOff
<1>6. PICK new \in SUBSET Values :
        /\ new = IF m.op = "ADD" THEN set[e] \cup {m.value} ELSE set[e] \ {m.value}
        /\ IsFiniteSet(new)
  <2>1. set[e] \in SUBSET Values /\ IsFiniteSet(set[e]) /\ m.value \in Values
    BY DEF SetInv, SetTypeOK, SetMessages
  <2>2. IsFiniteSet(set[e] \cup {m.value}) /\ IsFiniteSet(set[e] \ {m.value})
    BY <2>1, FS_AddElement, FS_RemoveElement
  <2>3. CASE m.op = "ADD"
    BY <2>1, <2>2, <2>3
  <2>4. CASE m.op # "ADD"
    BY <2>1, <2>2, <2>4
  <2> QED
    BY <2>3, <2>4
<1>7. /\ set' = [set EXCEPT ![e] = new] /\ setWire' = [setWire EXCEPT ![f] = left]
      /\ setCrossed' = setCrossed
  BY <1>1, <1>3, <1>4, <1>6 DEF ReceiveSetChange, Message, Take, TakenOff
<1>8. /\ setWire'[f] = left /\ setWire'[e] = setWire[e]
      /\ set'[e] = new /\ set'[f] = set[f]
  BY <1>1, <1>7 DEF SetInv, SetTypeOK
<1>9. SetTypeOK'
  BY <1>6, <1>7 DEF SetInv, SetTypeOK
<1>10. \A i \in DOMAIN left : i \in Nat /\ i + 1 \in DOMAIN q /\ left[i] = q[i + 1]
  BY <1>5
<1>11. \A i \in DOMAIN q : i = 1 \/ (i \in Nat /\ i - 1 \in DOMAIN left /\ left[i - 1] = q[i])
  BY <1>5
<1>12. \A i \in DOMAIN q : i \in Nat
  BY <1>5
<1>13. ASSUME NEW v \in Values \ setCrossed PROVE Undisputed(v, e, f)'
  <2>1. Undisputed(v, e, f)
    BY <1>1, EitherWay DEF SetInv
  <2>2. Mentions(left, v) => Mentions(q, v)
    BY <1>10 DEF Mentions
  <2>3. LastTells(left, v, v \in set[f])
    <3> SUFFICES ASSUME NEW i \in DOMAIN left, left[i].value = v,
                        \A j \in DOMAIN left : i < j => left[j].value # v
                 PROVE  left[i].op = "ADD" <=> v \in set[f]
      BY DEF LastTells
    <3>1. \A j \in DOMAIN q : i + 1 < j => q[j].value # v
      <4> SUFFICES ASSUME NEW j \in DOMAIN q, i + 1 < j PROVE q[j].value # v
        OBVIOUS
      <4>1. j # 1
        BY <1>10
      <4>2. j \in Nat /\ j - 1 \in DOMAIN left /\ left[j - 1] = q[j]
        BY <1>11, <4>1
      <4>3. i < j - 1
        BY <1>10, <4>2
      <4> QED
        BY <4>2, <4>3
    <3>2. LastTells(q, v, v \in set[f])
      BY <1>3, <2>1 DEF Undisputed
    <3> QED
      BY <1>10, <3>1, <3>2 DEF LastTells
  <2>4. CASE v # m.value
    <3>1. v \in new <=> v \in set[e]
      BY <1>6, <2>4
    <3>2. Mentions(q, v) => Mentions(left, v)
      BY <1>5, <1>11, <2>4 DEF Mentions
    <3>3. LastTells(setWire[e], v, v \in new)
      BY <2>1, <3>1 DEF Undisputed, LastTells
    <3> QED
      BY <1>3, <1>8, <2>1, <2>2, <2>3, <3>1, <3>2, <3>3 DEF Undisputed
  <2>5. CASE v = m.value
    <3>1. Mentions(q, v)
      BY <1>5, <2>5 DEF Mentions
    <3>2. ~Mentions(setWire[e], v)
      BY <1>3, <2>1, <3>1 DEF Undisputed
    <3>3. LastTells(setWire[e], v, v \in new)
      BY <3>2 DEF Mentions, LastTells
    <3>4. v \in new <=> m.op = "ADD"
      BY <1>6, <2>5
    <3>5. ~Mentions(left, v) => (v \in set[f] <=> m.op = "ADD")
      <4> SUFFICES ASSUME ~Mentions(left, v) PROVE v \in set[f] <=> m.op = "ADD"
        OBVIOUS
      <4>1. \A j \in DOMAIN q : 1 < j => q[j].value # v
        BY <1>11, <1>12 DEF Mentions
      <4>2. 1 \in DOMAIN q /\ q[1].value = v
        BY <1>5, <2>5
      <4>3. LastTells(q, v, v \in set[f])
        BY <1>3, <2>1 DEF Undisputed
      <4> QED
        BY <1>5, <4>1, <4>2, <4>3 DEF LastTells
    <3> QED
      BY <1>8, <2>3, <3>2, <3>3, <3>4, <3>5 DEF Undisputed
  <2> QED
    BY <2>4, <2>5
<1>14. \A v \in Values \ setCrossed' : Undisputed(v, 1, 2)'
  BY <1>1, <1>7, <1>13, EitherWayNext
<1> QED
  BY <1>9, <1>14 DEF SetInv

LEMMA SetStep == ASSUME SetInv, [ReplicasNext]_replicaVars PROVE SetInv'
<1>1. CASE UNCHANGED setVars
  BY <1>1 DEF setVars, SetInv, SetTypeOK, Undisputed
<1>2. CASE SetNext
  BY <1>2, AddKeeps, RemoveKeeps, SetReceiveKeeps DEF SetNext
<1> QED
  BY <1>1, <1>2 DEF ReplicasNext, replicaVars

\* Whatever both ends add and take out, they come to the same elements, apart from those
\* whose changes crossed (RdSet.h).
THEOREM SetsConverge == ReplicasSpec => []SetsAgree
<1>1. ReplicasInit => SetInv
  BY SetInitKeeps DEF ReplicasInit
<1>2. SetInv /\ [ReplicasNext]_replicaVars => SetInv'
  BY SetStep
<1>3. SetInv => SetsAgree
  <2> SUFFICES ASSUME SetInv, Quiet(setWire)
               PROVE  set[1] \ setCrossed = set[2] \ setCrossed
    BY DEF SetsAgree
  <2>1. setWire[1] = << >> /\ setWire[2] = << >> /\ DOMAIN << >> = {}
    BY DEF Quiet, Ends
  <2>2. \A v \in Values \ setCrossed : v \in set[1] <=> v \in set[2]
    BY <2>1 DEF SetInv, Undisputed, Mentions
  <2>3. set[1] \subseteq Values /\ set[2] \subseteq Values
    BY DEF SetInv, SetTypeOK, Ends
  <2> QED
    BY <2>2, <2>3
<1> QED
  BY <1>1, <1>2, <1>3, PTL DEF ReplicasSpec

-------------------------------------------------------------------------------
(***************************************************************************)
(* A list.  While changes never crossed, only one end has changes on their *)
(* way; executed one after the other they make the other end's list that   *)
(* of this end, and their numbers go on from the other end's.  Once they   *)
(* crossed, both ends have one on its way that comes too late.             *)
(***************************************************************************)
ListTypeOK ==
  /\ list \in [Ends -> Seq(Values)]
  /\ listVersion \in [Ends -> Nat]
  /\ listWire \in [Ends -> Seq(ListMessages)]

\* Executing the changes q, the first of which has the number version, turns before
\* into after.  h tells what the list is in between.
Executes(q, before, version, after, h) ==
  /\ h \in [0 .. Len(q) -> Seq(Values)]
  /\ h[0] = before /\ h[Len(q)] = after
  /\ \A i \in 1 .. Len(q) :
       /\ h[i] = Apply(h[i - 1], q[i].op, q[i].index, q[i].value)
       /\ q[i].version = version + (i - 1)

InTurn(e, f) ==
  /\ listWire[f] = << >>
  /\ listVersion[e] = listVersion[f] + Len(listWire[e])
  /\ \E h : Executes(listWire[e], list[f], listVersion[f], list[e], h)

TooLate(e, f) == listWire[e] # << >> /\ listWire[e][1].version < listVersion[f]

ListInv ==
  /\ ListTypeOK
  /\ ~crossed => ~conflict /\ \E e \in Ends : InTurn(e, Peer(e))
  /\ crossed => conflict \/ \A e \in Ends : TooLate(e, Peer(e))
  /\ crossed \in BOOLEAN /\ conflict \in BOOLEAN

LEMMA NothingToExecute ==
  ASSUME NEW l \in Seq(Values), NEW v
  PROVE  \E h : Executes(<< >>, l, v, l, h)
<1>1. Len(<< >>) = 0
  BY EmptySeq
<1>2. PICK h \in [0 .. 0 -> Seq(Values)] : h[0] = l
  <2>1. [i \in 0 .. 0 |-> l] \in [0 .. 0 -> Seq(Values)] /\ [i \in 0 .. 0 |-> l][0] = l
    OBVIOUS
  <2> QED  BY <2>1
<1>3. 1 .. 0 = {}
  OBVIOUS
<1>4. Executes(<< >>, l, v, l, h)
  BY <1>1, <1>2, <1>3 DEF Executes
<1> QED  BY <1>4

LEMMA ListInitKeeps == ASSUME ListInit PROVE ListInv
<1>1. << >> \in Seq(ListMessages) /\ << >> \in Seq(Values) /\ Len(<< >>) = 0
  BY EmptySeq
<1>2. /\ list = [e \in Ends |-> << >>] /\ listVersion = [e \in Ends |-> 1]
      /\ listWire = [e \in Ends |-> << >>] /\ ~crossed /\ ~conflict
      /\ crossed \in BOOLEAN /\ conflict \in BOOLEAN
  BY DEF ListInit, EmptyWire
<1>3. ListTypeOK
  BY <1>1, <1>2 DEF ListTypeOK
<1>4. 1 \in Ends /\ Peer(1) \in Ends
  BY DEF Ends, Peer
<1>5. InTurn(1, Peer(1))
  <2>1. \E h : Executes(<< >>, << >>, 1, << >>, h)
    BY <1>1, NothingToExecute
  <2> QED  BY <1>1, <1>2, <1>4, <2>1 DEF InTurn
<1> QED
  BY <1>2, <1>3, <1>4, <1>5 DEF ListInv

\* What has been sent and what is sent now, executed one after the other.
LEMMA BothExecute ==
  ASSUME NEW q \in Seq(ListMessages), NEW r \in Seq(ListMessages),
         NEW before, NEW between, NEW after, NEW version \in Nat,
         \E g : Executes(q, before, version, between, g),
         \E h : Executes(r, between, version + Len(q), after, h)
  PROVE  \E h : Executes(q \o r, before, version, after, h)
<1>1. PICK g : Executes(q, before, version, between, g)
  OBVIOUS
<1>2. PICK h : Executes(r, between, version + Len(q), after, h)
  OBVIOUS
<1> DEFINE n == Len(q)
           k == Len(r)
           t == q \o r
           f == [i \in 0 .. n + k |-> IF i <= n THEN g[i] ELSE h[i - n]]
<1>3. /\ n \in Nat /\ k \in Nat /\ Len(t) = n + k
      /\ \A i \in 1 .. n + k : t[i] = IF i <= n THEN q[i] ELSE r[i - n]
  BY ConcatProperties, Lengths
<1> HIDE DEF n, k, t
<1>4. f \in [0 .. n + k -> Seq(Values)]
  <2>1. ASSUME NEW i \in 0 .. n + k
        PROVE  (IF i <= n THEN g[i] ELSE h[i - n]) \in Seq(Values)
    <3>1. CASE i <= n
      <4>1. i \in 0 .. n
        BY <1>3, <3>1
      <4> QED  BY <1>1, <3>1, <4>1 DEF Executes, n
    <3>2. CASE ~(i <= n)
      <4>1. i - n \in 0 .. k
        BY <1>3, <3>2
      <4> QED  BY <1>2, <3>2, <4>1 DEF Executes, k
    <3> QED  BY <3>1, <3>2
  <2> QED  BY <2>1
<1>5. \A i \in 0 .. n + k : f[i] = IF i <= n THEN g[i] ELSE h[i - n]
  OBVIOUS
<1> HIDE DEF f
<1>6. f[0] = before /\ f[n + k] = after
  <2>1. 0 \in 0 .. n + k /\ n + k \in 0 .. n + k /\ 0 <= n /\ (n + k <= n <=> k = 0)
        /\ (n + k) - n = k
    BY <1>3
  <2>2. f[0] = g[0] /\ g[0] = before /\ g[n] = between /\ h[0] = between /\ h[k] = after
    BY <1>1, <1>2, <1>5, <2>1 DEF Executes, n, k
  <2>3. CASE k = 0
    <3>1. f[n + k] = g[n + k] /\ n + k = n
      BY <1>3, <1>5, <2>1, <2>3
    <3> QED  BY <2>2, <2>3, <3>1
  <2>4. CASE k # 0
    <3>1. f[n + k] = h[k]
      BY <1>3, <1>5, <2>1, <2>4
    <3> QED  BY <2>2, <3>1
  <2> QED  BY <2>3, <2>4
<1>7. ASSUME NEW i \in 1 .. n + k
      PROVE  /\ f[i] = Apply(f[i - 1], t[i].op, t[i].index, t[i].value)
             /\ t[i].version = version + (i - 1)
  <2>1. CASE i <= n
    <3>1. i \in 1 .. n /\ i - 1 \in 0 .. n + k /\ i \in 0 .. n + k /\ i - 1 <= n
      BY <1>3, <2>1
    <3>2. f[i] = g[i] /\ f[i - 1] = g[i - 1] /\ t[i] = q[i]
      BY <1>3, <1>5, <2>1, <3>1
    <3>3. /\ g[i] = Apply(g[i - 1], q[i].op, q[i].index, q[i].value)
          /\ q[i].version = version + (i - 1)
      BY <1>1, <3>1 DEF Executes, n
    <3> QED  BY <3>2, <3>3
  <2>2. CASE ~(i <= n)
    <3> DEFINE j == i - n
    <3>1. j \in 1 .. k /\ i \in 0 .. n + k /\ i - 1 \in 0 .. n + k /\ (i - 1) - n = j - 1
          /\ (i - 1 <= n <=> j = 1)
      BY <1>3, <2>2
    <3>2. f[i] = h[j] /\ t[i] = r[j]
      BY <1>3, <1>5, <2>2, <3>1
    <3>3. f[i - 1] = h[j - 1]
      <4>1. CASE j = 1
        <5>1. i - 1 = n /\ j - 1 = 0 /\ i - 1 <= n
          BY <1>3, <3>1, <4>1
        <5>3. f[i - 1] = g[i - 1]
          BY <1>5, <3>1, <5>1
        <5>2. g[n] = between /\ h[0] = between
          BY <1>1, <1>2 DEF Executes, n
        <5> QED  BY <3>2, <5>1, <5>2, <5>3
      <4>2. CASE j # 1
        BY <1>5, <3>1, <4>2
      <4> QED  BY <4>1, <4>2
    <3>4. /\ h[j] = Apply(h[j - 1], r[j].op, r[j].index, r[j].value)
          /\ r[j].version = (version + n) + (j - 1)
      BY <1>2, <3>1 DEF Executes, n, k
    <3>5. (version + n) + (j - 1) = version + (i - 1)
      BY <1>3
    <3> QED  BY <3>2, <3>3, <3>4, <3>5
  <2> QED  BY <2>1, <2>2
<1>8. Executes(t, before, version, after, f)
  BY <1>3, <1>4, <1>6, <1>7 DEF Executes
<1> QED
  BY <1>8 DEF t

\* An end changes its list and sends the changes r.
LEMMA ListSends ==
  ASSUME ListInv, ~conflict, NEW e \in Ends, NEW r \in Seq(ListMessages), r # << >>,
         NEW after \in Seq(Values),
         \E h : Executes(r, list[e], listVersion[e], after, h),
         list' = [list EXCEPT ![e] = after],
         listVersion' = [listVersion EXCEPT ![e] = @ + Len(r)],
         listWire' = Send(listWire, e, r),
         crossed' = (crossed \/ Arrived(listWire, e)), conflict' = conflict
  PROVE  ListInv'
<1>1. PICK f \in Ends : f = Peer(e) /\ f # e /\ Peer(f) = e /\ \A d \in Ends : d = e \/ d = f
  BY Peers
<1>2. /\ listWire[e] \in Seq(ListMessages) /\ listWire[f] \in Seq(ListMessages)
      /\ listVersion[e] \in Nat /\ listVersion[f] \in Nat
      /\ list[e] \in Seq(Values) /\ list[f] \in Seq(Values)
  BY <1>1 DEF ListInv, ListTypeOK
<1> DEFINE q == listWire[e]
           t == q \o r
<1>3. /\ t \in Seq(ListMessages) /\ Len(t) = Len(q) + Len(r) /\ Len(q) \in Nat
      /\ Len(r) \in Nat \ {0} /\ t # << >>
      /\ q # << >> => t[1] = q[1]
      /\ q = << >> => t[1] = r[1] /\ Len(q) = 0
  <2>1. /\ t \in Seq(ListMessages) /\ Len(t) = Len(q) + Len(r)
        /\ \A i \in 1 .. Len(q) + Len(r) : t[i] = IF i <= Len(q) THEN q[i] ELSE r[i - Len(q)]
    BY <1>2, ConcatProperties
  <2>2. Len(q) \in Nat /\ Len(r) \in Nat \ {0} /\ (q = << >> <=> Len(q) = 0)
    BY <1>2, Lengths
  <2>3. t # << >>
    BY <2>1, <2>2, Lengths
  <2>4. 1 \in 1 .. Len(q) + Len(r)
    BY <2>2
  <2>5. t[1] = IF 1 <= Len(q) THEN q[1] ELSE r[1 - Len(q)]
    BY <2>1, <2>4
  <2>6. CASE q = << >>
    <3>1. Len(q) = 0 /\ ~(1 <= Len(q)) /\ 1 - Len(q) = 1
      BY <2>2, <2>6
    <3> QED  BY <2>1, <2>2, <2>3, <2>5, <2>6, <3>1
  <2>7. CASE q # << >>
    <3>1. 1 <= Len(q)
      BY <2>2, <2>7
    <3> QED  BY <2>1, <2>2, <2>3, <2>5, <2>7, <3>1
  <2> QED  BY <2>6, <2>7
<1> HIDE DEF t
<1>4. /\ listWire' = [listWire EXCEPT ![e] = t]
      /\ listWire'[e] = t /\ listWire'[f] = listWire[f]
      /\ list'[e] = after /\ list'[f] = list[f]
      /\ listVersion'[e] = listVersion[e] + Len(r) /\ listVersion'[f] = listVersion[f]
  BY <1>1 DEF Send, ListInv, ListTypeOK, t
<1>5. ListTypeOK'
  BY <1>2, <1>3, <1>4, SMTT(30) DEF ListInv, ListTypeOK
<1>6. Arrived(listWire, e) <=> listWire[f] # << >>
  BY <1>1 DEF Arrived
<1>7. crossed \in BOOLEAN /\ conflict \in BOOLEAN
  BY DEF ListInv
<1>8. CASE ~crossed'
  <2>1. ~crossed /\ listWire[f] = << >>
    BY <1>6, <1>8
  <2>2. InTurn(e, f)
    <3>1. CASE InTurn(e, f)
      BY <3>1
    <3>2. CASE InTurn(f, e)
      <4>1. q = << >> /\ Len(q) = 0 /\ listVersion[f] = listVersion[e]
        <5>1. Len(listWire[f]) = 0
          BY <2>1, EmptySeq
        <5>2. q = << >> /\ listVersion[f] = listVersion[e] + Len(listWire[f])
          BY <3>2 DEF InTurn
        <5> QED  BY <1>2, <1>3, <5>1, <5>2
      <4>2. list[f] = list[e]
        <5>1. PICK h : Executes(listWire[f], list[e], listVersion[e], list[f], h)
          BY <3>2 DEF InTurn
        <5>2. Len(listWire[f]) = 0
          BY <2>1, EmptySeq
        <5> QED  BY <5>1, <5>2 DEF Executes
      <4>3. \E h : Executes(q, list[f], listVersion[f], list[e], h)
        BY <1>2, <4>1, <4>2, NothingToExecute
      <4> QED  BY <1>2, <2>1, <4>1, <4>3 DEF InTurn
    <3> QED  BY <1>1, <2>1, <3>1, <3>2 DEF ListInv
  <2>3. \E h : Executes(t, list[f], listVersion[f], after, h)
    <3>1. /\ listVersion[e] = listVersion[f] + Len(q)
          /\ \E h : Executes(q, list[f], listVersion[f], list[e], h)
      BY <2>2 DEF InTurn
    <3> QED  BY <1>2, <3>1, BothExecute DEF t
  <2>4. listVersion'[e] = listVersion[f] + Len(t)
    <3>1. listVersion[e] = listVersion[f] + Len(q)
      BY <2>2 DEF InTurn
    <3> QED  BY <1>2, <1>3, <1>4, <3>1
  <2>5. InTurn(e, f)'
    BY <1>4, <2>1, <2>3, <2>4 DEF InTurn
  <2> QED  BY <1>1, <1>5, <1>7, <1>8, <2>5 DEF ListInv
<1>9. CASE crossed'
  <2>1. listVersion[f] <= listVersion[f] /\ listVersion[e] < listVersion'[e]
    BY <1>2, <1>3, <1>4
  <2>2. CASE crossed
    <3>1. TooLate(e, f) /\ TooLate(f, e)
      BY <1>1, <2>2 DEF ListInv
    <3>2. TooLate(e, f)'
      BY <1>3, <1>4, <3>1 DEF TooLate
    <3>3. TooLate(f, e)'
      <4>1. listWire[f][1].version \in Nat
        <5>1. listWire[f][1] \in ListMessages
          BY <1>2, <3>1, Lengths DEF TooLate
        <5> QED  BY <5>1 DEF ListMessages
      <4> QED  BY <1>2, <1>4, <2>1, <3>1, <4>1 DEF TooLate
    <3> QED  BY <1>1, <1>5, <1>7, <1>9, <3>2, <3>3 DEF ListInv
  <2>3. CASE ~crossed
    <3>1. listWire[f] # << >>
      BY <1>6, <1>9, <2>3
    <3>2. InTurn(f, e)
      BY <1>1, <2>3, <3>1 DEF ListInv, InTurn
    <3>3. /\ q = << >> /\ listVersion[f] = listVersion[e] + Len(listWire[f])
          /\ listWire[f][1].version = listVersion[e]
      <4>1. PICK h : Executes(listWire[f], list[e], listVersion[e], list[f], h)
        BY <3>2 DEF InTurn
      <4>2. 1 \in 1 .. Len(listWire[f])
        BY <1>2, <3>1, Lengths
      <4>3. listWire[f][1].version = listVersion[e] + (1 - 1)
        BY <4>1, <4>2 DEF Executes
      <4> QED  BY <1>2, <3>2, <4>3 DEF InTurn
    <3>4. r[1].version = listVersion[e]
      <4>1. PICK h : Executes(r, list[e], listVersion[e], after, h)
        OBVIOUS
      <4>2. 1 \in 1 .. Len(r)
        BY <1>3
      <4>3. r[1].version = listVersion[e] + (1 - 1)
        BY <4>1, <4>2 DEF Executes
      <4> QED  BY <1>2, <4>3
    <3>5. Len(listWire[f]) \in Nat \ {0}
      BY <1>2, <3>1, Lengths
    <3>6. TooLate(e, f)'
      BY <1>2, <1>3, <1>4, <3>3, <3>4, <3>5 DEF TooLate
    <3>7. TooLate(f, e)'
      BY <1>4, <2>1, <3>1, <3>3 DEF TooLate
    <3> QED  BY <1>1, <1>5, <1>7, <1>9, <3>6, <3>7 DEF ListInv
  <2> QED  BY <2>2, <2>3, <1>7
<1> QED
  BY <1>8, <1>9

\* A change at an index that is there leaves a list.
LEMMA ApplyTyping ==
  ASSUME NEW l \in Seq(Values), NEW i \in Nat, NEW v
  PROVE  /\ v \in Values /\ i <= Len(l) => Apply(l, "ADD", i, v) \in Seq(Values)
         /\ v \in Values /\ i < Len(l) => Apply(l, "UPDATE", i, v) \in Seq(Values)
         /\ i < Len(l) => /\ Apply(l, "REMOVE", i, v) \in Seq(Values)
                          /\ Apply(l, "REMOVE", i, v)
                               = SubSeq(l, 1, i) \o SubSeq(l, i + 2, Len(l))
<1>1. Len(l) \in Nat /\ \A j \in 1 .. Len(l) : l[j] \in Values
  BY Lengths
<1>2. ASSUME v \in Values, i <= Len(l) PROVE Apply(l, "ADD", i, v) \in Seq(Values)
  <2>1. SubSeq(l, 1, i) \in Seq(Values)
    <3>1. \A j \in 1 .. i : l[j] \in Values
      BY <1>1, <1>2
    <3> QED  BY <3>1, SubSeqProperties
  <2>2. SubSeq(l, i + 1, Len(l)) \in Seq(Values)
    <3>1. \A j \in i + 1 .. Len(l) : l[j] \in Values
      BY <1>1
    <3> QED  BY <1>1, <3>1, SubSeqProperties
  <2>3. <<v>> \in Seq(Values)
    BY <1>2
  <2>4. (SubSeq(l, 1, i) \o <<v>>) \o SubSeq(l, i + 1, Len(l)) \in Seq(Values)
    BY <2>1, <2>2, <2>3, ConcatProperties
  <2>5. Apply(l, "ADD", i, v) = SubSeq(l, 1, (i + 1) - 1) \o <<v>> \o SubSeq(l, i + 1, Len(l))
    BY DEF Apply, InsertAt
  <2>6. (i + 1) - 1 = i
    OBVIOUS
  <2> QED  BY <2>4, <2>5, <2>6
<1>3. ASSUME v \in Values, i < Len(l) PROVE Apply(l, "UPDATE", i, v) \in Seq(Values)
  <2>1. Apply(l, "UPDATE", i, v) = [l EXCEPT ![i + 1] = v]
    BY DEF Apply, ReplaceAt
  <2>2. i + 1 \in 1 .. Len(l)
    BY <1>1, <1>3
  <2> QED  BY <1>3, <2>1, <2>2, ExceptSeq
<1>4. ASSUME i < Len(l)
      PROVE  /\ Apply(l, "REMOVE", i, v) \in Seq(Values)
             /\ Apply(l, "REMOVE", i, v) = SubSeq(l, 1, i) \o SubSeq(l, i + 2, Len(l))
  <2>1. SubSeq(l, 1, i) \in Seq(Values)
    <3>1. \A j \in 1 .. i : l[j] \in Values
      BY <1>1, <1>4
    <3> QED  BY <3>1, SubSeqProperties
  <2>2. SubSeq(l, i + 2, Len(l)) \in Seq(Values)
    <3>1. \A j \in i + 2 .. Len(l) : l[j] \in Values
      BY <1>1
    <3> QED  BY <1>1, <3>1, SubSeqProperties
  <2>3. Apply(l, "REMOVE", i, v) = SubSeq(l, 1, (i + 1) - 1) \o SubSeq(l, (i + 1) + 1, Len(l))
    BY DEF Apply, RemoveAt
  <2>4. (i + 1) - 1 = i /\ (i + 1) + 1 = i + 2
    OBVIOUS
  <2>5. SubSeq(l, 1, i) \o SubSeq(l, i + 2, Len(l)) \in Seq(Values)
    BY <2>1, <2>2, ConcatProperties
  <2> QED  BY <2>3, <2>4, <2>5
<1> QED
  BY <1>2, <1>3, <1>4

LEMMA ChangeKeeps == ASSUME ListInv, NEW e \in Ends, ListChange(e) PROVE ListInv'
<1>1. list[e] \in Seq(Values) /\ listVersion[e] \in Nat /\ Len(list[e]) \in Nat
  BY Lengths DEF ListInv, ListTypeOK
<1>2. ASSUME NEW op \in {"ADD", "UPDATE", "REMOVE"}, NEW i \in Nat, NEW v,
             ListMessage(e, op, i, v) \in ListMessages,
             Apply(list[e], op, i, v) \in Seq(Values), ChangeList(e, op, i, v)
      PROVE  ListInv'
  <2>1. PICK m \in ListMessages : m = ListMessage(e, op, i, v)
    BY <1>2
  <2>2. m.op = op /\ m.index = i /\ m.value = v /\ m.version = listVersion[e]
    BY <2>1 DEF ListMessage
  <2>3. PICK after \in Seq(Values) : after = Apply(list[e], op, i, v)
    BY <1>2
  <2>4. PICK r \in Seq(ListMessages) : r = <<m>> /\ Len(r) = 1 /\ r[1] = m /\ r # << >>
    <3>1. <<m>> \in Seq(ListMessages) /\ Len(<<m>>) = 1 /\ <<m>>[1] = m /\ <<m>> # << >>
      OBVIOUS
    <3> QED  BY <3>1
  <2>5. PICK h \in [0 .. 1 -> Seq(Values)] : h[0] = list[e] /\ h[1] = after
    <3> DEFINE g == [k \in 0 .. 1 |-> IF k = 0 THEN list[e] ELSE after]
    <3>1. g \in [0 .. 1 -> Seq(Values)] /\ g[0] = list[e] /\ g[1] = after
      BY <1>1
    <3> HIDE DEF g
    <3> QED  BY <3>1
  <2>6. Executes(r, list[e], listVersion[e], after, h)
    <3>1. ASSUME NEW k \in 1 .. 1
          PROVE  /\ h[k] = Apply(h[k - 1], r[k].op, r[k].index, r[k].value)
                 /\ r[k].version = listVersion[e] + (k - 1)
      <4>1. k = 1 /\ k - 1 = 0 /\ listVersion[e] + 0 = listVersion[e]
        BY <1>1
      <4> QED  BY <2>2, <2>3, <2>4, <2>5, <4>1
    <3> QED  BY <2>4, <2>5, <3>1 DEF Executes
  <2>7. /\ ~conflict /\ list' = [list EXCEPT ![e] = after]
        /\ listVersion' = [listVersion EXCEPT ![e] = @ + Len(r)]
        /\ listWire' = Send(listWire, e, r)
        /\ crossed' = (crossed \/ Arrived(listWire, e)) /\ conflict' = conflict
    BY <1>2, <2>1, <2>3, <2>4 DEF ChangeList
  <2> QED  BY <2>4, <2>6, <2>7, ListSends
<1>3. ASSUME NEW i \in 0 .. Len(list[e]), NEW v \in Values, ChangeList(e, "ADD", i, v)
      PROVE  ListInv'
  <2>1. i \in Nat /\ i <= Len(list[e])
    BY <1>1
  <2>2. ListMessage(e, "ADD", i, v) \in ListMessages
    BY <1>1, <2>1 DEF ListMessage, ListMessages
  <2> QED  BY <1>1, <1>2, <1>3, <2>1, <2>2, ApplyTyping
<1>4. ASSUME NEW i \in 0 .. Len(list[e]) - 1, NEW v \in Values, ChangeList(e, "UPDATE", i, v)
      PROVE  ListInv'
  <2>1. i \in Nat /\ i < Len(list[e])
    BY <1>1
  <2>2. ListMessage(e, "UPDATE", i, v) \in ListMessages
    BY <1>1, <2>1 DEF ListMessage, ListMessages
  <2> QED  BY <1>1, <1>2, <1>4, <2>1, <2>2, ApplyTyping
<1>5. ASSUME NEW i \in 0 .. Len(list[e]) - 1, ChangeList(e, "REMOVE", i, Absent)
      PROVE  ListInv'
  <2>1. i \in Nat /\ i < Len(list[e])
    BY <1>1
  <2>2. ListMessage(e, "REMOVE", i, Absent) \in ListMessages
    BY <1>1, <2>1 DEF ListMessage, ListMessages
  <2> QED  BY <1>1, <1>2, <1>5, <2>1, <2>2, ApplyTyping
<1> QED
  BY <1>3, <1>4, <1>5 DEF ListChange

\* clear(): the removals from the last element on take one element after the other.
LEMMA ClearKeeps == ASSUME ListInv, NEW e \in Ends, ListClear(e) PROVE ListInv'
<1> DEFINE l == list[e]
           n == Len(l)
           r == Removals(e)
           h == [i \in 0 .. n |-> SubSeq(l, 1, n - i)]
<1>1. l \in Seq(Values) /\ listVersion[e] \in Nat /\ n \in Nat \ {0} /\ DOMAIN l = 1 .. n
      /\ \A j \in 1 .. n : l[j] \in Values
  BY Lengths DEF ListInv, ListTypeOK, ListClear
<1>2. /\ r \in Seq(ListMessages) /\ Len(r) = n /\ r # << >>
      /\ \A i \in 1 .. n : /\ r[i].op = "REMOVE" /\ r[i].index = n - i
                           /\ r[i].version = listVersion[e] + (i - 1)
  <2>1. r = [i \in 1 .. n |-> [op |-> "REMOVE", index |-> n - i, value |-> Absent,
                              version |-> listVersion[e] + i - 1]]
    BY <1>1 DEF Removals
  <2>2. \A i \in 1 .. n : n - i \in Nat /\ listVersion[e] + i - 1 \in Nat
                        /\ listVersion[e] + i - 1 = listVersion[e] + (i - 1)
    BY <1>1
  <2>3. r \in [1 .. n -> ListMessages]
    BY <2>1, <2>2 DEF ListMessages
  <2>4. r \in Seq(ListMessages) /\ Len(r) = n
    BY <1>1, <2>3
  <2>5. \A i \in 1 .. n : /\ r[i].op = "REMOVE" /\ r[i].index = n - i
                         /\ r[i].version = listVersion[e] + (i - 1)
    BY <2>1, <2>2
  <2> HIDE DEF r
  <2>6. r # << >>
    BY <1>1, <2>4, EmptySeq
  <2> QED  BY <2>4, <2>5, <2>6
<1> HIDE DEF r
<1>3. ASSUME NEW i \in 0 .. n
      PROVE  /\ SubSeq(l, 1, n - i) \in Seq(Values) /\ Len(SubSeq(l, 1, n - i)) = n - i
             /\ h[i] = SubSeq(l, 1, n - i)
  <2>1. n - i \in Nat /\ n - i <= n /\ (IF 1 <= n - i THEN (n - i) - 1 + 1 ELSE 0) = n - i
    BY <1>1
  <2>2. \A j \in 1 .. n - i : l[j] \in Values
    BY <1>1, <2>1
  <2>3. /\ SubSeq(l, 1, n - i) \in Seq(Values)
        /\ Len(SubSeq(l, 1, n - i)) = IF 1 <= n - i THEN (n - i) - 1 + 1 ELSE 0
    BY <2>1, <2>2, SubSeqProperties
  <2> QED  BY <2>1, <2>3
<1>4. h \in [0 .. n -> Seq(Values)]
  BY <1>3
<1> HIDE DEF h
<1>5. h[0] = l /\ h[n] = << >>
  <2>1. 0 \in 0 .. n /\ n \in 0 .. n /\ n - 0 = n /\ n - n = 0
    BY <1>1
  <2>2. SubSeq(l, 1, n) = l /\ SubSeq(l, 1, 0) = << >>
    BY <1>1, SubSeqFull, SubSeqEmpty
  <2> QED  BY <1>3, <2>1, <2>2
<1>6. ASSUME NEW i \in 1 .. n PROVE h[i] = Apply(h[i - 1], "REMOVE", n - i, r[i].value)
  <2> DEFINE b == SubSeq(l, 1, n - (i - 1))
             k == n - i
  <2>1. i - 1 \in 0 .. n /\ i \in 0 .. n /\ k \in Nat /\ k <= n /\ n - (i - 1) = k + 1
        /\ k + 1 <= n
    BY <1>1
  <2>2. b \in Seq(Values) /\ Len(b) = k + 1 /\ h[i - 1] = b /\ h[i] = SubSeq(l, 1, k)
    BY <1>3, <2>1
  <2>3. Apply(b, "REMOVE", k, r[i].value) = SubSeq(b, 1, k) \o SubSeq(b, k + 2, Len(b))
    <3>1. k < Len(b)
      BY <2>1, <2>2
    <3> HIDE DEF b, k
    <3> QED  BY <2>1, <2>2, <3>1, ApplyTyping
  <2>4. SubSeq(b, k + 2, Len(b)) = << >>
    <3>1. Len(b) < k + 2 /\ Len(b) \in Int /\ k + 2 \in Int
      BY <2>1, <2>2
    <3> QED  BY <3>1, SubSeqEmpty
  <2>5. SubSeq(b, 1, k) = SubSeq(l, 1, k) /\ SubSeq(b, 1, k) \in Seq(Values)
    <3>1. /\ \A j \in 1 .. k : b[j] = l[j] /\ b[j] \in Values /\ l[j] \in Values
      <4>1. \A j \in 1 .. k + 1 : l[j] \in Values
        BY <1>1, <2>1
      <4>2. \A j \in 1 .. (k + 1) - 1 + 1 : SubSeq(l, 1, k + 1)[j] = l[1 + j - 1]
        BY <2>1, <4>1, SubSeqProperties
      <4>3. \A j \in 1 .. k : j \in 1 .. (k + 1) - 1 + 1 /\ 1 + j - 1 = j /\ j \in 1 .. k + 1
        BY <2>1
      <4> QED  BY <2>1, <4>1, <4>2, <4>3
    <3> HIDE DEF b, k
    <3>2. /\ SubSeq(b, 1, k) \in Seq(Values) /\ SubSeq(l, 1, k) \in Seq(Values)
          /\ Len(SubSeq(b, 1, k)) = IF 1 <= k THEN k - 1 + 1 ELSE 0
          /\ Len(SubSeq(l, 1, k)) = IF 1 <= k THEN k - 1 + 1 ELSE 0
          /\ \A j \in 1 .. k - 1 + 1 : SubSeq(b, 1, k)[j] = b[1 + j - 1]
          /\ \A j \in 1 .. k - 1 + 1 : SubSeq(l, 1, k)[j] = l[1 + j - 1]
      BY <2>1, <3>1, SubSeqProperties
    <3>3. (IF 1 <= k THEN k - 1 + 1 ELSE 0) = k /\ k - 1 + 1 = k
          /\ \A j \in 1 .. k : 1 + j - 1 = j
      BY <2>1
    <3>4. /\ Len(SubSeq(b, 1, k)) = k /\ Len(SubSeq(l, 1, k)) = k
          /\ \A j \in 1 .. k : SubSeq(b, 1, k)[j] = b[j] /\ SubSeq(l, 1, k)[j] = l[j]
      BY <3>2, <3>3
    <3>5. \A j \in 1 .. k : SubSeq(b, 1, k)[j] = SubSeq(l, 1, k)[j]
      BY <3>1, <3>4
    <3> QED  BY <3>2, <3>4, <3>5, SeqEqual
  <2> HIDE DEF b
  <2>6. SubSeq(l, 1, k) \o << >> = SubSeq(l, 1, k)
    BY <2>5, ConcatEmptySeq
  <2> QED  BY <2>2, <2>3, <2>4, <2>5, <2>6
<1>7. << >> \in Seq(Values)
  BY EmptySeq
<1>8. Executes(r, l, listVersion[e], << >>, h)
  BY <1>2, <1>4, <1>5, <1>6 DEF Executes
<1>9. /\ ~conflict /\ list' = [list EXCEPT ![e] = << >>]
      /\ listVersion' = [listVersion EXCEPT ![e] = @ + Len(r)]
      /\ listWire' = Send(listWire, e, r)
      /\ crossed' = (crossed \/ Arrived(listWire, e)) /\ conflict' = conflict
  BY <1>2 DEF ListClear, r
<1> QED
  BY <1>2, <1>7, <1>8, <1>9, ListSends

LEMMA ReceiveKeeps == ASSUME ListInv, NEW e \in Ends, ReceiveListChange(e) PROVE ListInv'
<1>1. PICK f \in Ends : f = Peer(e) /\ f # e /\ Peer(f) = e /\ \A d \in Ends : d = e \/ d = f
  BY Peers
<1>2. /\ listWire[f] \in Seq(ListMessages) /\ listWire[f] # << >> /\ ~conflict
      /\ listWire' = [listWire EXCEPT ![f] = Tail(listWire[f])]
      /\ crossed' = crossed /\ crossed \in BOOLEAN
      /\ listVersion[e] \in Nat /\ listVersion[f] \in Nat
      /\ list[e] \in Seq(Values) /\ list[f] \in Seq(Values)
  BY <1>1 DEF ReceiveListChange, Arrived, Take, ListInv, ListTypeOK
<1>3. PICK m \in ListMessages, left \in Seq(ListMessages) : TakenOff(listWire[f], m, left)
  BY <1>2, TakingOff
<1>4. /\ m = listWire[f][1] /\ listWire' = [listWire EXCEPT ![f] = left]
      /\ listWire'[f] = left /\ listWire'[e] = listWire[e]
      /\ m = Message(listWire, e)
  BY <1>1, <1>2, <1>3 DEF TakenOff, Message, ListInv, ListTypeOK
<1>5. CASE crossed
  <2>1. TooLate(f, e)
    BY <1>1, <1>2, <1>5 DEF ListInv
  <2>2. m.version # listVersion[e]
    <3>1. m.version \in Nat
      BY DEF ListMessages
    <3> QED  BY <1>2, <1>4, <2>1, <3>1 DEF TooLate
  <2>3. conflict' = TRUE /\ UNCHANGED <<list, listVersion>>
    BY <1>4, <2>2 DEF ReceiveListChange
  <2>4. ListTypeOK'
    BY <1>3, <1>4, <2>3 DEF ListInv, ListTypeOK
  <2> QED  BY <1>2, <1>5, <2>3, <2>4 DEF ListInv
<1>6. CASE ~crossed
  <2>1. InTurn(f, e)
    BY <1>1, <1>2, <1>6 DEF ListInv, InTurn
  <2> DEFINE n == Len(listWire[f])
             v == listVersion[e]
  <2>2. PICK h : Executes(listWire[f], list[e], v, list[f], h)
    BY <2>1 DEF InTurn
  <2>3. n \in Nat \ {0} /\ Len(left) = n - 1 /\ \A i \in 1 .. n - 1 : left[i] = listWire[f][i + 1]
    BY <1>3 DEF TakenOff
  <2>4. 1 \in 1 .. n /\ 1 - 1 = 0 /\ v + (1 - 1) = v
    BY <1>2, <2>3
  <2>5. /\ h[1] = Apply(list[e], m.op, m.index, m.value) /\ m.version = v
        /\ h[1] \in Seq(Values)
    <3>1. /\ h[1] = Apply(h[0], m.op, m.index, m.value) /\ m.version = v
          /\ h[0] = list[e]
      BY <1>4, <2>2, <2>4 DEF Executes
    <3>2. 1 \in 0 .. n
      BY <2>3
    <3> QED  BY <2>2, <3>1, <3>2 DEF Executes
  <2>6. /\ listVersion' = [listVersion EXCEPT ![e] = v + 1]
        /\ list' = [list EXCEPT ![e] = h[1]] /\ conflict' = conflict
    BY <1>4, <2>5 DEF ReceiveListChange
  <2>7. /\ list'[e] = h[1] /\ list'[f] = list[f]
        /\ listVersion'[e] = v + 1 /\ listVersion'[f] = listVersion[f]
    BY <1>1, <2>6 DEF ListInv, ListTypeOK
  <2>8. ListTypeOK'
    BY <1>2, <1>3, <1>4, <2>5, <2>6 DEF ListInv, ListTypeOK
  <2>9. \E g : Executes(left, h[1], v + 1, list[f], g)
    <3> DEFINE g == [i \in 0 .. n - 1 |-> h[i + 1]]
    <3>1. g \in [0 .. n - 1 -> Seq(Values)]
      <4>1. \A i \in 0 .. n - 1 : i + 1 \in 0 .. n
        BY <2>3
      <4> QED  BY <2>2, <4>1 DEF Executes
    <3>2. \A i \in 0 .. n - 1 : g[i] = h[i + 1]
      OBVIOUS
    <3> HIDE DEF g
    <3>3. g[0] = h[1] /\ g[n - 1] = list[f]
      <4>1. 0 \in 0 .. n - 1 /\ n - 1 \in 0 .. n - 1 /\ 0 + 1 = 1 /\ (n - 1) + 1 = n
        BY <2>3
      <4>2. h[n] = list[f]
        BY <2>2 DEF Executes
      <4> QED  BY <3>2, <4>1, <4>2
    <3>4. ASSUME NEW i \in 1 .. n - 1
          PROVE  /\ g[i] = Apply(g[i - 1], left[i].op, left[i].index, left[i].value)
                 /\ left[i].version = (v + 1) + (i - 1)
      <4>1. i + 1 \in 1 .. n /\ i \in 0 .. n - 1 /\ i - 1 \in 0 .. n - 1 /\ (i - 1) + 1 = i
            /\ (i + 1) - 1 = i /\ (v + 1) + (i - 1) = v + i
        <5>1. v \in Nat /\ n \in Nat \ {0}
          BY <1>2, <2>3
        <5> HIDE DEF v, n
        <5> QED  BY <5>1
      <4> DEFINE c == listWire[f][i + 1]
      <4>2. h[i + 1] = Apply(h[(i + 1) - 1], c.op, c.index, c.value)
            /\ c.version = v + ((i + 1) - 1)
        BY <2>2, <4>1 DEF Executes
      <4>3. left[i] = c /\ g[i] = h[i + 1] /\ g[i - 1] = h[i]
        BY <2>3, <3>2, <4>1
      <4> QED  BY <4>1, <4>2, <4>3
    <3>5. Executes(left, h[1], v + 1, list[f], g)
      BY <2>3, <3>1, <3>3, <3>4 DEF Executes
    <3> QED  BY <3>5
  <2>10. listVersion[f] = (v + 1) + Len(left)
    <3>1. listVersion[f] = v + n
      BY <2>1 DEF InTurn
    <3> QED  BY <1>2, <2>3, <3>1
  <2>11. listWire[e] = << >>
    BY <2>1 DEF InTurn
  <2>12. InTurn(f, e)'
    BY <1>4, <2>7, <2>9, <2>10, <2>11 DEF InTurn
  <2> QED  BY <1>1, <1>2, <1>6, <2>6, <2>8, <2>12 DEF ListInv
<1> QED
  BY <1>2, <1>5, <1>6

LEMMA ListStep == ASSUME ListInv, [ReplicasNext]_replicaVars PROVE ListInv'
<1>1. CASE ListNext
  BY <1>1, ChangeKeeps, ClearKeeps, ReceiveKeeps DEF ListNext
<1>2. CASE UNCHANGED listVars
  BY <1>2 DEF listVars, ListInv, ListTypeOK, InTurn, TooLate
<1> QED
  BY <1>1, <1>2 DEF ReplicasNext, replicaVars

\* Ends that change a list in turn have the same list, element by element, once
\* everything has arrived, and never fail the version assertion; ends whose changes
\* cross always fail it before everything has arrived (RdList.h, on_wire_received).
THEOREM ListsConverge == ReplicasSpec => []ListsAgree
<1>1. ReplicasInit => ListInv
  BY ListInitKeeps DEF ReplicasInit
<1>2. ListInv /\ [ReplicasNext]_replicaVars => ListInv'
  BY ListStep
<1>3. ListInv => ListsAgree
  <2> SUFFICES ASSUME ListInv PROVE ListsAgree
    OBVIOUS
  <2>1. \A e \in Ends : TooLate(e, Peer(e)) => ~Quiet(listWire)
    BY DEF TooLate, Quiet
  <2>2. ASSUME NEW e \in Ends, InTurn(e, Peer(e)), Quiet(listWire)
        PROVE  list[1] = list[2] /\ listVersion[1] = listVersion[2]
    <3>1. listWire[e] = << >> /\ Len(listWire[e]) = 0
      BY <2>2, EmptySeq DEF Quiet
    <3>2. PICK h : Executes(listWire[e], list[Peer(e)], listVersion[Peer(e)], list[e], h)
      BY <2>2 DEF InTurn
    <3>3. list[e] = list[Peer(e)]
      BY <3>1, <3>2 DEF Executes
    <3>4. listVersion[Peer(e)] \in Nat
      BY Peers DEF ListInv, ListTypeOK
    <3>5. listVersion[e] = listVersion[Peer(e)]
      BY <2>2, <3>1, <3>4 DEF InTurn
    <3> QED  BY <3>3, <3>5 DEF Ends, Peer
  <2>3. 1 \in Ends
    BY DEF Ends
  <2> QED  BY <2>1, <2>2, <2>3 DEF ListInv, ListsAgree
<1> QED
  BY <1>1, <1>2, <1>3, PTL DEF ReplicasSpec
===============================================================================
