----------------------------- MODULE RdSendBuffer -----------------------------
(***************************************************************************)
(* ByteBufferAsyncProcessor of the RD protocol library: the send buffer    *)
(* between the threads that put() messages, its own thread, which numbers  *)
(* them and hands them to `processor`, and the connection thread, which    *)
(* pauses it, resumes it with reprocess() and passes on acknowledgements.  *)
(* The n-th message put is the number n.  Whether a call of processor      *)
(* succeeds is the parameter ok; module RdWire gives it a network.         *)
(*                                                                         *)
(* A step ends where a lock is given up or a call leaves the buffer.  The  *)
(* call of processor and the bookkeeping after it are one step: whoever    *)
(* reads maxSent, queue or pending takes queue_lock first.                 *)
(***************************************************************************)
EXTENDS Integers, Sequences

CONSTANT MaxPut    \* bound on the messages put

ASSUME SendBufferAssumption == MaxPut \in Nat

VARIABLES
  put,       \* messages accepted so far
  state,     \* StateKind from start() on
  data,      \* put, not yet taken by the thread
  queue,     \* taken, not yet handed to processor with success
  pending,   \* pending_queue: handed over, not yet known to be acknowledged
  maxSent,   \* max_sent_seqn
  current,   \* current_seqn, the number of pending's first message
  acked,     \* acknowledged_seqn
  balance,   \* interrupt_balance
  resent,    \* the index i of reprocess's second loop
  thread,    \* where ThreadProc is
  owner      \* who holds `lock` from one step to the next

bufferVars == <<put, state, data, queue, pending, maxSent, current, acked, balance,
                resent, thread, owner>>

-------------------------------------------------------------------------------
\* After Base's constructor: pause("initial") and start().
Init ==
  /\ put = 0
  /\ state = "AsyncProcessing"
  /\ data = << >> /\ queue = << >> /\ pending = << >>
  /\ maxSent = 0 /\ current = 1 /\ acked = 0
  /\ balance = 1
  /\ resent = 0
  /\ thread = "waiting"
  /\ owner = "nobody"

\* From Stopping on, put returns without a word.
Put ==
  /\ owner = "nobody" /\ state = "AsyncProcessing" /\ put < MaxPut
  /\ put' = put + 1
  /\ data' = Append(data, put + 1)
  /\ UNCHANGED <<state, queue, pending, maxSent, current, acked, balance, resent,
                 thread, owner>>

\* ThreadProc takes all data into the queue, under both locks.
Grab ==
  /\ thread = "waiting" /\ owner = "nobody" /\ state # "Terminated"
  /\ data # << >> /\ balance = 0
  /\ queue' = queue \o data
  /\ data' = << >>
  /\ thread' = "grabbed"
  /\ UNCHANGED <<put, state, pending, maxSent, current, acked, balance, resent, owner>>

\* process() takes queue_lock, which reprocess holds from its beginning to its end.
StartProcess ==
  /\ thread = "grabbed" /\ owner # "resume"
  /\ thread' = "processing"
  /\ UNCHANGED <<put, state, data, queue, pending, maxSent, current, acked, balance,
                 resent, owner>>

\* Fault: the message leaves the queue also when processor fails.
ProcessOneWhateverComes(ok) ==
  /\ thread = "processing" /\ queue # << >>
  /\ queue' = Tail(queue)
  /\ IF ok
     THEN /\ maxSent' = maxSent + 1
          /\ pending' = Append(pending, Head(queue))
          /\ UNCHANGED thread
     ELSE thread' = "waiting" /\ UNCHANGED <<pending, maxSent>>
  /\ UNCHANGED <<put, state, data, current, acked, balance, resent, owner>>

\* A turn of process()'s loop; when processor fails the message stays in the queue.
ProcessOne(ok) ==
  /\ thread = "processing" /\ queue # << >>
  /\ IF ok
     THEN /\ maxSent' = maxSent + 1
          /\ pending' = Append(pending, Head(queue))
          /\ queue' = Tail(queue)
          /\ UNCHANGED thread
     ELSE thread' = "waiting" /\ UNCHANGED <<queue, pending, maxSent>>
  /\ UNCHANGED <<put, state, data, current, acked, balance, resent, owner>>

ProcessDone ==
  /\ thread = "processing" /\ queue = << >>
  /\ thread' = "waiting"
  /\ UNCHANGED <<put, state, data, queue, pending, maxSent, current, acked, balance,
                 resent, owner>>

Exit ==
  /\ thread = "waiting" /\ owner = "nobody"
  /\ \/ state = "Terminated"
     \/ state = "Stopping" /\ (data = << >> \/ balance # 0)
  /\ thread' = "exited"
  /\ UNCHANGED <<put, state, data, queue, pending, maxSent, current, acked, balance,
                 resent, owner>>

-------------------------------------------------------------------------------
\* pause() keeps `lock` while it waits for process() to end.
BeginPause ==
  /\ owner = "nobody"
  /\ balance' = balance + 1
  /\ owner' = "pause"
  /\ UNCHANGED <<put, state, data, queue, pending, maxSent, current, acked, resent,
                 thread>>

EndPause ==
  /\ owner = "pause" /\ thread # "processing"
  /\ owner' = "nobody"
  /\ UNCHANGED <<put, state, data, queue, pending, maxSent, current, acked, balance,
                 resent, thread>>

\* Fault: drops one message more than was acknowledged.
TrimTooMuch ==
  /\ current' = IF current <= acked + 1 /\ pending # << >> THEN acked + 2 ELSE current
  /\ pending' = SubSeq(pending, current' - current + 1, Len(pending))

\* Fault: keeps what is acknowledged.
TrimNothing == UNCHANGED <<current, pending>>

\* reprocess()'s first loop: pop_front and ++current_seqn up to acknowledged_seqn.
Trim ==
  /\ current' = IF current <= acked THEN acked + 1 ELSE current
  /\ pending' = SubSeq(pending, current' - current + 1, Len(pending))

\* resume() takes `lock`, reprocess() queue_lock, which waits for process() to end.
BeginResume ==
  /\ owner = "nobody" /\ thread # "processing"
  /\ Trim
  /\ resent' = 0
  /\ owner' = "resume"
  /\ UNCHANGED <<put, state, data, queue, maxSent, acked, balance, thread>>

Resumed == owner' = "nobody" /\ balance' = balance - 1

\* Fault: a resend that fails leaves the buffer paused.
ResendOneStaysPaused(ok) ==
  /\ owner = "resume" /\ resent < Len(pending)
  /\ IF ok
     THEN resent' = resent + 1 /\ UNCHANGED <<balance, owner>>
     ELSE owner' = "nobody" /\ UNCHANGED <<resent, balance>>
  /\ UNCHANGED <<put, state, data, queue, pending, maxSent, current, acked, thread>>

\* A turn of reprocess()'s second loop; that it failed makes no difference to resume().
ResendOne(ok) ==
  /\ owner = "resume" /\ resent < Len(pending)
  /\ IF ok
     THEN resent' = resent + 1 /\ UNCHANGED <<balance, owner>>
     ELSE Resumed /\ UNCHANGED resent
  /\ UNCHANGED <<put, state, data, queue, pending, maxSent, current, acked, thread>>

EndResume ==
  /\ owner = "resume" /\ resent = Len(pending)
  /\ Resumed
  /\ UNCHANGED <<put, state, data, queue, pending, maxSent, current, acked, resent,
                 thread>>

\* An acknowledgement that is not greater than the last is an error that is only logged.
Acknowledge(seqn) ==
  /\ owner = "nobody"
  /\ acked' = IF seqn > acked THEN seqn ELSE acked
  /\ UNCHANGED <<put, state, data, queue, pending, maxSent, current, balance, resent,
                 thread, owner>>

Stop ==
  /\ owner = "nobody" /\ state = "AsyncProcessing"
  /\ state' = "Stopping"
  /\ UNCHANGED <<put, data, queue, pending, maxSent, current, acked, balance, resent,
                 thread, owner>>

\* cleanup0: the thread has ended, or was waited for long enough.
Cleanup ==
  /\ owner = "nobody" /\ state = "Stopping"
  /\ state' = "Terminated"
  /\ UNCHANGED <<put, data, queue, pending, maxSent, current, acked, balance, resent,
                 thread, owner>>

\* The buffer by itself, for any processor and any acknowledgement of what was sent.
Next ==
  \/ Put
  \/ Grab \/ StartProcess \/ ProcessDone \/ Exit
  \/ \E ok \in BOOLEAN : ProcessOne(ok) \/ ResendOne(ok)
  \/ BeginPause \/ EndPause \/ BeginResume \/ EndResume
  \/ \E seqn \in 1 .. maxSent : Acknowledge(seqn)
  \/ Stop \/ Cleanup

Spec == Init /\ [][Next]_bufferVars

-------------------------------------------------------------------------------
BufferTypeOK ==
  /\ put \in Nat
  /\ state \in {"AsyncProcessing", "Stopping", "Terminated"}
  /\ data \in Seq(Nat) /\ queue \in Seq(Nat) /\ pending \in Seq(Nat)
  /\ maxSent \in Nat /\ current \in Nat \ {0} /\ acked \in Nat
  /\ balance \in Int
  /\ resent \in Nat
  /\ thread \in {"waiting", "grabbed", "processing", "exited"}
  /\ owner \in {"nobody", "pause", "resume"}

\* s holds the numbers first, first + 1, ..., one after the other.
Consecutive(s, first) == \A i \in 1 .. Len(s) : s[i] = first - 1 + i

\* Whatever fails, pauses or is acknowledged when, the buffer holds every message that
\* may still have to be sent, once, in order and under one number for ever: pending holds
\* current .. maxSent, queue and data what was put after that.  So reprocess() repeats
\* each message under the number process() gave it.
NothingForgotten ==
  /\ current + Len(pending) = maxSent + 1
  /\ maxSent + Len(queue) + Len(data) = put
  /\ Consecutive(pending, current)
  /\ Consecutive(queue, maxSent + 1)
  /\ Consecutive(data, maxSent + Len(queue) + 1)

\* reprocess() never pops an empty pending_queue: only what was sent is acknowledged.
TrimIsSafe == acked <= maxSent
===============================================================================
