-------------------------------- MODULE RdWire ---------------------------------
(***************************************************************************)
(* SocketWire::Base between two processes: one direction of messages, from *)
(* the send buffer of one wire to read_package of the other, and the       *)
(* acknowledgements that come back.  Both ends reconnect for ever.  The    *)
(* other direction is the same and meets this one in no variable.  Pings   *)
(* share the stream but touch nothing modelled here.                       *)
(***************************************************************************)
EXTENDS RdSendBuffer, FiniteSets, SequencesExt

CONSTANT MaxDrops    \* bound on lost connections and restarts of the sender

ASSUME WireAssumption == MaxDrops \in Nat

VARIABLES
  link,         \* the TCP connection: "none" yet, "up", or "cut"
  drops,
  conn,         \* the sending wire's set_socket_provider
  peer,         \* the receiving wire's: "idle" or "open"
  toReceiver,   \* packages on their way
  toSender,     \* acknowledgements on their way
  maxReceived,  \* max_received_seqn
  junk,         \* bytes that are no message in the receiver's stream; 4 for misframed for good
  got,          \* the message dispatched last
  heard         \* history: the numbers accepted from the present sender

wireVars == <<bufferVars, link, drops, conn, peer, toReceiver, toSender, maxReceived,
              junk, got, heard>>
networkVars == <<link, drops, conn, peer, toReceiver, toSender, maxReceived, junk, got,
                 heard>>
receiverVars == <<peer, maxReceived, junk, got, heard>>

Misframed == 4

-------------------------------------------------------------------------------
WireInit ==
  /\ Init
  /\ link = "none" /\ drops = 0
  /\ conn = "idle" /\ peer = "idle"
  /\ toReceiver = << >> /\ toSender = << >>
  /\ maxReceived = 0 /\ junk = 0 /\ got = 0
  /\ heard = {}

\* send0: into the connection; into a connection that is no more, which the socket may
\* not know yet; or an error.
Send0(message, seqn, ok) ==
  \/ ok /\ link = "up" /\ toReceiver' = Append(toReceiver, [seqn |-> seqn, message |-> message])
  \/ ok /\ link = "cut" /\ conn # "idle" /\ UNCHANGED toReceiver
  \/ ~ok /\ link # "up" /\ UNCHANGED toReceiver

Process ==
  /\ \E ok \in BOOLEAN :
       ProcessOne(ok) /\ Send0(Head(queue), maxSent + 1, ok)
  /\ UNCHANGED <<link, drops, conn, toSender, receiverVars>>

Thread ==
  \/ Grab /\ UNCHANGED networkVars
  \/ StartProcess /\ UNCHANGED networkVars
  \/ ProcessDone /\ UNCHANGED networkVars
  \/ Exit /\ UNCHANGED networkVars

-------------------------------------------------------------------------------
\* Client or Server has a new socket and set_socket_provider stores it.  The side that
\* comes first only waits for the other.
Connect ==
  /\ link # "up" /\ conn = "idle" /\ peer = "idle" /\ state = "AsyncProcessing"
  /\ link' = "up" /\ conn' = "attached" /\ peer' = "open"
  /\ toReceiver' = << >> /\ toSender' = << >>
  /\ UNCHANGED <<bufferVars, drops, maxReceived, junk, got, heard>>

Resume ==
  /\ conn = "attached"
  /\ BeginResume
  /\ UNCHANGED networkVars

\* resume() has returned: connected is set and receiverProc starts.
Opened == conn' = IF owner' = "nobody" THEN "open" ELSE conn

Resend ==
  /\ \E ok \in BOOLEAN :
       ResendOne(ok) /\ Send0(pending[resent + 1], current + resent, ok)
  /\ Opened
  /\ UNCHANGED <<link, drops, toSender, receiverVars>>

ResendDone ==
  /\ EndResume
  /\ Opened
  /\ UNCHANGED <<link, drops, toReceiver, toSender, receiverVars>>

\* read_header finds an acknowledgement.
ReadAck ==
  /\ conn = "open" /\ toSender # << >>
  /\ Acknowledge(Head(toSender))
  /\ toSender' = Tail(toSender)
  /\ UNCHANGED <<link, drops, conn, toReceiver, receiverVars>>

\* receiverProc reads the end of the stream; pause("Disconnected").
Disconnect ==
  /\ conn = "open" /\ link = "cut" /\ toSender = << >>
  /\ BeginPause
  /\ UNCHANGED networkVars

Disconnected ==
  /\ EndPause
  /\ conn' = "idle"
  /\ UNCHANGED <<link, drops, toReceiver, toSender, receiverVars>>

-------------------------------------------------------------------------------
\* Fault: acknowledges the number expected next.
SendAckOfNext(seqn) ==
  toSender' = IF link = "up" THEN Append(toSender, seqn + 1) ELSE toSender

SendAck(seqn) ==
  toSender' = IF link = "up" THEN Append(toSender, seqn) ELSE toSender

\* Fault: no exception for the first number.
IsDuplicateAlsoFirst(seqn) == seqn <= maxReceived

IsDuplicate(seqn) == seqn <= maxReceived /\ seqn # 1

\* read_package, then read_and_dispatch_message.  For a duplicate read_package returns
\* `true`, a length of 1: the package's first byte enters the stream of messages.  Four
\* such bytes, or one and a message, are read as a length: the stream is misframed.
Receive ==
  /\ peer = "open" /\ toReceiver # << >>
  /\ LET package == Head(toReceiver)
     IN  /\ SendAck(package.seqn)
         /\ IF IsDuplicate(package.seqn)
            THEN /\ junk' = IF junk < Misframed THEN junk + 1 ELSE junk
                 /\ UNCHANGED <<maxReceived, got, heard>>
            ELSE /\ maxReceived' = package.seqn
                 /\ heard' = heard \cup {package.seqn}
                 /\ IF junk = 0 THEN got' = package.message /\ junk' = 0
                                ELSE junk' = Misframed /\ UNCHANGED got
  /\ toReceiver' = Tail(toReceiver)
  /\ UNCHANGED <<bufferVars, link, drops, conn, peer>>

\* The end of the stream interrupts read_integral, which forgets the bytes it has.
PeerDisconnect ==
  /\ peer = "open" /\ link = "cut" /\ toReceiver = << >>
  /\ peer' = "idle"
  /\ junk' = IF junk = Misframed THEN Misframed ELSE 0
  /\ UNCHANGED <<bufferVars, link, drops, conn, toReceiver, toSender, maxReceived, got,
                 heard>>

-------------------------------------------------------------------------------
Application == Put /\ UNCHANGED networkVars

\* The connection breaks: of what is on its way each end still reads some beginning.
Drop ==
  /\ link = "up" /\ drops < MaxDrops
  /\ link' = "cut" /\ drops' = drops + 1
  /\ toReceiver' \in Prefixes(toReceiver)
  /\ toSender' \in Prefixes(toSender)
  /\ UNCHANGED <<bufferVars, conn, receiverVars>>

\* The sender's process is started anew, after the receiver has read what it left; the
\* receiver and its max_received_seqn stay.
SenderRestarts ==
  /\ link = "cut" /\ peer = "idle" /\ drops < MaxDrops
  /\ drops' = drops + 1
  /\ put' = 0 /\ state' = "AsyncProcessing"
  /\ data' = << >> /\ queue' = << >> /\ pending' = << >>
  /\ maxSent' = 0 /\ current' = 1 /\ acked' = 0
  /\ balance' = 1 /\ resent' = 0
  /\ thread' = "waiting" /\ owner' = "nobody"
  /\ conn' = "idle"
  /\ toSender' = << >>
  /\ heard' = {}
  /\ UNCHANGED <<link, peer, toReceiver, maxReceived, junk, got>>

\* The lifetime of the wire ends: stop the buffer, then close the socket.
Terminate ==
  \/ Stop /\ UNCHANGED networkVars
  \/ /\ Cleanup
     /\ link' = IF link = "up" THEN "cut" ELSE link
     /\ UNCHANGED <<drops, conn, toReceiver, toSender, receiverVars>>

WireNext ==
  \/ Application
  \/ Thread \/ Process
  \/ Connect \/ Resume \/ Resend \/ ResendDone \/ ReadAck \/ Disconnect \/ Disconnected
  \/ Receive \/ PeerDisconnect
  \/ Drop \/ SenderRestarts \/ Terminate

WireSpec == WireInit /\ [][WireNext]_wireVars

\* The environment in which the buffer's thread, once it has taken data, is not held up
\* before process() for as long as losing a connection and making the next one take
\* (without it process() may number and send a message on the new connection before
\* reprocess() has repeated the old ones there).
Prompt == Connect => thread \in {"waiting", "exited"}

\* Threads go on while they can, and TCP delivers while the connection lasts.
PromptSpec ==
  /\ WireInit /\ [][WireNext /\ Prompt]_wireVars
  /\ WF_wireVars(Thread) /\ WF_wireVars(Process)
  /\ WF_wireVars(Resume) /\ WF_wireVars(Resend) /\ WF_wireVars(ResendDone)
  /\ WF_wireVars(Receive)

-------------------------------------------------------------------------------
WireTypeOK ==
  /\ BufferTypeOK
  /\ balance \in 0 .. 1
  /\ link \in {"none", "up", "cut"}
  /\ conn \in {"idle", "attached", "open"} /\ peer \in {"idle", "open"}
  /\ \A i \in DOMAIN toReceiver : toReceiver[i] \in [seqn : Nat \ {0}, message : 1 .. MaxPut]
  /\ \A i \in DOMAIN toSender : toSender[i] \in Nat \ {0}
  /\ junk \in 0 .. Misframed

\* What is acknowledged has been accepted: a message leaves pending_queue only when the
\* receiver has it.
AckedWasHeard == 1 .. acked \subseteq heard

\* A package that the receiver throws away as a duplicate is one it has accepted
\* from this very sender before, also when the sender restarted and numbers from 1.
AcceptsWhatIsNew ==
  [][Receive /\ IsDuplicate(Head(toReceiver).seqn)
       => Head(toReceiver).seqn \in heard]_wireVars

\* acknowledge()'s log calls it an error when an acknowledgement is not greater than the
\* one before it (ByteBufferAsyncProcessor.cpp:259).
AcknowledgementsGrow == [][ReadAck => Head(toSender) > acked]_wireVars

\* The wire implements RdChannel: in order, without a gap.
Channel == INSTANCE RdChannel WITH sent <- put, got <- got

ImplementsChannel == Channel!Spec

\* A message put while the connection stands arrives unless the connection is lost or
\* the wire is stopped, whatever failed on earlier connections.
Standing == conn = "open" /\ link = "up" /\ state = "AsyncProcessing"

PutIsReceived == \A n \in 1 .. MaxPut :
  (Standing /\ n \in ToSet(data)) ~> (~Standing \/ n \in heard)
===============================================================================
