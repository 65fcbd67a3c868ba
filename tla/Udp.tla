---------------------------------- MODULE Udp ----------------------------------
(***************************************************************************)
(* The UDP listener with AT 1 and with AT 2 firmware.                      *)
(*                                                                         *)
(* AT 1 is UdpReceive.  With AT 2 a +IPD line brings only the size of a    *)
(* message; the firmware keeps the message, and parsePacket fetches it     *)
(* with three commands: information on, AT+CIPRECVDATA, information off.   *)
(* What the driver knows of the messages is one number, link.available.    *)
(* Lines are read before each of the commands, so the number can change    *)
(* between the moment its size is taken and the moment it is used.         *)
(*                                                                         *)
(* A lost or overwritten announcement is made good by asking AT+CIPRECVLEN?.*)
(*                                                                         *)
(* The firmware is taken to announce a message that is the oldest, and may *)
(* announce a later one; it gives one message for one AT+CIPRECVDATA and   *)
(* drops what of it was not asked for. To AT+CIPRECVLEN? it answers with   *)
(* the size of that message or of all that wait.                           *)
(***************************************************************************)
EXTENDS UdpReceive, SequencesExt

CONSTANT MaxFaults \* bound: commands refused and messages lost on the line with AT 2

ASSUME FaultsAssumption == MaxFaults \in Nat

VARIABLES
  at1,    \* the firmware is AT 1
  avail,  \* link.available of the listener
  asked,  \* the size recvDataWithInfo was called with, then the size it asks for
  queue,  \* AT 2: the messages the firmware keeps, and whether it has announced them
  held,   \* AT 2: the bytes of these messages
  faults  \* history: commands refused and messages lost
udpVars == <<vars, at1, avail, asked, queue, held, faults>>

FetchCalls == {"size", "fetch", "info", "receive", "infoOff"}
Message2s  == [msg : 1 .. MaxMessages, size : 1 .. MaxSize, told : BOOLEAN]
Ipd(m)     == [kind |-> "ipd", size |-> m.size]

\* the stream a fetch reads into, empty until the message is in it
Fetched(m, n) == [live |-> TRUE, msg |-> m, len |-> n, index |-> 0]

Fails == faults < MaxFaults /\ faults' = faults + 1

-----------------------------------------------------------------------------
(* parsePacket with AT 2.                                                  *)

\* a +IPD line is read by the call that is going on
ReadIpd ==
  /\ call # "none" /\ line # <<>>
  /\ avail' = Head(line).size /\ line' = Tail(line)
  /\ UNCHANGED <<listening, rx, others, call, sent, seen, asked, queue, held, faults>>

\* the packet before is freed, whether it was read or not
\* mutant: it is freed only when its reading was begun, as with AT 1
ParseKeepsUnread ==
  /\ listening /\ call = "none" /\ call' = "size"
  /\ rx' = IF rx.index > 0 THEN NoPacket ELSE rx
  /\ UNCHANGED <<listening, others, line, sent, seen, avail, asked, queue, held, faults>>

Parse ==
  /\ listening /\ call = "none" /\ call' = "size" /\ rx' = NoPacket
  /\ UNCHANGED <<listening, others, line, sent, seen, avail, asked, queue, held, faults>>

\* the packet that parsePacket() returns the size of
Return ==
  /\ call' = "none"
  /\ seen' = [seen EXCEPT !.packet = rx'.msg]

\* recvLenQuery, which availData does now and then when it knows of nothing, for the
\* listener and in the calls of other objects
Sync ==
  /\ line = <<>> /\ (call = "maintain" \/ (call = "size" /\ avail = 0))
  /\ avail' \in IF queue = <<>> THEN {0} ELSE {Head(queue).size, held}
  /\ UNCHANGED <<listening, rx, others, call, line, sent, seen, asked, queue, held, faults>>

\* availableForParse; a stream is taken; the size is cut to the size of the buffer
TakeSize ==
  /\ call = "size" /\ line = <<>>
  /\ IF avail > 0 /\ Free
     THEN call' = "fetch" /\ rx' = Fetched(0, 0) /\ asked' = Min({avail, BufferSize}) /\ UNCHANGED seen
     ELSE UNCHANGED <<rx, asked>> /\ Return
  /\ UNCHANGED <<listening, others, line, sent, avail, queue, held, faults>>

\* recvDataWithInfo: "to not read data of next message"; "the rest of message will not
\* be available"
CheckSize ==
  /\ call = "fetch" /\ line = <<>> /\ call' = "info"
  /\ asked' = Min({asked, avail}) /\ avail' = Min({asked, avail})
  /\ UNCHANGED <<listening, rx, others, line, sent, seen, queue, held, faults>>

\* AT+CIPDINFO=1 is answered; when it is refused there is an empty packet, which
\* available() frees
InfoOn ==
  /\ call = "info" /\ line = <<>>
  /\ \/ call' = "receive" /\ UNCHANGED <<rx, seen, faults>>
     \/ Fails /\ rx' = NoPacket /\ Return
  /\ UNCHANGED <<listening, others, line, sent, avail, asked, queue, held>>

\* The firmware has given up the oldest message and announces the next.
NextMessage ==
  LET rest == Tail(queue) IN
  /\ held' = held - Head(queue).size
  /\ IF rest = <<>> \/ Head(rest).told
     THEN queue' = rest /\ UNCHANGED line
     ELSE queue' = [rest EXCEPT ![1].told = TRUE] /\ line' = Append(line, Ipd(Head(rest)))

\* AT+CIPRECVDATA is answered with the oldest message or its first bytes,
Receive ==
  /\ call = "receive" /\ line = <<>> /\ queue # <<>> /\ call' = "infoOff"
  /\ LET m == Head(queue)  len == Min({asked, m.size}) IN
       /\ rx' = Fetched(m.msg, len)
       /\ avail' = IF len > avail THEN 0 ELSE avail - len
  /\ NextMessage
  /\ UNCHANGED <<listening, others, sent, seen, asked, faults>>

\* some of the bytes of which may be lost on the line,
\* mutant: the message stays counted
ReceiveTimeoutCounted ==
  /\ call = "receive" /\ line = <<>> /\ queue # <<>> /\ call' = "infoOff" /\ Fails
  /\ rx' = Fetched(0, 0) /\ UNCHANGED avail
  /\ NextMessage
  /\ UNCHANGED <<listening, others, sent, seen, asked>>

ReceiveTimeout ==
  /\ call = "receive" /\ line = <<>> /\ queue # <<>> /\ call' = "infoOff" /\ Fails
  /\ rx' = Fetched(0, 0) /\ avail' = 0
  /\ NextMessage
  /\ UNCHANGED <<listening, others, sent, seen, asked>>

\* or it is refused: the size that was asked for is returned all the same
ReceiveRefused ==
  /\ call = "receive" /\ line = <<>> /\ call' = "infoOff" /\ Fails
  /\ rx' = Fetched(0, asked) /\ avail' = 0
  /\ UNCHANGED <<listening, others, line, sent, seen, asked, queue, held>>

\* AT+CIPDINFO=0 is answered, which nobody looks at; available() frees an empty packet
InfoOff ==
  /\ call = "infoOff" /\ line = <<>>
  /\ rx' = (IF Unread THEN rx ELSE NoPacket) /\ Return
  /\ UNCHANGED <<listening, others, line, sent, avail, asked, queue, held, faults>>

\* the link is closed: CLOSED and OK are read after all that was announced
Closed ==
  /\ Stopped /\ avail' = 0 /\ queue' = <<>> /\ held' = 0 /\ UNCHANGED <<at1, asked, faults>>

\* A message reaches the firmware.
Arrives ==
  /\ listening /\ sent < MaxMessages /\ Len(line) < MaxLine /\ sent' = sent + 1
  /\ \E size \in 1 .. MaxSize, told \in {TRUE, queue = <<>>} :
       LET m == [msg |-> sent + 1, size |-> size, told |-> told] IN
         /\ queue' = Append(queue, m) /\ held' = held + size
         /\ line' = IF told THEN Append(line, Ipd(m)) ELSE line
  /\ UNCHANGED <<listening, rx, others, call, seen, avail, asked, faults>>

-----------------------------------------------------------------------------
UdpInit ==
  /\ Init /\ at1 \in BOOLEAN /\ avail = 0 /\ asked = 0 /\ queue = <<>> /\ held = 0 /\ faults = 0

\* the steps of a fetch
Fetch ==
  TakeSize \/ CheckSize \/ InfoOn \/ Receive \/ ReceiveTimeout \/ ReceiveRefused \/ InfoOff

UdpNext ==
  \/ Sketch /\ UNCHANGED <<at1, avail, asked, queue, held, faults>>
  \/ at1 /\ (ReadsLine \/ Calling \/ Firmware) /\ UNCHANGED <<at1, avail, asked, queue, held, faults>>
  \/ ~ at1 /\ Closed
  \/ ~ at1 /\ (ReadIpd \/ Sync \/ Parse \/ Fetch \/ Arrives) /\ UNCHANGED at1

UdpSpec == UdpInit /\ [][UdpNext]_udpVars

\* A call goes on and the firmware answers; the sketch calls parsePacket in loop(); and
\* when 500 ms are over one of its calls asks AT+CIPRECVLEN?.
Goes ==
  /\ UdpNext
  /\ \/ at1 /\ (ReadsLine \/ ParseReturns \/ AsksFirmware \/ Answer \/ Stopped)
     \/ ~ at1 /\ (ReadIpd \/ Fetch \/ Closed)
     \/ Maintained \/ Begun
ParsesAgain == UdpNext /\ ((at1 /\ ParsePacket) \/ (~ at1 /\ Parse))
Syncs == UdpNext /\ ~ at1 /\ call = "size" /\ Sync /\ avail' > 0
UdpFairSpec == UdpSpec /\ WF_udpVars(Goes) /\ SF_udpVars(ParsesAgain) /\ SF_udpVars(Syncs)

-----------------------------------------------------------------------------
(* What must hold.                                                         *)

\* The types; and the streams in use are never more than there are, whether the callback
\* of AT 1 or parsePacket of AT 2 takes one.
UdpTypeOK ==
  /\ others + (IF rx.live THEN 1 ELSE 0) <= Streams
  /\ listening \in BOOLEAN /\ rx \in Rx /\ others \in 0 .. Streams /\ call \in Calls \cup FetchCalls
  /\ line \in Seq(Items \cup [kind : {"ipd"}, size : 1 .. MaxSize])
  /\ sent \in 0 .. MaxMessages /\ at1 \in BOOLEAN /\ avail \in 0 .. MaxSize * MaxMessages
  /\ asked \in 0 .. BufferSize /\ queue \in Seq(Message2s) /\ held \in 0 .. MaxSize * MaxMessages
  /\ faults \in 0 .. MaxFaults

\* AT 1: messages that arrive in the middle of any call do not disturb the packet the
\* sketch is reading: "to avoid overwrite of previous packet".
NotOverwritten ==
  [][at1 /\ Unread /\ rx.msg # rx'.msg => call = "none" /\ (rx.index > 0 \/ call' = "stop")]_udpVars

\* read() returns the bytes of the messages in order, each from its beginning, and goes
\* on with another message only after the one before was read or given up. (Message 0 is
\* what AT 2 returns when AT+CIPRECVDATA was refused, see OnlyMessages.)
ReadInOrder ==
  [][LET a == seen.read  b == seen'.read IN
     a # b => \/ b[1] = a[1] /\ b[2] = a[2] + 1
              \/ (b[1] > a[1] \/ (~ at1 /\ 0 \in {a[1], b[1]})) /\ b[2] = 1]_udpVars

\* AT 2: availableForParse "returns the size of the available message": it is not 0 when
\* the firmware has none to give, whatever was refused, lost or announced in between.
NoPhantom ==
  ~ at1 /\ listening /\ call = "none" /\ line = <<>> /\ avail > 0 => queue # <<>>

\* A message that was received is offered to the sketch, whichever call received it,
\* unless the sketch stops listening.
Offered ==
  \A n \in 1 .. MaxMessages :
    rx.live /\ rx.msg = n /\ rx.index = 0 ~> seen.packet = n \/ rx.index > 0 \/ ~ listening

\* AT 2: once no more messages come, those that wait in the firmware leave it, also when
\* an announcement was overwritten or a fetch was refused, unless the pool has no stream
\* for them because all are in use elsewhere: the stream of the packet before is there.
Delivered == queue # <<>> ~> queue = <<>> \/ others = Streams

\* "to read the message into provided buffer": parsePacket returns a size other than 0
\* only for a message that has come.
OnlyMessages == call = "none" /\ Unread => rx.msg > 0

=============================================================================
