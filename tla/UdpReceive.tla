------------------------------ MODULE UdpReceive ------------------------------
(***************************************************************************)
(* Receiving UDP messages with AT 1 firmware.                              *)
(*                                                                         *)
(* AT 1 has no passive mode for UDP: a message comes with its +IPD line,   *)
(* in the middle of whatever call reads the serial line, and the driver    *)
(* hands it to the listening WiFiUDP, which takes a buffer stream for it   *)
(* or refuses it.  The sketch meets the message at its next parsePacket.   *)
(* The payload of a message that is refused is not read; it stays on the   *)
(* line and is read like lines of the firmware.                            *)
(*                                                                         *)
(* Udp adds what is different with AT 2, and says what must hold.          *)
(***************************************************************************)
EXTENDS Integers, Sequences

CONSTANTS
  BufferSize, \* WIFIESPAT_UDP_RX_BUFFER_SIZE
  Streams,    \* streams of that size the pool has or can add
  MaxSize,    \* bound: bytes in a message
  MaxMessages,\* bound: messages that are sent to the listener
  MaxLine     \* bound: messages that wait on the serial line

ASSUME UdpAssumption ==
  {BufferSize, Streams, MaxSize} \subseteq Nat \ {0} /\ {MaxMessages, MaxLine} \subseteq Nat

VARIABLES
  listening, \* the firmware receives for the listener's link
  rx,     \* the stream that rxStream refers to
  others, \* streams in use elsewhere
  call,   \* the driver call that is reading the line
  line,   \* what the firmware has sent and nobody has read
  sent,   \* number of messages the firmware has received
  seen    \* history: the message of the last parsePacket() and the last byte of read()
vars == <<listening, rx, others, call, line, sent, seen>>

\* live: rxStream is not null; msg: the message; len, index: rxBufferLength, rxBufferIndex
NoPacket == [live |-> FALSE, msg |-> 0, len |-> 0, index |-> 0]
Rx       == [live : BOOLEAN, msg : 0 .. MaxMessages, len : 0 .. BufferSize, index : 0 .. BufferSize]

\* A message from its sender, of a size, whose text may read like an answer; the
\* text of a message that was refused; an answer of the firmware.
Items == [kind : {"message"}, msg : 1 .. MaxMessages, size : 1 .. MaxSize, like : BOOLEAN]
         \cup [kind : {"text"}, like : BOOLEAN] \cup [kind : {"answer"}]

Calls == {"none", "parsePacket", "maintain", "remoteIP", "waiting", "begin", "stop"}

Free    == others + (IF rx.live THEN 1 ELSE 0) < Streams
Unread  == rx.live /\ rx.index < rx.len

-----------------------------------------------------------------------------
(* The callback of the driver.                                             *)

\* readRxData when m is on the line; a packet that was read to the end is freed by
\* available(), and one whose bytes do not all arrive is given up.
\* mutants: one of the conditions is left out
RefusedNotBusy(m)  == m.size > BufferSize \/ others >= Streams
RefusedNotLarge(m) == Unread \/ others >= Streams
RefusedNoPool(m)   == Unread \/ m.size > BufferSize
Refused(m)         == Unread \/ m.size > BufferSize \/ others >= Streams

\* mutant: the place in the packet before is kept
ReceivedKeepsIndex(m, complete) ==
  IF complete THEN [live |-> TRUE, msg |-> m.msg, len |-> m.size, index |-> rx.index] ELSE NoPacket

Received(m, complete) ==
  IF complete THEN [live |-> TRUE, msg |-> m.msg, len |-> m.size, index |-> 0] ELSE NoPacket

\* what rxStream refers to after a refusal
Kept(m) == IF Unread THEN rx ELSE NoPacket

\* A message is read by the call that is going on.
ReadMessage ==
  /\ call # "none" /\ line # <<>> /\ Head(line).kind = "message"
  /\ LET m == Head(line) IN
       \/ /\ Refused(m)
          /\ rx' = Kept(m) /\ line' = <<[kind |-> "text", like |-> m.like]>> \o Tail(line)
       \/ /\ ~ Refused(m)
          /\ \E complete \in BOOLEAN : rx' = Received(m, complete)
          /\ line' = Tail(line)
  /\ UNCHANGED <<listening, others, call, sent, seen>>

\* Text that is no answer is ignored; text that reads like one is taken for it.
ReadText ==
  /\ call # "none" /\ line # <<>> /\ Head(line).kind = "text" /\ line' = Tail(line)
  /\ call' = IF call = "waiting" /\ Head(line).like THEN "none" ELSE call
  /\ UNCHANGED <<listening, rx, others, sent, seen>>

ReadAnswer ==
  /\ call # "none" /\ line # <<>> /\ Head(line).kind = "answer" /\ line' = Tail(line)
  /\ call' = IF call = "waiting" THEN "none" ELSE call
  /\ UNCHANGED <<listening, rx, others, sent, seen>>

-----------------------------------------------------------------------------
(* The calls of the sketch.                                                *)

\* parsePacket clears a packet that was begun to be read, and reads the line
ParsePacket ==
  /\ listening /\ call = "none" /\ call' = "parsePacket"
  /\ rx' = IF rx.live /\ rx.index > 0 THEN NoPacket ELSE rx
  /\ UNCHANGED <<listening, others, line, sent, seen>>

\* mutant: a packet that came during another call is left for the next call
ParseReturnsNew ==
  /\ call = "parsePacket" /\ line = <<>> /\ call' = "none"
  /\ seen' = [seen EXCEPT !.packet = IF Unread /\ rx.msg = sent THEN rx.msg ELSE 0]
  /\ rx' = (IF Unread THEN rx ELSE NoPacket)
  /\ UNCHANGED <<listening, others, line, sent>>

ParseReturns ==
  /\ call = "parsePacket" /\ line = <<>> /\ call' = "none"
  /\ seen' = [seen EXCEPT !.packet = IF Unread THEN rx.msg ELSE 0]
  /\ rx' = (IF Unread THEN rx ELSE NoPacket)
  /\ UNCHANGED <<listening, others, line, sent>>

\* read() of the next byte; available() frees the packet after the last one
Read ==
  /\ call = "none" /\ Unread
  /\ seen' = [seen EXCEPT !.read = <<rx.msg, rx.index + 1>>]
  /\ rx' = [rx EXCEPT !.index = @ + 1] /\ UNCHANGED <<listening, others, call, line, sent>>

Available ==
  /\ call = "none" /\ rx.live /\ ~ Unread /\ rx' = NoPacket
  /\ UNCHANGED <<listening, others, call, line, sent, seen>>

\* remoteIP asks the firmware, after maintain() has read what is there
RemoteIP ==
  /\ listening /\ call = "none" /\ call' = "remoteIP"
  /\ UNCHANGED <<listening, rx, others, line, sent, seen>>
AsksFirmware ==
  /\ call = "remoteIP" /\ line = <<>> /\ call' = "waiting"
  /\ UNCHANGED <<listening, rx, others, line, sent, seen>>

\* any other object calls the driver, takes a stream or frees one
Maintain == call = "none" /\ call' = "maintain" /\ UNCHANGED <<listening, rx, others, line, sent, seen>>
Maintained ==
  /\ call = "maintain" /\ line = <<>> /\ call' = "none" /\ UNCHANGED <<listening, rx, others, line, sent, seen>>
Take ==
  /\ call = "none" /\ Free /\ others' = others + 1
  /\ UNCHANGED <<listening, rx, call, line, sent, seen>>
GiveBack ==
  /\ call = "none" /\ others > 0 /\ others' = others - 1
  /\ UNCHANGED <<listening, rx, call, line, sent, seen>>

\* begin() reads the line and has the firmware listen
Begin ==
  /\ ~ listening /\ call = "none" /\ call' = "begin"
  /\ UNCHANGED <<listening, rx, others, line, sent, seen>>
Begun ==
  /\ call = "begin" /\ line = <<>> /\ call' = "none" /\ listening' \in BOOLEAN
  /\ UNCHANGED <<rx, others, line, sent, seen>>

\* stop() frees the packet, then closes the link; messages come until it is closed
Stop ==
  /\ listening /\ call = "none" /\ call' = "stop" /\ rx' = NoPacket
  /\ UNCHANGED <<listening, others, line, sent, seen>>
Stopped ==
  /\ call = "stop" /\ line = <<>> /\ call' = "none" /\ listening' = FALSE
  /\ UNCHANGED <<rx, others, line, sent, seen>>

-----------------------------------------------------------------------------
(* The firmware.                                                           *)

Message ==
  /\ listening /\ sent < MaxMessages /\ Len(line) < MaxLine /\ sent' = sent + 1
  /\ \E size \in 1 .. MaxSize, like \in BOOLEAN :
       line' = Append(line, [kind |-> "message", msg |-> sent + 1, size |-> size, like |-> like])
  /\ UNCHANGED <<listening, rx, others, call, seen>>

\* AT+CIPSTATUS is answered
Answer ==
  /\ call = "waiting" /\ \A i \in DOMAIN line : line[i].kind # "answer"
  /\ line' = Append(line, [kind |-> "answer"])
  /\ UNCHANGED <<listening, rx, others, call, sent, seen>>

-----------------------------------------------------------------------------
Init ==
  /\ listening = FALSE /\ rx = NoPacket /\ others = 0 /\ call = "none" /\ line = <<>> /\ sent = 0
  /\ seen = [packet |-> 0, read |-> <<0, 0>>]

\* the steps that are the same with AT 2
Sketch  == Read \/ Available \/ Maintain \/ Maintained \/ Take \/ GiveBack \/ Begin \/ Begun \/ Stop

\* the steps of AT 1 alone
ReadsLine == ReadMessage \/ ReadText \/ ReadAnswer
Calling   == ParsePacket \/ ParseReturns \/ RemoteIP \/ AsksFirmware \/ Stopped
Firmware  == Message \/ Answer

=============================================================================
