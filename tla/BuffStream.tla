------------------------------ MODULE BuffStream ------------------------------
(***************************************************************************)
(* The two buffers of a WiFiEspAtBuffStream and the bytes of a connection. *)
(*                                                                         *)
(* What the sketch writes is collected and goes to the firmware with one   *)
(* AT+CIPSEND when the buffer is full, on flush(), and on available() with *)
(* nothing to read; what the peer sent waits in the firmware and is        *)
(* fetched into the receive buffer, or straight into a larger buffer of    *)
(* the sketch.  Bytes are numbered in each direction, so that a byte lost, *)
(* doubled or out of order shows.                                          *)
(*                                                                         *)
(* sendData and recvData of the driver are seen through their outcomes:    *)
(* the command is carried out, it is refused, or it is carried out and the *)
(* answer does not arrive.  A write or read longer than a buffer is a call *)
(* of several rounds, between which the peer goes on.                      *)
(***************************************************************************)
EXTENDS Integers, Sequences, SequencesExt

CONSTANTS
  TxSize, RxSize, \* txBufferSize, rxBufferSize
  MaxSend,        \* MAX_SEND_LENGTH
  MaxBytes        \* bound: bytes in each direction of a connection

ASSUME SizesAssumption == TxSize \in Nat /\ {RxSize, MaxSend} \subseteq Nat \ {0} /\ MaxBytes \in Nat

Outcomes == {"done", "refused", "unanswered"}

VARIABLES
  s,     \* the stream, and the link as the driver sees it
  call,  \* the write, send or read that is going on
  net    \* history of this connection: what was offered, reported, sent and read
vars == <<s, call, net>>

\* bound: linkId # NO_LINK; active: checkLinkId accepts linkId; err: writeError;
\* tx, rx: the unsent and the unread bytes; fw: bytes the firmware holds;
\* avail: LinkInfo.available; freed: serialId = 0
Stream == [freed : BOOLEAN, bound : BOOLEAN, active : BOOLEAN, err : BOOLEAN,
           tx : Seq(Nat), rx : Seq(Nat), fw : Seq(Nat), avail : Nat]

\* offered: bytes passed to write; reported: bytes write reported as written;
\* sent: bytes the firmware took; got: bytes read by the sketch; arrived: bytes
\* the peer sent; gap: a fetched byte did not arrive
Net == [offered : Nat, reported : Nat, sent : Seq(Nat), got : Seq(Nat), arrived : Nat,
        gap : BOOLEAN]

Idle == [name |-> "none"]
NewNet == [offered |-> 0, reported |-> 0, sent |-> <<>>, got |-> <<>>, arrived |-> 0,
           gap |-> FALSE]

\* A world is the stream and the history of its connection.
World == [s |-> s, net |-> net]
Become(W) == s' = W.s /\ net' = W.net

-----------------------------------------------------------------------------
(* The stream and the driver under it.                                     *)

\* free(): the write error is not reset
Freed(W) == [W EXCEPT !.s.freed = TRUE, !.s.bound = FALSE, !.s.tx = <<>>, !.s.rx = <<>>]

\* linkId = NO_LINK; available()
LoseLink(W) ==
  LET V == [W EXCEPT !.s.bound = FALSE] IN IF W.s.rx = <<>> THEN Freed(V) ELSE V

Reaches(W) == W.s.bound /\ W.s.active

\* sendData of the bytes d; the result is Len(d) or 0
SendData(W, d, o) ==
  IF Reaches(W) /\ o # "refused" THEN [W EXCEPT !.net.sent = @ \o d] ELSE W
Sent(W, o) == Reaches(W) /\ o = "done"

\* checkLink after a call that may have failed with LINK_NOT_ACTIVE
CheckLink(W) == IF W.s.bound /\ ~ W.s.active THEN LoseLink(W) ELSE W

\* mutant: the bytes stay in the buffer when sending them failed
FlushKeepsUnsent(W, o) ==
  LET V == SendData(W, W.s.tx, o) IN
  IF W.s.tx = <<>> THEN W
  ELSE IF Sent(W, o) THEN [V EXCEPT !.s.tx = <<>>] ELSE CheckLink([V EXCEPT !.s.err = TRUE])

\* mutant: the failure is not recorded
FlushUnchecked(W, o) ==
  IF W.s.tx = <<>> THEN W ELSE [SendData(W, W.s.tx, o) EXCEPT !.s.tx = <<>>]

Flush(W, o) ==
  LET V == SendData(W, W.s.tx, o) IN
  IF W.s.tx = <<>> THEN W
  ELSE [IF Sent(W, o) THEN V ELSE CheckLink([V EXCEPT !.s.err = TRUE]) EXCEPT !.s.tx = <<>>]

\* availData: when the driver knows of nothing it may ask the firmware (sync)
Synced(W, sync) ==
  IF sync /\ Reaches(W) /\ W.s.avail = 0 THEN [W EXCEPT !.s.avail = Len(W.s.fw)] ELSE W

\* what available() returns
Readable(W) ==
  IF W.s.rx # <<>> \/ ~ W.s.bound THEN Len(W.s.rx) ELSE IF W.s.active THEN W.s.avail ELSE 0

\* mutant: the request is not sent when there is no answer yet
AvailableOnly(W, sync, o) ==
  LET V == IF W.s.rx = <<>> THEN Synced(W, sync) ELSE W IN
  IF Readable(V) > 0 THEN V ELSE IF V.s.bound THEN CheckLink(V) ELSE Freed(V)

\* what available() does
Available(W, sync, o) ==
  LET V == IF W.s.rx = <<>> THEN Synced(W, sync) ELSE W IN
  IF Readable(V) > 0 THEN V
  ELSE IF ~ V.s.bound THEN Freed(V)
  ELSE IF V.s.active THEN Flush(V, o) ELSE LoseLink(V)

\* The first k members of q, if there are as many, and the others.
First(q, k) == SubSeq(q, 1, IF k < Len(q) THEN k ELSE Len(q))
Rest(q, k)  == SubSeq(q, k + 1, Len(q))

\* recvData with room for n bytes: the bytes that arrive
Fetch(W, n) == First(W.s.fw, n)
Fetches(W, o) == Reaches(W) /\ W.s.avail > 0 /\ W.s.fw # <<>> /\ o = "done"
RecvData(W, n, o) ==
  LET k    == Len(Fetch(W, n))
      rest == Rest(W.s.fw, k)
  IN
  IF ~ Reaches(W) \/ W.s.avail = 0 THEN W
  ELSE IF o = "refused" \/ k = 0 THEN [W EXCEPT !.s.avail = 0]
  ELSE IF o = "unanswered" THEN [W EXCEPT !.s.fw = rest, !.s.avail = 0, !.net.gap = TRUE]
  ELSE [W EXCEPT !.s.fw = rest, !.s.avail = IF k > @ THEN 0 ELSE @ - k]

\* mutant: the buffer is filled though it holds unread bytes
FillAnyway(W, o) ==
  LET V == RecvData(W, RxSize, o) IN
  [V EXCEPT !.s.rx = IF Fetches(W, o) THEN Fetch(W, RxSize) ELSE <<>>]

\* fillRXbuffer, where available() has answered
Fill(W, o) ==
  LET V == RecvData(W, RxSize, o) IN
  IF W.s.rx # <<>> THEN W
  ELSE [V EXCEPT !.s.rx = IF Fetches(W, o) THEN Fetch(W, RxSize) ELSE <<>>]

-----------------------------------------------------------------------------
(* The calls of the sketch.                                                *)

Calls(name) == call = Idle /\ ~ s.freed /\ call' = name

\* A round of the call that is going on, which ends with it or goes on as c.
Round(name, W, c) == call.name = name /\ Become(W) /\ call' = c

Reported(W, n) == [W EXCEPT !.net.reported = @ + n]
Failed(W)      == [W EXCEPT !.s.err = TRUE]

\* write(data, n)
Write(n) ==
  /\ net.offered + n <= MaxBytes
  /\ Calls([name |-> "write", rest |-> [i \in 1 .. n |-> net.offered + i]])
  /\ net' = [net EXCEPT !.offered = @ + n] /\ UNCHANGED s

WriteRefused == call.name = "write" /\ ~ s.bound /\ Round("write", Failed(World), Idle)

\* the buffer is empty and too small: the bytes are sent at once
SendDirectly(o) ==
  LET W == SendData(World, call.rest, o)
      V == CheckLink(W)
  IN
  /\ call.name = "write" /\ s.bound /\ s.tx = <<>> /\ Len(call.rest) > TxSize
  /\ Round("write", IF Sent(World, o) THEN Reported(W, Len(call.rest))
                    ELSE IF V.s.bound THEN V ELSE Failed(V), Idle)

\* the buffer takes what fits and is sent when it is full
WriteBuffered(o) ==
  LET room == TxSize - Len(s.tx)
      part == First(call.rest, room)
      W    == Reported([World EXCEPT !.s.tx = @ \o part], Len(part))
  IN
  /\ call.name = "write" /\ s.bound /\ (s.tx # <<>> \/ Len(call.rest) <= TxSize)
  /\ Round("write", IF Len(call.rest) >= room THEN Flush(W, o) ELSE W,
           IF Len(call.rest) > room THEN [call EXCEPT !.rest = Rest(@, room)] ELSE Idle)

\* mutant: the buffer is sent one byte too late
WriteByteLate(o) ==
  LET W == [World EXCEPT !.s.tx = Append(@, net.offered + 1), !.net.offered = @ + 1] IN
  /\ net.offered < MaxBytes /\ s.bound
  /\ Calls(Idle) /\ Become(Reported(IF Len(W.s.tx) > TxSize + 1 THEN Flush(W, o) ELSE W, 1))

\* write(b)
WriteByte(o) ==
  LET U == [World EXCEPT !.net.offered = @ + 1]
      W == [U EXCEPT !.s.tx = Append(@, net.offered + 1)]
      V == IF Len(W.s.tx) = TxSize THEN Flush(W, o) ELSE W
  IN
  /\ net.offered < MaxBytes
  /\ Calls(Idle)
  /\ Become(IF ~ s.bound THEN Failed(U)
            ELSE IF Len(W.s.tx) = TxSize /\ V.s.err THEN V ELSE Reported(V, 1))

\* write(Stream&) and write(callback): the buffer is flushed, then the n bytes of the
\* file, or what the callback prints, go past it
SendFile(n, o) ==
  /\ net.offered + n <= MaxBytes
  /\ Calls([name |-> "send", taken |-> 0, rest |-> [i \in 1 .. n |-> net.offered + i]])
  /\ Become(Flush([World EXCEPT !.net.offered = @ + n], o))

\* The next part of the file is sent. When that fails the call returns 0, whatever
\* was sent before; there is no write error.
SendPart(o) ==
  LET part == First(call.rest, MaxSend)
      W    == SendData(World, part, o)
      n    == call.taken + Len(part)
  IN
  /\ call.name = "send"
  /\ IF Sent(World, o) /\ Len(part) < Len(call.rest)
     THEN Round("send", W, [call EXCEPT !.rest = Rest(@, MaxSend), !.taken = n])
     ELSE Round("send", CheckLink(IF Sent(World, o) THEN Reported(W, n) ELSE W), Idle)

\* availableForWrite changes something only when there is no link any more
AvailableForWrite == ~ s.bound /\ Calls(Idle) /\ Become(Failed(World))

FlushCall(o) == s.tx # <<>> /\ Calls(Idle) /\ Become(Flush(World, o))
AvailableCall(sync, o) == Calls(Idle) /\ Become(Available(World, sync, o))

\* connected, which looks for the end of the link, and then available
ConnectedCall == s.bound /\ ~ s.active /\ Calls(Idle) /\ Become(LoseLink(World))

\* read(data, n)
Read(n) == Calls([name |-> "read", size |-> n]) /\ UNCHANGED <<s, net>>

ReadRound(sync, o) ==
  LET V == Available(World, sync, o)
      n == call.size
      l == Len(V.s.rx)
      U == Fill(V, o)
      k == IF n < l THEN n ELSE l \* what fillRXbuffer adds is for the next round
      D == RecvData(V, n, o)
  IN
  \/ /\ call.name = "read" /\ Readable(V) = 0
     /\ Round("read", V, Idle)
  \/ /\ call.name = "read" /\ Readable(V) > 0 /\ l = 0 /\ n > RxSize
     /\ Round("read", IF Fetches(V, o) THEN [D EXCEPT !.net.got = @ \o Fetch(V, n)] ELSE D, Idle)
  \/ /\ call.name = "read" /\ Readable(V) > 0 /\ (l > 0 \/ n <= RxSize)
     /\ Round("read", [U EXCEPT !.net.got = @ \o SubSeq(U.s.rx, 1, k), !.s.rx = Rest(@, k)],
              IF n <= l THEN Idle ELSE [call EXCEPT !.size = n - l])

\* peek; the byte it returns stays where it is
Peek(sync, o) ==
  LET V == Available(World, sync, o) IN
  Calls(Idle) /\ Become(IF Readable(V) = 0 THEN V ELSE Fill(V, o))

\* WiFiClient::stop
Stop(o) == Calls(Idle) /\ Become(Freed(Flush(World, o)))

\* WiFiClient::abort: what was not sent is dropped
Abort == Calls(Idle) /\ Become(Freed(World))

\* getBuffStream hands the stream out for the next connection
NextConnection ==
  /\ call = Idle /\ s.freed
  /\ s' = [s EXCEPT !.freed = FALSE, !.bound = TRUE, !.active = TRUE, !.fw = <<>>, !.avail = 0]
  /\ net' = NewNet /\ UNCHANGED call

-----------------------------------------------------------------------------
(* The peer.                                                               *)

\* +IPD tells the driver, or is lost
PeerSends ==
  /\ s.active /\ net.arrived < MaxBytes
  /\ \E n \in {s.avail, Len(s.fw) + 1} :
       s' = [s EXCEPT !.fw = Append(@, net.arrived + 1), !.avail = n]
  /\ net' = [net EXCEPT !.arrived = @ + 1] /\ UNCHANGED call

PeerCloses == s.active /\ s' = [s EXCEPT !.active = FALSE] /\ UNCHANGED <<call, net>>

-----------------------------------------------------------------------------
Init ==
  /\ s = [freed |-> FALSE, bound |-> TRUE, active |-> TRUE, err |-> FALSE,
          tx |-> <<>>, rx |-> <<>>, fw |-> <<>>, avail |-> 0]
  /\ call = Idle /\ net = NewNet

Rounds == WriteRefused \/ \E o \in Outcomes : \/ SendDirectly(o) \/ WriteBuffered(o) \/ SendPart(o)
                                             \/ \E sync \in BOOLEAN : ReadRound(sync, o)
Asks   == \E sync \in BOOLEAN, o \in Outcomes : AvailableCall(sync, o)
Reads  == \E n \in 1 .. MaxBytes : Read(n)

Next ==
  \/ Rounds \/ Asks \/ Reads \/ ConnectedCall \/ AvailableForWrite \/ Abort \/ NextConnection \/ PeerSends \/ PeerCloses
  \/ \E n \in 1 .. MaxBytes : Write(n) \/ \E o \in Outcomes : SendFile(n, o)
  \/ \E o \in Outcomes : \/ WriteByte(o) \/ FlushCall(o) \/ Stop(o)
                         \/ \E sync \in BOOLEAN : Peek(sync, o)

Spec == Init /\ [][Next]_vars

Answered == \E sync \in BOOLEAN : ReadRound(sync, "done")

\* A call returns; the sketch waits for an answer with available(), and reads;
\* the firmware does not refuse to hand out for ever what it reports as unread.
FairSpec == Spec /\ WF_vars(Rounds) /\ SF_vars(Asks) /\ SF_vars(Reads) /\ SF_vars(Answered)

-----------------------------------------------------------------------------
(* What must hold.                                                         *)

\* The types; and no buffer is filled beyond its size, whatever part of it was sent,
\* read or fetched before.
BuffersFit == Len(s.tx) <= TxSize /\ Len(s.rx) <= RxSize
TypeOK ==
  /\ s \in Stream /\ net \in Net /\ BuffersFit
  /\ call.name \in {"none", "write", "send", "read"}

Increasing(q) == \A i, j \in DOMAIN q : i < j => q[i] < q[j]

\* No byte is sent twice or before an earlier one, whatever failed in between.
SentInOrder == Increasing(net.sent \o s.tx)

\* A byte reported as written was taken by the firmware or waits in the buffer,
\* or its loss has left a write error behind.
NoSilentLoss ==
  call = Idle /\ ~ s.freed /\ ~ s.err => net.reported <= Len(net.sent) + Len(s.tx)

\* The sketch reads what the peer sent in order and without a gap; only a fetch
\* whose bytes do not arrive leaves one.
ReadInOrder ==
  LET q == net.got \o s.rx \o s.fw IN
  ~ s.freed => Increasing(q) /\ (~ net.gap => Len(q) = net.arrived)

\* A request is sent when the sketch waits for the answer with available();
\* "maybe sketch is waiting for response without flushing the request".
RequestSent == s.tx # <<>> ~> s.tx = <<>>

=============================================================================
