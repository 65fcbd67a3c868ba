------------------------------ MODULE EspAtLinks ------------------------------
(***************************************************************************)
(* The link table of the driver (EspAtDrvClass.linkInfo) and the firmware  *)
(* at the other end of the serial line.                                    *)
(*                                                                         *)
(* The firmware owns the connections.  It tells the driver about them with *)
(* lines nobody asked for (CONNECT, CLOSED, +IPD), which travel in order   *)
(* between the answers to the commands, and which can get lost; the driver *)
(* keeps what it believes about every link in linkInfo and repairs it by   *)
(* polling.  A connection is handed to a WiFiClient as an id made of the   *)
(* link number and the serial id the link has at that moment.              *)
(*                                                                         *)
(* Every call of the driver first reads what the line holds (maintain), so *)
(* a call starts when the line is empty, and then waits for the answer to  *)
(* its command while it goes on processing what arrives before it.         *)
(***************************************************************************)
EXTENDS Integers, SequencesExt

CONSTANTS
  AT1,        \* WIFIESPAT1: the firmware is AT 1.7, else AT 2
  LinksCount, \* LINKS_COUNT
  SerialMod,  \* serial ids of links are counted modulo this, 32
  MaxConns,   \* bound: connections made in a behaviour
  MaxData,    \* bound: bytes the firmware buffers for a connection
  MaxLine,    \* bound: lines on their way when the firmware reports an event
  MaxFaults   \* bound: lines lost, resets and collisions in a behaviour

ASSUME LinksAssumption ==
  AT1 \in BOOLEAN /\ LinksCount \in Nat \ {0} /\ SerialMod \in Nat \ {0}
ASSUME BoundsAssumption == {MaxConns, MaxData, MaxLine, MaxFaults} \subseteq Nat

Links == 0 .. LinksCount - 1
NoLink == 255                       \* WIFIESPAT_NO_LINK

VARIABLES
  link,     \* EspAtDrvClass.linkInfo
  call,     \* the call of the driver that waits for an answer
  req,      \* the command the firmware has to answer
  rx,       \* the lines on their way to the driver, oldest first
  fw,       \* the connections of the firmware
  held,     \* ids held by WiFiClients, with the connection each was given for
  conns,    \* history: connections made so far
  given,    \* history: connections an id was given for
  faults    \* history: lines lost, resets and collisions so far

driverVars == <<link, call, held, given>>
vars == <<link, call, req, rx, fw, held, conns, given, faults>>

Flags == {"CONNECTED", "CLOSING", "INCOMING"}
Link  == [flags : SUBSET Flags, serial : 0 .. SerialMod - 1, available : 0 .. MaxData]

\* up: the firmware lists the link; data: bytes not yet fetched by the driver;
\* finished: the peer has closed, AT 2 reports it when the data are fetched
FwLink == [up : BOOLEAN, conn : 0 .. MaxConns, data : 0 .. MaxData, finished : BOOLEAN]

Handle == [link : Links, serial : 0 .. SerialMod - 1, conn : 0 .. MaxConns]

Idle  == [name |-> "none"]
Quiet == call = Idle /\ rx = <<>>

-----------------------------------------------------------------------------
(* What the driver believes.                                               *)

Has(l, f) == f \in link[l].flags

\* isConnected
Connected(l) == Has(l, "CONNECTED")

\* checkLinkId: the link is connected and still in the life the id is of
CheckLinkId(l, s) == Connected(l) /\ link[l].serial = s
Active(h) == CheckLinkId(h.link, h.serial)

\* the test of freeLinkId
Free(l) == ~ Connected(l) /\ ~ Has(l, "CLOSING") /\ link[l].available = 0

NextSerial(k) == [k EXCEPT !.serial = (@ + 1) % SerialMod]
SetFlags(k, f) == [k EXCEPT !.flags = f]

\* mutant: an incoming connection keeps the serial id of the last one
IncomingSameSerial(k) == SetFlags(k, {"CONNECTED", "INCOMING"})

\* an incoming connection the driver has learned of
Incoming(k) == NextSerial(SetFlags(k, {"CONNECTED", "INCOMING"}))

-----------------------------------------------------------------------------
(* The firmware.                                                           *)

FreshLink(c) == [up |-> TRUE, conn |-> c, data |-> 0, finished |-> FALSE]
Ended(f)     == [f EXCEPT !.up = FALSE, !.finished = FALSE]

Line(what, l) == [what |-> what, link |-> l]
Answer(what)  == [what |-> what]

\* the lines nobody asked for
Unasked == {"CONNECT", "CLOSED", "IPD"}

\* The lines s are sent; the one of them that nobody asked for can get lost.
Emit(s) ==
  \/ rx' = rx \o s /\ UNCHANGED faults
  \/ /\ faults < MaxFaults /\ faults' = faults + 1
     /\ \E i \in 1 .. Len(s) : s[i].what \in Unasked /\ rx' = rx \o RemoveAt(s, i)

\* a client of the server: the firmware takes the lowest free link, which in a
\* collision is the one connect() has chosen
PeerConnects(l) ==
  /\ conns < MaxConns /\ Len(rx) < MaxLine
  /\ ~ fw[l].up /\ \A k \in 0 .. l - 1 : fw[k].up
  /\ fw' = [fw EXCEPT ![l] = FreshLink(conns + 1)] /\ conns' = conns + 1
  /\ IF call.name = "connect" /\ call.link = l
     THEN faults < MaxFaults /\ faults' = faults + 1 /\ rx' = Append(rx, Line("CONNECT", l))
     ELSE Emit(<<Line("CONNECT", l)>>)
  /\ UNCHANGED <<driverVars, req>>

PeerSends(l) ==
  /\ Len(rx) < MaxLine
  /\ fw[l].up /\ ~ fw[l].finished /\ fw[l].data < MaxData
  /\ fw' = [fw EXCEPT ![l].data = @ + 1]
  /\ Emit(<<[what |-> "IPD", link |-> l, len |-> fw[l].data + 1]>>)
  /\ UNCHANGED <<driverVars, req, conns>>

\* AT 1 reports the end at once and keeps the data
PeerCloses(l) ==
  /\ Len(rx) < MaxLine
  /\ fw[l].up /\ ~ fw[l].finished
  /\ IF AT1 \/ fw[l].data = 0
     THEN fw' = [fw EXCEPT ![l] = Ended(@)] /\ Emit(<<Line("CLOSED", l)>>)
     ELSE fw' = [fw EXCEPT ![l].finished = TRUE] /\ UNCHANGED <<rx, faults>>
  /\ UNCHANGED <<driverVars, req, conns>>

\* The firmware answers the command that waits.
Answers(name) == req.name = name /\ req' = Idle /\ UNCHANGED driverVars

AnswerStart ==
  LET l == req.link IN
  /\ Answers("start")
  /\ \/ /\ ~ fw[l].up /\ conns < MaxConns
        /\ fw' = [fw EXCEPT ![l] = FreshLink(conns + 1)] /\ conns' = conns + 1
        /\ Emit(<<Line("CONNECT", l), [what |-> "OK", conn |-> conns + 1]>>)
     \/ /\ UNCHANGED <<fw, conns>>
        /\ Emit(<<Answer("ERROR")>>) \/ (~ fw[l].up /\ Emit(<<Line("CLOSED", l), Answer("ERROR")>>))

AnswerClose ==
  LET l == req.link IN
  /\ Answers("close") /\ UNCHANGED conns
  /\ IF fw[l].up
     THEN /\ fw' = [fw EXCEPT ![l] = [Ended(@) EXCEPT !.data = 0]]
          /\ Emit(<<Line("CLOSED", l), [what |-> "OK", conn |-> 0]>>)
     ELSE Emit(<<Answer("ERROR")>>) /\ UNCHANGED fw

AnswerRecv ==
  LET l    == req.link
      n    == Min({req.size, fw[l].data})
      last == fw[l].finished /\ n = fw[l].data
      rest == [fw[l] EXCEPT !.data = @ - n]
  IN
  /\ Answers("recv") /\ UNCHANGED conns
  /\ IF n = 0 THEN Emit(<<Answer("ERROR")>>) /\ UNCHANGED fw
     ELSE /\ fw' = [fw EXCEPT ![l] = IF last THEN Ended(rest) ELSE rest]
          /\ Emit(<<[what |-> "DATA", len |-> n]>> \o IF last THEN <<Line("CLOSED", l)>> ELSE <<>>)

\* +CIPSTATUS lists the links that are up, +CIPRECVLEN the bytes of each link,
\* -1 in AT 2 for a link that is not up
AnswerStatus ==
  /\ Answers("status") /\ UNCHANGED <<fw, conns, faults>>
  /\ rx' = Append(rx, [what |-> "STATUS", up |-> {l \in Links : fw[l].up}])
AnswerLens ==
  /\ Answers("lens") /\ UNCHANGED <<fw, conns, faults>>
  /\ rx' = Append(rx, [what |-> "LENS",
       len |-> [l \in Links |-> IF AT1 \/ fw[l].up THEN fw[l].data ELSE -1]])
AnswerReset ==
  /\ Answers("reset") /\ UNCHANGED <<conns, faults>>
  /\ fw' = [l \in Links |-> [Ended(fw[l]) EXCEPT !.data = 0]]
  /\ rx' = Append(rx, Answer("READY"))

Firmware ==
  \/ AnswerStart \/ AnswerClose \/ AnswerRecv \/ AnswerStatus \/ AnswerLens \/ AnswerReset

-----------------------------------------------------------------------------
(* The driver reads a line (readRX).                                       *)

\* The line that nobody asked for, whatever call is going on.
Event(what) ==
  /\ rx # <<>> /\ Head(rx).what = what /\ rx' = Tail(rx)
  /\ UNCHANGED <<call, req, fw, held, conns, given, faults>>

ReadIPD ==
  LET m == Head(rx) IN
  Event("IPD") /\ link' = [link EXCEPT ![m.link].available = m.len]

\* mutant: the connection an own CIPSTART made is taken for an incoming one
ReadAnyConnect ==
  LET l == Head(rx).link IN
  Event("CONNECT") /\ link' = [link EXCEPT ![l] = IF link[l].available = 0 THEN Incoming(@) ELSE @]

ReadConnect ==
  LET l == Head(rx).link
      new == link[l].available = 0 /\ (~ Connected(l) \/ Has(l, "CLOSING"))
  IN  Event("CONNECT") /\ link' = [link EXCEPT ![l] = IF new THEN Incoming(@) ELSE @]

\* mutant: AT 2 keeps the bytes of a closed link, as AT 1 does
ClosedKeepsBytes(k) == SetFlags(k, {})

\* ",CLOSED" and ",CONNECT FAIL"
Closed(k) == [SetFlags(k, {}) EXCEPT !.available = IF AT1 THEN @ ELSE 0]
ReadClosed ==
  LET l == Head(rx).link IN
  Event("CLOSED") /\ link' = [link EXCEPT ![l] = Closed(@)]

\* The answer m the call named name waits for; the call ends with it.
Got(name, what) ==
  /\ call.name = name /\ rx # <<>> /\ Head(rx).what = what
  /\ rx' = Tail(rx) /\ UNCHANGED <<req, fw, conns, faults>>
Return == call' = Idle
-----------------------------------------------------------------------------
(* The calls.  A call sends its command when the line is empty.            *)

Send(name, c, r) ==
  /\ call.name = name /\ rx = <<>> /\ call' = c /\ req' = r
  /\ UNCHANGED <<rx, fw, conns, faults>>
StartCall(c, r) == Send("none", c, r) /\ UNCHANGED given

\* newClientLinkId
Accept(l) ==
  /\ Quiet /\ Has(l, "INCOMING") /\ ~ Has(l, "CLOSING")
  /\ \A k \in 0 .. l - 1 : ~ (Has(k, "INCOMING") /\ ~ Has(k, "CLOSING"))
  /\ link' = [link EXCEPT ![l].flags = @ \ {"INCOMING"}]
  /\ held' = held \cup {[link |-> l, serial |-> link[l].serial, conn |-> fw[l].conn]}
  /\ given' = given \cup {fw[l].conn}
  /\ UNCHANGED <<call, req, rx, fw, conns, faults>>

\* connect takes the highest free link
Connect(l) ==
  /\ conns < MaxConns
  /\ Free(l) /\ \A k \in l + 1 .. LinksCount - 1 : ~ Free(k)
  /\ StartCall([name |-> "connect", link |-> l], [name |-> "start", link |-> l])
  /\ link' = [link EXCEPT ![l] = SetFlags(@, {"CONNECTED"})]
  /\ UNCHANGED held

ConnectOK ==
  LET l == call.link
      c == Head(rx).conn
  IN
  /\ Got("connect", "OK") /\ Return
  /\ link' = [link EXCEPT ![l] = NextSerial(@)]
  /\ held' = held \cup {[link |-> l, serial |-> link'[l].serial, conn |-> c]}
  /\ given' = given \cup {c}
ConnectError ==
  /\ Got("connect", "ERROR") /\ Return
  /\ link' = [link EXCEPT ![call.link] = SetFlags(@, {})]
  /\ UNCHANGED <<held, given>>

\* close; the WiFiClient lets go of the id whatever comes of it
Close(h) ==
  /\ Active(h)
  /\ StartCall([name |-> "close"], [name |-> "close", link |-> h.link])
  /\ link' = [link EXCEPT ![h.link].flags = @ \cup {"CLOSING"}, ![h.link].available = 0]
  /\ held' = held \ {h}
CloseDone ==
  /\ Got("close", "OK") \/ Got("close", "ERROR")
  /\ Return /\ UNCHANGED <<link, held, given>>

\* connected answers false and the stream forgets the link number; close of an
\* id that is not active
Forget(h) ==
  /\ Quiet /\ (~ Active(h) \/ Has(h.link, "CLOSING"))
  /\ held' = held \ {h}
  /\ UNCHANGED <<link, call, req, rx, fw, conns, given, faults>>

\* recvData with room for n bytes
Recv(h, n) ==
  /\ Active(h) /\ link[h.link].available > 0
  /\ StartCall([name |-> "recv", link |-> h.link], [name |-> "recv", link |-> h.link, size |-> n])
  /\ UNCHANGED <<link, held>>

\* mutant: what was read is still counted
RecvUncounted == Got("recv", "DATA") /\ Return /\ UNCHANGED <<link, held, given>>

RecvData ==
  /\ Got("recv", "DATA") /\ Return
  /\ link' = [link EXCEPT ![call.link].available = IF Head(rx).len > @ THEN 0 ELSE @ - Head(rx).len]
  /\ UNCHANGED <<held, given>>
RecvError ==
  /\ Got("recv", "ERROR") /\ Return
  /\ link' = [link EXCEPT ![call.link].available = 0]
  /\ UNCHANGED <<held, given>>

\* remoteParamsQuery
Remote(h) ==
  /\ Active(h)
  /\ StartCall([name |-> "remote", link |-> h.link], [name |-> "status"])
  /\ UNCHANGED <<link, held>>
RemoteDone ==
  /\ Got("remote", "STATUS") /\ Return
  /\ link' = IF call.link \in Head(rx).up THEN link
             ELSE [link EXCEPT ![call.link] = SetFlags(@, {})]
  /\ UNCHANGED <<held, given>>

\* mutant: the answer is not waited for
PollAndReturn(h) ==
  /\ Active(h) /\ StartCall(Idle, [name |-> IF AT1 THEN "status" ELSE "lens"])
  /\ UNCHANGED <<link, held>>

\* availData with nothing available; syncLinkInfo, when its 500 ms are over
Poll(h) ==
  /\ Active(h) /\ link[h.link].available = 0 /\ ~ Has(h.link, "CLOSING")
  /\ IF AT1 THEN StartCall([name |-> "checkLinks"], [name |-> "status"])
     ELSE StartCall([name |-> "recvLenQuery"], [name |-> "lens"])
  /\ UNCHANGED <<link, held>>

\* a link the firmware lists but the driver takes for closed or closing
Missed(l) == ~ Connected(l) \/ Has(l, "CLOSING")

\* mutant: a link that is not listed is left as it is
CheckLinksAddsOnly ==
  /\ Got("checkLinks", "STATUS") /\ call' = [name |-> "checkedLinks"]
  /\ link' = [l \in Links |-> IF l \in Head(rx).up /\ Missed(l) THEN Incoming(link[l]) ELSE link[l]]
  /\ UNCHANGED <<held, given>>

CheckLinks ==
  /\ Got("checkLinks", "STATUS") /\ call' = [name |-> "checkedLinks"]
  /\ link' = [l \in Links |->
       IF l \notin Head(rx).up THEN SetFlags(link[l], {})
       ELSE IF Missed(l) THEN Incoming(link[l]) ELSE link[l]]
  /\ UNCHANGED <<held, given>>

RecvLenQuery ==
  /\ Send("checkedLinks", [name |-> "recvLenQuery"], [name |-> "lens"])
  /\ UNCHANGED <<link, held, given>>

\* mutant: the lengths are taken one link too far
RecvLensShifted ==
  LET n == [l \in Links |-> Head(rx).len[(l + 1) % LinksCount]] IN
  /\ Got("recvLenQuery", "LENS") /\ Return
  /\ link' = [l \in Links |-> IF n[l] < 0 THEN SetFlags(link[l], {}) ELSE [link[l] EXCEPT !.available = n[l]]]
  /\ UNCHANGED <<held, given>>

\* mutant: -1 is not taken for the end of a connection
RecvLensOnly ==
  LET n == Head(rx).len IN
  /\ Got("recvLenQuery", "LENS") /\ Return
  /\ link' = [l \in Links |-> [link[l] EXCEPT !.available = IF n[l] < 0 THEN 0 ELSE n[l]]]
  /\ UNCHANGED <<held, given>>

RecvLens ==
  LET n == Head(rx).len IN
  /\ Got("recvLenQuery", "LENS") /\ Return
  /\ link' = [l \in Links |->
       IF AT1 THEN [link[l] EXCEPT !.available = n[l]]
       ELSE IF n[l] < 0 THEN [SetFlags(link[l], {}) EXCEPT !.available = 0]
       ELSE [link[l] EXCEPT !.available = n[l],
                            !.flags = IF Missed(l) THEN {"CONNECTED", "INCOMING"} ELSE @]]
  /\ UNCHANGED <<held, given>>

\* WiFi.init: the module restarts, linkInfo is left as it is
Reset ==
  /\ faults < MaxFaults /\ faults' = faults + 1
  /\ Quiet /\ call' = [name |-> "reset"] /\ req' = [name |-> "reset"]
  /\ UNCHANGED <<link, rx, fw, held, conns, given>>
ResetDone == Got("reset", "READY") /\ Return /\ UNCHANGED <<link, held, given>>

-----------------------------------------------------------------------------
Init ==
  /\ link = [l \in Links |-> [flags |-> {}, serial |-> 0, available |-> 0]]
  /\ fw = [l \in Links |-> [up |-> FALSE, conn |-> 0, data |-> 0, finished |-> FALSE]]
  /\ call = Idle /\ req = Idle /\ rx = <<>> /\ held = {} /\ given = {}
  /\ conns = 0 /\ faults = 0

Peer == \E l \in Links : PeerConnects(l) \/ PeerSends(l) \/ PeerCloses(l)

\* what the driver does within a call
Work ==
  \/ ReadIPD \/ ReadConnect \/ ReadClosed
  \/ ConnectOK \/ ConnectError \/ CloseDone \/ RecvData \/ RecvError \/ RemoteDone
  \/ CheckLinks \/ RecvLenQuery \/ RecvLens \/ ResetDone

Polls    == \E h \in held : Poll(h)
Accepts  == \E l \in Links : Accept(l)
Connects == \E l \in Links : Connect(l)

Sketch ==
  \/ Connects \/ Accepts \/ Polls \/ Reset
  \/ \E h \in held : Close(h) \/ Forget(h) \/ Remote(h) \/ \E n \in 1 .. MaxData : Recv(h, n)

Next == Peer \/ Firmware \/ Work \/ Sketch

Spec == Init /\ [][Next]_vars

\* The line is read and the firmware answers; the sketch calls available() and
\* accept() in its loop.
FairSpec ==
  Spec /\ WF_vars(Work) /\ WF_vars(Firmware) /\ SF_vars(Polls) /\ SF_vars(Accepts)

-----------------------------------------------------------------------------
(* What must hold.                                                         *)

\* Nothing was lost, no link was taken from under a connect(), and no serial id
\* of a link was given twice.
Undisturbed == faults = 0 /\ conns < SerialMod

TypeOK ==
  /\ link \in [Links -> Link] /\ fw \in [Links -> FwLink] /\ held \subseteq Handle
  /\ conns \in 0 .. MaxConns /\ faults \in 0 .. MaxFaults /\ given \subseteq 0 .. conns
  /\ call = Idle => req = Idle

\* An id that checkLinkId accepts refers to the connection it was given for, and
\* the firmware still has that connection: no WiFiClient reads, writes or closes
\* the connection of another.
OwnConnection ==
  Undisturbed /\ Quiet => \A h \in held : Active(h) => fw[h.link].up /\ fw[h.link].conn = h.conn

\* What available() says of a live connection is what the firmware holds for it,
\* whatever order events, answers and reads came in.
AvailableExact ==
  Undisturbed /\ Quiet => \A h \in held : Active(h) => link[h.link].available = fw[h.link].data

\* A connection is handed to the sketch once: accept() neither returns one that
\* connect() made nor the same one twice.
GivenOnce == [][Undisturbed' =>
  /\ \A l \in Links : Accept(l) => fw[l].conn \notin given
  /\ ConnectOK => Head(rx).conn \notin given]_vars

\* No two connections are handed out under one id.
SameConnection(g, h) == g.link = h.link /\ g.serial = h.serial => g = h
UniqueIds == Undisturbed => \A g, h \in held : SameConnection(g, h)

\* README.md says so whatever is lost: "an old WiFiClient copy could interfere on a new
\* connection on the same AT link. This is very unlikely to happen in version 2".
NoIdTwice == conns < SerialMod => \A g, h \in held : SameConnection(g, h)

\* Bytes the peer sent before it closed can be read; README.md: "After it received
\* all the data to buffer and closed the connection, the yet unread data are still
\* available to read".
UnreadReadable ==
  Undisturbed /\ Quiet => \A h \in held :
    fw[h.link].conn = h.conn /\ fw[h.link].data > 0 => Active(h)

\* A link whose connection is over can be used for the next one; README.md: "it
\* detects that connection was closed by peer and releases the link".
LinkReleased == Undisturbed /\ Quiet => \A l \in Links : ~ fw[l].up => Free(l)

\* While the sketch has a connection to poll, what lost lines have left wrong in
\* the table is repaired (syncLinkInfo).
Agreed(l)   == Connected(l) = fw[l].up
Pollable(h) == Active(h) /\ link[h.link].available = 0 /\ ~ Has(h.link, "CLOSING")
Repaired ==
  \A l \in Links : []<>(Agreed(l) \/ ~ \E h \in held : Pollable(h))
=============================================================================
