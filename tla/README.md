# A verification project for WiFiEspAT

WiFiEspAT is an Arduino networking library: a sketch uses `WiFiClient`, `WiFiServer` and `WiFiUDP`
objects, and the library drives an ESP module with AT firmware over a serial line. The modules here are
TLA+ models of the parts of it that carry state, checked with TLC on small instances, and most
of their safety properties proved with TLAPS for all sizes. The sources are under `src/src/`; line numbers in `PROJECT.json` refer to
them. `DR` below is `src/src/utility/EspAtDrv.cpp`.

## 1. The system

A microcontroller runs one thread: `setup()` once and `loop()` for ever. Nothing interrupts the library, and
yet almost everything is concurrent, because the module at the other end of the line is: it accepts
connections, receives data, loses the WiFi network and restarts on its own, and tells the driver with lines
nobody asked for, mixed with the answers to commands.

| part | state | operations | correct means |
|---|---|---|---|
| `WiFiEspAtBuffManager` (pool) | `pool` of streams, `serialId` | `getBuffStream`, `nextSerialId`, `freeUnused` | a stream serves one connection at a time and is found again when free |
| `WiFiEspAtSharedBuffStreamPtr` (handle) | pointer, serial id | copy, move, assign, destroy, `operator bool` | the last reference to go closes the connection; an old copy never touches a later connection |
| `WiFiEspAtBuffStream` (stream) | link id, two buffers, write error | `write`, `flush`, `available`, `read`, `peek`, `connected`, `free`, `close` | bytes are neither lost unnoticed, nor doubled, nor reordered |
| `WiFiClient`, `WiFiServer`, `WiFiUDP` | a handle or two | `connect`, `stop`, `accept`, `beginPacket`, `endPacket`, `parsePacket`, `readRxData` | what the sketch sees |
| `EspAtDrv`, links | `linkInfo[]`: flags, serial id, bytes available | `connect`, `close`, `newClientLinkId`, `availData`, `recvData`, `sendData`, `syncLinkInfo`, `readRX` | an id refers to the connection it was given for; the table is repaired when lines were lost |
| `EspAtDrv`, settings | `wifiMode`, `wifiModeDef`, `persistent` | `reset`, `sysPersistent`, `setWifiMode`, `joinAP`, `quitAP`, `beginSoftAP`, ... | the driver's idea of the firmware is right whatever was refused; flash is written only when asked |
| `EspAtDrv`, line reader | `buffer`, `ignoredCount` | `sendCommand`, `readRX` | an answer belongs to the command that waits for it |
| `EspAtDrv`, operations | none of their own | one dialogue each: 48 of them | every line waited for is there, in its place, and none is left over |
| `WiFi` | `state`, cached soft AP parameters | `init`, `begin`, `disconnect`, `status`, `beginAP`, `apMaxConnections`, ... | `status()` tells what the firmware does; the cache is what the firmware has |
| `WiFiServer` | `state`, `port` | `begin`, `beginSSL`, `end`, `status` | LISTEN and CLOSED are true of the firmware |
| AT firmware (not in the repository) | links, WiFi, flash | answers, CONNECT, CLOSED, +IPD | modelled from how `src/` uses it |

How they interact. A sketch object calls its handle, the handle its stream (if still valid), the stream the
driver, with a link id made of a link number and the serial id of that link. Every driver call first reads what the line holds
(`maintain`), then sends a command and reads lines until its answer, processing what comes in between. The line calls back
upwards in one case: an AT 1 UDP message calls `WiFiUDP::readRxData` from inside any driver call. Streams ask the driver
`connected` whenever a call of theirs fails, and let go of the link when it is gone.

What is hard here, and tests would hardly reach (the list with lines is `hazards` in `PROJECT.json`): lines
that arrive while a call waits for its answer; lines that are lost when the serial buffer of the
microcontroller overflows; objects copied, moved and destroyed in any order while the peer closes; serial ids
that stand between an old copy and a new connection and that wrap; pool and buffers at their limit; calls of several
commands of which one fails; a reset of the module under connections that look alive.

## 2. The modules

| module | models | abstract / composition |
|---|---|---|
| `SharedBuffers` | pool, handles, and the calls of `WiFiClient`, `WiFiServer`, `WiFiUDP` on them | implements `Ownership` |
| `Ownership` | what the library promises: who owns which connection, and when it is closed | |
| `EspAtLinks` | link table of the driver, the firmware's links, and the line between them (AT 1 and AT 2) | |
| `BuffStream` | the two buffers of a stream and the bytes of a connection | |
| `UdpReceive` | a UDP listener with AT 1, whose messages arrive inside any call | |
| `Udp` | the listener with AT 1 and with AT 2, which fetches messages | extends `UdpReceive` |
| `WifiModes` | mode, persistence, WiFi state; calls of several commands (AT 1 and AT 2) | |
| `WiFiServices` | server, soft AP parameters and status over a module that restarts | extends `WifiModes` |
| `Commands` | what every operation of the driver says and waits for | |
| `LineReader` | `readRX` and the firmware at the two ends of the line | instantiates `Commands` twice, AT 1 and AT 2 |
| `MC...` | the instances for TLC | |
| `..._proofs` | the theorems about `SharedBuffers`, its refinement of `Ownership`, `EspAtLinks`, `BuffStream`, `Udp`, `WifiModes`, `WiFiServices` and `LineReader` | each extends its module; `Ownership_proofs` extends `SharedBuffers_proofs`, `WiFiServices_proofs` extends `WifiModes_proofs` |

Each cuts the system at the interface to the next. `SharedBuffers` sees the driver as the set of connections for which
`connected` is true; `EspAtLinks` is what is behind that and sees objects as a set of ids held;
`BuffStream` sees `sendData` and `recvData` by their outcomes (done, refused, done but the answer lost).
`WifiModes` and `WiFiServices` see a command as obeyed, refused or unanswered; why it is only these, and that an answer is the answer to *this* command,
is what `LineReader` is about, for all operations in `Commands`.

### SharedBuffers
`pool`, `serialId` are the members of the manager, `ptr` and `sid` the two members of every handle, `open` the connections of
the driver. A connection is named by the number of the request it was made for, which stands for (link, serial id of the
link). One C++ operation is one action: assignment from `getBuffStream` builds a temporary, assigns, and
destroys it, so special members are operators from worlds (the whole state as a record) to worlds, and an action composes
them in the order C++ runs them (`Tmp` and `Ret` are the temporaries). `MaxRequests` bounds the connections of a
behaviour and the number of packets received; nothing else is bounded. Left out: `freeUnused` (no caller) and
the transmit stream of a *listening* `WiFiUDP`. `ParsePacket` and `NoPacket` let a packet come or not come, which allows
what AT 1 and AT 2 do.

### EspAtLinks
`link` is `linkInfo`, `fw` the firmware's own table, `rx` the line, `call`/`req` the call that waits and its
command, `held` the ids sketch objects have. A driver call is two or more actions (it sends; it ends with its answer), and
`ReadIPD`, `ReadConnect`, `ReadClosed` come between them, as `readRX` does. `faults` counts unsolicited lines lost,
resets of the module, and collisions: an incoming connection that takes the link a `connect()` in flight has chosen.
Assumed of the firmware: it gives an incoming connection its lowest free link; AT 1 reports CLOSED at once and keeps unread data, AT 2 reports
it when they are read (the comment at DR:1771); answers to commands arrive (only events nobody asked for are lost, the comment at
DR:1883-1886), timeouts are not in this module. The default build without `ESPATDRV_ASSUME_FLOW_CONTROL` and `WIFIESPAT_MULTISERVER`.
`syncLinkInfo` asks at most every 500 ms; the model may ask whenever it wants.

### BuffStream
One stream through several connections. Bytes are numbered in each direction, so one that is lost, doubled or reordered shows.
`write(data, n)` and `read(data, n)` beyond a buffer are several rounds, between which the peer acts. +IPD may be lost, then the
driver hears of the bytes when `availData` polls. `SendFile` and `SendPart` are `write(Stream&)`, which flushes the buffer and then sends parts of
at most `MaxSend` (`MAX_SEND_LENGTH`) past it; the file is read once and ends.

### UdpReceive and Udp
`UdpReceive` is AT 1: `ReadMessage` is `readRX` calling `readRxData` in whatever call is reading. A message refused (packet unread, too large,
no stream) stays on the line as text, which `readRX` then reads like lines of the firmware (`ReadText`); it may read like an answer and
end the call that waits. Bytes of a message may fail to arrive. `Begin`, `Begun`, `Stop`, `Stopped` open and close the listener; a message can come in the
middle of both. `Udp` adds AT 2, and `at1` chooses once. There a message stays in the firmware (`queue`) and the driver knows one number of it, `link.available`
(`avail`); `held` are the bytes of all the messages in `queue`. `Parse` ... `InfoOff` is `parsePacket` command by command: take a stream and cut the size to it (`TakeSize`), cut it
again to `link.available`, which a +IPD may have changed meanwhile (`CheckSize`), AT+CIPDINFO=1, AT+CIPRECVDATA, AT+CIPDINFO=0, each refused or
unanswered. `Sync` is `recvLenQuery`. Assumed of the firmware: it gives one message for one AT+CIPRECVDATA and drops the rest of it ("the rest of message will not be
available", DR:1232); it announces a message when it has come and the next when one was given up.

### WifiModes
`d` is the driver, `fw` the firmware with what it starts with, `state` is `WiFi.state`. A call is one step of several
commands, each with its own outcome (`o["mode"]`, `o["store"]`, ...), and stops where the code returns. AT 1 commands say
whether they save (`_DEF`/`_CUR`); AT 2 has the switch `AT+SYSSTORE`, turned and turned back. Assumed: `AT+RST` restarts the
module (its "ready" may be missed); `AT+CWMODE=0` makes a station (the comment at DR:676); `AT+CWAUTOCONN` is saved
in any case. `joinEAP` is `joinAP` with another command; `wifiOff` is not reached from `WiFi`. Queries are in `Commands`.

### WiFiServices
Extends `WifiModes` by what else the library remembers of the firmware: `server` (`state` and `port` of a `WiFiServer`), `listens` (the
firmware's one server, without `WIFIESPAT_MULTISERVER`), `ap` (`apMaxConn`, which stands for the cached parameters). `begin` is `end` and three commands; `refused` names the one that
the firmware refuses, and the operators `End`, `BeginHere`, `BeginPort`, `BeginSSLPort` compose as the overloads call each other. `past` is history: what was refused, whether the
module restarted. A second AT+CIPSERVER=1 is answered "no change" and OK, and changes nothing.

### Commands and LineReader
`Commands` has an operator for 48 operations of `EspAtDrvClass` that talk to the firmware: the set of the scripts each may follow (the WiFi mode
is set already or not, autoconnect is given or not). The others are `connect`, `recvData`, `recvLenQuery` and `remoteParamsQuery`, which are in `EspAtLinks`, and `recvDataWithInfo`, which is in `Udp`. A script is a sequence of commands; a command says what is sent, which lines are waited for by their first
words, what the firmware answers when it obeys, and what a failure means to the operation (`matters`, `skip`, `stop`, `error`: the `if (!sendCommand())` around it).
`LineReader` runs any script against a firmware: `Start` is the first statement of an operation, `ReadLine` one turn of the loop of `readRX` that got a line, `Timeout`
one that got none and sends "?", `FwTake` and `FwEmit` are the firmware, which says "busy" while it works, ERROR to a "?" or to what it refuses, and answers when
it pleases. Every line carries, as history, which command of the call it answers and its place; the driver does not see these, the properties do.

The line has two directions, `tx` and `rx`, and what is sent in one crosses what is sent in the other: the firmware says the next line of an answer, or the prompt, whatever is on its way to
it. A "?" that crosses the end of an answer is answered with ERROR all the same, one that crosses the prompt is taken for payload. The one thing assumed of time is that the timeout of the Stream (a second) is long enough for
the firmware to *read* what was sent (`tx = <<>>` in `Timeout`), not to answer it; `Stall` is the fault in which it is not.

`maintain()` is `Unread`: it reads what has come, and what it leaves is what is behind the place where `readRX(nullptr)` returns before the line is empty: at "No AP" (DR:1794), at an ERROR behind UNLINK (DR:1778) and at the
line too many (DR:1814). In the first and the last case it sets `lastErrorCode`.

Faults: a line lost or garbled, an unasked line, a firmware that does not read in time, the module hanging or restarting, the microcontroller restarting.

`call.clean` is the premise of five of the properties. A call is clean when nothing of earlier calls is on the line or still to come, and no line is there that its `maintain()` would leave. It stays clean until the firmware reads a
probe after it has said the line, or the prompt, that the probe was sent for, or does not read in time. What then goes wrong is among the disagreements below; nothing in the code keeps it from happening, and since nothing
in a line tells what it answers, nothing is promised of such a call but that it returns.

## 3. The runs

Eight runs pass; four show a disagreement of code and documentation, one property each.

| run | what it shows | states |
|---|---|---|
| `handles` | `SharedBuffers` with two clients, a UDP transmitter and a UDP receiver over a pool of three: counts exact, no connection without an owner, freed streams clean, stale copies stay stale, `Ownership` implemented | 67 000 |
| `links_at1` | `EspAtLinks`, AT 1, one fault: while nothing is lost ids refer to their own connection and no id is given twice; the table is repaired whatever is lost | 555 000 |
| `links_at2` | AT 2, one fault, reads in parts: `available` is exact, no connection is given twice, unread bytes stay readable, links are released, the table is repaired | 780 000 |
| `stream` | `BuffStream`: order, no silent loss, buffers fit, reads in order, an unflushed request is sent, also with files sent past the buffer | 98 000 |
| `modes` | `WifiModes`, both versions, any command refused: mode known, saving known, flash only when asked, AT 1 remembers | 58 000 |
| `services` | `WiFiServices`: LISTEN and CLOSED are true, the cache is fresh, a sketch that only asks `status()` sees WL_CONNECTED | 218 000 |
| `udp` | `Udp`, AT 1 and AT 2: packet being read not overwritten, bytes in order, no phantom message, a message is offered, waiting messages are fetched | 102 000 |
| `reader` | `LineReader` with all operations, both versions, a line of two directions, one fault: own answers, fields in place, nothing left over, ERROR means refusal or loss, payload only where payload belongs (these for clean calls), every call returns | 1 215 000 |
| `revived_at2` | AT 2: a missed connection is found without a new serial id | violation of `NoIdTwice` |
| `modes_reset_persistent` | AT 2: `reset()` and persistent disagree | violation of `RememberedAT2` |
| `udp_refused_at2` | AT 2: a refused fetch is reported as a packet | violation of `OnlyMessages` |
| `stale_ok` | the OK after "No AP" is taken by the next call | violation of `OwnAnswerAlways` |

Why the bounds are enough. Two links and three connections are the least with which a link is used a second time while
another is alive, which is what ids are about; one fault is what one lost line is, and a second one repeats it. Two messages on the
line let an event come before an answer and after it. Four requests with four handles and a pool of three exhaust the pool and
reuse a stream; for the safety of that module the theorems cover the rest. Two-byte buffers and three bytes make a write that fills a buffer,
overflows it, and ends in it. Serial ids in the passing runs never come round (`SerialMod` exceeds what the bounds allow; the properties
say so: `NoWrap`, `conns < SerialMod`). Three UDP messages of up to three bytes over a buffer of two let one be read while a second is refused and a third comes after, and one
be too large; one stream is the pool at its limit. In `reader` one fault is enough to separate a call from its answer, `MaxBusy = 1` lets the
work on a command outlast a probe, `TimeoutCount` is 3 as in the code, and `MaxIgnored` is 8 instead of 70: only that it is reached matters, and not by an answer alone.
`MaxLeft = 0` begins a call when nothing of the ones before is still to come: what is left of them makes a call unclean, of which `reader` states nothing but that it returns. `stale_ok`, which is about such calls, has `MaxLeft = 1`. One behaviour of `reader` runs through any
number of calls, one after the other. `services` has three ports, the one of the constructor and the two that `beginSSL` makes of its flag, one of which the sketch also asks for; one `reset()` after the `init()` that made the mode known is enough for a server and a cache to be out of date. `LineReader!TypeOK` and `WiFiServices!ServicesTypeOK` are stated for the proofs and are in no run. `CHECK_DEADLOCK FALSE` is only in `MCLinks*.cfg`: with
`MaxConns` connections used up and none held there is nothing left to do.

Fairness, and why the code justifies it.
* `EspAtLinks!FairSpec`: `WF(Work)`, a call goes on reading; `WF(Firmware)`, commands are answered; `SF(Polls)` and `SF(Accepts)`, the
  sketch's `loop()` calls `available()` and `accept()`, strong because another call may be under way each time it could.
* `BuffStream!FairSpec`: `WF(Rounds)`, a call returns; `SF(Asks)`, `SF(Reads)`, the sketch waits with `available()` and reads;
  `SF(Answered)`, the firmware does not refuse for ever to hand out what it reports.
* `Udp!UdpFairSpec`: `WF(Goes)`, a call goes on and the firmware answers; `SF(ParsesAgain)`, the sketch calls `parsePacket` in `loop()`, strong because
  other calls come between; `SF(Syncs)`, one of these calls finds the 500 ms over and asks AT+CIPRECVLEN?.
* `WiFiServices!ServicesSpec`: the firmware joins the network it remembers, and the sketch calls `status()` again and again and is answered; nothing is said of its other calls.
* `LineReader!Spec`: `WF(ReadLine \/ Timeout)`: the loop of `readRX` runs; `WF(FwTake \/ FwEmit)`: a firmware that runs goes on, with what it reads or with what it says. That it answers in time is not
  assumed, nor that it runs.
No fairness is assumed of the peer, and none of faults.

### Disagreements that no run holds
Met while modelling, each with a counterexample of an earlier form of the model or plain from the code:
* A "?" that crosses the end of an answer (DR:1670): its ERROR comes behind the OK. It fails the next command of the call, since only the first is behind a `maintain()` (`serverBegin`, DR:848-870), or it is
  found by the next call that begins without one. The comment at DR:1671-1674 names nothing, "busy" and ERROR for a missed response; the "late response" of the comment at DR:1783 is ignored only where nothing or "ready" is waited for. `ErrorMeans` without `call.clean` is violated.
* When such an ERROR ends `sendData()` before the prompt comes, the firmware waits for payload, and the commands of the next calls are that payload. A "?" that crosses the prompt is payload itself: it is sent to the peer in
  front of the data, whose end is then refused. So is what follows a lost prompt (DR:1314). `PayloadOnly` without `call'.clean`, or without `~ call.lost`, is violated.
* `maintain()` does not read everything: it stops at "No AP" and leaves the OK behind it, sets `lastErrorCode`, stops at an ERROR behind UNLINK and at the line too many (DR:1778, DR:1794, DR:1814). After a restart of the microcontroller during
  `apQuery()` the first call that begins with `maintain()` still takes the old OK. `OwnAnswer` without the premise on `Unread` is violated.
* A TX buffer of size 0 is allowed by `src/README.md:286`; `write(uint8_t)` (`WiFiEspAtBuffStream.cpp:73`) then stores through a null pointer. `TxSize = 0` in `MCStream.cfg` violates `TypeOK`.
* `write(data, n)` returns `n` although the flush in the middle failed and the bytes were dropped (`WiFiEspAtBuffStream.cpp:104-107`); `write(uint8_t)` looks at the error.
* `peek()` returns the byte left in the buffer when the fetch failed (`WiFiEspAtBuffStream.cpp:198`).
* `localPortQuery` passes the bare link number to `remoteParamsQuery`, which compares its missing serial id with that of the link (DR:1049): 0 is returned unless the serial id is 0.
* AT 1: a link closed with unread data keeps `available`, is not free for `connect()` (DR:1638), and a CONNECT line on it is ignored (DR:1757), until another connection is polled.
* A server without an active client never polls: a client whose CONNECT line was lost is not accepted (DR:886, DR:1117).
* AT 2: a `reset()` that fails before `AT+SYSSTORE=0` (DR:98-104) leaves `wifiModeDef` set, so that settings go on and are saved.
* After `endAP()` the driver has mode 0 and takes the station for off (DR:487, DR:527), the firmware is a station.
* One `AT+CIPSTATUS` without an answer makes `status()` return WL_NO_MODULE for ever (`WiFi.cpp:44`). With `"unanswered"` in `Outcomes`, `WaitingConnects` is violated.
* Serial ids of streams: the 256th stream of a program may get the id that a stale handle still has (`WiFiEspAtBuffManager.cpp:119`); the stale handle is valid again, and its end closes a connection it never had (`ClosedWhenUnreferenced` of `SharedBuffers` from `LateInit` with `SerialMod = 256`).
* AT 1: `src/README.md:294` speaks of reading after the end of the connection; CLOSED (DR:1767-1777) makes the link inactive while bytes wait in the firmware, and they cannot be read (`UnreadReadable` with AT 1).
* `setWriteError` of a stream is never reset, neither by `free()` nor by a flush that succeeds (`WiFiEspAtBuffStream.cpp:46`, `:76`): `write(b)` that fills the buffer returns 0 for ever after.
* `reset()` waits for "ready" without limit (DR:96) when that line is missed and the firmware goes on saying busy (DR:1782), for instance when the microcontroller restarts during a long AT+CWLAP.
* AT 2 UDP: UDP_LARGE and RECEIVE are erased by the `maintain()` of the AT+CIPDINFO commands that follow (DR:1230, DR:1245, DR:123). AT+CIPDINFO=0 is not looked at: when it is refused, later +CIPRECVDATA lines have the extra information in them. An announcement that overwrites `link.available` truncates the message in front of it to its own size.
* AT 1: `WiFiUDP::stop()` frees the packet before it closes the link (`WiFiUdp.cpp:163`): a message that comes in between keeps a stream, and is the first packet after the next `begin()`.
* `WiFiUDP::endPacket()` asks its own write error, not the one of the stream.
* `WiFiServer::beginSSL(port, ca, ...)` calls `begin(ca, ...)`: a server without SSL on port 0 or 1 (`WiFiServer.cpp:44`, `src/README.md:241`).
* `serverBegin` fails when the last of its commands, AT+CIPSTO, is refused, and leaves the server open behind CLOSED, where `end()` does not stop it (DR:867). `StatusTrue` excepts it by name.
* After `reset()` a `WiFiServer` says LISTEN and the firmware has no server; the cached soft AP parameters stay. The properties except a restart by name.
* `beginEnterprise` and `joinEAP` take user name and password in different order (`WiFi.cpp:90`, DR:440); `joinEAP` does not close a quote (DR:450-452).
* `apSSID(nullptr)`, which the cached getters call, writes to its buffer when the query fails (`WiFi.cpp:317`); `apMacAddress` clears five of six bytes; `apDhcpIsEnabled` and the getters of addresses return what was in the variable when the query failed.
* `listAP` with an array of size 0 and names with delimiters in them, which `strtok` splits, are read past their place.
* A line lost from the list of AT+CIPSTATUS ends the connection it was about (DR:1965).

## 4. The proofs

Every theorem is for all values of the constants that the `ASSUME`s of its module allow: any number of handles, streams,
links, connections, bytes, messages and lost lines, of which the runs check a few. The modules named `..._proofs` hold them.

| theorem | says | hypothesis |
|---|---|---|
| **`SharedBuffers_proofs`** | | |
| `TypesCorrect` | `Spec => []TypeOK`; no temporary survives an operation | |
| `RefCountsCorrect` | `[]RefCountExact` | |
| `NothingOrphaned` | `[]NoOrphan`: every open connection is owned by an object | |
| `FreedStreamsClean` | `[]FreedIsClean` | |
| `StaleHandlesStayStale` | `StaleStaysStale`, an action property | |
| **`Ownership_proofs`** | | |
| `PoolImplementsOwnership` | `OwnershipSpec`: the pool of counted streams implements `Ownership` | `[]NoWrap` |
| **`EspAtLinks_proofs`** | | |
| `TypesCorrect` | `[]TypeOK`, whatever is lost | |
| `ClientsKeepApart` | `[]OwnConnection`: an accepted id is of its own connection | |
| `IdsAreUnique` | `[]UniqueIds` | |
| `AvailableIsExact`, `UnreadCanBeRead`, `LinksAreReleased` | `[]AvailableExact`, `[]UnreadReadable`, `[]LinkReleased` | AT 2 |
| `ConnectionsAreGivenOnce` | `GivenOnce`, an action property | AT 2 |
| **`BuffStream_proofs`** | | `TxSize > 0`, all |
| `TypesCorrect` | `[]TypeOK`: the buffers never overflow | |
| `BytesSentInOrder` | `[]SentInOrder` | |
| `LossLeavesAnError` | `[]NoSilentLoss` | |
| `BytesReadInOrder` | `[]ReadInOrder` | |
| **`Udp_proofs`** | | |
| `TypesCorrect` | `[]UdpTypeOK`: with it, that the pool is never overdrawn | |
| `PacketKept` | `NotOverwritten`, an action property (AT 1) | |
| `BytesReadInOrder` | `ReadInOrder`, an action property | |
| `SizeIsOfAMessage` | `[]NoPhantom` (AT 2) | |
| **`WifiModes_proofs`** | | |
| `TypesCorrect` | `[]TypeOK` | |
| `PersistentRemembered` | `RememberedAT1`, an action property | |
| `ModeIsKnown`, `SavesAreKnown` | `[]ModeKnown`, `[]SavesKnown` | `AllAnswered` |
| `FlashIsSpared` | `FlashOnlyWhenAsked`, an action property | `AllAnswered` |
| **`WiFiServices_proofs`** | | |
| `StatusIsTrue`, `CacheIsFresh` | `[]StatusTrue`, `[]CacheFresh` | |
| `ServicesTypesCorrect` | `[]ServicesTypeOK`, which no run states | |
| **`LineReader_proofs`** | | |
| `PlaceIsKept` | `[]PlaceInv`: a call is at a command of its script | |
| `Types` | `[]TypeOK`, which no run states | |
| `PayloadIsPayload` | `PayloadOnly`, an action property | `TimeoutCount > 0`, `2 * MaxBusy + 2 + MaxFaults <= MaxIgnored` |

`Invariance`, `TypeInvariance`, `TableInvariance`, `UdpInvariance` and `PlaceIsKept` are the inductive invariants the others rest on.

### The arguments

**SharedBuffers.** `RefCountExact` alone is not inductive: that a count stays exact when a stream is handed out needs that no handle left
over from an earlier life has the new serial id, which needs that serial ids are at most the counter and streams in use have different ones; that the last
reference closes the *right* connection needs that no two streams have the same link; and that a freed stream may be handed out needs that it is blank. `IInv` is
the types, and, *while no serial id was given twice*, `WF`: `SerialsOK`, `SlotsOK`, `PointersOK`, `CountsOK`, `LinksOK`, and that receive streams have no link (`RxOK`). In the
middle of an operation a connection can be open that no stream has yet; `WF(W, P)` has the set `P` of these, empty between
operations. Every operator from worlds to worlds has a lemma that it keeps `WF` (`FreeWF`, `DecreaseWF`,
`CopyConstructWF`, `GetBuffStreamWF`, ...) and one that says what it leaves alone
(`...Frame`, `...Type`); an action is a chain of them. The premise on wrapping is needed, see the 256th stream above. The
types need no such premise: they hold after the wrap too.

**Ownership.** What a handle owns depends on its stream alone (`Holds`). For every operator from worlds to worlds a lemma says
how the table of what is held changes and which connections close: nothing (`Same`), one handle takes another connection (`Takes`), one takes what another had
(`Moves`), a connection is cut from all (`Cut`). These compose in the order C++ runs the special members, so that the
temporaries in between disappear; then each action has one lemma that names the step of `Ownership` it is, or says it is a stutter.
That a connection closes exactly when its last owner goes is `IInv`, so the refinement is proved under `[]NoWrap`.

**EspAtLinks.** `OwnConnection` speaks of the driver's table at one end of the line and of the firmware's at the other, and between them lines and an
answer may be on their way, so nothing that only compares the two tables is inductive. `TableInv` follows each link along the line: there
is a chain of views (`Reach`), the first of which is the entry of the table, each following from the one before by what `readRX` makes of the next line (`Step`),
and the last agrees with the firmware (`Agrees`, for AT 2 also `Agrees2`). A view is an entry and the connection that its serial id stands for, which is what ties an id
to a connection: an id given out is of the life of the link a view is of, or of an earlier one (`Earlier`). Reading a line drops the head of
the chain, a line that is sent appends to it; an action that changes the middle (`connect()` choosing a link, `flush` of the answer of the call) has a lemma of its own. `UniqueIds` follows from the serial
ids growing along the chain. `Undisturbed` (no line lost, no serial id twice) is part of the properties. For AT 1 `UnreadReadable`, `LinkReleased` and `GivenOnce` are false, see above; what is
proved of AT 2 only needs `Agrees2`.

**BuffStream.** The bytes to the peer are in three sequences, those sent, those in the buffer, those the call still has; the bytes to the sketch likewise. `Good` says
that each three are increasing one after the other (`Up`, `Down`), that counts fit while nothing is known to be lost, and that a stream let go of is empty (`Cleared`); every
operator has a lemma that it keeps `Good`, with the rest of the call as a parameter. `StreamInv` adds the call and that between two
steps the transmit buffer has room for one byte, which is what `write(b)` counts on. `TxSize > 0` is the buffer of size 0 above.

**Udp.** `NoPhantom` compares one number with a message in the firmware. That number is set by announcements and by a query that gives the *sum* of what waits, so the invariant needs
that sum (`held`, `Sums`, written with a witness of partial sums since it is a recursion over a queue), that it is never exceeded (`Held`), that an announcement
on its way is of a message that will still be there (`Announced`), and that during a fetch `link.available` is within what is asked or the size of a later message (`Fetching`). `NotOverwritten` and `ReadInOrder` need
that messages on the line and in the queue are later than the one being read (`LineInOrder`, `QueueInOrder`, `Place`).

**WifiModes.** A call is a chain of operators on the driver, the firmware and the success so far. `StartInv` (types; a station the driver
takes for started is started) holds whatever becomes of a command. `KeptInv` (the mode is known; the saving that is on is counted on) needs that a command is obeyed or refused: with one
that is carried out but not answered TLC shows `ModeKnown` false, since the driver keeps the old mode. Each is kept by every operator, with what it leaves of flash.

**WiFiServices.** `Agree`: server object and firmware's server agree, or the module has restarted. The overloads of `begin` pass through states where they do not; `Closed` is what these still satisfy. The
WiFi calls are taken from `WifiModes_proofs`.

**LineReader.** First, about `Commands`, one lemma per operation and version: its script is either *plain* (no answer of the firmware has a
prompt in it, and ERROR is the last line of any it is in) or one or two *sends* (the command that gets the prompt, then the payload, whose answer is the result). The rest of the proof
knows the 48 operations only by this. `PlaceInv` is the types, that the call is at a command of its script, and that what is on its way to the firmware is a probe or the command just sent.
`PayInv` adds what is known of a call that is clean and has lost nothing. In a plain call no prompt is there and none can come (`Hushed`): what is on its way to the firmware is answered without one, and the firmware has none to say.
In a send, `Phase` says where the two directions are: AT+CIPSEND is on its way (`Going`), behind a probe that comes too late perhaps; it was refused or not heard, and no prompt comes (`Hopeless`); it is worked on (`Coming`); the prompt
has come and is among the lines to be read (`Come`); the payload is on its way (`Paid`); the firmware has it (`After`).
Since probes cross what the firmware says, an overtaken probe may be on its way in each of these; when the firmware reads it the call is not clean any more and nothing is claimed. What has to be shown is that it cannot be taken for payload, or
push the prompt out, *without* that. For this `OneProbe` and `LateProbe` say that no more than one probe is on its way, and that it is overtaken once the prompt or the last line is said; and in `Coming` the lines the call has ignored, those to
be read and those that may still come before the prompt (`ToCome`: two for every probe that the command may yet outlast, its echo and busy, and one for every fault left) are not more than the call may ignore, so that it does not give up while the firmware is
about to wait for payload. `After` keeps that nothing but unasked lines is behind the last line of the answer (`LastCame`), so that the next part of a file is sent with nothing of this one on the way.
The premises are needed: TLC finds `PayloadOnly` false with `TimeoutCount = 0` and a slow firmware, since the call gives up before the prompt, and
with a `MaxIgnored` too small. With the code's 3 and 70 the theorem covers `2 * MaxBusy + MaxFaults <= 68`: a firmware that outlasts 34 probes when nobody interferes, or ten with 48 faults.

### Assumptions, and what is not proved

The proofs use the named `ASSUME`s of the modules (`PoolAssumption`, `HandlesAssumption`, `KindsAssumption`, `BoundAssumption`, `LinksAssumption`,
`BoundsAssumption`, `SizesAssumption`, `UdpAssumption`, `FaultsAssumption`, `WifiModesAssumption`, `ServicesAssumption`, `ReaderAssumption`), which TLC evaluates in every run. Of these
`HandlesAssumption` asks for fewer than 256 handles, since the reference count is a `uint8_t`, and `PoolAssumption` that serial ids outnumber the streams; the others only say what kind of value a constant is.

Only model-checked:
* liveness (`Repaired`, `RequestSent`, `Offered`, `Delivered`, `WaitingConnects`, `CallEnds`), which is out of the prover's reach, as `ENABLED` is;
* `AvailableExact` for AT 1, where CLOSED and the bytes reported before it pass each other on the line;
* `OwnAnswer`, `FieldsExact`, `CleanEnd` and `ErrorMeans` of `LineReader`, which need an invariant that says for each line on its way which part of which answer it is.

## 5. What is not modelled, and what is left

Not modelled: the values in commands and answers (their parsing is `sscanf` and `strtok` on a line whose origin is what matters); the getters of `WiFi`, which
hand an answer on; `WiFiSSLClient` (`connect` with another word); the builds with `WIFIESPAT_MULTISERVER` and
`ESPATDRV_ASSUME_FLOW_CONTROL`; logging; the examples, which only tell how the library is used; the transmit stream of a
listening `WiFiUDP`; `freeUnused`, which nothing calls. The link table under lost *answers* is in no module: `EspAtLinks` loses unasked lines only, `LineReader` has no links.

`UniqueIds` and `OwnConnection` are claimed, checked and proved while nothing was disturbed. With a lost line they are false: AT 2 gives an id
twice (`NoIdTwice`), and so does AT 1 when a connection ends and its link is taken again while the line of neither arrived (one link, one fault, five connections). What holds with faults is that the table
is repaired (`Repaired`).

Left to prove:
1. `LineReader`: `CleanEnd`, then `OwnAnswer`, with an invariant that says where each line of a call is.
2. `AvailableExact` with AT 1.
