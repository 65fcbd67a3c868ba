------------------------------ MODULE LineReader ------------------------------
(***************************************************************************)
(* The serial line between EspAtDrvClass and the AT firmware: readRX(),    *)
(* which waits for one line after the other of the answer to a command,    *)
(* and the firmware, which answers in its own time, says things nobody     *)
(* asked for, and whose lines get lost when the serial buffer overflows.   *)
(*                                                                         *)
(* When nothing comes for the timeout of the Stream the driver sends "?".  *)
(* A firmware that still works on the command answers "busy", one that has *)
(* finished answers ERROR, so that a lost answer ends the call.  Nothing   *)
(* in a line tells which command it answers: that the driver takes its own *)
(* answers rests on what is still on the line when a call begins.          *)
(*                                                                         *)
(* The line has two directions, and what is sent in one crosses what is    *)
(* sent in the other: a "?" that the answer overtakes is answered with     *)
(* ERROR all the same, or taken for payload.  How long the firmware works  *)
(* on a command, and how long the next line takes, is open.                *)
(***************************************************************************)
EXTENDS Integers, FiniteSets, SequencesExt

CONSTANTS
  Versions,     \* builds: TRUE with WIFIESPAT1 for AT 1.7, FALSE for AT 2
  Ops,          \* the operations of the driver that the sketch uses
  TimeoutCount, \* TIMEOUT_COUNT: probes without any answer, 3
  MaxIgnored,   \* lines that a call may ignore, 70
  MaxLeft,      \* bound: what earlier calls have left when a call begins
  MaxBusy,      \* bound: probes that the work on one command outlasts
  MaxFaults     \* bound: losses, restarts and unasked lines in a behaviour

V1 == INSTANCE Commands WITH AT1 <- TRUE
V2 == INSTANCE Commands WITH AT1 <- FALSE

ASSUME ReaderAssumption ==
  /\ Versions \subseteq BOOLEAN
  /\ Ops \subseteq DOMAIN V1!Scripts
  /\ {TimeoutCount, MaxIgnored, MaxLeft, MaxBusy, MaxFaults} \subseteq Nat

VARIABLES
  call,          \* the operation under way, or Idle
  rx,            \* lines received and not yet read, oldest first
  tx,            \* what was sent and the firmware has not read, oldest first
  fw,            \* the firmware
  result,        \* what the operation returned, "none" while it is under way
  lastErrorCode, \* EspAtDrvClass.lastErrorCode
  faults         \* history: faults so far

vars == <<call, rx, tx, fw, result, lastErrorCode, faults>>

Scripts == IF fw.at1 THEN V1!Scripts ELSE V2!Scripts
Noise == V1!Noise                                    \* a line nobody waits for

Idle == [script |-> <<>>]
Waiting == call # Idle

\* A line knows, as history, the command of the call it answers (0: none) and
\* the how manieth line with its words it is in the answer.
Occurrence(words, k) == Cardinality({ j \in 1 .. k : words[j] = words[k] })
Answer(words, of) ==
  [k \in DOMAIN words |-> [text |-> words[k], of |-> of, nth |-> Occurrence(words, k)]]
Line(text) == [text |-> text, of |-> 0, nth |-> 0]
Forgotten(lines) == [k \in DOMAIN lines |-> Line(lines[k].text)]

\* What the driver sends, with what the firmware says to it: command number `of'
\* of the call, or a probe.  `overtaken' is history: a line of the firmware was
\* sent since the probe.
Sending(cmd, of) ==
  [what |-> cmd.send, of |-> of, answer |-> cmd.answer, refusal |-> cmd.refusal,
   overtaken |-> FALSE]
Probe == [what |-> "?", of |-> 0, answer |-> <<>>, refusal |-> {}, overtaken |-> FALSE]
Overtaken(sent) ==
  [k \in DOMAIN sent |-> [sent[k] EXCEPT !.overtaken = @ \/ sent[k].what = "?"]]
Disowned(sent) == [k \in DOMAIN sent |-> [sent[k] EXCEPT !.of = 0]]

\* the lines `text' that strncmp() finds to start with `expected'
Longer ==
  { <<"SEND OK", "SEND ">>, <<"SEND FAIL", "SEND ">>, <<"+CIPSTAMAC", "+CIPSTA">>,
    <<"+CIPSTATUS", "+CIPSTA">>, <<"+CIPAPMAC", "+CIPAP">>, <<"+CIPETHMAC", "+CIPETH">> }
StartsWith(text, expected) == text = expected \/ <<text, expected>> \in Longer

-----------------------------------------------------------------------------
(* The call: a place in a script.                                          *)

Cmd == call.script[call.at]

\* the line waited for: the next item of a list, or the next of `reads'
Items == IF Cmd.item = "none" THEN 0 ELSE Cmd.size
Listing == call.read <= Items
Reads == Items + Len(Cmd.reads)
Expected == IF Listing THEN Cmd.item ELSE Cmd.reads[call.read - Items]

\* the command of the script whose answer is being read
Sent(script, at) ==
  CHOOSE k \in 1 .. at :
    /\ script[k].send # "nothing"
    /\ \A j \in k + 1 .. at : script[j].send = "nothing"

\* what the call should find: its own line, none of its like left out
Meant(line) ==
  /\ line.of = Sent(call.script, call.at)
  /\ \/ Cmd.item # "none"
     \/ line.nth = Occurrence(Cmd.reads, call.read)

\* readRX() is entered: its local variables are set
EntersReadRX(c) ==
  [c EXCEPT !.timeout = 0, !.ignored = 0, !.unlink = FALSE]

\* maintain(): readRX() with nothing to wait for reads what has come, but for
\* what is behind "No AP", behind an ERROR after UNLINK, or behind the line that
\* is one too many.
Handled == {"event", "CLOSED"}
Ignorable(text) == text \notin Handled \cup {"ERROR", "No AP", "UNLINK"}
Stops(line, k) ==
  \/ line[k].text = "No AP"
  \/ line[k].text = "ERROR" /\ \E j \in 1 .. k : line[j].text = "UNLINK"
  \/ /\ Ignorable(line[k].text)
     /\ Cardinality({ j \in 1 .. k : Ignorable(line[j].text) }) = MaxIgnored + 1
FirstStop(line, k) == Stops(line, k) /\ \A j \in 1 .. k - 1 : ~ Stops(line, j)
Unread(line) ==
  IF \E k \in DOMAIN line : FirstStop(line, k)
  THEN SubSeq(line, 1 + CHOOSE k \in DOMAIN line : FirstStop(line, k), Len(line))
  ELSE <<>>
MaintainError(line) ==
  CASE \E k \in DOMAIN line : FirstStop(line, k) /\ line[k].text = "No AP" -> "NO_AP"
    [] \E k \in DOMAIN line : FirstStop(line, k) /\ Ignorable(line[k].text) -> "AT_NOT_RESPONDIG"
    [] OTHER -> "NO_ERROR"

\* Mutant: the call begins without maintain().
SendsUnread(c, k, line, error) ==
  LET cmd == c.script[k] IN
  /\ call' = EntersReadRX([c EXCEPT !.at = k, !.read = 1])
  /\ rx' = line
  /\ lastErrorCode' = error
  /\ tx' = IF cmd.send = "nothing" THEN tx ELSE Append(tx, Sending(cmd, k))
  /\ result' = "none"

\* Command number k of the script goes out; `c' is the call so far, `line' what
\* is left to read and `error' the last error, before maintain().
Sends(c, k, line, error) ==
  LET cmd == c.script[k] IN
  /\ call' = EntersReadRX([c EXCEPT !.at = k, !.read = 1])
  /\ rx' = IF cmd.fresh THEN Unread(line) ELSE line
  /\ lastErrorCode' = IF cmd.fresh THEN MaintainError(line) ELSE error
  /\ tx' = IF cmd.send = "nothing" THEN tx ELSE Append(tx, Sending(cmd, k))
  /\ result' = "none"

Returns(ok, line, error) ==
  /\ call' = Idle
  /\ result' = IF ok THEN "ok" ELSE "fail"
  /\ rx' = Forgotten(line)
  /\ fw' = [fw EXCEPT !.pending = Forgotten(@)]
  /\ tx' = Disowned(tx)
  /\ lastErrorCode' = error

\* the command at which call c is has succeeded or failed
Over(c, good, line, error) ==
  LET ok   == c.ok /\ (good \/ ~ Cmd.matters)
      next == c.at + 1 + IF good THEN 0 ELSE Cmd.skip
  IN  IF next > Len(c.script) \/ (Cmd.stop /\ ~ ok)
      THEN Returns(ok, line, error)
      ELSE Sends([c EXCEPT !.ok = ok], next, line, error) /\ UNCHANGED fw

\* what is left of earlier calls when one begins with `script': what the firmware
\* has not read, lines it still says, and lines that no maintain() will read
Left(script) ==
  Len(tx) + Len(fw.pending) + IF script[1].fresh THEN 0 ELSE Len(rx)

\* An operation begins.  `clean' is history: nothing is on the line or still to
\* come but what belongs to the call.  It stays so until the firmware reads a
\* probe after the answer that the probe asks for, or reads nothing for too long.
\* So are `obeyed', `refused', `lost' and `exact': what the firmware did with the
\* commands, whether a line was lost, whether each line was read in its place.
Start(op) ==
  /\ ~ Waiting
  /\ \E script \in Scripts[op] :
       /\ Left(script) <= MaxLeft
       /\ Sends([script |-> script, at |-> 1, read |-> 1, timeout |-> 0,
                 ignored |-> 0, unlink |-> FALSE, ok |-> TRUE,
                 clean |-> /\ Left(script) = 0 /\ ~ fw.data
                           /\ script[1].fresh => Unread(rx) = <<>>,
                 obeyed |-> {}, refused |-> {}, lost |-> FALSE, exact |-> TRUE],
                1, rx, lastErrorCode)
  /\ UNCHANGED <<fw, faults>>

-----------------------------------------------------------------------------
(* readRX().                                                               *)

Reading == Waiting /\ rx # <<>>
Text == Head(rx).text

\* the line is the one waited for; SEND FAIL begins like SEND OK
Matched ==
  LET c == [call EXCEPT !.exact = @ /\ (Cmd.matters => Meant(Head(rx))), !.read = @ + 1] IN
  /\ IF Text = "SEND FAIL"
     THEN Over(c, FALSE, Tail(rx), "SEND")
     ELSE IF call.read = Reads
     THEN Over(c, TRUE, Tail(rx), lastErrorCode)
     ELSE /\ call' = EntersReadRX(c)
          /\ rx' = Tail(rx)
          /\ UNCHANGED <<tx, fw, result, lastErrorCode>>

\* readRX() returned false in call c: a list with enough items counts as read
Gives(c, line, error) ==
  Over(c, Cmd.item # "none" /\ Cmd.need > 0 /\ Listing /\ call.read > Cmd.need,
       line, IF Cmd.error = "own" THEN error ELSE Cmd.error)
Fails(line, error) == Gives(call, line, error)

Skips(c) ==
  /\ call' = [c EXCEPT !.timeout = 0]
  /\ rx' = Tail(rx)
  /\ UNCHANGED <<tx, fw, result, lastErrorCode>>

\* Mutant: the ERROR that follows UNLINK is an error like any other.
RefusedUnlinked ==
  /\ Text = "ERROR"
  /\ IF Expected = "ready" THEN Skips(call) ELSE Fails(Tail(rx), "AT_ERROR")

Refused ==
  /\ Text = "ERROR"
  /\ IF call.unlink THEN Over(call, TRUE, Tail(rx), lastErrorCode)
     ELSE IF Expected = "ready" THEN Skips(call)
     ELSE Fails(Tail(rx), "AT_ERROR")

NoAP == Text = "No AP" /\ Fails(Tail(rx), "NO_AP")

Unlink == Text = "UNLINK" /\ Skips([call EXCEPT !.unlink = TRUE])

ListEnds == Text = "OK" /\ Listing /\ Fails(Tail(rx), lastErrorCode)

\* +IPD, CONNECT, CLOSED, +ETH: handled, and not counted as ignored
Event == Text \in Handled /\ Skips(call)

Ignored ==
  /\ Ignorable(Text)
  /\ ~ (Text = "OK" /\ Listing)
  /\ IF call.ignored = MaxIgnored
     THEN Fails(Tail(rx), "AT_NOT_RESPONDIG")
     ELSE Skips([call EXCEPT !.ignored = @ + 1])

ReadLine ==
  /\ Reading
  /\ IF StartsWith(Text, Expected) THEN Matched
     ELSE Refused \/ NoAP \/ Unlink \/ ListEnds \/ Event \/ Ignored
  /\ UNCHANGED faults

\* Nothing comes for the timeout of the Stream.  That is long enough for the
\* firmware to have read what was sent, though not to have answered it.
Busy == fw.up /\ fw.pending # <<>>
Nothing == Waiting /\ rx = <<>> /\ (Busy => fw.slow < MaxBusy)

\* Mutant: the probes without an answer are not counted.
TimeoutUncounted ==
  /\ Nothing /\ tx = <<>>
  /\ tx' = <<Probe>>
  /\ UNCHANGED <<call, rx, fw, result, lastErrorCode, faults>>

TimesOut(c) ==
  IF c.timeout = TimeoutCount
  THEN Gives(c, <<>>, "AT_NOT_RESPONDIG")
  ELSE /\ call' = [c EXCEPT !.timeout = @ + 1]
       /\ tx' = Append(tx, Probe)
       /\ UNCHANGED <<rx, fw, result, lastErrorCode>>

Timeout == Nothing /\ tx = <<>> /\ TimesOut(call) /\ UNCHANGED faults

-----------------------------------------------------------------------------
(* The firmware (external).  `at1' is its version, which the build fits;   *)
(* `pending' are the lines it will still say of the command it works on,   *)
(* `data' that it waits for payload after the prompt, `slow' the probes    *)
(* that command has outlasted, `echo' that it repeats what it is sent.     *)

Said(text) == rx \o (IF fw.echo THEN <<Line(Noise)>> ELSE <<>>) \o <<Line(text)>>

Records(of, field) ==
  IF of > 0 /\ Waiting
  THEN call' = IF field = "obeyed" THEN [call EXCEPT !.obeyed = @ \cup {of}]
               ELSE [call EXCEPT !.refused = @ \cup {of}]
  ELSE UNCHANGED call

\* a probe is read after the answer was sent that it asks for
TooLate(item) ==
  call' = IF Waiting /\ item = [Probe EXCEPT !.overtaken = TRUE]
          THEN [call EXCEPT !.clean = FALSE] ELSE call

Works(lines) == fw' = [fw EXCEPT !.pending = lines, !.slow = 0, !.data = FALSE]

\* the module restarts: it forgets what it was doing and echoes again
Restarts(lines) ==
  fw' = [fw EXCEPT !.up = TRUE, !.pending = lines, !.slow = 0, !.data = FALSE,
                   !.echo = TRUE]

Echo == IF fw.echo THEN <<Line(Noise)>> ELSE <<>>

Obeys(item) ==
  LET answer == Answer(item.answer, item.of) IN
  /\ Records(item.of, "obeyed")
  /\ CASE item.what \in {"restart", "pin"} -> Restarts(answer) /\ UNCHANGED rx
       [] item.what = "sleep" -> fw' = [fw EXCEPT !.up = FALSE] /\ rx' = rx \o Echo \o answer
       [] item.what = "echo off" ->
            /\ fw' = [fw EXCEPT !.pending = answer, !.slow = 0, !.echo = FALSE]
            /\ rx' = rx \o Echo
       [] OTHER -> Works(answer) /\ rx' = rx \o Echo

Refuses(item) ==
  /\ Records(item.of, "refused")
  /\ \E answer \in item.refusal : Works(Answer(answer, item.of))
  /\ rx' = rx \o Echo

\* The payload; or the first that comes after the prompt instead of it, which may
\* be all that AT+CIPSEND asked for.
TakesData(item) ==
  /\ UNCHANGED rx
  /\ IF item.what = "data"
     THEN \/ Records(item.of, "obeyed") /\ Works(Answer(item.answer, item.of))
          \/ Records(item.of, "refused") /\ Works(Answer(<<"Recv ", "SEND FAIL">>, item.of))
     ELSE /\ TooLate(item)
          /\ UNCHANGED fw \/ Works(Forgotten(Answer(<<"Recv ", "SEND OK">>, 0)))

SaysBusy(item) ==
  /\ rx' = Said("busy")
  /\ fw' = [fw EXCEPT !.slow = IF item.what = "?" /\ @ < MaxBusy THEN @ + 1 ELSE @]
  /\ UNCHANGED call

\* What is no command is refused.  So is a command behind the rest of a payload
\* that was too long.
TakesCommand(item) ==
  IF item.what \in {"?", "data"}
  THEN rx' = Said("ERROR") /\ TooLate(item) /\ UNCHANGED fw
  ELSE Obeys(item) \/ Refuses(item)

Takes(item) ==
  CASE item.what = "pin" -> Obeys(item)
    [] item.what # "pin" /\ ~ fw.up -> UNCHANGED <<call, rx, fw>>
    [] item.what # "pin" /\ fw.up /\ fw.data -> TakesData(item)
    [] item.what # "pin" /\ fw.up /\ ~ fw.data /\ fw.pending # <<>> -> SaysBusy(item)
    [] OTHER -> TakesCommand(item)

FwTake ==
  /\ tx # <<>>
  /\ Takes(Head(tx))
  /\ tx' = Tail(tx)
  /\ UNCHANGED <<result, lastErrorCode, faults>>

\* The next line of the answer, whatever is on its way to the firmware; with the
\* prompt the firmware waits for payload.
FwEmit ==
  /\ fw.up /\ fw.pending # <<>>
  /\ rx' = Append(rx, Head(fw.pending))
  /\ fw' = [fw EXCEPT !.pending = Tail(@), !.data = Head(fw.pending).text = ">",
                      !.slow = IF Len(fw.pending) = 1 THEN 0 ELSE @]
  /\ tx' = Overtaken(tx)
  /\ UNCHANGED <<call, result, lastErrorCode, faults>>

-----------------------------------------------------------------------------
(* Faults.                                                                 *)

Fault == faults < MaxFaults /\ faults' = faults + 1
Loses == call' = IF Waiting THEN [call EXCEPT !.lost = TRUE] ELSE call

\* the serial buffer overflows: the line that comes last is lost, or what is
\* left of it means nothing
LoseLine ==
  /\ Fault /\ rx # <<>> /\ Loses
  /\ \/ rx' = Front(rx)
     \/ rx' = Append(Front(rx), Line(Noise))
  /\ UNCHANGED <<tx, fw, result, lastErrorCode>>

\* the module hangs or loses its power, and may start again by itself; what was
\* on its way to it is lost
Hang ==
  /\ Fault /\ fw.up /\ Loses
  /\ fw' = [fw EXCEPT !.up = FALSE, !.pending = <<>>, !.data = FALSE, !.slow = 0]
  /\ UNCHANGED <<rx, tx, result, lastErrorCode>>
Reboot ==
  /\ Fault /\ Loses
  /\ Restarts(Forgotten(Answer(<<Noise, "ready">>, 0)))
  /\ tx' = <<>>
  /\ UNCHANGED <<rx, result, lastErrorCode>>

\* the firmware does not read what was sent for longer than the timeout
Stall ==
  /\ Fault /\ Nothing /\ tx # <<>>
  /\ TimesOut([call EXCEPT !.clean = FALSE])

\* the firmware reports an event in the middle of an answer
Unasked ==
  /\ Fault /\ fw.up
  /\ \E text \in {"event", Noise} : rx' = Append(rx, Line(text))
  /\ UNCHANGED <<call, tx, fw, result, lastErrorCode>>

\* the microcontroller restarts and the firmware does not notice
McuRestart ==
  /\ Fault
  /\ call' = Idle /\ rx' = <<>> /\ result' = "none" /\ lastErrorCode' = "NO_ERROR"
  /\ fw' = [fw EXCEPT !.pending = Forgotten(@)]
  /\ tx' = Disowned(tx)

Init ==
  /\ call = Idle /\ rx = <<>> /\ tx = <<>>
  /\ fw \in [at1 : Versions, up : {TRUE}, pending : {<<>>}, data : {FALSE},
            slow : {0}, echo : {FALSE}]
  /\ result = "none" /\ lastErrorCode = "NO_ERROR" /\ faults = 0

Next ==
  \/ \E op \in Ops : Start(op)
  \/ ReadLine \/ Timeout
  \/ FwTake \/ FwEmit
  \/ LoseLine \/ Hang \/ Reboot \/ Stall \/ Unasked \/ McuRestart

\* The driver's loop runs, and a firmware that runs goes on with its work.
Fairness ==
  WF_vars(ReadLine \/ Timeout) /\ WF_vars(FwTake \/ FwEmit)

Spec == Init /\ [][Next]_vars /\ Fairness

-----------------------------------------------------------------------------
\* The words lines start with.
Words ==
  { "OK", "other", "ready", "AT version:", "+CWHOSTNAME", "+CIPDOMAIN",
    "+SYSTIMESTAMP", "STATUS", "+CIPSTATUS", "+CWLAP", "+CIPSTAMAC", "+CIPSTA",
    "+CIPDNS_CUR", "+CIPDNS", "+CWDHCP", "+CWJAP", "No AP", "+CIPAPMAC",
    "+CIPAP", "+CWSAP", "+CIPETHMAC", "+CIPETH", "+CEHOSTNAME", "CLOSED",
    "UNLINK", "+CWMODE", "ERROR", ">", "Recv ", "SEND ",
    "SEND OK", "SEND FAIL", "busy", "event" }

\* The place of a call is in its script, its counters within their limits, and
\* what is on its way to the firmware is a command or a probe.
TypeOK ==
  /\ rx \in Seq([text : Words, of : Nat, nth : Nat])
  /\ \A k \in DOMAIN tx : tx[k].what # "nothing"
  /\ result \in {"none", "ok", "fail"}
  /\ lastErrorCode \in {"NO_ERROR", "AT_ERROR", "NO_AP", "AT_NOT_RESPONDIG", "SEND"}
  /\ Waiting => /\ call.at \in DOMAIN call.script
                /\ call.read \in 1 .. Reads
                /\ call.timeout <= TimeoutCount /\ call.ignored <= MaxIgnored

\* The firmware waits for payload, or will as soon as it has said the prompt.
Prompted == fw.data \/ \E k \in DOMAIN fw.pending : fw.pending[k].text = ">"

\* The firmware gets the payload for payload and nothing else for it, and the call
\* does not give up between AT+CIPSEND and the payload, although there are probes,
\* echoes and unasked lines.  A probe that the prompt overtakes is the exception;
\* the call is not clean then.
PayloadOnly ==
  [][Waiting /\ call.clean /\ ~ call.lost =>
       \/ faults' # faults
       \/ /\ Prompted => Waiting'
          /\ tx # <<>> /\ tx' = Tail(tx) =>
               (Head(tx).what = "data" <=> fw.data) \/ ~ call'.clean]_vars

Returning(value) == Waiting /\ call' = Idle /\ result' = value

\* the commands of the script whose success the operation reports
Reported == { k \in DOMAIN call.script :
                call.script[k].matters /\ call.script[k].send # "nothing" }

\* An operation that reports success was obeyed: whatever is lost or in between,
\* and however often the firmware is probed, no OK or value of another command
\* is taken for its own, as long as the line is clean.
OwnAnswer == [][Returning("ok") /\ call.clean => Reported \subseteq call.obeyed]_vars

\* The same for every call, as the callers of the library's functions read it.
OwnAnswerAlways == [][Returning("ok") => Reported \subseteq call.obeyed]_vars

\* A query that succeeds has read every line of its answer in its own place: no
\* address is returned as another one because a line between them was lost.
FieldsExact ==
  [][/\ Returning("ok") /\ call.clean
     /\ \A k \in DOMAIN call.script : call.script[k].item = "none"
     => call.exact]_vars

\* A call that ends with success or with the firmware's ERROR leaves nothing of
\* its commands and answers behind that the next call could take for its own.
CleanEnd ==
  [][/\ Waiting /\ call' = Idle /\ result' # "none" /\ call.clean
     /\ lastErrorCode' \in {"NO_ERROR", "AT_ERROR"}
     => /\ \A k \in DOMAIN fw.pending : fw.pending[k].of = 0
        /\ \A k \in 2 .. Len(rx) : rx[k].of = 0
        /\ \A k \in DOMAIN tx : tx[k].of = 0]_vars

\* An operation fails with AT_ERROR only when the firmware refused one of its
\* commands or a line was lost, as long as the line is clean: the ERROR with
\* which a probe is answered says that the answer was lost, or that the probe
\* was overtaken by it.  The comment on probes in readRX() leaves out the second.
ErrorMeans ==
  [][Returning("fail") /\ call.clean /\ lastErrorCode' = "AT_ERROR"
      => call.refused # {} \/ call.lost]_vars

\* Every call of the driver returns, whatever the firmware does, except the
\* wait for "ready" after a restart, which has no end when that line is missed.
Restarting == call.script[1].send \in {"restart", "pin"}
CallEnds == Waiting /\ ~ Restarting ~> ~ Waiting
=============================================================================
