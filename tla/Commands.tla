------------------------------- MODULE Commands -------------------------------
(***************************************************************************)
(* What the operations of EspAtDrvClass say on the serial line: for every  *)
(* operation the commands it sends, the lines it waits for after each, and *)
(* what it does when one of them fails.  LineReader runs these scripts.    *)
(*                                                                         *)
(* A line is known by the words it starts with.  The values in the lines   *)
(* and the arguments of the commands are left out.  Not here are connect,  *)
(* recvData, recvLenQuery and remoteParamsQuery, which EspAtLinks models,  *)
(* nor recvDataWithInfo, which Udp does.                                   *)
(***************************************************************************)
EXTENDS Naturals, Sequences

CONSTANT AT1                     \* WIFIESPAT1: the firmware is AT 1.7, else AT 2

\* A command of a script:
\*   send    what is sent: a command, payload, what restarts, silences or stops
\*           the module, or nothing (the script goes on reading the answer)
\*   reads   the beginnings of the lines waited for, in this order
\*   answer  the lines with which the firmware answers when it obeys
\*   refusal the lines with which it may refuse; a restart is not refused
\*   item    "none", or the beginning of the items of a list that OK ends; they
\*           are read until `size' of them are there, then `reads' are
\*   need    items without which the operation fails
\*   fresh   maintain() is called before the command is sent
\*   matters its failure makes the operation fail
\*   error   "own", or what lastErrorCode is set to whatever the failure was
\*   skip    commands left out when it fails
\*   stop    a failed operation returns after it
Everything == 9
Ask(reads) ==
  [send |-> "command", reads |-> reads, answer |-> reads,
   refusal |-> {<<"ERROR">>}, item |-> "none", size |-> 0,
   need |-> 0, fresh |-> FALSE, matters |-> TRUE,
   error |-> "own", skip |-> Everything, stop |-> FALSE]

\* sendCommand(): the command is sent and OK is waited for
Order == Ask(<<"OK">>)

\* simpleCommand(): the same after maintain()
Simple == [Order EXCEPT !.fresh = TRUE]

\* a command or a line whose failure the operation does not look at
Try(c) == [c EXCEPT !.matters = FALSE, !.skip = 0]

\* the answer has lines that the driver does not wait for
Noise == "other"
With(c, answer) == [c EXCEPT !.answer = answer]

\* the operation reads on in the answer
Then(reads) == [Ask(reads) EXCEPT !.send = "nothing"]

List(item, size, need) ==
  [Order EXCEPT !.item = item, !.size = size, !.need = need,
                !.answer = <<item, item, "OK">>]

\* an operation whose first statement is maintain()
Fresh(script) == [script EXCEPT ![1].fresh = TRUE]

\* setWifiMode(): nothing when the mode is set already, else one command, in
\* AT 2 between two that turn the saving of settings and turn it back
SetWifiMode ==
  { <<>>, <<Order>> } \cup
  IF AT1 THEN {}
  ELSE { <<Order, [Order EXCEPT !.skip = 0], [Try(Order) EXCEPT !.stop = TRUE]>> }

\* the operation switches the mode first
InMode(script) == { Fresh(mode \o script) : mode \in SetWifiMode }

Query(words) == { Fresh(<<Ask(words)>>) }
Setting == { Fresh(<<Order>>) }

-----------------------------------------------------------------------------
(* The module, the clock and the names.                                    *)

firmwareVersion ==
  { Fresh(<<With(Ask(<<"AT version:", "OK">>),
                 <<"AT version:", Noise, Noise, "OK">>)>>) }

sysPersistent == IF AT1 THEN {} ELSE { <<Order>> }

\* the first command or the reset pin restarts the module
Restart(how, answer) ==
  [Try(With(Ask(<<"ready">>), answer)) EXCEPT !.send = how, !.refusal = {}]
AfterRestart ==
  <<[Simple EXCEPT !.send = "echo off"], Simple, Simple>> \o (IF AT1 THEN <<>> ELSE <<Try(Simple)>>)
  \o <<Ask(<<"+CWMODE", "OK">>)>>
reset == { Fresh(<<Restart("restart", <<"OK", Noise, "ready">>)>> \o AfterRestart) }
resetByPin == { Fresh(<<Restart("pin", <<Noise, "ready">>)>> \o AfterRestart) }

setHostname == InMode(<<Order>>)
hostnameQuery == Query(<<"+CWHOSTNAME", "OK">>)
mDNS == Setting
resolve == Query(<<"+CIPDOMAIN", "OK">>)
sntpCfg == Setting

SntpQuery == With(Ask(<<"+SYSTIMESTAMP">>), <<"+SYSTIMESTAMP", "OK">>)

\* Mutant: OK is left on the line.
sntpTimeOnly == { Fresh(<<SntpQuery>>) }

\* whether OK comes is not looked at
sntpTime == { Fresh(<<SntpQuery, Try(Then(<<"OK">>))>>) }
ping == Setting
sleepMode == Setting
deepSleep == { <<[Simple EXCEPT !.send = "sleep"]>> }
wifiOff == { Fresh(mode) : mode \in SetWifiMode \ {<<>>} }

-----------------------------------------------------------------------------
(* Station.                                                                *)

staStatus ==
  { Fresh(<<With(Ask(<<"STATUS", "OK">>), <<"STATUS", "+CIPSTATUS", "OK">>)>>) }

\* the networks are read until the caller's array is full; what is left of the
\* answer is then skipped up to OK
ScanSize == 2
listAP ==
  InMode(<<Simple, With(Try(List("+CWLAP", ScanSize, 0)),
                        <<"+CWLAP", "+CWLAP", "+CWLAP", "OK">>)>>)

staStaticIp == InMode(<<Order>>)

\* no maintain() before the mode is set; that DNS is set automatically is tried
staEnableDHCP == { mode \o <<Try(Simple), Simple>> : mode \in SetWifiMode }

setDNS == Setting
staMacQuery == Query(<<"+CIPSTAMAC", "OK">>)

\* Mutant: the gateway is not waited for.
staIpQueryTwoLines ==
  { Fresh(<<With(Ask(<<"+CIPSTA", "+CIPSTA", "OK">>),
                 <<"+CIPSTA", "+CIPSTA", "+CIPSTA", "OK">>)>>) }

staIpQuery == Query(<<"+CIPSTA", "+CIPSTA", "+CIPSTA", "OK">>)

\* AT 1 answers with one line or two, AT 2 with both servers in one line
dnsQuery ==
  IF AT1 THEN { Fresh(<<List("+CIPDNS_CUR", 2, 1)>>) }
  ELSE Query(<<"+CIPDNS", "OK">>)

dhcpStateQuery == Query(<<"+CWDHCP", "OK">>)

Join == { script \o autoconnect :
            script \in InMode(<<With(Order, <<Noise, Noise, "OK">>)>>),
            autoconnect \in {<<>>, <<Try(Simple)>>} }
joinAP == Join
joinEAP == IF AT1 THEN {} ELSE Join

\* no maintain() at its beginning
quitAP ==
  { <<Simple>>, <<Try(Simple), Simple>> } \cup
  IF AT1 THEN {} ELSE { <<Order, Try(Simple), Try(Order), Simple>> }

staAutoConnect == { <<Order>> }
\* "No AP" is an answer for itself, but OK comes after it
apQuery ==
  { Fresh(<<[Ask(<<"+CWJAP", "OK">>) EXCEPT !.refusal = {<<"ERROR">>, <<"No AP", "OK">>}]>>) }

-----------------------------------------------------------------------------
(* Soft AP.                                                                *)

\* the original mode is set again, whether the address was accepted or not
softApIp ==
  { Fresh(mode \o <<[Order EXCEPT !.skip = 0]>>
          \o [k \in DOMAIN mode |->
                [mode[k] EXCEPT !.matters = FALSE, !.stop = FALSE]]) :
      mode \in SetWifiMode }
softApMacQuery == Query(<<"+CIPAPMAC", "OK">>)
softApIpQuery == Query(<<"+CIPAP", "+CIPAP", "+CIPAP", "OK">>)
beginSoftAP == InMode(<<Order>>) \cup { Fresh(mode) : mode \in SetWifiMode \ {<<>>} }
endSoftAP == { Fresh(mode) : mode \in SetWifiMode \ {<<>>} }
softApQuery == Query(<<"+CWSAP", "OK">>)

-----------------------------------------------------------------------------
(* Ethernet and the server.                                                *)

ethSetMac == Setting
ethStaticIp == Setting
ethEnableDHCP == { <<Simple>> }
ethMacQuery == Query(<<"+CIPETHMAC", "OK">>)
ethIpQuery == Query(<<"+CIPETH", "+CIPETH", "+CIPETH", "OK">>)
setEthHostname == Setting
ethHostnameQuery == Query(<<"+CEHOSTNAME", "OK">>)

serverBegin == { Fresh(<<Order, Order, Order>>) }
serverEnd == { <<Simple>>}

-----------------------------------------------------------------------------
(* Links: the prompt of AT+CIPSEND, the list of AT+CIPSTATUS, and the      *)
(* firmware's bug in closing a link that is closed.                        *)

\* Mutant: the data are sent at OK.
PromptAtOK == With(Ask(<<"OK">>), <<"OK", ">">>)

Prompt == With(Ask(<<">">>), <<"OK", ">">>)
Data == [Ask(<<"Recv ">>) EXCEPT !.send = "data", !.answer = <<"Recv ", "SEND OK">>]
Result == Then(<<"SEND ">>)
sendData == { Fresh(<<Prompt, Data, Result>>) }

\* sendData(Stream&): as many sends as the file needs
SendError(c) == [c EXCEPT !.error = "SEND"]
Part == <<SendError(Prompt), Data, SendError(Result)>>
sendStream == { Fresh(Part), Fresh(Part \o Part) }

\* sendData(callback): what the callback printed is ended with \0
sendCallback == { Fresh(<<Prompt, Data, Result>>) }

checkLinks ==
  { Fresh(<<With(Ask(<<"STATUS">>), <<"STATUS", "+CIPSTATUS", "+CIPSTATUS", "OK">>),
            [Try(List("+CIPSTATUS", Everything, 0)) EXCEPT !.send = "nothing"]>>) }

close == { Fresh(<<With(Order, <<"CLOSED", "OK">>)>>),
           Fresh(<<With(Order, <<"UNLINK", "ERROR">>)>>),
           Fresh(<<Try(Order), Order>>) }

-----------------------------------------------------------------------------
Scripts ==
  [firmwareVersion |-> firmwareVersion, sysPersistent |-> sysPersistent,
   reset |-> reset, resetByPin |-> resetByPin, setHostname |-> setHostname,
   hostnameQuery |-> hostnameQuery, mDNS |-> mDNS, resolve |-> resolve,
   sntpCfg |-> sntpCfg, sntpTime |-> sntpTime, ping |-> ping,
   sleepMode |-> sleepMode, deepSleep |-> deepSleep, wifiOff |-> wifiOff,
   staStatus |-> staStatus, listAP |-> listAP, staStaticIp |-> staStaticIp,
   staEnableDHCP |-> staEnableDHCP, setDNS |-> setDNS,
   staMacQuery |-> staMacQuery, staIpQuery |-> staIpQuery,
   dnsQuery |-> dnsQuery, dhcpStateQuery |-> dhcpStateQuery,
   joinAP |-> joinAP, joinEAP |-> joinEAP, quitAP |-> quitAP,
   staAutoConnect |-> staAutoConnect, apQuery |-> apQuery,
   softApIp |-> softApIp, softApMacQuery |-> softApMacQuery,
   softApIpQuery |-> softApIpQuery, beginSoftAP |-> beginSoftAP,
   endSoftAP |-> endSoftAP, softApQuery |-> softApQuery,
   ethSetMac |-> ethSetMac, ethStaticIp |-> ethStaticIp,
   ethEnableDHCP |-> ethEnableDHCP, ethMacQuery |-> ethMacQuery,
   ethIpQuery |-> ethIpQuery, setEthHostname |-> setEthHostname,
   ethHostnameQuery |-> ethHostnameQuery, serverBegin |-> serverBegin,
   serverEnd |-> serverEnd, sendData |-> sendData, sendStream |-> sendStream,
   sendCallback |-> sendCallback, checkLinks |-> checkLinks, close |-> close]
=============================================================================
