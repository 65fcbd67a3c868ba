--------------------------- MODULE LineReader_proofs ---------------------------
(***************************************************************************)
(* Proofs about the line reader: the place of a call is in its script for  *)
(* every operation of the driver, and as long as the line is clean and     *)
(* nothing is lost the firmware gets payload only when it waits for it.    *)
(*                                                                         *)
(* What the proofs need of the 48 operations is that each of their scripts *)
(* is either plain, which means that no answer in it has a prompt, or one  *)
(* or two sends, prompt, payload and result.                               *)
(***************************************************************************)
EXTENDS LineReader, SequenceTheorems, FiniteSetTheorems, TLAPS

-----------------------------------------------------------------------------
(* The scripts.                                                            *)

\* the first words of the lines of answers, without those a send is about
Quiet ==
  { "OK", "other", "ready", "AT version:", "+CWHOSTNAME", "+CIPDOMAIN", "+SYSTIMESTAMP",
    "STATUS", "+CIPSTATUS", "+CWLAP", "+CIPSTAMAC", "+CIPSTA", "+CIPDNS_CUR", "+CIPDNS",
    "+CWDHCP", "+CWJAP", "No AP", "+CIPAPMAC", "+CIPAP", "+CWSAP", "+CIPETHMAC",
    "+CIPETH", "+CEHOSTNAME", "CLOSED", "UNLINK", "+CWMODE" }

\* ERROR is the last line of an answer.
Answers == Seq(Quiet) \cup {<<"ERROR">>, <<"UNLINK", "ERROR">>}

\* A command that is not payload and is not answered with a prompt.
Plain ==
  [send : {"command", "nothing", "restart", "pin", "echo off", "sleep"},
   reads : Seq(Quiet) \ {<<>>}, answer : Answers, refusal : SUBSET Answers, item : Quiet \cup {"none"}, size : Nat, need : Nat,
   fresh : BOOLEAN, matters : BOOLEAN, error : {"own", "SEND"}, skip : Nat, stop : BOOLEAN]
PlainScripts == Seq(Plain) \ {<<>>}

\* The three commands of a send.
SendPart(send, reads, answer) ==
  [send : {send}, reads : {reads}, answer : {answer}, refusal : {{<<"ERROR">>}}, item : {"none"},
   size : {0}, need : {0}, fresh : BOOLEAN, matters : {TRUE}, error : {"own", "SEND"},
   skip : {9}, stop : {FALSE}]
Prompts == SendPart("command", <<">">>, <<"OK", ">">>)
Datas   == SendPart("data", <<"Recv ">>, <<"Recv ", "SEND OK">>)
Results == SendPart("nothing", <<"SEND ">>, <<"SEND ">>)

\* One send, or two; the first begins with maintain().
SendCommands == Prompts \cup Datas \cup Results
Sends3(s) ==
  /\ Len(s) \in {3, 6}
  /\ \A k \in 1 .. Len(s) : s[k] \in IF k \in {1, 4} THEN Prompts
                                     ELSE IF k \in {2, 5} THEN Datas ELSE Results
SendScripts == { s \in Seq(SendCommands) : Sends3(s) /\ s[1].fresh }

AllScripts == PlainScripts \cup SendScripts

\* The first words of lines.
LEMMA QuietWords ==
  /\ "OK" \in Quiet /\ "other" \in Quiet /\ "ready" \in Quiet /\ "AT version:" \in Quiet
  /\ "+CWHOSTNAME" \in Quiet /\ "+CIPDOMAIN" \in Quiet /\ "+SYSTIMESTAMP" \in Quiet /\ "STATUS" \in Quiet
  /\ "+CIPSTATUS" \in Quiet /\ "+CWLAP" \in Quiet /\ "+CIPSTAMAC" \in Quiet /\ "+CIPSTA" \in Quiet
  /\ "+CIPDNS_CUR" \in Quiet /\ "+CIPDNS" \in Quiet /\ "+CWDHCP" \in Quiet /\ "+CWJAP" \in Quiet
  /\ "No AP" \in Quiet /\ "+CIPAPMAC" \in Quiet /\ "+CIPAP" \in Quiet /\ "+CWSAP" \in Quiet
  /\ "+CIPETHMAC" \in Quiet /\ "+CIPETH" \in Quiet /\ "+CEHOSTNAME" \in Quiet /\ "CLOSED" \in Quiet
  /\ "UNLINK" \in Quiet /\ "+CWMODE" \in Quiet
BY DEF Quiet

\* Sequences of words and of commands.
LEMMA Texts ==
  /\ \A a \in Quiet : <<a>> \in Seq(Quiet) \ {<<>>}
  /\ \A a, b \in Quiet : <<a, b>> \in Seq(Quiet) \ {<<>>}
  /\ \A a, b, c \in Quiet : <<a, b, c>> \in Seq(Quiet) \ {<<>>}
  /\ \A a, b, c, d \in Quiet : <<a, b, c, d>> \in Seq(Quiet) \ {<<>>}
OBVIOUS

\* Sequences of plain commands.
LEMMA Sequences ==
  /\ <<>> \in Seq(Plain)
  /\ \A c \in Plain : <<c>> \in PlainScripts
  /\ \A c, d \in Plain : <<c, d>> \in PlainScripts
  /\ \A c, d, e \in Plain : <<c, d, e>> \in PlainScripts
  /\ \A c, d, e, f \in Plain : <<c, d, e, f>> \in PlainScripts
  /\ \A s \in Seq(Plain), t \in PlainScripts : s \o t \in PlainScripts
  /\ \A t \in Seq(Plain), s \in PlainScripts : s \o t \in PlainScripts
  /\ \A s \in PlainScripts : s \in Seq(Plain)
BY DEF PlainScripts

\* A script with its commands changed.
LEMMA Changed ==
  ASSUME NEW s \in Seq(Plain), NEW t, DOMAIN t = DOMAIN s, t = [k \in DOMAIN s |-> t[k]],
         \A k \in DOMAIN s : t[k] \in Plain
  PROVE  t \in Seq(Plain)
<1>1. DOMAIN s = 1 .. Len(s) /\ Len(s) \in Nat
  BY LenProperties
<1>2. t \in [1 .. Len(s) -> Plain]
  BY <1>1
<1> QED
  BY <1>1, <1>2, SeqDef

\* The scripts of sends.
LEMMA SendParts ==
  ASSUME NEW a \in Prompts, NEW b \in Datas, NEW c \in Results, NEW s, s = <<a, b, c>>
  PROVE  /\ s \in Seq(SendCommands) /\ Sends3(s)
         /\ s \o s \in Seq(SendCommands) /\ Sends3(s \o s)
<1>1. {a, b, c} \subseteq SendCommands
  BY DEF SendCommands
<1>2. s \in Seq(SendCommands) /\ Len(s) = 3 /\ s[1] = a /\ s[2] = b /\ s[3] = c
  BY <1>1
<1>3. /\ s \o s \in Seq(SendCommands) /\ Len(s \o s) = 3 + 3
      /\ \A i \in 1 .. 3 + 3 : (s \o s)[i] = IF i <= 3 THEN s[i] ELSE s[i - 3]
  BY <1>2, ConcatProperties
<1> DEFINE t == s \o s
<1> HIDE DEF t
<1>4. t[1] = a /\ t[2] = b /\ t[3] = c /\ t[4] = a /\ t[5] = b /\ t[6] = c
  BY <1>2, <1>3 DEF t
<1>5. t \in Seq(SendCommands) /\ Sends3(t)
  BY <1>3, <1>4 DEF t, Sends3
<1> QED
  BY <1>2, <1>5 DEF Sends3, t

\* A send that begins with maintain() is one of the scripts.
LEMMA FreshSends ==
  ASSUME NEW s \in Seq(SendCommands), Sends3(s), NEW t, t = [s EXCEPT ![1].fresh = TRUE]
  PROVE  t \in SendScripts
<1> DEFINE d == [s[1] EXCEPT !.fresh = TRUE]
<1>1. 1 \in 1 .. Len(s) /\ s[1] \in Prompts
  BY DEF Sends3
<1>2. d \in Prompts /\ d.fresh
  BY <1>1 DEF Prompts, SendPart
<1>3. t = [s EXCEPT ![1] = d]
  OBVIOUS
<1> HIDE DEF d
<1>4. d \in SendCommands
  BY <1>2 DEF SendCommands
<1>5. t \in Seq(SendCommands) /\ Len(t) = Len(s) /\ t[1] = d /\ \A j \in 1 .. Len(s) : j # 1 => t[j] = s[j]
  <2>1. /\ [s EXCEPT ![1] = d] \in Seq(SendCommands) /\ Len([s EXCEPT ![1] = d]) = Len(s)
        /\ \A j \in 1 .. Len(s) : [s EXCEPT ![1] = d][j] = IF j = 1 THEN d ELSE s[j]
    BY <1>1, <1>4
  <2> QED BY <2>1, <1>1, <1>3
<1>6. Sends3(t)
  <2>1. \A k \in 1 .. Len(s) : t[k] \in IF k \in {1, 4} THEN Prompts
                                       ELSE IF k \in {2, 5} THEN Datas ELSE Results
    <3> SUFFICES ASSUME NEW k \in 1 .. Len(s)
                 PROVE  t[k] \in IF k \in {1, 4} THEN Prompts
                                 ELSE IF k \in {2, 5} THEN Datas ELSE Results
      OBVIOUS
    <3>1. CASE k = 1
      <4>1. t[k] \in Prompts
        BY <3>1, <1>2, <1>5
      <4> QED BY <3>1, <4>1
    <3>2. CASE k # 1
      BY <3>2, <1>5 DEF Sends3
    <3> QED BY <3>1, <3>2
  <2> QED BY <1>5, <2>1 DEF Sends3
<1> QED
  BY <1>1, <1>2, <1>5, <1>6 DEF SendScripts

\* The commands of the scripts, with AT 1.
LEMMA Commands1 ==
  /\ V1!Order \in Plain /\ V1!Simple \in Plain
  /\ \A r \in Seq(Quiet) \ {<<>>} : V1!Ask(r) \in Plain /\ V1!Then(r) \in Plain
  /\ \A c \in Plain, a \in Answers : V1!With(c, a) \in Plain
  /\ \A c \in Plain : V1!Try(c) \in Plain /\ [c EXCEPT !.skip = 0] \in Plain
  /\ \A c \in Plain : [c EXCEPT !.stop = TRUE] \in Plain
  /\ \A c \in Plain, s \in {"restart", "pin", "echo off", "sleep"} : [c EXCEPT !.send = s] \in Plain
  /\ \A item \in Quiet, size, need \in Nat : V1!List(item, size, need) \in Plain
<1>1. ASSUME NEW r \in Seq(Quiet) \ {<<>>} PROVE V1!Ask(r) \in Plain /\ V1!Then(r) \in Plain
  <2>1. {<<"ERROR">>} \in SUBSET Answers /\ r \in Answers
    BY DEF Answers
  <2>3. V1!Ask(r) \in Plain
    BY <2>1 DEF V1!Ask, V1!Everything, Plain
  <2> QED BY <2>3 DEF V1!Then, Plain
<1>2. <<"OK">> \in Seq(Quiet) \ {<<>>}
  BY QuietWords, Texts
<1>3. V1!Order \in Plain
  BY <1>1, <1>2 DEF V1!Order
<1>4. V1!Simple \in Plain
  BY <1>3 DEF V1!Simple, Plain
<1>5. \A c \in Plain, a \in Answers : V1!With(c, a) \in Plain
  BY DEF V1!With, Plain
<1>6. \A c \in Plain : V1!Try(c) \in Plain /\ [c EXCEPT !.skip = 0] \in Plain
  BY DEF V1!Try, Plain
<1>7. \A c \in Plain : [c EXCEPT !.stop = TRUE] \in Plain
  BY DEF Plain
<1>9. \A c \in Plain, s \in {"restart", "pin", "echo off", "sleep"} : [c EXCEPT !.send = s] \in Plain
  BY DEF Plain
<1>8. ASSUME NEW item \in Quiet, NEW size \in Nat, NEW need \in Nat
      PROVE  V1!List(item, size, need) \in Plain
  <2>1. <<item, item, "OK">> \in Answers
    BY QuietWords, Texts DEF Answers
  <2> QED BY <1>3, <2>1 DEF V1!List, Plain
<1> QED
  BY <1>1, <1>3, <1>4, <1>5, <1>6, <1>7, <1>8, <1>9

\* Operations that begin with maintain() or switch the mode, with AT 1.
LEMMA Starts1 ==
  /\ \A s \in PlainScripts : V1!Fresh(s) \in PlainScripts
  /\ V1!SetWifiMode \subseteq Seq(Plain)
  /\ \A s \in PlainScripts : V1!InMode(s) \subseteq PlainScripts
  /\ \A r \in Seq(Quiet) \ {<<>>} : V1!Query(r) \subseteq PlainScripts
  /\ V1!Setting \subseteq PlainScripts
<1>1. ASSUME NEW s \in PlainScripts PROVE V1!Fresh(s) \in PlainScripts
  <2>1. s \in Seq(Plain) /\ 1 \in 1 .. Len(s) /\ Len(s) > 0
    BY DEF PlainScripts
  <2>2. s[1] \in Plain
    BY <2>1, ElementOfSeq
  <2>3. [s[1] EXCEPT !.fresh = TRUE] \in Plain
    BY <2>2 DEF Plain
  <2>4. V1!Fresh(s) = [s EXCEPT ![1] = [s[1] EXCEPT !.fresh = TRUE]]
    BY DEF V1!Fresh
  <2>5. V1!Fresh(s) \in Seq(Plain) /\ Len(V1!Fresh(s)) = Len(s)
    BY <2>1, <2>3, <2>4, ExceptSeq
  <2> QED BY <2>1, <2>5 DEF PlainScripts
<1>2. V1!SetWifiMode \subseteq Seq(Plain)
  BY Commands1, Sequences DEF V1!SetWifiMode
<1>3. ASSUME NEW s \in PlainScripts PROVE V1!InMode(s) \subseteq PlainScripts
  BY <1>1, <1>2, Sequences DEF V1!InMode
<1>4. ASSUME NEW r \in Seq(Quiet) \ {<<>>} PROVE V1!Query(r) \subseteq PlainScripts
  BY <1>1, Commands1, Sequences DEF V1!Query
<1>5. V1!Setting \subseteq PlainScripts
  BY <1>1, Commands1, Sequences DEF V1!Setting
<1> QED
  BY <1>1, <1>2, <1>3, <1>4, <1>5

\* The commands of the scripts, with AT 2.
LEMMA Commands2 ==
  /\ V2!Order \in Plain /\ V2!Simple \in Plain
  /\ \A r \in Seq(Quiet) \ {<<>>} : V2!Ask(r) \in Plain /\ V2!Then(r) \in Plain
  /\ \A c \in Plain, a \in Answers : V2!With(c, a) \in Plain
  /\ \A c \in Plain : V2!Try(c) \in Plain /\ [c EXCEPT !.skip = 0] \in Plain
  /\ \A c \in Plain : [c EXCEPT !.stop = TRUE] \in Plain
  /\ \A c \in Plain, s \in {"restart", "pin", "echo off", "sleep"} : [c EXCEPT !.send = s] \in Plain
  /\ \A item \in Quiet, size, need \in Nat : V2!List(item, size, need) \in Plain
<1>1. ASSUME NEW r \in Seq(Quiet) \ {<<>>} PROVE V2!Ask(r) \in Plain /\ V2!Then(r) \in Plain
  <2>1. {<<"ERROR">>} \in SUBSET Answers /\ r \in Answers
    BY DEF Answers
  <2>3. V2!Ask(r) \in Plain
    BY <2>1 DEF V2!Ask, V2!Everything, Plain
  <2> QED BY <2>3 DEF V2!Then, Plain
<1>2. <<"OK">> \in Seq(Quiet) \ {<<>>}
  BY QuietWords, Texts
<1>3. V2!Order \in Plain
  BY <1>1, <1>2 DEF V2!Order
<1>4. V2!Simple \in Plain
  BY <1>3 DEF V2!Simple, Plain
<1>5. \A c \in Plain, a \in Answers : V2!With(c, a) \in Plain
  BY DEF V2!With, Plain
<1>6. \A c \in Plain : V2!Try(c) \in Plain /\ [c EXCEPT !.skip = 0] \in Plain
  BY DEF V2!Try, Plain
<1>7. \A c \in Plain : [c EXCEPT !.stop = TRUE] \in Plain
  BY DEF Plain
<1>9. \A c \in Plain, s \in {"restart", "pin", "echo off", "sleep"} : [c EXCEPT !.send = s] \in Plain
  BY DEF Plain
<1>8. ASSUME NEW item \in Quiet, NEW size \in Nat, NEW need \in Nat
      PROVE  V2!List(item, size, need) \in Plain
  <2>1. <<item, item, "OK">> \in Answers
    BY QuietWords, Texts DEF Answers
  <2> QED BY <1>3, <2>1 DEF V2!List, Plain
<1> QED
  BY <1>1, <1>3, <1>4, <1>5, <1>6, <1>7, <1>8, <1>9

\* Operations that begin with maintain() or switch the mode, with AT 2.
LEMMA Starts2 ==
  /\ \A s \in PlainScripts : V2!Fresh(s) \in PlainScripts
  /\ V2!SetWifiMode \subseteq Seq(Plain)
  /\ \A s \in PlainScripts : V2!InMode(s) \subseteq PlainScripts
  /\ \A r \in Seq(Quiet) \ {<<>>} : V2!Query(r) \subseteq PlainScripts
  /\ V2!Setting \subseteq PlainScripts
<1>1. ASSUME NEW s \in PlainScripts PROVE V2!Fresh(s) \in PlainScripts
  <2>1. s \in Seq(Plain) /\ 1 \in 1 .. Len(s) /\ Len(s) > 0
    BY DEF PlainScripts
  <2>2. s[1] \in Plain
    BY <2>1, ElementOfSeq
  <2>3. [s[1] EXCEPT !.fresh = TRUE] \in Plain
    BY <2>2 DEF Plain
  <2>4. V2!Fresh(s) = [s EXCEPT ![1] = [s[1] EXCEPT !.fresh = TRUE]]
    BY DEF V2!Fresh
  <2>5. V2!Fresh(s) \in Seq(Plain) /\ Len(V2!Fresh(s)) = Len(s)
    BY <2>1, <2>3, <2>4, ExceptSeq
  <2> QED BY <2>1, <2>5 DEF PlainScripts
<1>2. V2!SetWifiMode \subseteq Seq(Plain)
  <2>1. [V2!Order EXCEPT !.skip = 0] \in Plain /\ [V2!Try(V2!Order) EXCEPT !.stop = TRUE] \in Plain
    BY Commands2
  <2> QED BY <2>1, Commands2, Sequences DEF V2!SetWifiMode
<1>3. ASSUME NEW s \in PlainScripts PROVE V2!InMode(s) \subseteq PlainScripts
  BY <1>1, <1>2, Sequences DEF V2!InMode
<1>4. ASSUME NEW r \in Seq(Quiet) \ {<<>>} PROVE V2!Query(r) \subseteq PlainScripts
  BY <1>1, Commands2, Sequences DEF V2!Query
<1>5. V2!Setting \subseteq PlainScripts
  BY <1>1, Commands2, Sequences DEF V2!Setting
<1> QED
  BY <1>1, <1>2, <1>3, <1>4, <1>5

\* Queries, settings and what is like them.
LEMMA Simplest1 ==
  /\ \A s \in PlainScripts : {V1!Fresh(s)} \subseteq PlainScripts
  /\ \A mode \in V1!SetWifiMode \ {<<>>} : V1!Fresh(mode) \in PlainScripts
  /\ \A a, b \in Quiet : V1!Query(<<a, b>>) \subseteq PlainScripts
  /\ \A a \in Quiet : V1!Query(<<a, a, a, "OK">>) \subseteq PlainScripts
  /\ V1!InMode(<<V1!Order>>) \subseteq PlainScripts
  /\ <<V1!Simple>> \in PlainScripts /\ <<V1!Order>> \in PlainScripts
<1>1. V1!SetWifiMode \ {<<>>} \subseteq PlainScripts
  BY Starts1 DEF PlainScripts
<1>2. \A a, b \in Quiet : V1!Query(<<a, b>>) \subseteq PlainScripts
  BY Starts1, Texts
<1>3. \A a \in Quiet : V1!Query(<<a, a, a, "OK">>) \subseteq PlainScripts
  BY Starts1, Texts, QuietWords
<1> QED
  BY <1>1, <1>2, <1>3, Starts1, Commands1, Sequences

\* The operations of the module, with AT 1.
LEMMA ModuleScripts1 ==
  /\ V1!firmwareVersion \subseteq PlainScripts /\ V1!sysPersistent \subseteq PlainScripts
  /\ V1!reset \subseteq PlainScripts /\ V1!resetByPin \subseteq PlainScripts
  /\ V1!setHostname \subseteq PlainScripts /\ V1!hostnameQuery \subseteq PlainScripts
  /\ V1!mDNS \subseteq PlainScripts /\ V1!resolve \subseteq PlainScripts
  /\ V1!sntpCfg \subseteq PlainScripts /\ V1!sntpTime \subseteq PlainScripts
  /\ V1!ping \subseteq PlainScripts /\ V1!sleepMode \subseteq PlainScripts
  /\ V1!deepSleep \subseteq PlainScripts /\ V1!wifiOff \subseteq PlainScripts
<1>1. V1!firmwareVersion \subseteq PlainScripts
  <2>1. /\ <<"AT version:", "OK">> \in Seq(Quiet) \ {<<>>}
        /\ <<"AT version:", V1!Noise, V1!Noise, "OK">> \in Answers
    BY Texts, QuietWords DEF V1!Noise, Answers
  <2>2. V1!With(V1!Ask(<<"AT version:", "OK">>), <<"AT version:", V1!Noise, V1!Noise, "OK">>) \in Plain
    BY <2>1, Commands1
  <2> QED BY <2>2, Simplest1, Sequences DEF V1!firmwareVersion
<1>2. V1!sysPersistent \subseteq PlainScripts
  BY Simplest1 DEF V1!sysPersistent
<1>3. V1!AfterRestart \in PlainScripts
  <2>1. [V1!Simple EXCEPT !.send = "echo off"] \in Plain /\ V1!Try(V1!Simple) \in Plain
    BY Commands1
  <2>2. <<"+CWMODE", "OK">> \in Seq(Quiet) \ {<<>>}
    BY Texts, QuietWords
  <2>3. V1!Ask(<<"+CWMODE", "OK">>) \in Plain
    BY <2>2, Commands1
  <2>4. <<[V1!Simple EXCEPT !.send = "echo off"], V1!Simple, V1!Simple>> \in PlainScripts
    BY <2>1, Commands1, Sequences
  <2>5. <<V1!Ask(<<"+CWMODE", "OK">>)>> \in PlainScripts
    BY <2>3, Sequences
  <2> QED BY <2>4, <2>5, Sequences DEF V1!AfterRestart
<1>4. ASSUME NEW how \in {"restart", "pin"}, NEW a \in Answers
      PROVE  <<V1!Restart(how, a)>> \in PlainScripts
  <2>1. <<"ready">> \in Seq(Quiet) \ {<<>>}
    BY Texts, QuietWords
  <2>2. V1!Try(V1!With(V1!Ask(<<"ready">>), a)) \in Plain
    BY <2>1, Commands1
  <2>3. V1!Restart(how, a) \in Plain
    BY <2>2 DEF V1!Restart, Plain
  <2> QED BY <2>3, Sequences
<1>5. V1!reset \subseteq PlainScripts
  <2>1. <<"OK", V1!Noise, "ready">> \in Answers
    BY Texts, QuietWords DEF V1!Noise, Answers
  <2>2. <<V1!Restart("restart", <<"OK", V1!Noise, "ready">>)>> \in PlainScripts
    BY <1>4, <2>1
  <2> QED BY <1>3, <2>2, Simplest1, Sequences DEF V1!reset
<1>6. V1!resetByPin \subseteq PlainScripts
  <2>1. <<V1!Noise, "ready">> \in Answers
    BY Texts, QuietWords DEF V1!Noise, Answers
  <2>2. <<V1!Restart("pin", <<V1!Noise, "ready">>)>> \in PlainScripts
    BY <1>4, <2>1
  <2> QED BY <1>3, <2>2, Simplest1, Sequences DEF V1!resetByPin
<1>7. V1!setHostname \subseteq PlainScripts /\ V1!wifiOff \subseteq PlainScripts
  BY Simplest1 DEF V1!setHostname, V1!wifiOff
<1>8. V1!hostnameQuery \subseteq PlainScripts /\ V1!resolve \subseteq PlainScripts
  BY Simplest1, QuietWords DEF V1!hostnameQuery, V1!resolve
<1>9. /\ V1!mDNS \subseteq PlainScripts /\ V1!sntpCfg \subseteq PlainScripts
      /\ V1!ping \subseteq PlainScripts /\ V1!sleepMode \subseteq PlainScripts
  BY Starts1 DEF V1!mDNS, V1!sntpCfg, V1!ping, V1!sleepMode
<1>10. V1!sntpTime \subseteq PlainScripts
  <2>1. <<"+SYSTIMESTAMP">> \in Seq(Quiet) \ {<<>>} /\ <<"OK">> \in Seq(Quiet) \ {<<>>}
    BY Texts, QuietWords
  <2>2. <<"+SYSTIMESTAMP", "OK">> \in Answers
    BY Texts, QuietWords DEF Answers
  <2>3. V1!SntpQuery \in Plain /\ V1!Try(V1!Then(<<"OK">>)) \in Plain
    BY <2>1, <2>2, Commands1 DEF V1!SntpQuery
  <2> QED BY <2>3, Simplest1, Sequences DEF V1!sntpTime
<1>11. V1!deepSleep \subseteq PlainScripts
  <2>1. [V1!Simple EXCEPT !.send = "sleep"] \in Plain
    BY Commands1
  <2> QED BY <2>1, Sequences DEF V1!deepSleep
<1> QED
  BY <1>1, <1>2, <1>5, <1>6, <1>7, <1>8, <1>9, <1>10, <1>11

\* The operations of the station, with AT 1.
LEMMA StationScripts1 ==
  /\ V1!staStatus \subseteq PlainScripts /\ V1!listAP \subseteq PlainScripts
  /\ V1!staStaticIp \subseteq PlainScripts /\ V1!staEnableDHCP \subseteq PlainScripts
  /\ V1!setDNS \subseteq PlainScripts /\ V1!staMacQuery \subseteq PlainScripts
  /\ V1!staIpQuery \subseteq PlainScripts /\ V1!dnsQuery \subseteq PlainScripts
  /\ V1!dhcpStateQuery \subseteq PlainScripts /\ V1!joinAP \subseteq PlainScripts
  /\ V1!joinEAP \subseteq PlainScripts /\ V1!quitAP \subseteq PlainScripts
  /\ V1!staAutoConnect \subseteq PlainScripts /\ V1!apQuery \subseteq PlainScripts
<1>1. V1!staStatus \subseteq PlainScripts
  <2>1. /\ <<"STATUS", "OK">> \in Seq(Quiet) \ {<<>>}
        /\ <<"STATUS", "+CIPSTATUS", "OK">> \in Answers
    BY Texts, QuietWords DEF Answers
  <2>2. V1!With(V1!Ask(<<"STATUS", "OK">>), <<"STATUS", "+CIPSTATUS", "OK">>) \in Plain
    BY <2>1, Commands1
  <2> QED BY <2>2, Simplest1, Sequences DEF V1!staStatus
<1>2. V1!listAP \subseteq PlainScripts
  <2>1. <<"+CWLAP", "+CWLAP", "+CWLAP", "OK">> \in Answers
    BY Texts, QuietWords DEF Answers
  <2>2. V1!List("+CWLAP", V1!ScanSize, 0) \in Plain
    BY Commands1, QuietWords DEF V1!ScanSize
  <2>3. V1!With(V1!Try(V1!List("+CWLAP", V1!ScanSize, 0)), <<"+CWLAP", "+CWLAP", "+CWLAP", "OK">>) \in Plain
    BY <2>1, <2>2, Commands1
  <2>4. <<V1!Simple, V1!With(V1!Try(V1!List("+CWLAP", V1!ScanSize, 0)), <<"+CWLAP", "+CWLAP", "+CWLAP", "OK">>)>>
          \in PlainScripts
    BY <2>3, Commands1, Sequences
  <2> QED BY <2>4, Starts1 DEF V1!listAP
<1>3. V1!staStaticIp \subseteq PlainScripts /\ V1!setDNS \subseteq PlainScripts
  BY Simplest1, Starts1 DEF V1!staStaticIp, V1!setDNS
<1>4. V1!staEnableDHCP \subseteq PlainScripts
  <2>1. <<V1!Try(V1!Simple), V1!Simple>> \in PlainScripts
    BY Commands1, Sequences
  <2> QED BY <2>1, Starts1, Sequences DEF V1!staEnableDHCP
<1>5. /\ V1!staMacQuery \subseteq PlainScripts /\ V1!staIpQuery \subseteq PlainScripts
      /\ V1!dhcpStateQuery \subseteq PlainScripts
  BY Simplest1, QuietWords DEF V1!staMacQuery, V1!staIpQuery, V1!dhcpStateQuery
<1>6. V1!dnsQuery \subseteq PlainScripts
  <2>1. V1!List("+CIPDNS_CUR", 2, 1) \in Plain
    BY Commands1, QuietWords
  <2> QED BY <2>1, Simplest1, Sequences DEF V1!dnsQuery
<1>7. V1!Join \subseteq PlainScripts
  <2>1. <<V1!Noise, V1!Noise, "OK">> \in Answers
    BY Texts, QuietWords DEF V1!Noise, Answers
  <2>2. <<V1!With(V1!Order, <<V1!Noise, V1!Noise, "OK">>)>> \in PlainScripts
    BY <2>1, Commands1, Sequences
  <2>3. V1!InMode(<<V1!With(V1!Order, <<V1!Noise, V1!Noise, "OK">>)>>) \subseteq PlainScripts
    BY <2>2, Starts1
  <2>4. <<V1!Try(V1!Simple)>> \in Seq(Plain) /\ <<>> \in Seq(Plain)
    BY Commands1, Sequences
  <2>5. ASSUME NEW s \in V1!InMode(<<V1!With(V1!Order, <<V1!Noise, V1!Noise, "OK">>)>>),
               NEW a \in {<<>>, <<V1!Try(V1!Simple)>>}
        PROVE  s \o a \in PlainScripts
    BY <2>3, <2>4, Sequences
  <2>6. SUFFICES ASSUME NEW x \in V1!Join PROVE x \in PlainScripts
    OBVIOUS
  <2>7. PICK s \in V1!InMode(<<V1!With(V1!Order, <<V1!Noise, V1!Noise, "OK">>)>>),
             a \in {<<>>, <<V1!Try(V1!Simple)>>} : x = s \o a
    BY DEF V1!Join
  <2> QED BY <2>5, <2>7
<1>8. V1!joinAP \subseteq PlainScripts /\ V1!joinEAP \subseteq PlainScripts
  BY <1>7 DEF V1!joinAP, V1!joinEAP
<1>9. V1!quitAP \subseteq PlainScripts
  <2>1. V1!Try(V1!Simple) \in Plain /\ V1!Try(V1!Order) \in Plain
    BY Commands1
  <2>2. <<V1!Simple>> \in PlainScripts /\ <<V1!Try(V1!Simple), V1!Simple>> \in PlainScripts
    BY <2>1, Commands1, Sequences
  <2> QED BY <2>2 DEF V1!quitAP
<1>10. V1!staAutoConnect \subseteq PlainScripts
  BY Simplest1 DEF V1!staAutoConnect
<1>11. V1!apQuery \subseteq PlainScripts
  <2>1. <<"+CWJAP", "OK">> \in Seq(Quiet) \ {<<>>}
    BY Texts, QuietWords
  <2>2. <<"ERROR">> \in Answers /\ <<"No AP", "OK">> \in Answers
    BY Texts, QuietWords DEF Answers
  <2>3. V1!Ask(<<"+CWJAP", "OK">>) \in Plain
    BY <2>1, Commands1
  <2>4. [V1!Ask(<<"+CWJAP", "OK">>) EXCEPT !.refusal = {<<"ERROR">>, <<"No AP", "OK">>}] \in Plain
    BY <2>2, <2>3 DEF Plain
  <2> QED BY <2>4, Simplest1, Sequences DEF V1!apQuery
<1> QED
  BY <1>1, <1>2, <1>3, <1>4, <1>5, <1>6, <1>8, <1>9, <1>10, <1>11

\* Queries, settings and what is like them.
LEMMA Simplest2 ==
  /\ \A s \in PlainScripts : {V2!Fresh(s)} \subseteq PlainScripts
  /\ \A mode \in V2!SetWifiMode \ {<<>>} : V2!Fresh(mode) \in PlainScripts
  /\ \A a, b \in Quiet : V2!Query(<<a, b>>) \subseteq PlainScripts
  /\ \A a \in Quiet : V2!Query(<<a, a, a, "OK">>) \subseteq PlainScripts
  /\ V2!InMode(<<V2!Order>>) \subseteq PlainScripts
  /\ <<V2!Simple>> \in PlainScripts /\ <<V2!Order>> \in PlainScripts
<1>1. V2!SetWifiMode \ {<<>>} \subseteq PlainScripts
  BY Starts2 DEF PlainScripts
<1>2. \A a, b \in Quiet : V2!Query(<<a, b>>) \subseteq PlainScripts
  BY Starts2, Texts
<1>3. \A a \in Quiet : V2!Query(<<a, a, a, "OK">>) \subseteq PlainScripts
  BY Starts2, Texts, QuietWords
<1> QED
  BY <1>1, <1>2, <1>3, Starts2, Commands2, Sequences

\* The operations of the module, with AT 2.
LEMMA ModuleScripts2 ==
  /\ V2!firmwareVersion \subseteq PlainScripts /\ V2!sysPersistent \subseteq PlainScripts
  /\ V2!reset \subseteq PlainScripts /\ V2!resetByPin \subseteq PlainScripts
  /\ V2!setHostname \subseteq PlainScripts /\ V2!hostnameQuery \subseteq PlainScripts
  /\ V2!mDNS \subseteq PlainScripts /\ V2!resolve \subseteq PlainScripts
  /\ V2!sntpCfg \subseteq PlainScripts /\ V2!sntpTime \subseteq PlainScripts
  /\ V2!ping \subseteq PlainScripts /\ V2!sleepMode \subseteq PlainScripts
  /\ V2!deepSleep \subseteq PlainScripts /\ V2!wifiOff \subseteq PlainScripts
<1>1. V2!firmwareVersion \subseteq PlainScripts
  <2>1. /\ <<"AT version:", "OK">> \in Seq(Quiet) \ {<<>>}
        /\ <<"AT version:", V2!Noise, V2!Noise, "OK">> \in Answers
    BY Texts, QuietWords DEF V2!Noise, Answers
  <2>2. V2!With(V2!Ask(<<"AT version:", "OK">>), <<"AT version:", V2!Noise, V2!Noise, "OK">>) \in Plain
    BY <2>1, Commands2
  <2> QED BY <2>2, Simplest2, Sequences DEF V2!firmwareVersion
<1>2. V2!sysPersistent \subseteq PlainScripts
  BY Simplest2 DEF V2!sysPersistent
<1>3. V2!AfterRestart \in PlainScripts
  <2>1. [V2!Simple EXCEPT !.send = "echo off"] \in Plain /\ V2!Try(V2!Simple) \in Plain
    BY Commands2
  <2>2. <<"+CWMODE", "OK">> \in Seq(Quiet) \ {<<>>}
    BY Texts, QuietWords
  <2>3. V2!Ask(<<"+CWMODE", "OK">>) \in Plain
    BY <2>2, Commands2
  <2>4. <<[V2!Simple EXCEPT !.send = "echo off"], V2!Simple, V2!Simple>> \in PlainScripts
    BY <2>1, Commands2, Sequences
  <2>5. <<V2!Ask(<<"+CWMODE", "OK">>)>> \in PlainScripts
    BY <2>3, Sequences
  <2>6. <<V2!Try(V2!Simple)>> \in PlainScripts
    BY <2>1, Sequences
  <2> QED BY <2>4, <2>5, <2>6, Sequences DEF V2!AfterRestart
<1>4. ASSUME NEW how \in {"restart", "pin"}, NEW a \in Answers
      PROVE  <<V2!Restart(how, a)>> \in PlainScripts
  <2>1. <<"ready">> \in Seq(Quiet) \ {<<>>}
    BY Texts, QuietWords
  <2>2. V2!Try(V2!With(V2!Ask(<<"ready">>), a)) \in Plain
    BY <2>1, Commands2
  <2>3. V2!Restart(how, a) \in Plain
    BY <2>2 DEF V2!Restart, Plain
  <2> QED BY <2>3, Sequences
<1>5. V2!reset \subseteq PlainScripts
  <2>1. <<"OK", V2!Noise, "ready">> \in Answers
    BY Texts, QuietWords DEF V2!Noise, Answers
  <2>2. <<V2!Restart("restart", <<"OK", V2!Noise, "ready">>)>> \in PlainScripts
    BY <1>4, <2>1
  <2> QED BY <1>3, <2>2, Simplest2, Sequences DEF V2!reset
<1>6. V2!resetByPin \subseteq PlainScripts
  <2>1. <<V2!Noise, "ready">> \in Answers
    BY Texts, QuietWords DEF V2!Noise, Answers
  <2>2. <<V2!Restart("pin", <<V2!Noise, "ready">>)>> \in PlainScripts
    BY <1>4, <2>1
  <2> QED BY <1>3, <2>2, Simplest2, Sequences DEF V2!resetByPin
<1>7. V2!setHostname \subseteq PlainScripts /\ V2!wifiOff \subseteq PlainScripts
  BY Simplest2 DEF V2!setHostname, V2!wifiOff
<1>8. V2!hostnameQuery \subseteq PlainScripts /\ V2!resolve \subseteq PlainScripts
  BY Simplest2, QuietWords DEF V2!hostnameQuery, V2!resolve
<1>9. /\ V2!mDNS \subseteq PlainScripts /\ V2!sntpCfg \subseteq PlainScripts
      /\ V2!ping \subseteq PlainScripts /\ V2!sleepMode \subseteq PlainScripts
  BY Starts2 DEF V2!mDNS, V2!sntpCfg, V2!ping, V2!sleepMode
<1>10. V2!sntpTime \subseteq PlainScripts
  <2>1. <<"+SYSTIMESTAMP">> \in Seq(Quiet) \ {<<>>} /\ <<"OK">> \in Seq(Quiet) \ {<<>>}
    BY Texts, QuietWords
  <2>2. <<"+SYSTIMESTAMP", "OK">> \in Answers
    BY Texts, QuietWords DEF Answers
  <2>3. V2!SntpQuery \in Plain /\ V2!Try(V2!Then(<<"OK">>)) \in Plain
    BY <2>1, <2>2, Commands2 DEF V2!SntpQuery
  <2> QED BY <2>3, Simplest2, Sequences DEF V2!sntpTime
<1>11. V2!deepSleep \subseteq PlainScripts
  <2>1. [V2!Simple EXCEPT !.send = "sleep"] \in Plain
    BY Commands2
  <2> QED BY <2>1, Sequences DEF V2!deepSleep
<1> QED
  BY <1>1, <1>2, <1>5, <1>6, <1>7, <1>8, <1>9, <1>10, <1>11

\* The operations of the station, with AT 2.
LEMMA StationScripts2 ==
  /\ V2!staStatus \subseteq PlainScripts /\ V2!listAP \subseteq PlainScripts
  /\ V2!staStaticIp \subseteq PlainScripts /\ V2!staEnableDHCP \subseteq PlainScripts
  /\ V2!setDNS \subseteq PlainScripts /\ V2!staMacQuery \subseteq PlainScripts
  /\ V2!staIpQuery \subseteq PlainScripts /\ V2!dnsQuery \subseteq PlainScripts
  /\ V2!dhcpStateQuery \subseteq PlainScripts /\ V2!joinAP \subseteq PlainScripts
  /\ V2!joinEAP \subseteq PlainScripts /\ V2!quitAP \subseteq PlainScripts
  /\ V2!staAutoConnect \subseteq PlainScripts /\ V2!apQuery \subseteq PlainScripts
<1>1. V2!staStatus \subseteq PlainScripts
  <2>1. /\ <<"STATUS", "OK">> \in Seq(Quiet) \ {<<>>}
        /\ <<"STATUS", "+CIPSTATUS", "OK">> \in Answers
    BY Texts, QuietWords DEF Answers
  <2>2. V2!With(V2!Ask(<<"STATUS", "OK">>), <<"STATUS", "+CIPSTATUS", "OK">>) \in Plain
    BY <2>1, Commands2
  <2> QED BY <2>2, Simplest2, Sequences DEF V2!staStatus
<1>2. V2!listAP \subseteq PlainScripts
  <2>1. <<"+CWLAP", "+CWLAP", "+CWLAP", "OK">> \in Answers
    BY Texts, QuietWords DEF Answers
  <2>2. V2!List("+CWLAP", V2!ScanSize, 0) \in Plain
    BY Commands2, QuietWords DEF V2!ScanSize
  <2>3. V2!With(V2!Try(V2!List("+CWLAP", V2!ScanSize, 0)), <<"+CWLAP", "+CWLAP", "+CWLAP", "OK">>) \in Plain
    BY <2>1, <2>2, Commands2
  <2>4. <<V2!Simple, V2!With(V2!Try(V2!List("+CWLAP", V2!ScanSize, 0)), <<"+CWLAP", "+CWLAP", "+CWLAP", "OK">>)>>
          \in PlainScripts
    BY <2>3, Commands2, Sequences
  <2> QED BY <2>4, Starts2 DEF V2!listAP
<1>3. V2!staStaticIp \subseteq PlainScripts /\ V2!setDNS \subseteq PlainScripts
  BY Simplest2, Starts2 DEF V2!staStaticIp, V2!setDNS
<1>4. V2!staEnableDHCP \subseteq PlainScripts
  <2>1. <<V2!Try(V2!Simple), V2!Simple>> \in PlainScripts
    BY Commands2, Sequences
  <2> QED BY <2>1, Starts2, Sequences DEF V2!staEnableDHCP
<1>5. /\ V2!staMacQuery \subseteq PlainScripts /\ V2!staIpQuery \subseteq PlainScripts
      /\ V2!dhcpStateQuery \subseteq PlainScripts
  BY Simplest2, QuietWords DEF V2!staMacQuery, V2!staIpQuery, V2!dhcpStateQuery
<1>6. V2!dnsQuery \subseteq PlainScripts
  BY Simplest2, QuietWords DEF V2!dnsQuery
<1>7. V2!Join \subseteq PlainScripts
  <2>1. <<V2!Noise, V2!Noise, "OK">> \in Answers
    BY Texts, QuietWords DEF V2!Noise, Answers
  <2>2. <<V2!With(V2!Order, <<V2!Noise, V2!Noise, "OK">>)>> \in PlainScripts
    BY <2>1, Commands2, Sequences
  <2>3. V2!InMode(<<V2!With(V2!Order, <<V2!Noise, V2!Noise, "OK">>)>>) \subseteq PlainScripts
    BY <2>2, Starts2
  <2>4. <<V2!Try(V2!Simple)>> \in Seq(Plain) /\ <<>> \in Seq(Plain)
    BY Commands2, Sequences
  <2>5. ASSUME NEW s \in V2!InMode(<<V2!With(V2!Order, <<V2!Noise, V2!Noise, "OK">>)>>),
               NEW a \in {<<>>, <<V2!Try(V2!Simple)>>}
        PROVE  s \o a \in PlainScripts
    BY <2>3, <2>4, Sequences
  <2>6. SUFFICES ASSUME NEW x \in V2!Join PROVE x \in PlainScripts
    OBVIOUS
  <2>7. PICK s \in V2!InMode(<<V2!With(V2!Order, <<V2!Noise, V2!Noise, "OK">>)>>),
             a \in {<<>>, <<V2!Try(V2!Simple)>>} : x = s \o a
    BY DEF V2!Join
  <2> QED BY <2>5, <2>7
<1>8. V2!joinAP \subseteq PlainScripts /\ V2!joinEAP \subseteq PlainScripts
  BY <1>7 DEF V2!joinAP, V2!joinEAP
<1>9. V2!quitAP \subseteq PlainScripts
  <2>1. V2!Try(V2!Simple) \in Plain /\ V2!Try(V2!Order) \in Plain
    BY Commands2
  <2>2. <<V2!Simple>> \in PlainScripts /\ <<V2!Try(V2!Simple), V2!Simple>> \in PlainScripts
    BY <2>1, Commands2, Sequences
  <2>3. <<V2!Order, V2!Try(V2!Simple), V2!Try(V2!Order), V2!Simple>> \in PlainScripts
    BY <2>1, Commands2, Sequences
  <2> QED BY <2>2, <2>3 DEF V2!quitAP
<1>10. V2!staAutoConnect \subseteq PlainScripts
  BY Simplest2 DEF V2!staAutoConnect
<1>11. V2!apQuery \subseteq PlainScripts
  <2>1. <<"+CWJAP", "OK">> \in Seq(Quiet) \ {<<>>}
    BY Texts, QuietWords
  <2>2. <<"ERROR">> \in Answers /\ <<"No AP", "OK">> \in Answers
    BY Texts, QuietWords DEF Answers
  <2>3. V2!Ask(<<"+CWJAP", "OK">>) \in Plain
    BY <2>1, Commands2
  <2>4. [V2!Ask(<<"+CWJAP", "OK">>) EXCEPT !.refusal = {<<"ERROR">>, <<"No AP", "OK">>}] \in Plain
    BY <2>2, <2>3 DEF Plain
  <2> QED BY <2>4, Simplest2, Sequences DEF V2!apQuery
<1> QED
  BY <1>1, <1>2, <1>3, <1>4, <1>5, <1>6, <1>8, <1>9, <1>10, <1>11

\* The operations of the soft AP and of Ethernet, with AT 1.
LEMMA AccessScripts1 ==
  /\ V1!softApIp \subseteq PlainScripts /\ V1!softApMacQuery \subseteq PlainScripts
  /\ V1!softApIpQuery \subseteq PlainScripts /\ V1!beginSoftAP \subseteq PlainScripts
  /\ V1!endSoftAP \subseteq PlainScripts /\ V1!softApQuery \subseteq PlainScripts
  /\ V1!ethSetMac \subseteq PlainScripts /\ V1!ethStaticIp \subseteq PlainScripts
  /\ V1!ethEnableDHCP \subseteq PlainScripts /\ V1!ethMacQuery \subseteq PlainScripts
  /\ V1!ethIpQuery \subseteq PlainScripts /\ V1!setEthHostname \subseteq PlainScripts
  /\ V1!ethHostnameQuery \subseteq PlainScripts /\ V1!serverBegin \subseteq PlainScripts
  /\ V1!serverEnd \subseteq PlainScripts
<1>1. V1!softApIp \subseteq PlainScripts
  <2> SUFFICES ASSUME NEW mode \in V1!SetWifiMode, NEW back,
                      back = [k \in DOMAIN mode |-> [mode[k] EXCEPT !.matters = FALSE, !.stop = FALSE]]
               PROVE  V1!Fresh(mode \o <<[V1!Order EXCEPT !.skip = 0]>> \o back) \in PlainScripts
    BY DEF V1!softApIp
  <2>1. mode \in Seq(Plain)
    BY Starts1
  <2>2. back \in Seq(Plain)
    <3>1. \A k \in DOMAIN mode : mode[k] \in Plain
      BY <2>1, ElementOfSeq, LenProperties
    <3>2. ASSUME NEW k \in DOMAIN mode PROVE back[k] \in Plain
      <4>1. [mode[k] EXCEPT !.matters = FALSE, !.stop = FALSE] \in Plain
        BY <3>1 DEF Plain
      <4> QED BY <4>1
    <3> QED BY <2>1, <3>2, Changed
  <2>3. <<[V1!Order EXCEPT !.skip = 0]>> \in PlainScripts
    BY Commands1, Sequences
  <2>4. mode \o <<[V1!Order EXCEPT !.skip = 0]>> \in PlainScripts
    BY <2>1, <2>3, Sequences
  <2>5. mode \o <<[V1!Order EXCEPT !.skip = 0]>> \o back \in PlainScripts
    BY <2>2, <2>4, Sequences
  <2> QED BY <2>5, Starts1
<1>2. /\ V1!softApMacQuery \subseteq PlainScripts /\ V1!softApQuery \subseteq PlainScripts
      /\ V1!ethMacQuery \subseteq PlainScripts /\ V1!ethHostnameQuery \subseteq PlainScripts
  BY Simplest1, QuietWords DEF V1!softApMacQuery, V1!softApQuery, V1!ethMacQuery, V1!ethHostnameQuery
<1>3. V1!softApIpQuery \subseteq PlainScripts /\ V1!ethIpQuery \subseteq PlainScripts
  BY Simplest1, QuietWords DEF V1!softApIpQuery, V1!ethIpQuery
<1>4. V1!beginSoftAP \subseteq PlainScripts /\ V1!endSoftAP \subseteq PlainScripts
  BY Simplest1 DEF V1!beginSoftAP, V1!endSoftAP
<1>5. /\ V1!ethSetMac \subseteq PlainScripts /\ V1!ethStaticIp \subseteq PlainScripts
      /\ V1!setEthHostname \subseteq PlainScripts
  BY Starts1 DEF V1!ethSetMac, V1!ethStaticIp, V1!setEthHostname
<1>6. V1!ethEnableDHCP \subseteq PlainScripts /\ V1!serverEnd \subseteq PlainScripts
  BY Simplest1 DEF V1!ethEnableDHCP, V1!serverEnd
<1>7. V1!serverBegin \subseteq PlainScripts
  <2>1. <<V1!Order, V1!Order, V1!Order>> \in PlainScripts
    BY Commands1, Sequences
  <2> QED BY <2>1, Simplest1 DEF V1!serverBegin
<1> QED
  BY <1>1, <1>2, <1>3, <1>4, <1>5, <1>6, <1>7

\* The operations on links, with AT 1.
LEMMA LinkScripts1 ==
  /\ V1!checkLinks \subseteq PlainScripts /\ V1!close \subseteq PlainScripts
  /\ V1!sendData \subseteq SendScripts /\ V1!sendStream \subseteq SendScripts
  /\ V1!sendCallback \subseteq SendScripts
<1>1. V1!checkLinks \subseteq PlainScripts
  <2>1. /\ <<"STATUS">> \in Seq(Quiet) \ {<<>>}
        /\ <<"STATUS", "+CIPSTATUS", "+CIPSTATUS", "OK">> \in Answers
    BY Texts, QuietWords DEF Answers
  <2>2. V1!With(V1!Ask(<<"STATUS">>), <<"STATUS", "+CIPSTATUS", "+CIPSTATUS", "OK">>) \in Plain
    BY <2>1, Commands1
  <2>3. V1!Everything \in Nat
    BY DEF V1!Everything
  <2>4. V1!Try(V1!List("+CIPSTATUS", V1!Everything, 0)) \in Plain
    BY <2>3, Commands1, QuietWords
  <2>5. [V1!Try(V1!List("+CIPSTATUS", V1!Everything, 0)) EXCEPT !.send = "nothing"] \in Plain
    BY <2>4 DEF Plain
  <2> QED BY <2>2, <2>5, Simplest1, Sequences DEF V1!checkLinks
<1>2. V1!close \subseteq PlainScripts
  <2>1. <<"CLOSED", "OK">> \in Answers /\ <<"UNLINK", "ERROR">> \in Answers
    BY Texts, QuietWords DEF Answers
  <2>2. /\ <<V1!With(V1!Order, <<"CLOSED", "OK">>)>> \in PlainScripts
        /\ <<V1!With(V1!Order, <<"UNLINK", "ERROR">>)>> \in PlainScripts
        /\ <<V1!Try(V1!Order), V1!Order>> \in PlainScripts
    BY <2>1, Commands1, Sequences
  <2> QED BY <2>2, Simplest1 DEF V1!close
<1>3. V1!Prompt \in Prompts /\ V1!Data \in Datas /\ V1!Result \in Results
  BY DEF V1!Prompt, V1!Data, V1!Result, V1!With, V1!Then, V1!Ask, V1!Everything,
         Prompts, Datas, Results, SendPart
<1>4. /\ \A c \in Prompts : V1!SendError(c) \in Prompts /\ [c EXCEPT !.fresh = TRUE] \in Prompts
      /\ \A c \in Prompts : [c EXCEPT !.fresh = TRUE].fresh
      /\ \A c \in Results : V1!SendError(c) \in Results
  BY DEF V1!SendError, Prompts, Results, SendPart
<1>5. ASSUME NEW a \in Prompts, NEW b \in Datas, NEW c \in Results
      PROVE  V1!Fresh(<<a, b, c>>) \in SendScripts /\ V1!Fresh(<<a, b, c>> \o <<a, b, c>>) \in SendScripts
  BY SendParts, FreshSends DEF V1!Fresh
<1>6. V1!sendData \subseteq SendScripts /\ V1!sendCallback \subseteq SendScripts
  BY <1>3, <1>5 DEF V1!sendData, V1!sendCallback
<1>7. V1!sendStream \subseteq SendScripts
  BY <1>3, <1>4, <1>5 DEF V1!sendStream, V1!Part
<1> QED
  BY <1>1, <1>2, <1>6, <1>7

\* Every operation has scripts of the two kinds.
LEMMA Scripts1 ==
  ASSUME NEW op \in DOMAIN V1!Scripts
  PROVE  V1!Scripts[op] \subseteq AllScripts
<1>1. op \in {"firmwareVersion", "sysPersistent", "reset", "resetByPin", "setHostname",
        "hostnameQuery", "mDNS", "resolve", "sntpCfg", "sntpTime", "ping", "sleepMode",
        "deepSleep", "wifiOff"}
        => V1!Scripts[op] \subseteq AllScripts
  <2>1. op = "firmwareVersion" => V1!Scripts[op] = V1!firmwareVersion
    BY DEF V1!Scripts
  <2>2. op = "sysPersistent" => V1!Scripts[op] = V1!sysPersistent
    BY DEF V1!Scripts
  <2>3. op = "reset" => V1!Scripts[op] = V1!reset
    BY DEF V1!Scripts
  <2>4. op = "resetByPin" => V1!Scripts[op] = V1!resetByPin
    BY DEF V1!Scripts
  <2>5. op = "setHostname" => V1!Scripts[op] = V1!setHostname
    BY DEF V1!Scripts
  <2>6. op = "hostnameQuery" => V1!Scripts[op] = V1!hostnameQuery
    BY DEF V1!Scripts
  <2>7. op = "mDNS" => V1!Scripts[op] = V1!mDNS
    BY DEF V1!Scripts
  <2>8. op = "resolve" => V1!Scripts[op] = V1!resolve
    BY DEF V1!Scripts
  <2>9. op = "sntpCfg" => V1!Scripts[op] = V1!sntpCfg
    BY DEF V1!Scripts
  <2>10. op = "sntpTime" => V1!Scripts[op] = V1!sntpTime
    BY DEF V1!Scripts
  <2>11. op = "ping" => V1!Scripts[op] = V1!ping
    BY DEF V1!Scripts
  <2>12. op = "sleepMode" => V1!Scripts[op] = V1!sleepMode
    BY DEF V1!Scripts
  <2>13. op = "deepSleep" => V1!Scripts[op] = V1!deepSleep
    BY DEF V1!Scripts
  <2>14. op = "wifiOff" => V1!Scripts[op] = V1!wifiOff
    BY DEF V1!Scripts
  <2> QED BY <2>1, <2>2, <2>3, <2>4, <2>5, <2>6, <2>7, <2>8, <2>9, <2>10, <2>11, <2>12, <2>13, <2>14, ModuleScripts1 DEF AllScripts
<1>2. op \in {"staStatus", "listAP", "staStaticIp", "staEnableDHCP", "setDNS", "staMacQuery",
        "staIpQuery", "dnsQuery", "dhcpStateQuery", "joinAP", "joinEAP", "quitAP",
        "staAutoConnect", "apQuery"}
        => V1!Scripts[op] \subseteq AllScripts
  <2>1. op = "staStatus" => V1!Scripts[op] = V1!staStatus
    BY DEF V1!Scripts
  <2>2. op = "listAP" => V1!Scripts[op] = V1!listAP
    BY DEF V1!Scripts
  <2>3. op = "staStaticIp" => V1!Scripts[op] = V1!staStaticIp
    BY DEF V1!Scripts
  <2>4. op = "staEnableDHCP" => V1!Scripts[op] = V1!staEnableDHCP
    BY DEF V1!Scripts
  <2>5. op = "setDNS" => V1!Scripts[op] = V1!setDNS
    BY DEF V1!Scripts
  <2>6. op = "staMacQuery" => V1!Scripts[op] = V1!staMacQuery
    BY DEF V1!Scripts
  <2>7. op = "staIpQuery" => V1!Scripts[op] = V1!staIpQuery
    BY DEF V1!Scripts
  <2>8. op = "dnsQuery" => V1!Scripts[op] = V1!dnsQuery
    BY DEF V1!Scripts
  <2>9. op = "dhcpStateQuery" => V1!Scripts[op] = V1!dhcpStateQuery
    BY DEF V1!Scripts
  <2>10. op = "joinAP" => V1!Scripts[op] = V1!joinAP
    BY DEF V1!Scripts
  <2>11. op = "joinEAP" => V1!Scripts[op] = V1!joinEAP
    BY DEF V1!Scripts
  <2>12. op = "quitAP" => V1!Scripts[op] = V1!quitAP
    BY DEF V1!Scripts
  <2>13. op = "staAutoConnect" => V1!Scripts[op] = V1!staAutoConnect
    BY DEF V1!Scripts
  <2>14. op = "apQuery" => V1!Scripts[op] = V1!apQuery
    BY DEF V1!Scripts
  <2> QED BY <2>1, <2>2, <2>3, <2>4, <2>5, <2>6, <2>7, <2>8, <2>9, <2>10, <2>11, <2>12, <2>13, <2>14, StationScripts1 DEF AllScripts
<1>3. op \in {"softApIp", "softApMacQuery", "softApIpQuery", "beginSoftAP", "endSoftAP",
        "softApQuery", "ethSetMac", "ethStaticIp", "ethEnableDHCP", "ethMacQuery",
        "ethIpQuery", "setEthHostname", "ethHostnameQuery", "serverBegin", "serverEnd"}
        => V1!Scripts[op] \subseteq AllScripts
  <2>1. op = "softApIp" => V1!Scripts[op] = V1!softApIp
    BY DEF V1!Scripts
  <2>2. op = "softApMacQuery" => V1!Scripts[op] = V1!softApMacQuery
    BY DEF V1!Scripts
  <2>3. op = "softApIpQuery" => V1!Scripts[op] = V1!softApIpQuery
    BY DEF V1!Scripts
  <2>4. op = "beginSoftAP" => V1!Scripts[op] = V1!beginSoftAP
    BY DEF V1!Scripts
  <2>5. op = "endSoftAP" => V1!Scripts[op] = V1!endSoftAP
    BY DEF V1!Scripts
  <2>6. op = "softApQuery" => V1!Scripts[op] = V1!softApQuery
    BY DEF V1!Scripts
  <2>7. op = "ethSetMac" => V1!Scripts[op] = V1!ethSetMac
    BY DEF V1!Scripts
  <2>8. op = "ethStaticIp" => V1!Scripts[op] = V1!ethStaticIp
    BY DEF V1!Scripts
  <2>9. op = "ethEnableDHCP" => V1!Scripts[op] = V1!ethEnableDHCP
    BY DEF V1!Scripts
  <2>10. op = "ethMacQuery" => V1!Scripts[op] = V1!ethMacQuery
    BY DEF V1!Scripts
  <2>11. op = "ethIpQuery" => V1!Scripts[op] = V1!ethIpQuery
    BY DEF V1!Scripts
  <2>12. op = "setEthHostname" => V1!Scripts[op] = V1!setEthHostname
    BY DEF V1!Scripts
  <2>13. op = "ethHostnameQuery" => V1!Scripts[op] = V1!ethHostnameQuery
    BY DEF V1!Scripts
  <2>14. op = "serverBegin" => V1!Scripts[op] = V1!serverBegin
    BY DEF V1!Scripts
  <2>15. op = "serverEnd" => V1!Scripts[op] = V1!serverEnd
    BY DEF V1!Scripts
  <2> QED BY <2>1, <2>2, <2>3, <2>4, <2>5, <2>6, <2>7, <2>8, <2>9, <2>10, <2>11, <2>12, <2>13, <2>14, <2>15, AccessScripts1 DEF AllScripts
<1>4. op \in {"sendData", "sendStream", "sendCallback", "checkLinks", "close"}
        => V1!Scripts[op] \subseteq AllScripts
  <2>1. op = "sendData" => V1!Scripts[op] = V1!sendData
    BY DEF V1!Scripts
  <2>2. op = "sendStream" => V1!Scripts[op] = V1!sendStream
    BY DEF V1!Scripts
  <2>3. op = "sendCallback" => V1!Scripts[op] = V1!sendCallback
    BY DEF V1!Scripts
  <2>4. op = "checkLinks" => V1!Scripts[op] = V1!checkLinks
    BY DEF V1!Scripts
  <2>5. op = "close" => V1!Scripts[op] = V1!close
    BY DEF V1!Scripts
  <2> QED BY <2>1, <2>2, <2>3, <2>4, <2>5, LinkScripts1 DEF AllScripts
<1> QED
  BY <1>1, <1>2, <1>3, <1>4 DEF V1!Scripts
\* The operations of the soft AP and of Ethernet, with AT 2.
LEMMA AccessScripts2 ==
  /\ V2!softApIp \subseteq PlainScripts /\ V2!softApMacQuery \subseteq PlainScripts
  /\ V2!softApIpQuery \subseteq PlainScripts /\ V2!beginSoftAP \subseteq PlainScripts
  /\ V2!endSoftAP \subseteq PlainScripts /\ V2!softApQuery \subseteq PlainScripts
  /\ V2!ethSetMac \subseteq PlainScripts /\ V2!ethStaticIp \subseteq PlainScripts
  /\ V2!ethEnableDHCP \subseteq PlainScripts /\ V2!ethMacQuery \subseteq PlainScripts
  /\ V2!ethIpQuery \subseteq PlainScripts /\ V2!setEthHostname \subseteq PlainScripts
  /\ V2!ethHostnameQuery \subseteq PlainScripts /\ V2!serverBegin \subseteq PlainScripts
  /\ V2!serverEnd \subseteq PlainScripts
<1>1. V2!softApIp \subseteq PlainScripts
  <2> SUFFICES ASSUME NEW mode \in V2!SetWifiMode, NEW back,
                      back = [k \in DOMAIN mode |-> [mode[k] EXCEPT !.matters = FALSE, !.stop = FALSE]]
               PROVE  V2!Fresh(mode \o <<[V2!Order EXCEPT !.skip = 0]>> \o back) \in PlainScripts
    BY DEF V2!softApIp
  <2>1. mode \in Seq(Plain)
    BY Starts2
  <2>2. back \in Seq(Plain)
    <3>1. \A k \in DOMAIN mode : mode[k] \in Plain
      BY <2>1, ElementOfSeq, LenProperties
    <3>2. ASSUME NEW k \in DOMAIN mode PROVE back[k] \in Plain
      <4>1. [mode[k] EXCEPT !.matters = FALSE, !.stop = FALSE] \in Plain
        BY <3>1 DEF Plain
      <4> QED BY <4>1
    <3> QED BY <2>1, <3>2, Changed
  <2>3. <<[V2!Order EXCEPT !.skip = 0]>> \in PlainScripts
    BY Commands2, Sequences
  <2>4. mode \o <<[V2!Order EXCEPT !.skip = 0]>> \in PlainScripts
    BY <2>1, <2>3, Sequences
  <2>5. mode \o <<[V2!Order EXCEPT !.skip = 0]>> \o back \in PlainScripts
    BY <2>2, <2>4, Sequences
  <2> QED BY <2>5, Starts2
<1>2. /\ V2!softApMacQuery \subseteq PlainScripts /\ V2!softApQuery \subseteq PlainScripts
      /\ V2!ethMacQuery \subseteq PlainScripts /\ V2!ethHostnameQuery \subseteq PlainScripts
  BY Simplest2, QuietWords DEF V2!softApMacQuery, V2!softApQuery, V2!ethMacQuery, V2!ethHostnameQuery
<1>3. V2!softApIpQuery \subseteq PlainScripts /\ V2!ethIpQuery \subseteq PlainScripts
  BY Simplest2, QuietWords DEF V2!softApIpQuery, V2!ethIpQuery
<1>4. V2!beginSoftAP \subseteq PlainScripts /\ V2!endSoftAP \subseteq PlainScripts
  BY Simplest2 DEF V2!beginSoftAP, V2!endSoftAP
<1>5. /\ V2!ethSetMac \subseteq PlainScripts /\ V2!ethStaticIp \subseteq PlainScripts
      /\ V2!setEthHostname \subseteq PlainScripts
  BY Starts2 DEF V2!ethSetMac, V2!ethStaticIp, V2!setEthHostname
<1>6. V2!ethEnableDHCP \subseteq PlainScripts /\ V2!serverEnd \subseteq PlainScripts
  BY Simplest2 DEF V2!ethEnableDHCP, V2!serverEnd
<1>7. V2!serverBegin \subseteq PlainScripts
  <2>1. <<V2!Order, V2!Order, V2!Order>> \in PlainScripts
    BY Commands2, Sequences
  <2> QED BY <2>1, Simplest2 DEF V2!serverBegin
<1> QED
  BY <1>1, <1>2, <1>3, <1>4, <1>5, <1>6, <1>7

\* The operations on links, with AT 2.
LEMMA LinkScripts2 ==
  /\ V2!checkLinks \subseteq PlainScripts /\ V2!close \subseteq PlainScripts
  /\ V2!sendData \subseteq SendScripts /\ V2!sendStream \subseteq SendScripts
  /\ V2!sendCallback \subseteq SendScripts
<1>1. V2!checkLinks \subseteq PlainScripts
  <2>1. /\ <<"STATUS">> \in Seq(Quiet) \ {<<>>}
        /\ <<"STATUS", "+CIPSTATUS", "+CIPSTATUS", "OK">> \in Answers
    BY Texts, QuietWords DEF Answers
  <2>2. V2!With(V2!Ask(<<"STATUS">>), <<"STATUS", "+CIPSTATUS", "+CIPSTATUS", "OK">>) \in Plain
    BY <2>1, Commands2
  <2>3. V2!Everything \in Nat
    BY DEF V2!Everything
  <2>4. V2!Try(V2!List("+CIPSTATUS", V2!Everything, 0)) \in Plain
    BY <2>3, Commands2, QuietWords
  <2>5. [V2!Try(V2!List("+CIPSTATUS", V2!Everything, 0)) EXCEPT !.send = "nothing"] \in Plain
    BY <2>4 DEF Plain
  <2> QED BY <2>2, <2>5, Simplest2, Sequences DEF V2!checkLinks
<1>2. V2!close \subseteq PlainScripts
  <2>1. <<"CLOSED", "OK">> \in Answers /\ <<"UNLINK", "ERROR">> \in Answers
    BY Texts, QuietWords DEF Answers
  <2>2. /\ <<V2!With(V2!Order, <<"CLOSED", "OK">>)>> \in PlainScripts
        /\ <<V2!With(V2!Order, <<"UNLINK", "ERROR">>)>> \in PlainScripts
        /\ <<V2!Try(V2!Order), V2!Order>> \in PlainScripts
    BY <2>1, Commands2, Sequences
  <2> QED BY <2>2, Simplest2 DEF V2!close
<1>3. V2!Prompt \in Prompts /\ V2!Data \in Datas /\ V2!Result \in Results
  BY DEF V2!Prompt, V2!Data, V2!Result, V2!With, V2!Then, V2!Ask, V2!Everything,
         Prompts, Datas, Results, SendPart
<1>4. /\ \A c \in Prompts : V2!SendError(c) \in Prompts /\ [c EXCEPT !.fresh = TRUE] \in Prompts
      /\ \A c \in Prompts : [c EXCEPT !.fresh = TRUE].fresh
      /\ \A c \in Results : V2!SendError(c) \in Results
  BY DEF V2!SendError, Prompts, Results, SendPart
<1>5. ASSUME NEW a \in Prompts, NEW b \in Datas, NEW c \in Results
      PROVE  V2!Fresh(<<a, b, c>>) \in SendScripts /\ V2!Fresh(<<a, b, c>> \o <<a, b, c>>) \in SendScripts
  BY SendParts, FreshSends DEF V2!Fresh
<1>6. V2!sendData \subseteq SendScripts /\ V2!sendCallback \subseteq SendScripts
  BY <1>3, <1>5 DEF V2!sendData, V2!sendCallback
<1>7. V2!sendStream \subseteq SendScripts
  BY <1>3, <1>4, <1>5 DEF V2!sendStream, V2!Part
<1> QED
  BY <1>1, <1>2, <1>6, <1>7

\* Every operation has scripts of the two kinds.
LEMMA Scripts2 ==
  ASSUME NEW op \in DOMAIN V2!Scripts
  PROVE  V2!Scripts[op] \subseteq AllScripts
<1>1. op \in {"firmwareVersion", "sysPersistent", "reset", "resetByPin", "setHostname",
        "hostnameQuery", "mDNS", "resolve", "sntpCfg", "sntpTime", "ping", "sleepMode",
        "deepSleep", "wifiOff"}
        => V2!Scripts[op] \subseteq AllScripts
  <2>1. op = "firmwareVersion" => V2!Scripts[op] = V2!firmwareVersion
    BY DEF V2!Scripts
  <2>2. op = "sysPersistent" => V2!Scripts[op] = V2!sysPersistent
    BY DEF V2!Scripts
  <2>3. op = "reset" => V2!Scripts[op] = V2!reset
    BY DEF V2!Scripts
  <2>4. op = "resetByPin" => V2!Scripts[op] = V2!resetByPin
    BY DEF V2!Scripts
  <2>5. op = "setHostname" => V2!Scripts[op] = V2!setHostname
    BY DEF V2!Scripts
  <2>6. op = "hostnameQuery" => V2!Scripts[op] = V2!hostnameQuery
    BY DEF V2!Scripts
  <2>7. op = "mDNS" => V2!Scripts[op] = V2!mDNS
    BY DEF V2!Scripts
  <2>8. op = "resolve" => V2!Scripts[op] = V2!resolve
    BY DEF V2!Scripts
  <2>9. op = "sntpCfg" => V2!Scripts[op] = V2!sntpCfg
    BY DEF V2!Scripts
  <2>10. op = "sntpTime" => V2!Scripts[op] = V2!sntpTime
    BY DEF V2!Scripts
  <2>11. op = "ping" => V2!Scripts[op] = V2!ping
    BY DEF V2!Scripts
  <2>12. op = "sleepMode" => V2!Scripts[op] = V2!sleepMode
    BY DEF V2!Scripts
  <2>13. op = "deepSleep" => V2!Scripts[op] = V2!deepSleep
    BY DEF V2!Scripts
  <2>14. op = "wifiOff" => V2!Scripts[op] = V2!wifiOff
    BY DEF V2!Scripts
  <2> QED BY <2>1, <2>2, <2>3, <2>4, <2>5, <2>6, <2>7, <2>8, <2>9, <2>10, <2>11, <2>12, <2>13, <2>14, ModuleScripts2 DEF AllScripts
<1>2. op \in {"staStatus", "listAP", "staStaticIp", "staEnableDHCP", "setDNS", "staMacQuery",
        "staIpQuery", "dnsQuery", "dhcpStateQuery", "joinAP", "joinEAP", "quitAP",
        "staAutoConnect", "apQuery"}
        => V2!Scripts[op] \subseteq AllScripts
  <2>1. op = "staStatus" => V2!Scripts[op] = V2!staStatus
    BY DEF V2!Scripts
  <2>2. op = "listAP" => V2!Scripts[op] = V2!listAP
    BY DEF V2!Scripts
  <2>3. op = "staStaticIp" => V2!Scripts[op] = V2!staStaticIp
    BY DEF V2!Scripts
  <2>4. op = "staEnableDHCP" => V2!Scripts[op] = V2!staEnableDHCP
    BY DEF V2!Scripts
  <2>5. op = "setDNS" => V2!Scripts[op] = V2!setDNS
    BY DEF V2!Scripts
  <2>6. op = "staMacQuery" => V2!Scripts[op] = V2!staMacQuery
    BY DEF V2!Scripts
  <2>7. op = "staIpQuery" => V2!Scripts[op] = V2!staIpQuery
    BY DEF V2!Scripts
  <2>8. op = "dnsQuery" => V2!Scripts[op] = V2!dnsQuery
    BY DEF V2!Scripts
  <2>9. op = "dhcpStateQuery" => V2!Scripts[op] = V2!dhcpStateQuery
    BY DEF V2!Scripts
  <2>10. op = "joinAP" => V2!Scripts[op] = V2!joinAP
    BY DEF V2!Scripts
  <2>11. op = "joinEAP" => V2!Scripts[op] = V2!joinEAP
    BY DEF V2!Scripts
  <2>12. op = "quitAP" => V2!Scripts[op] = V2!quitAP
    BY DEF V2!Scripts
  <2>13. op = "staAutoConnect" => V2!Scripts[op] = V2!staAutoConnect
    BY DEF V2!Scripts
  <2>14. op = "apQuery" => V2!Scripts[op] = V2!apQuery
    BY DEF V2!Scripts
  <2> QED BY <2>1, <2>2, <2>3, <2>4, <2>5, <2>6, <2>7, <2>8, <2>9, <2>10, <2>11, <2>12, <2>13, <2>14, StationScripts2 DEF AllScripts
<1>3. op \in {"softApIp", "softApMacQuery", "softApIpQuery", "beginSoftAP", "endSoftAP",
        "softApQuery", "ethSetMac", "ethStaticIp", "ethEnableDHCP", "ethMacQuery",
        "ethIpQuery", "setEthHostname", "ethHostnameQuery", "serverBegin", "serverEnd"}
        => V2!Scripts[op] \subseteq AllScripts
  <2>1. op = "softApIp" => V2!Scripts[op] = V2!softApIp
    BY DEF V2!Scripts
  <2>2. op = "softApMacQuery" => V2!Scripts[op] = V2!softApMacQuery
    BY DEF V2!Scripts
  <2>3. op = "softApIpQuery" => V2!Scripts[op] = V2!softApIpQuery
    BY DEF V2!Scripts
  <2>4. op = "beginSoftAP" => V2!Scripts[op] = V2!beginSoftAP
    BY DEF V2!Scripts
  <2>5. op = "endSoftAP" => V2!Scripts[op] = V2!endSoftAP
    BY DEF V2!Scripts
  <2>6. op = "softApQuery" => V2!Scripts[op] = V2!softApQuery
    BY DEF V2!Scripts
  <2>7. op = "ethSetMac" => V2!Scripts[op] = V2!ethSetMac
    BY DEF V2!Scripts
  <2>8. op = "ethStaticIp" => V2!Scripts[op] = V2!ethStaticIp
    BY DEF V2!Scripts
  <2>9. op = "ethEnableDHCP" => V2!Scripts[op] = V2!ethEnableDHCP
    BY DEF V2!Scripts
  <2>10. op = "ethMacQuery" => V2!Scripts[op] = V2!ethMacQuery
    BY DEF V2!Scripts
  <2>11. op = "ethIpQuery" => V2!Scripts[op] = V2!ethIpQuery
    BY DEF V2!Scripts
  <2>12. op = "setEthHostname" => V2!Scripts[op] = V2!setEthHostname
    BY DEF V2!Scripts
  <2>13. op = "ethHostnameQuery" => V2!Scripts[op] = V2!ethHostnameQuery
    BY DEF V2!Scripts
  <2>14. op = "serverBegin" => V2!Scripts[op] = V2!serverBegin
    BY DEF V2!Scripts
  <2>15. op = "serverEnd" => V2!Scripts[op] = V2!serverEnd
    BY DEF V2!Scripts
  <2> QED BY <2>1, <2>2, <2>3, <2>4, <2>5, <2>6, <2>7, <2>8, <2>9, <2>10, <2>11, <2>12, <2>13, <2>14, <2>15, AccessScripts2 DEF AllScripts
<1>4. op \in {"sendData", "sendStream", "sendCallback", "checkLinks", "close"}
        => V2!Scripts[op] \subseteq AllScripts
  <2>1. op = "sendData" => V2!Scripts[op] = V2!sendData
    BY DEF V2!Scripts
  <2>2. op = "sendStream" => V2!Scripts[op] = V2!sendStream
    BY DEF V2!Scripts
  <2>3. op = "sendCallback" => V2!Scripts[op] = V2!sendCallback
    BY DEF V2!Scripts
  <2>4. op = "checkLinks" => V2!Scripts[op] = V2!checkLinks
    BY DEF V2!Scripts
  <2>5. op = "close" => V2!Scripts[op] = V2!close
    BY DEF V2!Scripts
  <2> QED BY <2>1, <2>2, <2>3, <2>4, <2>5, LinkScripts2 DEF AllScripts
<1> QED
  BY <1>1, <1>2, <1>3, <1>4 DEF V2!Scripts

-----------------------------------------------------------------------------
(* The place of a call.                                                    *)

Lines == [text : Words, of : Nat, nth : Nat]
Errors == {"NO_ERROR", "AT_ERROR", "NO_AP", "AT_NOT_RESPONDIG", "SEND"}

SendKinds == {"command", "data", "restart", "pin", "echo off", "sleep"}
AnyCommand ==
  [send : SendKinds \cup {"nothing"},
   reads : Seq(Words) \ {<<>>}, answer : Seq(Words), refusal : SUBSET Seq(Words),
   item : Words \cup {"none"}, size : Nat, need : Nat, fresh : BOOLEAN, matters : BOOLEAN,
   error : {"own", "SEND"}, skip : Nat, stop : BOOLEAN]

\* What is on its way to the firmware.
Queued ==
  [what : SendKinds \cup {"?"}, of : Nat, answer : Seq(Words), refusal : SUBSET Seq(Words),
   overtaken : BOOLEAN]

Calls ==
  [script : AllScripts, at : Nat, read : Nat, timeout : 0 .. TimeoutCount, ignored : 0 .. MaxIgnored,
   unlink : BOOLEAN, ok : BOOLEAN, clean : BOOLEAN, obeyed : SUBSET Nat, refused : SUBSET Nat,
   lost : BOOLEAN, exact : BOOLEAN]
Firmware ==
  [at1 : BOOLEAN, up : BOOLEAN, pending : Seq(Lines), data : BOOLEAN, slow : Nat, echo : BOOLEAN]

\* The place of a call is in its script.
CallOK ==
  call = Idle \/ (call \in Calls /\ call.at \in DOMAIN call.script /\ call.read \in 1 .. Reads)

PlaceInv ==
  /\ rx \in Seq(Lines) /\ tx \in Seq(Queued) /\ fw \in Firmware /\ CallOK
  /\ result \in {"none", "ok", "fail"}
  /\ lastErrorCode \in Errors /\ faults \in 0 .. MaxFaults

\* A command of a script is a command.
LEMMA ScriptTypes ==
  ASSUME NEW s \in AllScripts
  PROVE  /\ s \in Seq(AnyCommand) /\ Len(s) \in Nat \ {0} /\ DOMAIN s = 1 .. Len(s)
         /\ \A k \in DOMAIN s : s[k] \in AnyCommand
<1>1. Quiet \subseteq Words
  BY DEF Quiet, Words
<1>2. {"ERROR", "UNLINK", "OK", ">", "Recv ", "SEND ", "SEND OK"} \subseteq Words
  BY DEF Words
<1>3. Seq(Quiet) \subseteq Seq(Words)
  BY <1>1
<1>a. \A a \in Words : <<a>> \in Seq(Words) /\ <<a>> # <<>>
  OBVIOUS
<1>b. \A a, b \in Words : <<a, b>> \in Seq(Words)
  OBVIOUS
<1>4. Answers \subseteq Seq(Words)
  <2>1. <<"ERROR">> \in Seq(Words) /\ <<"UNLINK", "ERROR">> \in Seq(Words)
    BY <1>2, <1>a, <1>b
  <2> QED BY <2>1, <1>3 DEF Answers
<1>5. Plain \subseteq AnyCommand
  BY <1>1, <1>3, <1>4 DEF Plain, AnyCommand, SendKinds
<1>6. ASSUME NEW send \in {"command", "data", "nothing"},
             NEW reads \in Seq(Words) \ {<<>>}, NEW answer \in Seq(Words)
      PROVE  SendPart(send, reads, answer) \subseteq AnyCommand
  <2>1. {<<"ERROR">>} \in SUBSET Seq(Words)
    BY <1>2, <1>a
  <2>2. SUFFICES ASSUME NEW c \in SendPart(send, reads, answer) PROVE c \in AnyCommand
    OBVIOUS
  <2>3. /\ c.send = send /\ c.reads = reads /\ c.answer = answer /\ c.refusal = {<<"ERROR">>}
        /\ c.item = "none" /\ c.size = 0 /\ c.need = 0 /\ c.fresh \in BOOLEAN /\ c.matters \in BOOLEAN
        /\ c.error \in {"own", "SEND"} /\ c.skip = 9 /\ c.stop \in BOOLEAN
    BY DEF SendPart
  <2>4. c = [send |-> c.send, reads |-> c.reads, answer |-> c.answer, refusal |-> c.refusal,
             item |-> c.item, size |-> c.size, need |-> c.need, fresh |-> c.fresh,
             matters |-> c.matters, error |-> c.error, skip |-> c.skip, stop |-> c.stop]
    BY DEF SendPart
  <2>5. c.send \in SendKinds \cup {"nothing"}
    BY <2>3 DEF SendKinds
  <2>6. c.reads \in Seq(Words) \ {<<>>} /\ c.answer \in Seq(Words)
    BY <2>3
  <2>7. c.refusal \in SUBSET Seq(Words)
    BY <2>1, <2>3
  <2>8. c.item \in Words \cup {"none"} /\ c.size \in Nat /\ c.need \in Nat /\ c.skip \in Nat
    BY <2>3
  <2> QED BY <2>3, <2>4, <2>5, <2>6, <2>7, <2>8 DEF AnyCommand
<1>c. <<">">> \in Seq(Words) \ {<<>>} /\ <<"Recv ">> \in Seq(Words) \ {<<>>} /\ <<"SEND ">> \in Seq(Words) \ {<<>>}
  BY <1>2, <1>a
<1>d. <<"OK", ">">> \in Seq(Words) /\ <<"Recv ", "SEND OK">> \in Seq(Words)
  BY <1>2, <1>b
<1>7. SendCommands \subseteq AnyCommand
  <2>1. Prompts \subseteq AnyCommand
    BY <1>6, <1>c, <1>d DEF Prompts
  <2>2. Datas \subseteq AnyCommand
    BY <1>6, <1>c, <1>d DEF Datas
  <2>3. Results \subseteq AnyCommand
    BY <1>6, <1>c DEF Results
  <2> QED BY <2>1, <2>2, <2>3 DEF SendCommands
<1>8. Seq(Plain) \subseteq Seq(AnyCommand) /\ Seq(SendCommands) \subseteq Seq(AnyCommand)
  BY <1>5, <1>7
<1>9. s \in Seq(AnyCommand)
  BY <1>8 DEF AllScripts, PlainScripts, SendScripts
<1>10. Len(s) # 0
  <2>1. CASE s \in PlainScripts
    BY <2>1 DEF PlainScripts
  <2>2. CASE s \in SendScripts
    BY <2>2 DEF SendScripts, Sends3
  <2> QED BY <2>1, <2>2 DEF AllScripts
<1> QED
  BY <1>9, <1>10

\* The scripts of an operation.
LEMMA ScriptsOf ==
  ASSUME NEW op \in Ops, NEW script \in Scripts[op]
  PROVE  script \in AllScripts
<1>1. DOMAIN V1!Scripts = DOMAIN V2!Scripts
  BY DEF V1!Scripts, V2!Scripts
<1>2. op \in DOMAIN V1!Scripts
  BY ReaderAssumption
<1>3. V1!Scripts[op] \subseteq AllScripts /\ V2!Scripts[op] \subseteq AllScripts
  BY <1>1, <1>2, Scripts1, Scripts2
<1> QED
  BY <1>3 DEF Scripts

\* Where a call is.
LEMMA CmdFacts ==
  ASSUME CallOK, Waiting
  PROVE  /\ call \in Calls /\ call.script \in AllScripts /\ call.at \in Nat
         /\ call.at \in DOMAIN call.script /\ call.read \in 1 .. Reads
         /\ Cmd \in AnyCommand /\ Items \in Nat /\ Reads \in Nat
<1>1. /\ call \in Calls /\ call.script \in AllScripts /\ call.at \in Nat
      /\ call.at \in DOMAIN call.script /\ call.read \in 1 .. Reads
  BY DEF CallOK, Waiting, Calls
<1>2. Cmd \in AnyCommand
  BY <1>1, ScriptTypes DEF Cmd
<1>3. Items \in Nat /\ Len(Cmd.reads) \in Nat
  <2>1. Cmd.size \in Nat /\ Cmd.reads \in Seq(Words)
    BY <1>2 DEF AnyCommand
  <2> QED BY <2>1 DEF Items
<1> QED
  BY <1>1, <1>2, <1>3 DEF Reads

\* A call has a command.
LEMMA CallIsNotIdle ==
  ASSUME NEW c \in Calls
  PROVE  c # Idle
<1>1. c.script # <<>>
  <2>1. Len(c.script) # 0
    BY ScriptTypes DEF Calls
  <2> QED BY <2>1
<1> QED
  BY <1>1 DEF Idle

-----------------------------------------------------------------------------
(* Lines.                                                                  *)

\* Lines that no longer answer anything.
LEMMA ForgottenLines ==
  ASSUME NEW s \in Seq(Lines)
  PROVE  Forgotten(s) \in Seq(Lines)
<1>1. DOMAIN s = 1 .. Len(s) /\ Len(s) \in Nat /\ \A k \in DOMAIN s : s[k] \in Lines
  BY LenProperties, ElementOfSeq
<1>2. \A k \in DOMAIN s : Line(s[k].text) \in Lines
  BY <1>1 DEF Line, Lines
<1> QED
  BY <1>1, <1>2, SeqDef DEF Forgotten

\* The lines of an answer.
LEMMA AnswerLines ==
  ASSUME NEW w \in Seq(Words), NEW of \in Nat
  PROVE  /\ Answer(w, of) \in Seq(Lines) /\ Len(Answer(w, of)) = Len(w)
         /\ \A k \in 1 .. Len(w) : Answer(w, of)[k].text = w[k]
<1>1. DOMAIN w = 1 .. Len(w) /\ Len(w) \in Nat /\ \A k \in DOMAIN w : w[k] \in Words
  BY LenProperties, ElementOfSeq
<1>2. ASSUME NEW k \in DOMAIN w PROVE Occurrence(w, k) \in Nat
  <2>1. IsFiniteSet(1 .. k)
    BY <1>1, FS_Interval
  <2>2. IsFiniteSet({ j \in 1 .. k : w[j] = w[k] })
    BY <2>1, FS_Subset
  <2> QED BY <2>2, FS_CardinalityType DEF Occurrence
<1>3. \A k \in DOMAIN w : [text |-> w[k], of |-> of, nth |-> Occurrence(w, k)] \in Lines
  BY <1>1, <1>2 DEF Lines
<1>4. /\ Answer(w, of) \in Seq(Lines) /\ Len(Answer(w, of)) = Len(w)
      /\ \A k \in DOMAIN w : Answer(w, of)[k] = [text |-> w[k], of |-> of, nth |-> Occurrence(w, k)]
  BY <1>1, <1>3, SeqDef DEF Answer
<1>5. \A k \in DOMAIN w : [text |-> w[k], of |-> of, nth |-> Occurrence(w, k)].text = w[k]
  OBVIOUS
<1>6. \A k \in DOMAIN w : Answer(w, of)[k].text = w[k]
  BY <1>4, <1>5
<1> QED
  BY <1>1, <1>4, <1>6

\* A single line.
LEMMA LineTypes ==
  /\ \A text \in Words : Line(text) \in Lines /\ Line(text).text = text
  /\ Noise \in Words /\ Noise = "other"
BY DEF Line, Lines, Noise, V1!Noise, Words

\* The lines t are the last ones of s.
Rest(t, s) ==
  /\ Len(t) <= Len(s)
  /\ \A i \in 1 .. Len(t) : i + Len(s) - Len(t) \in 1 .. Len(s) /\ t[i] = s[i + Len(s) - Len(t)]

\* What maintain() leaves is the rest of what there was.
LEMMA UnreadRest ==
  ASSUME NEW s \in Seq(Lines)
  PROVE  /\ Unread(s) \in Seq(Lines) /\ Rest(Unread(s), s) /\ MaintainError(s) \in Errors
         /\ Rest(s, s)
<1>1. DOMAIN s = 1 .. Len(s) /\ Len(s) \in Nat
  BY LenProperties
<1>2. MaintainError(s) \in Errors
  BY DEF MaintainError, Errors
<1>3. Rest(s, s)
  BY <1>1 DEF Rest
<1>4. CASE \E j \in DOMAIN s : FirstStop(s, j)
  <2> DEFINE k == CHOOSE j \in DOMAIN s : FirstStop(s, j)
             u == SubSeq(s, 1 + k, Len(s))
  <2>1. k \in 1 .. Len(s)
    BY <1>1, <1>4
  <2>2. Unread(s) = u
    BY <1>4 DEF Unread
  <2> HIDE DEF k
  <2>3. /\ u \in Seq(Lines)
        /\ Len(u) = IF 1 + k <= Len(s) THEN Len(s) - (1 + k) + 1 ELSE 0
        /\ \A i \in 1 .. Len(s) - (1 + k) + 1 : u[i] = s[1 + k + i - 1]
    BY <1>1, <2>1, SubSeqProperties
  <2> HIDE DEF u
  <2>4. Len(u) = Len(s) - k
    <3>1. k \in Nat /\ k <= Len(s)
      BY <1>1, <2>1
    <3>2. CASE k = Len(s)
      <4>1. ~ (1 + k <= Len(s)) /\ Len(s) - k = 0
        BY <1>1, <3>1, <3>2
      <4> QED BY <2>3, <4>1
    <3>3. CASE k # Len(s)
      <4>1. \A m, n \in Nat : m <= n /\ m # n => 1 + m <= n /\ n - (1 + m) + 1 = n - m
        OBVIOUS
      <4>2. 1 + k <= Len(s) /\ Len(s) - (1 + k) + 1 = Len(s) - k
        BY <1>1, <3>1, <3>3, <4>1
      <4> QED BY <2>3, <4>2
    <3> QED BY <3>2, <3>3
  <2>5. ASSUME NEW i \in 1 .. Len(u)
        PROVE  i + Len(s) - Len(u) \in 1 .. Len(s) /\ u[i] = s[i + Len(s) - Len(u)]
    <3>1. i + Len(s) - Len(u) = i + k /\ 1 + k + i - 1 = i + k /\ i + k \in 1 .. Len(s)
      BY <1>1, <2>1, <2>4
    <3>2. i \in 1 .. Len(s) - (1 + k) + 1
      BY <1>1, <2>1, <2>4
    <3>3. u[i] = s[1 + k + i - 1]
      BY <2>3, <3>2
    <3> QED BY <3>1, <3>3
  <2>6. Rest(u, s)
    BY <1>1, <2>1, <2>4, <2>5 DEF Rest
  <2> QED BY <1>2, <1>3, <2>2, <2>3, <2>6
<1>5. CASE ~ \E j \in DOMAIN s : FirstStop(s, j)
  <2>1. Unread(s) = <<>>
    BY <1>5 DEF Unread
  <2> QED BY <1>1, <1>2, <1>3, <2>1 DEF Rest
<1> QED
  BY <1>4, <1>5

-----------------------------------------------------------------------------
(* What is on its way to the firmware.                                     *)

\* What is sent.
LEMMA SendingTypes ==
  /\ Probe \in Queued
  /\ \A c \in AnyCommand, of \in Nat : c.send # "nothing" => Sending(c, of) \in Queued
<1>1. Probe \in Queued
  BY DEF Probe, Queued
<1>2. ASSUME NEW c \in AnyCommand, NEW of \in Nat, c.send # "nothing" PROVE Sending(c, of) \in Queued
  BY <1>2 DEF AnyCommand, Sending, Queued
<1> QED
  BY <1>1, <1>2

\* What was sent, when it is overtaken and when its call is over.
LEMMA QueueTypes ==
  ASSUME NEW s \in Seq(Queued)
  PROVE  /\ Overtaken(s) \in Seq(Queued) /\ Len(Overtaken(s)) = Len(s)
         /\ \A k \in 1 .. Len(s) :
              Overtaken(s)[k] = [s[k] EXCEPT !.overtaken = s[k].overtaken \/ s[k].what = "?"]
         /\ Disowned(s) \in Seq(Queued) /\ Len(Disowned(s)) = Len(s)
<1>1. DOMAIN s = 1 .. Len(s) /\ Len(s) \in Nat /\ \A k \in DOMAIN s : s[k] \in Queued
  BY LenProperties, ElementOfSeq
<1> DEFINE over(k) == [s[k] EXCEPT !.overtaken = s[k].overtaken \/ s[k].what = "?"]
           dis(k) == [s[k] EXCEPT !.of = 0]
<1>2. \A k \in 1 .. Len(s) : over(k) \in Queued /\ dis(k) \in Queued
  BY <1>1 DEF Queued
<1>3. Overtaken(s) = [k \in 1 .. Len(s) |-> over(k)]
  BY <1>1 DEF Overtaken
<1>4. Disowned(s) = [k \in 1 .. Len(s) |-> dis(k)]
  BY <1>1 DEF Disowned
<1> HIDE DEF over, dis
<1>5. /\ Overtaken(s) \in Seq(Queued) /\ Len(Overtaken(s)) = Len(s)
      /\ \A k \in 1 .. Len(s) : Overtaken(s)[k] = over(k)
  BY <1>1, <1>2, <1>3, SeqDef
<1>6. Disowned(s) \in Seq(Queued) /\ Len(Disowned(s)) = Len(s)
  BY <1>1, <1>2, <1>4, SeqDef
<1> QED
  BY <1>5, <1>6 DEF over

-----------------------------------------------------------------------------
(* What becomes of a call in a step of the driver.                         *)

Outcome == result' \in {"none", "ok", "fail"} /\ lastErrorCode' \in Errors

\* The call ends.
Finishes ==
  /\ call' = Idle /\ tx' \in Seq(Queued) /\ Len(tx') = Len(tx) /\ rx' \in Seq(Lines)
  /\ fw' \in Firmware

\* The call goes on with its command.
Stays(line) ==
  /\ call' \in Calls /\ call'.script = call.script /\ call'.at = call.at
  /\ call'.read \in 1 .. Reads /\ call'.clean = call.clean /\ call'.lost = call.lost
  /\ fw' = fw /\ tx' = tx /\ rx' = line

\* The call c goes on with its command k.
Proceeds(c, k, line) ==
  /\ k \in DOMAIN c.script
  /\ call' \in Calls /\ call'.script = c.script /\ call'.at = k /\ call'.read = 1
  /\ call'.ignored = 0 /\ call'.timeout = 0 /\ ~ call'.unlink
  /\ call'.clean = c.clean /\ call'.lost = c.lost
  /\ rx' \in Seq(Lines) /\ Rest(rx', line)
  /\ tx' = IF c.script[k].send = "nothing" THEN tx ELSE Append(tx, Sending(c.script[k], k))
  /\ fw' = fw

\* A command goes out.
LEMMA SendsMoves ==
  ASSUME NEW c \in Calls, NEW k \in DOMAIN c.script, NEW line \in Seq(Lines), NEW error \in Errors,
         Sends(c, k, line, error), fw' = fw
  PROVE  Outcome /\ Proceeds(c, k, line)
<1>1. k \in Nat
  BY ScriptTypes DEF Calls
<1>2. /\ call' = [[c EXCEPT !.at = k, !.read = 1] EXCEPT !.timeout = 0, !.ignored = 0, !.unlink = FALSE]
      /\ rx' = IF c.script[k].fresh THEN Unread(line) ELSE line
      /\ lastErrorCode' = IF c.script[k].fresh THEN MaintainError(line) ELSE error
      /\ tx' = IF c.script[k].send = "nothing" THEN tx ELSE Append(tx, Sending(c.script[k], k))
      /\ result' = "none"
  BY DEF Sends, EntersReadRX
<1>3. 0 \in 0 .. TimeoutCount /\ 0 \in 0 .. MaxIgnored
  BY ReaderAssumption
<1>4. /\ call' \in Calls /\ call'.script = c.script /\ call'.at = k /\ call'.read = 1
      /\ call'.ignored = 0 /\ call'.timeout = 0 /\ ~ call'.unlink
      /\ call'.clean = c.clean /\ call'.lost = c.lost
  BY <1>1, <1>2, <1>3 DEF Calls
<1>5. rx' \in Seq(Lines) /\ Rest(rx', line) /\ lastErrorCode' \in Errors
  BY <1>2, UnreadRest
<1> QED
  BY <1>2, <1>4, <1>5 DEF Outcome, Proceeds

\* The call ends.
LEMMA ReturnsMoves ==
  ASSUME NEW ok, NEW line \in Seq(Lines), NEW error \in Errors, fw \in Firmware, tx \in Seq(Queued),
         Returns(ok, line, error)
  PROVE  Outcome /\ Finishes
<1> DEFINE p == Forgotten(fw.pending)
<1>1. p \in Seq(Lines) /\ Forgotten(line) \in Seq(Lines)
  BY ForgottenLines DEF Firmware
<1>2. /\ call' = Idle /\ rx' = Forgotten(line) /\ tx' = Disowned(tx) /\ Outcome
      /\ fw' = [fw EXCEPT !.pending = p]
  BY DEF Returns, Outcome
<1> HIDE DEF p
<1>3. fw' \in Firmware
  BY <1>1, <1>2 DEF Firmware
<1> QED
  BY <1>1, <1>2, <1>3, QueueTypes DEF Finishes

\* A command is over: the call ends, or goes on with the next, or with the one after those
\* that are left out.
LEMMA OverMoves ==
  ASSUME PlaceInv, Waiting, NEW c \in Calls, c.script = call.script, c.at = call.at,
         NEW good \in BOOLEAN, NEW line \in Seq(Lines), NEW error \in Errors,
         Over(c, good, line, error)
  PROVE  /\ Outcome
         /\ \/ Finishes
            \/ \E k \in DOMAIN call.script :
                 /\ k = call.at + 1 + IF good THEN 0 ELSE Cmd.skip
                 /\ Proceeds(c, k, line)
<1>1. /\ call \in Calls /\ call.script \in AllScripts /\ call.at \in Nat
      /\ Cmd \in AnyCommand /\ fw \in Firmware /\ tx \in Seq(Queued)
  BY CmdFacts DEF PlaceInv
<1> DEFINE ok == c.ok /\ (good \/ ~ Cmd.matters)
           next == c.at + 1 + IF good THEN 0 ELSE Cmd.skip
           d == [c EXCEPT !.ok = ok]
<1>2. next \in Nat /\ next = call.at + 1 + (IF good THEN 0 ELSE Cmd.skip) /\ next >= 1
  <2>1. Cmd.skip \in Nat
    BY <1>1 DEF AnyCommand
  <2>2. CASE good
    BY <1>1, <2>2
  <2>3. CASE ~ good
    BY <1>1, <2>1, <2>3
  <2> QED BY <2>2, <2>3
<1>3. ok \in BOOLEAN
  OBVIOUS
<1>4. \/ Returns(ok, line, error)
      \/ ~ (next > Len(c.script)) /\ Sends(d, next, line, error) /\ UNCHANGED fw
  BY DEF Over
<1> HIDE DEF ok, next
<1>5. d \in Calls /\ d.script = call.script /\ d.clean = c.clean /\ d.lost = c.lost
  BY <1>3 DEF Calls
<1> HIDE DEF d
<1>6. CASE Returns(ok, line, error)
  BY <1>1, <1>6, ReturnsMoves
<1>7. CASE ~ (next > Len(c.script)) /\ Sends(d, next, line, error) /\ UNCHANGED fw
  <2>1. next \in DOMAIN call.script
    BY <1>1, <1>2, <1>7, ScriptTypes
  <2>2. Outcome /\ Proceeds(d, next, line)
    BY <1>5, <1>7, <2>1, SendsMoves
  <2>3. Proceeds(c, next, line)
    BY <1>5, <2>2 DEF Proceeds
  <2> QED BY <1>2, <2>1, <2>2, <2>3
<1> QED
  BY <1>4, <1>6, <1>7

\* readRX() has failed: the call ends, or leaves out as many commands as this one says.
LEMMA GivesMoves ==
  ASSUME PlaceInv, Waiting, NEW c \in Calls, c.script = call.script, c.at = call.at,
         NEW line \in Seq(Lines), NEW error \in Errors, Gives(c, line, error)
  PROVE  /\ Outcome
         /\ \/ Finishes
            \/ \E k \in DOMAIN call.script :
                 /\ k > call.at /\ (Cmd.item = "none" => k = call.at + 1 + Cmd.skip)
                 /\ Proceeds(c, k, line)
<1>1. call \in Calls /\ Cmd \in AnyCommand /\ call.at \in Nat
  BY CmdFacts DEF PlaceInv
<1> DEFINE good == Cmd.item # "none" /\ Cmd.need > 0 /\ Listing /\ call.read > Cmd.need
           e == IF Cmd.error = "own" THEN error ELSE Cmd.error
<1>2. good \in BOOLEAN /\ (Cmd.item = "none" => ~ good)
  OBVIOUS
<1>3. e \in Errors
  BY <1>1 DEF AnyCommand, Errors
<1>4. Over(c, good, line, e)
  BY DEF Gives
<1> HIDE DEF good, e
<1>5. /\ Outcome
      /\ \/ Finishes
         \/ \E k \in DOMAIN call.script :
              /\ k = call.at + 1 + IF good THEN 0 ELSE Cmd.skip
              /\ Proceeds(c, k, line)
  BY <1>1, <1>2, <1>3, <1>4, OverMoves
<1>6. CASE Finishes
  BY <1>5, <1>6
<1>7. ASSUME NEW k \in DOMAIN call.script, k = call.at + 1 + IF good THEN 0 ELSE Cmd.skip,
             Proceeds(c, k, line)
      PROVE  k > call.at /\ (Cmd.item = "none" => k = call.at + 1 + Cmd.skip)
  <2>1. Cmd.skip \in Nat
    BY <1>1 DEF AnyCommand
  <2>2. CASE good
    BY <1>1, <1>2, <1>7, <2>2
  <2>3. CASE ~ good
    BY <1>1, <1>7, <2>1, <2>3
  <2> QED BY <2>2, <2>3
<1> QED
  BY <1>5, <1>6, <1>7

\* Head and tail of what is to be read.
LEMMA ReadFacts ==
  ASSUME PlaceInv, Reading
  PROVE  /\ Waiting /\ Text \in Words /\ Tail(rx) \in Seq(Lines)
         /\ Len(rx) \in Nat \ {0} /\ Len(Tail(rx)) = Len(rx) - 1 /\ Text = rx[1].text
         /\ \A i \in 1 .. Len(Tail(rx)) : i + 1 \in 1 .. Len(rx) /\ Tail(rx)[i] = rx[i + 1]
<1>1. rx \in Seq(Lines) /\ rx # <<>> /\ Waiting
  BY DEF PlaceInv, Reading
<1>2. Head(rx) \in Lines /\ Head(rx) = rx[1] /\ Len(rx) \in Nat \ {0}
  BY <1>1
<1>3. /\ Tail(rx) \in Seq(Lines) /\ Len(Tail(rx)) = Len(rx) - 1
      /\ \A i \in 1 .. Len(Tail(rx)) : i + 1 \in 1 .. Len(rx) /\ Tail(rx)[i] = rx[i + 1]
  BY <1>1
<1>4. Text = Head(rx).text
  BY DEF Text
<1> QED
  BY <1>1, <1>2, <1>3, <1>4 DEF Lines

\* The call goes on to read the next line.
LEMMA SkipsMoves ==
  ASSUME PlaceInv, Reading, NEW c \in Calls, c.script = call.script, c.at = call.at,
         c.read = call.read, c.clean = call.clean, c.lost = call.lost, Skips(c)
  PROVE  Outcome /\ Stays(Tail(rx)) /\ call'.timeout = 0 /\ call'.read = call.read
         /\ call'.ignored = c.ignored /\ call'.unlink = c.unlink
<1>1. /\ call' = [c EXCEPT !.timeout = 0] /\ rx' = Tail(rx) /\ tx' = tx /\ fw' = fw
      /\ result' = result /\ lastErrorCode' = lastErrorCode
  BY DEF Skips
<1>2. 0 \in 0 .. TimeoutCount
  BY ReaderAssumption
<1>3. /\ call' \in Calls /\ call'.script = call.script /\ call'.at = call.at
      /\ call'.read = call.read /\ call'.timeout = 0
      /\ call'.ignored = c.ignored /\ call'.unlink = c.unlink
      /\ call'.clean = call.clean /\ call'.lost = call.lost
  BY <1>1, <1>2 DEF Calls
<1>4. call.read \in 1 .. Reads
  BY CmdFacts DEF PlaceInv, Reading
<1> QED
  BY <1>1, <1>3, <1>4 DEF Stays, Outcome, PlaceInv

\* A step of readRX(): the call ends, goes on with its command, or with a later one.
ReadEnds ==
  \/ Finishes
  \/ Stays(Tail(rx))
  \/ \E c \in Calls : \E k \in DOMAIN c.script :
       /\ c.script = call.script /\ c.clean = call.clean /\ c.lost = call.lost
       /\ k > call.at /\ Proceeds(c, k, Tail(rx))

LEMMA ReadMoves ==
  ASSUME PlaceInv, ReadLine
  PROVE  Outcome /\ ReadEnds
<1>1. Reading
  BY DEF ReadLine
<1>2. Waiting /\ Tail(rx) \in Seq(Lines) /\ Text \in Words
  BY <1>1, ReadFacts
<1>3. /\ call \in Calls /\ Cmd \in AnyCommand /\ call.at \in Nat /\ Items \in Nat /\ Reads \in Nat
      /\ call.read \in 1 .. Reads
  BY <1>2, CmdFacts DEF PlaceInv
<1>e. lastErrorCode \in Errors /\ {"AT_ERROR", "NO_AP", "AT_NOT_RESPONDIG", "SEND"} \subseteq Errors
  BY DEF PlaceInv, Errors
<1>f. ASSUME NEW error \in Errors, Fails(Tail(rx), error)
      PROVE  Outcome /\ ReadEnds
  <2>1. Gives(call, Tail(rx), error)
    BY <1>f DEF Fails
  <2>2. /\ Outcome
        /\ \/ Finishes
           \/ \E k \in DOMAIN call.script :
                /\ k > call.at /\ (Cmd.item = "none" => k = call.at + 1 + Cmd.skip)
                /\ Proceeds(call, k, Tail(rx))
    BY <1>2, <1>3, <1>f, <2>1, GivesMoves
  <2> QED BY <1>3, <2>2 DEF ReadEnds
<1>o. ASSUME NEW c \in Calls, c.script = call.script, c.at = call.at, NEW good \in BOOLEAN,
             c.clean = call.clean, c.lost = call.lost, NEW error \in Errors, Over(c, good, Tail(rx), error)
      PROVE  Outcome /\ ReadEnds
  <2>1. /\ Outcome
        /\ \/ Finishes
           \/ \E k \in DOMAIN call.script :
                /\ k = call.at + 1 + IF good THEN 0 ELSE Cmd.skip
                /\ Proceeds(c, k, Tail(rx))
    BY <1>2, <1>o, OverMoves
  <2>2. Cmd.skip \in Nat
    BY <1>3 DEF AnyCommand
  <2>3. call.at + 1 + (IF good THEN 0 ELSE Cmd.skip) > call.at
    <3>1. CASE good
      BY <1>3, <3>1
    <3>2. CASE ~ good
      BY <1>3, <2>2, <3>2
    <3> QED BY <3>1, <3>2
  <2> QED BY <1>o, <2>1, <2>3 DEF ReadEnds
<1>s. ASSUME NEW c \in Calls, c.script = call.script, c.at = call.at, c.read = call.read,
             c.clean = call.clean, c.lost = call.lost, Skips(c)
      PROVE  Outcome /\ ReadEnds
  BY <1>1, <1>s, SkipsMoves DEF ReadEnds
<1>4. CASE Matched
  <2> DEFINE exact == call.exact /\ (Cmd.matters => Meant(Head(rx)))
             n == call.read + 1
             c == [call EXCEPT !.exact = exact, !.read = n]
  <2>1. exact \in BOOLEAN
    OBVIOUS
  <2>7. n \in Nat /\ (call.read # Reads => n \in 1 .. Reads)
    <3>1. call.read \in 1 .. Reads /\ Reads \in Nat
      BY <1>3
    <3> QED BY <3>1
  <2>2. IF Text = "SEND FAIL"
        THEN Over(c, FALSE, Tail(rx), "SEND")
        ELSE IF call.read = Reads
        THEN Over(c, TRUE, Tail(rx), lastErrorCode)
        ELSE /\ call' = EntersReadRX(c)
             /\ rx' = Tail(rx)
             /\ UNCHANGED <<tx, fw, result, lastErrorCode>>
    BY <1>4 DEF Matched
  <2> HIDE DEF exact, n
  <2>3. /\ c \in Calls /\ c.script = call.script /\ c.at = call.at /\ c.read = n
        /\ c.clean = call.clean /\ c.lost = call.lost
    BY <1>3, <2>1, <2>7 DEF Calls
  <2> HIDE DEF c
  <2>4. CASE Text = "SEND FAIL"
    BY <1>e, <1>o, <2>2, <2>3, <2>4
  <2>5. CASE Text # "SEND FAIL" /\ call.read = Reads
    BY <1>e, <1>o, <2>2, <2>3, <2>5
  <2>6. CASE Text # "SEND FAIL" /\ call.read # Reads
    <3>1. /\ call' = [c EXCEPT !.timeout = 0, !.ignored = 0, !.unlink = FALSE]
          /\ rx' = Tail(rx) /\ tx' = tx /\ fw' = fw /\ result' = result /\ lastErrorCode' = lastErrorCode
      BY <2>2, <2>6 DEF EntersReadRX
    <3>2. 0 \in 0 .. TimeoutCount /\ 0 \in 0 .. MaxIgnored
      BY ReaderAssumption
    <3>3. /\ call' \in Calls /\ call'.script = call.script /\ call'.at = call.at
          /\ call'.read = n /\ call'.clean = call.clean /\ call'.lost = call.lost
      BY <2>3, <3>1, <3>2 DEF Calls
    <3> QED BY <3>1, <3>3, <2>6, <2>7 DEF ReadEnds, Stays, Outcome, PlaceInv
  <2> QED BY <2>4, <2>5, <2>6
<1>5. CASE Refused
  <2>1. CASE call.unlink
    BY <1>3, <1>5, <1>e, <1>o, <2>1 DEF Refused
  <2>2. CASE ~ call.unlink /\ Expected = "ready"
    BY <1>3, <1>5, <1>s, <2>2 DEF Refused
  <2>3. CASE ~ call.unlink /\ Expected # "ready"
    BY <1>5, <1>e, <1>f, <2>3 DEF Refused
  <2> QED BY <2>1, <2>2, <2>3
<1>6. CASE NoAP
  BY <1>6, <1>e, <1>f DEF NoAP
<1>7. CASE Unlink
  <2> DEFINE c == [call EXCEPT !.unlink = TRUE]
  <2>1. Skips(c)
    BY <1>7 DEF Unlink
  <2>2. /\ c \in Calls /\ c.script = call.script /\ c.at = call.at /\ c.read = call.read
        /\ c.clean = call.clean /\ c.lost = call.lost
    BY <1>3 DEF Calls
  <2> HIDE DEF c
  <2> QED BY <1>s, <2>1, <2>2
<1>8. CASE ListEnds
  BY <1>8, <1>e, <1>f DEF ListEnds
<1>9. CASE Event
  BY <1>3, <1>9, <1>s DEF Event
<1>10. CASE Ignored
  <2>1. CASE call.ignored = MaxIgnored
    BY <1>10, <1>e, <1>f, <2>1 DEF Ignored
  <2>2. CASE call.ignored # MaxIgnored
    <3> DEFINE n == call.ignored + 1
               c == [call EXCEPT !.ignored = n]
    <3>1. Skips(c)
      BY <1>10, <2>2 DEF Ignored
    <3>2. n \in 0 .. MaxIgnored
      <4>1. call.ignored \in 0 .. MaxIgnored
        BY <1>3 DEF Calls
      <4> QED BY <4>1, <2>2, ReaderAssumption
    <3> HIDE DEF n
    <3>3. /\ c \in Calls /\ c.script = call.script /\ c.at = call.at /\ c.read = call.read
          /\ c.clean = call.clean /\ c.lost = call.lost
      BY <1>3, <3>2 DEF Calls
    <3> HIDE DEF c
    <3> QED BY <1>s, <3>1, <3>3
  <2> QED BY <2>1, <2>2
<1> QED
  BY <1>4, <1>5, <1>6, <1>7, <1>8, <1>9, <1>10 DEF ReadLine

\* The place of a call that has ended.
LEMMA FinishesKeeps ==
  ASSUME PlaceInv, Outcome, Finishes, faults' \in 0 .. MaxFaults
  PROVE  PlaceInv'
BY DEF PlaceInv, Outcome, Finishes, CallOK

\* The place of a call that waits for a line.
LEMMA StaysKeeps ==
  ASSUME PlaceInv, Waiting, Outcome, NEW line \in Seq(Lines), Stays(line), faults' \in 0 .. MaxFaults
  PROVE  PlaceInv'
<1>1. /\ call' \in Calls /\ call'.script = call.script /\ call'.at = call.at
      /\ call'.read \in 1 .. Reads /\ call.at \in DOMAIN call.script
      /\ fw' = fw /\ tx' = tx /\ rx' = line
  BY CmdFacts DEF PlaceInv, Stays
<1>2. Cmd' = Cmd
  BY <1>1 DEF Cmd
<1>3. Reads' = Reads
  BY <1>2 DEF Reads, Items
<1>4. CallOK'
  BY <1>1, <1>3 DEF CallOK
<1> QED
  BY <1>1, <1>4 DEF PlaceInv, Outcome

\* The place of a call that has sent a command.
LEMMA ProceedsKeeps ==
  ASSUME PlaceInv, Outcome, NEW c \in Calls, NEW k \in DOMAIN c.script,
         NEW line, Proceeds(c, k, line), faults' \in 0 .. MaxFaults
  PROVE  PlaceInv'
<1> DEFINE script == c.script
<1>1. /\ call' \in Calls /\ call'.script = script /\ call'.at = k /\ call'.read = 1
      /\ rx' \in Seq(Lines) /\ fw' = fw
      /\ tx' = IF script[k].send = "nothing" THEN tx ELSE Append(tx, Sending(script[k], k))
  BY DEF Proceeds
<1>2. Cmd' = script[k] /\ script[k] \in AnyCommand /\ script \in AllScripts /\ k \in Nat
  BY <1>1, ScriptTypes DEF Cmd, Calls
<1>3. 1 \in 1 .. Reads'
  <2>1. script[k].size \in Nat /\ script[k].reads \in Seq(Words) /\ script[k].reads # <<>>
    BY <1>2 DEF AnyCommand
  <2>2. Items' \in Nat
    BY <1>2, <2>1 DEF Items
  <2>3. Len(Cmd'.reads) \in Nat \ {0}
    BY <1>2, <2>1
  <2> QED BY <2>2, <2>3 DEF Reads
<1>4. CallOK'
  BY <1>1, <1>3 DEF CallOK
<1>5. tx' \in Seq(Queued)
  <2> DEFINE q == Sending(script[k], k)
  <2>1. CASE script[k].send = "nothing"
    BY <1>1, <2>1 DEF PlaceInv
  <2>2. CASE script[k].send # "nothing"
    <3>1. q \in Queued /\ tx \in Seq(Queued)
      BY <1>2, <2>2, SendingTypes DEF PlaceInv
    <3> HIDE DEF q
    <3>2. Append(tx, q) \in Seq(Queued)
      BY <3>1
    <3> QED BY <1>1, <2>2, <3>2 DEF q
  <2> QED BY <2>1, <2>2
<1> QED
  BY <1>1, <1>4, <1>5 DEF PlaceInv, Outcome

\* An operation begins with its first command.
LEMMA StartMoves ==
  ASSUME PlaceInv, NEW op \in Ops, Start(op)
  PROVE  /\ Outcome /\ ~ Waiting
         /\ \E c \in Calls :
              /\ 1 \in DOMAIN c.script /\ Proceeds(c, 1, rx)
              /\ c.clean => Left(c.script) = 0 /\ ~ fw.data /\ (c.script[1].fresh => rx' = <<>>)
<1>1. /\ ~ Waiting /\ fw' = fw
  BY DEF Start
<1>2. PICK script \in Scripts[op] :
        Sends([script |-> script, at |-> 1, read |-> 1, timeout |-> 0,
               ignored |-> 0, unlink |-> FALSE, ok |-> TRUE,
               clean |-> /\ Left(script) = 0 /\ ~ fw.data
                         /\ script[1].fresh => Unread(rx) = <<>>,
               obeyed |-> {}, refused |-> {}, lost |-> FALSE, exact |-> TRUE],
              1, rx, lastErrorCode)
  BY DEF Start
<1>3. script \in AllScripts /\ 1 \in DOMAIN script
  BY ScriptsOf, ScriptTypes
<1> DEFINE clean == Left(script) = 0 /\ ~ fw.data /\ (script[1].fresh => Unread(rx) = <<>>)
           c == [script |-> script, at |-> 1, read |-> 1, timeout |-> 0,
                 ignored |-> 0, unlink |-> FALSE, ok |-> TRUE, clean |-> clean,
                 obeyed |-> {}, refused |-> {}, lost |-> FALSE, exact |-> TRUE]
<1>4. clean \in BOOLEAN
  OBVIOUS
<1>5. Sends(c, 1, rx, lastErrorCode)
  BY <1>2
<1>r. script[1].fresh => rx' = Unread(rx)
  BY <1>5 DEF Sends
<1> HIDE DEF clean
<1>6. c \in Calls /\ c.script = script /\ c.clean = clean
  <2>1. 0 \in 0 .. TimeoutCount /\ 0 \in 0 .. MaxIgnored
    BY ReaderAssumption
  <2> QED BY <1>3, <1>4, <2>1 DEF Calls
<1> HIDE DEF c
<1>7. lastErrorCode \in Errors /\ rx \in Seq(Lines)
  BY DEF PlaceInv
<1>8. Outcome /\ Proceeds(c, 1, rx)
  BY <1>1, <1>3, <1>5, <1>6, <1>7, SendsMoves
<1>9. c.clean => Left(c.script) = 0 /\ ~ fw.data /\ (c.script[1].fresh => rx' = <<>>)
  BY <1>6, <1>r DEF clean
<1> QED
  BY <1>1, <1>3, <1>6, <1>8, <1>9

\* A probe is sent: call c counts it.
Probes(c) ==
  /\ call' = [c EXCEPT !.timeout = @ + 1] /\ call' \in Calls
  /\ tx' = Append(tx, Probe) /\ rx' = rx /\ fw' = fw

\* Nothing has come for the timeout: a probe, or the call has failed.
LEMMA TimesOutMoves ==
  ASSUME PlaceInv, Waiting, NEW c \in Calls, c.script = call.script, c.at = call.at, TimesOut(c)
  PROVE  /\ Outcome
         /\ \/ /\ c.timeout = TimeoutCount
               /\ \/ Finishes
                  \/ \E k \in DOMAIN call.script :
                       /\ k > call.at /\ (Cmd.item = "none" => k = call.at + 1 + Cmd.skip)
                       /\ Proceeds(c, k, <<>>)
            \/ Probes(c)
<1>1. <<>> \in Seq(Lines) /\ "AT_NOT_RESPONDIG" \in Errors
  BY DEF Errors
<1>2. CASE c.timeout = TimeoutCount
  <2>1. Gives(c, <<>>, "AT_NOT_RESPONDIG")
    BY <1>2 DEF TimesOut
  <2> QED BY <1>1, <1>2, <2>1, GivesMoves
<1>3. CASE c.timeout # TimeoutCount
  <2>1. /\ call' = [c EXCEPT !.timeout = c.timeout + 1]
        /\ tx' = Append(tx, Probe) /\ rx' = rx /\ fw' = fw
        /\ result' = result /\ lastErrorCode' = lastErrorCode
    BY <1>3 DEF TimesOut
  <2>2. c.timeout + 1 \in 0 .. TimeoutCount
    <3>1. c.timeout \in 0 .. TimeoutCount /\ TimeoutCount \in Nat
      BY ReaderAssumption DEF Calls
    <3> QED BY <3>1, <1>3
  <2>3. call' \in Calls
    BY <2>1, <2>2 DEF Calls
  <2> QED BY <2>1, <2>3 DEF Outcome, PlaceInv, Probes
<1> QED
  BY <1>2, <1>3

\* The place of a call that has sent a probe.
LEMMA ProbesKeeps ==
  ASSUME PlaceInv, Waiting, Outcome, NEW c \in Calls, c.script = call.script, c.at = call.at,
         c.read = call.read, Probes(c), faults' \in 0 .. MaxFaults
  PROVE  PlaceInv'
<1>1. /\ call.at \in DOMAIN call.script /\ call.read \in 1 .. Reads
  BY CmdFacts DEF PlaceInv
<1>2. call' \in Calls /\ call'.script = call.script /\ call'.at = call.at /\ call'.read = call.read
  BY DEF Calls, Probes
<1>3. Cmd' = Cmd
  BY <1>2 DEF Cmd
<1>4. Reads' = Reads
  BY <1>3 DEF Reads, Items
<1>5. CallOK'
  BY <1>1, <1>2, <1>4 DEF CallOK
<1>6. tx' \in Seq(Queued)
  <2> DEFINE q == Probe
  <2>1. q \in Queued /\ tx \in Seq(Queued) /\ tx' = Append(tx, q)
    BY SendingTypes DEF PlaceInv, Probes
  <2> HIDE DEF q
  <2> QED BY <2>1
<1> QED
  BY <1>5, <1>6 DEF PlaceInv, Outcome, Probes

-----------------------------------------------------------------------------
(* What becomes of what was sent.                                          *)

\* The call, but for what is remembered of it.
SameCall ==
  /\ call' \in Calls /\ call'.script = call.script /\ call'.at = call.at /\ call'.read = call.read
  /\ call'.ignored = call.ignored /\ call'.timeout = call.timeout /\ call'.unlink = call.unlink
  /\ (call'.clean => call.clean) /\ (call.lost => call'.lost)
Unmoved == IF Waiting THEN SameCall ELSE call' = call

\* The lines s are those of an answer with these words.
Says(s, words) ==
  s \in Seq(Lines) /\ Len(s) = Len(words) /\ \A k \in 1 .. Len(words) : s[k].text = words[k]

\* One line more, behind an echo perhaps.
Adds(text) ==
  /\ rx' \in Seq(Lines) /\ Len(rx') \in {Len(rx) + 1, Len(rx) + 2}
  /\ \A i \in 1 .. Len(rx) : rx'[i] = rx[i]
  /\ rx'[Len(rx')].text = text
  /\ \A i \in 1 .. Len(rx') : i > Len(rx) /\ i < Len(rx') => rx'[i].text = "other"
MayEcho == rx' = rx \/ (Adds("other") /\ Len(rx') = Len(rx) + 1)

\* The firmware does not run, or is busy, or is sent what is no command.
TakeNothing == ~ fw.up /\ UNCHANGED <<call, rx, fw>>
TakeBusy(item) ==
  /\ fw.up /\ ~ fw.data /\ fw.pending # <<>> /\ Adds("busy") /\ call' = call
  /\ fw' = [fw EXCEPT !.slow = IF item.what = "?" /\ @ < MaxBusy THEN @ + 1 ELSE @]
TakeError(item) ==
  /\ fw.up /\ ~ fw.data /\ fw.pending = <<>> /\ item.what \in {"?", "data"}
  /\ Adds("ERROR") /\ TooLate(item) /\ fw' = fw

\* The firmware takes payload, or takes for it what is none.
TakePayload(item) ==
  /\ fw.up /\ fw.data /\ item.what = "data" /\ Unmoved /\ rx' = rx
  /\ fw' \in Firmware /\ ~ fw'.data
  /\ Says(fw'.pending, item.answer) \/ Says(fw'.pending, <<"Recv ", "SEND FAIL">>)
TakeOther(item) ==
  /\ fw.up /\ fw.data /\ item.what # "data" /\ TooLate(item) /\ rx' = rx /\ fw' \in Firmware

\* The firmware takes a command: it goes to sleep, or says its answer later.
TakeOrder(item) ==
  /\ item.what \notin {"?", "data"} /\ Unmoved /\ rx' \in Seq(Lines)
  /\ item.what # "pin" => fw.up /\ ~ fw.data /\ fw.pending = <<>>
  /\ fw' \in Firmware /\ ~ fw'.data
  /\ \/ item.what = "sleep" /\ fw'.pending = <<>>
     \/ /\ MayEcho
        /\ \E words \in item.refusal \cup {item.answer} : Says(fw'.pending, words)
        /\ item.what = "command" => fw'.slow = 0 /\ fw'.up

\* One line that is appended.
LEMMA AddsOne ==
  ASSUME PlaceInv, NEW text \in Words, rx' = Append(rx, Line(text))
  PROVE  Adds(text) /\ Len(rx') = Len(rx) + 1
<1>1. rx \in Seq(Lines) /\ Line(text) \in Lines /\ Line(text).text = text
  BY LineTypes DEF PlaceInv
<1> DEFINE m == Line(text)
<1> HIDE DEF m
<1>2. /\ rx' = Append(rx, m) /\ m \in Lines /\ m.text = text /\ Len(rx) \in Nat
  BY <1>1 DEF m
<1>3. /\ rx' \in Seq(Lines) /\ Len(rx') = Len(rx) + 1 /\ rx'[Len(rx) + 1] = m
      /\ \A i \in 1 .. Len(rx) : rx'[i] = rx[i]
  BY <1>1, <1>2
<1>4. \A i \in 1 .. Len(rx') : ~ (i > Len(rx) /\ i < Len(rx'))
  BY <1>2, <1>3
<1> QED
  BY <1>2, <1>3, <1>4 DEF Adds

\* The echo.
LEMMA EchoAdds ==
  ASSUME PlaceInv
  PROVE  /\ rx \o Echo \in Seq(Lines)
         /\ rx' = rx \o Echo => MayEcho /\ rx' \in Seq(Lines)
<1> DEFINE e == Line(Noise)
<1>1. rx \in Seq(Lines) /\ e \in Lines
  BY LineTypes DEF PlaceInv
<1>2. Echo = IF fw.echo THEN <<e>> ELSE <<>>
  BY DEF Echo
<1> HIDE DEF e
<1>3. CASE fw.echo
  <2>1. rx \o Echo = Append(rx, e) /\ Append(rx, e) \in Seq(Lines)
    BY <1>1, <1>2, <1>3
  <2>2. rx' = Append(rx, e) => MayEcho
    BY AddsOne, LineTypes DEF MayEcho, e
  <2> QED BY <2>1, <2>2
<1>4. CASE ~ fw.echo
  <2>1. rx \o Echo = rx
    BY <1>1, <1>2, <1>4
  <2> QED BY <1>1, <2>1 DEF MayEcho
<1> QED
  BY <1>3, <1>4

\* One line that is said behind an echo.
LEMMA SaidAdds ==
  ASSUME PlaceInv, NEW text \in Words, rx' = Said(text)
  PROVE  Adds(text)
<1> DEFINE m == Line(text)
           e == Line(Noise)
<1>1. /\ rx \in Seq(Lines) /\ m \in Lines /\ m.text = text /\ e \in Lines /\ e.text = "other"
      /\ Len(rx) \in Nat
  BY LineTypes DEF PlaceInv
<1> HIDE DEF m, e
<1>2. rx' = rx \o (IF fw.echo THEN <<e>> ELSE <<>>) \o <<m>>
  BY DEF Said, m, e
<1>3. CASE fw.echo
  <2>1. rx' = (rx \o <<e>>) \o <<m>>
    BY <1>2, <1>3
  <2>2. /\ rx \o <<e>> \in Seq(Lines) /\ Len(rx \o <<e>>) = Len(rx) + 1 /\ (rx \o <<e>>)[Len(rx) + 1] = e
        /\ \A i \in 1 .. Len(rx) : (rx \o <<e>>)[i] = rx[i]
    BY <1>1
  <2> DEFINE s == rx \o <<e>>
  <2> HIDE DEF s
  <2>6. s \in Seq(Lines) /\ Len(s) \in Nat
    BY <1>1, <2>2 DEF s
  <2>3. /\ s \o <<m>> \in Seq(Lines) /\ Len(s \o <<m>>) = Len(s) + 1 /\ (s \o <<m>>)[Len(s) + 1] = m
        /\ \A i \in 1 .. Len(s) : (s \o <<m>>)[i] = s[i]
    BY <1>1, <2>6
  <2>4. /\ rx' \in Seq(Lines) /\ Len(rx') = Len(rx) + 2 /\ rx'[Len(rx) + 2] = m /\ rx'[Len(rx) + 1] = e
        /\ \A i \in 1 .. Len(rx) : rx'[i] = rx[i]
    BY <1>1, <2>1, <2>2, <2>3 DEF s
  <2>5. \A i \in 1 .. Len(rx') : i > Len(rx) /\ i < Len(rx') => i = Len(rx) + 1
    BY <1>1, <2>4
  <2> QED BY <1>1, <2>4, <2>5 DEF Adds
<1>4. CASE ~ fw.echo
  <2>1. rx' = rx \o <<m>>
    BY <1>1, <1>2, <1>4
  <2>2. /\ rx' \in Seq(Lines) /\ Len(rx') = Len(rx) + 1 /\ rx'[Len(rx) + 1] = m
        /\ \A i \in 1 .. Len(rx) : rx'[i] = rx[i]
    BY <1>1, <2>1
  <2>3. \A i \in 1 .. Len(rx') : ~ (i > Len(rx) /\ i < Len(rx'))
    BY <1>1, <2>2
  <2> QED BY <1>1, <2>2, <2>3 DEF Adds
<1> QED
  BY <1>3, <1>4

\* What is remembered of a command leaves the call where it is.
LEMMA RecordsSame ==
  ASSUME PlaceInv, NEW of \in Nat, NEW field, Records(of, field)
  PROVE  Unmoved
<1>1. CASE Waiting
  <2>1. call \in Calls
    BY <1>1, CmdFacts DEF PlaceInv
  <2>2. call' = call \/ call' = [call EXCEPT !.obeyed = call.obeyed \cup {of}]
        \/ call' = [call EXCEPT !.refused = call.refused \cup {of}]
    BY DEF Records
  <2>3. call.obeyed \cup {of} \in SUBSET Nat /\ call.refused \cup {of} \in SUBSET Nat
    BY <2>1 DEF Calls
  <2> QED BY <1>1, <2>1, <2>2, <2>3 DEF Unmoved, SameCall, Calls
<1>2. CASE ~ Waiting
  BY <1>2 DEF Records, Unmoved
<1> QED
  BY <1>1, <1>2

\* Nor does a probe that came too late.
LEMMA TooLateSame ==
  ASSUME PlaceInv, NEW item, TooLate(item)
  PROVE  Unmoved
<1>1. CASE Waiting
  <2>1. call \in Calls
    BY <1>1, CmdFacts DEF PlaceInv
  <2>2. call' = call \/ call' = [call EXCEPT !.clean = FALSE]
    BY DEF TooLate
  <2> QED BY <1>1, <2>1, <2>2 DEF Unmoved, SameCall, Calls
<1>2. CASE ~ Waiting
  BY <1>2 DEF TooLate, Unmoved
<1> QED
  BY <1>1, <1>2

\* A firmware with other lines to say.
LEMMA WorksFacts ==
  ASSUME PlaceInv, NEW words \in Seq(Words), NEW of \in Nat, Works(Answer(words, of))
  PROVE  /\ fw' \in Firmware /\ ~ fw'.data /\ fw'.slow = 0 /\ fw'.up = fw.up
         /\ Says(fw'.pending, words)
<1> DEFINE p == Answer(words, of)
<1>1. p \in Seq(Lines) /\ Says(p, words)
  BY AnswerLines DEF Says
<1>2. fw' = [fw EXCEPT !.pending = p, !.slow = 0, !.data = FALSE] /\ fw \in Firmware
  BY DEF Works, PlaceInv
<1> HIDE DEF p
<1>3. fw' \in Firmware /\ fw'.pending = p /\ ~ fw'.data /\ fw'.slow = 0 /\ fw'.up = fw.up
  BY <1>1, <1>2 DEF Firmware
<1> QED
  BY <1>1, <1>3

\* A firmware that restarts.
LEMMA RestartsFacts ==
  ASSUME PlaceInv, NEW lines \in Seq(Lines), Restarts(lines)
  PROVE  fw' \in Firmware /\ fw'.pending = lines /\ ~ fw'.data
<1>1. /\ fw' = [fw EXCEPT !.up = TRUE, !.pending = lines, !.slow = 0, !.data = FALSE, !.echo = TRUE]
      /\ fw \in Firmware
  BY DEF Restarts, PlaceInv
<1> QED
  BY <1>1 DEF Firmware

\* A command that is refused.
LEMMA RefusesFacts ==
  ASSUME PlaceInv, NEW item \in Queued, Refuses(item), item.what \notin {"?", "data", "pin"},
         fw.up, ~ fw.data, fw.pending = <<>>
  PROVE  TakeOrder(item)
<1>1. item.of \in Nat /\ item.refusal \in SUBSET Seq(Words)
  BY DEF Queued
<1>2. Unmoved
  BY <1>1, RecordsSame DEF Refuses
<1>3. PICK words \in item.refusal : Works(Answer(words, item.of))
  BY DEF Refuses
<1>4. words \in Seq(Words)
  BY <1>1
<1>5. /\ fw' \in Firmware /\ ~ fw'.data /\ fw'.slow = 0 /\ fw'.up = fw.up
      /\ Says(fw'.pending, words)
  BY <1>1, <1>3, <1>4, WorksFacts
<1>6. MayEcho /\ rx' \in Seq(Lines)
  BY EchoAdds DEF Refuses
<1> QED
  BY <1>2, <1>3, <1>5, <1>6 DEF TakeOrder

\* A command that is obeyed.
LEMMA ObeysFacts ==
  ASSUME PlaceInv, NEW item \in Queued, Obeys(item), item.what \notin {"?", "data"},
         item.what # "pin" => fw.up /\ ~ fw.data /\ fw.pending = <<>>
  PROVE  TakeOrder(item)
<1>1. /\ item.of \in Nat /\ item.answer \in Seq(Words)
      /\ item.what \in {"command", "restart", "pin", "echo off", "sleep"}
  BY DEF Queued, SendKinds
<1> DEFINE p == Answer(item.answer, item.of)
<1>2. /\ Records(item.of, "obeyed")
      /\ item.what \in {"restart", "pin"} => Restarts(p) /\ rx' = rx
      /\ item.what = "sleep" => fw' = [fw EXCEPT !.up = FALSE] /\ rx' = rx \o Echo \o p
      /\ item.what = "echo off" =>
           fw' = [fw EXCEPT !.pending = p, !.slow = 0, !.echo = FALSE] /\ rx' = rx \o Echo
      /\ item.what = "command" => Works(p) /\ rx' = rx \o Echo
  BY <1>1 DEF Obeys
<1>3. Unmoved
  BY <1>1, <1>2, RecordsSame
<1>5. p \in Seq(Lines) /\ Says(p, item.answer)
  BY <1>1, AnswerLines DEF Says
<1>6. rx \in Seq(Lines)
  BY DEF PlaceInv
<1>7. rx' = rx \o Echo => MayEcho /\ rx' \in Seq(Lines)
  BY EchoAdds
<1>8. CASE item.what \in {"restart", "pin"}
  BY <1>2, <1>3, <1>5, <1>6, <1>8, RestartsFacts DEF TakeOrder, MayEcho
<1>9. CASE item.what = "command"
  <2>1. /\ fw' \in Firmware /\ ~ fw'.data /\ fw'.slow = 0 /\ fw'.up = fw.up
        /\ Says(fw'.pending, item.answer)
    BY <1>1, <1>2, <1>9, WorksFacts
  <2> QED BY <1>2, <1>3, <1>7, <1>9, <2>1 DEF TakeOrder
<1>10. CASE item.what = "echo off"
  <2> HIDE DEF p
  <2>1. fw' = [fw EXCEPT !.pending = p, !.slow = 0, !.echo = FALSE] /\ fw \in Firmware /\ ~ fw.data
    BY <1>2, <1>10 DEF PlaceInv
  <2>2. fw' \in Firmware /\ ~ fw'.data /\ fw'.pending = p
    BY <1>5, <2>1 DEF Firmware
  <2> QED BY <1>2, <1>3, <1>5, <1>7, <1>10, <2>2 DEF TakeOrder
<1>11. CASE item.what = "sleep"
  <2> HIDE DEF p
  <2>1. fw' = [fw EXCEPT !.up = FALSE] /\ fw \in Firmware /\ ~ fw.data /\ fw.pending = <<>>
    BY <1>2, <1>11 DEF PlaceInv
  <2>2. fw' \in Firmware /\ ~ fw'.data /\ fw'.pending = <<>>
    BY <2>1 DEF Firmware
  <2>3. rx' \in Seq(Lines)
    <3> DEFINE r == rx \o Echo
    <3>1. r \in Seq(Lines) /\ rx' = r \o p
      BY <1>2, <1>11, EchoAdds
    <3> HIDE DEF r
    <3> QED BY <1>5, <3>1
  <2> QED BY <1>3, <1>11, <2>1, <2>2, <2>3 DEF TakeOrder
<1> QED
  BY <1>1, <1>8, <1>9, <1>10, <1>11

\* The answers to a payload.
LEMMA WordPairs ==
  /\ <<"Recv ", "SEND OK">> \in Seq(Words) /\ <<"Recv ", "SEND FAIL">> \in Seq(Words)
  /\ <<Noise, "ready">> \in Seq(Words)
<1>1. \A a, b \in Words : <<a, b>> \in Seq(Words)
  OBVIOUS
<1>2. /\ "Recv " \in Words /\ "SEND OK" \in Words /\ "SEND FAIL" \in Words
      /\ "ready" \in Words /\ "other" \in Words
  BY DEF Words
<1>3. Noise \in Words
  BY LineTypes
<1> QED
  BY <1>1, <1>2, <1>3

\* A firmware that works on nothing but what it says.
LEMMA WorkingFirmware ==
  ASSUME fw \in Firmware, NEW p \in Seq(Lines),
         fw' = [fw EXCEPT !.pending = p, !.slow = 0, !.data = FALSE]
  PROVE  fw' \in Firmware
BY DEF Firmware

\* What the firmware takes for payload when it waits for some.
LEMMA TakeOtherFacts ==
  ASSUME PlaceInv, fw' = fw \/ Works(Forgotten(Answer(<<"Recv ", "SEND OK">>, 0)))
  PROVE  fw' \in Firmware
<1> DEFINE w == <<"Recv ", "SEND OK">>
           p == Forgotten(Answer(w, 0))
<1>1. p \in Seq(Lines)
  <2>1. w \in Seq(Words)
    BY WordPairs
  <2> HIDE DEF w
  <2>2. Answer(w, 0) \in Seq(Lines)
    BY <2>1, AnswerLines
  <2> QED BY <2>2, ForgottenLines
<1> HIDE DEF p
<1>2. fw' = fw \/ fw' = [fw EXCEPT !.pending = p, !.slow = 0, !.data = FALSE]
  BY DEF p, Works
<1>3. fw \in Firmware
  BY DEF PlaceInv
<1> QED
  BY <1>1, <1>2, <1>3, WorkingFirmware

\* What becomes of what was sent.
LEMMA TakeCases ==
  ASSUME PlaceInv, FwTake, NEW item, item = Head(tx)
  PROVE  /\ item \in Queued /\ tx # <<>> /\ tx' = Tail(tx) /\ UNCHANGED <<result, lastErrorCode, faults>>
         /\ \/ TakeNothing \/ TakeBusy(item) \/ TakeError(item) \/ TakePayload(item)
            \/ TakeOther(item) \/ TakeOrder(item)
<1>1. tx # <<>> /\ Takes(item) /\ tx' = Tail(tx) /\ UNCHANGED <<result, lastErrorCode, faults>>
  BY DEF FwTake
<1>2. item \in Queued
  BY <1>1 DEF PlaceInv
<1>3. item.of \in Nat /\ item.answer \in Seq(Words)
  BY <1>2 DEF Queued
<1>4. CASE item.what = "pin"
  <2>1. Obeys(item)
    BY <1>1, <1>4 DEF Takes
  <2> QED BY <1>1, <1>2, <1>4, <2>1, ObeysFacts
<1>5. CASE item.what # "pin" /\ ~ fw.up
  <2>1. UNCHANGED <<call, rx, fw>>
    BY <1>1, <1>5 DEF Takes
  <2> QED BY <1>1, <1>2, <1>5, <2>1 DEF TakeNothing
<1>6. CASE item.what # "pin" /\ fw.up /\ fw.data
  <2>1. TakesData(item)
    BY <1>1, <1>6 DEF Takes
  <2>2. CASE item.what = "data"
    <3>1. PICK words \in {item.answer, <<"Recv ", "SEND FAIL">>} : Works(Answer(words, item.of))
      BY <2>1, <2>2 DEF TakesData
    <3>2. words \in Seq(Words)
      <4>1. <<"Recv ", "SEND FAIL">> \in Seq(Words)
        BY WordPairs
      <4> QED BY <1>3, <3>1, <4>1
    <3>3. fw' \in Firmware /\ ~ fw'.data /\ Says(fw'.pending, words)
      BY <1>3, <3>1, <3>2, WorksFacts
    <3>4. Unmoved /\ rx' = rx
      BY <1>3, <2>1, <2>2, RecordsSame DEF TakesData
    <3>5. TakePayload(item)
      BY <1>6, <2>2, <3>1, <3>3, <3>4 DEF TakePayload
    <3> QED BY <1>1, <1>2, <3>5
  <2>3. CASE item.what # "data"
    <3>1. /\ TooLate(item) /\ rx' = rx
          /\ fw' = fw \/ Works(Forgotten(Answer(<<"Recv ", "SEND OK">>, 0)))
      BY <2>1, <2>3 DEF TakesData
    <3> QED BY <1>1, <1>2, <1>6, <2>3, <3>1, TakeOtherFacts DEF TakeOther
  <2> QED BY <2>2, <2>3
<1>7. CASE item.what # "pin" /\ fw.up /\ ~ fw.data /\ fw.pending # <<>>
  <2>1. SaysBusy(item)
    BY <1>1, <1>7 DEF Takes
  <2>2. Adds("busy")
    BY <2>1, SaidAdds DEF Words, SaysBusy
  <2> QED BY <1>1, <1>2, <1>7, <2>1, <2>2 DEF TakeBusy, SaysBusy
<1>8. CASE item.what # "pin" /\ fw.up /\ ~ fw.data /\ fw.pending = <<>>
  <2>1. TakesCommand(item)
    BY <1>1, <1>8 DEF Takes
  <2>2. CASE item.what \in {"?", "data"}
    <3>1. rx' = Said("ERROR") /\ TooLate(item) /\ fw' = fw
      BY <2>1, <2>2 DEF TakesCommand
    <3>2. Adds("ERROR")
      BY <3>1, SaidAdds DEF Words
    <3> QED BY <1>1, <1>2, <1>8, <2>2, <3>1, <3>2 DEF TakeError
  <2>3. CASE item.what \notin {"?", "data"}
    <3>1. Obeys(item) \/ Refuses(item)
      BY <2>1, <2>3 DEF TakesCommand
    <3> QED BY <1>1, <1>2, <1>8, <2>3, <3>1, ObeysFacts, RefusesFacts
  <2> QED BY <2>2, <2>3
<1> QED
  BY <1>4, <1>5, <1>6, <1>7, <1>8

-----------------------------------------------------------------------------
(* The place of a call is kept.                                            *)

\* A call that goes on where it is, in a step of the firmware or a fault.
LEMMA SameKeeps ==
  ASSUME PlaceInv, call' = call \/ Unmoved, fw' \in Firmware, rx' \in Seq(Lines),
         tx' \in Seq(Queued), Outcome, faults' \in 0 .. MaxFaults
  PROVE  PlaceInv'
<1>1. CallOK'
  <2>1. CASE call' = call
    BY <2>1 DEF PlaceInv, CallOK, Reads, Items, Cmd
  <2>2. CASE Waiting /\ SameCall
    <3>1. /\ call' \in Calls /\ call'.script = call.script /\ call'.at = call.at
          /\ call'.read = call.read /\ call.at \in DOMAIN call.script /\ call.read \in 1 .. Reads
      BY <2>2, CmdFacts DEF PlaceInv, SameCall
    <3>2. Cmd' = Cmd
      BY <3>1 DEF Cmd
    <3>3. Reads' = Reads
      BY <3>2 DEF Reads, Items
    <3> QED BY <3>1, <3>3 DEF CallOK
  <2> QED BY <2>1, <2>2 DEF Unmoved
<1> QED
  BY <1>1 DEF PlaceInv, Outcome

\* Firmware that has outlasted one more probe.
LEMMA SlowerFirmware ==
  ASSUME fw \in Firmware, NEW item, fw' = [fw EXCEPT !.slow = IF item.what = "?" /\ @ < MaxBusy THEN @ + 1 ELSE @]
  PROVE  /\ fw' \in Firmware /\ fw'.up = fw.up /\ fw'.data = fw.data /\ fw'.pending = fw.pending
         /\ item.what = "?" /\ fw.slow < MaxBusy => fw'.slow = fw.slow + 1
         /\ ~ (item.what = "?" /\ fw.slow < MaxBusy) => fw'.slow = fw.slow
<1> DEFINE n == IF item.what = "?" /\ fw.slow < MaxBusy THEN fw.slow + 1 ELSE fw.slow
<1>1. fw' = [fw EXCEPT !.slow = n]
  OBVIOUS
<1>2. n \in Nat
  BY DEF Firmware
<1>3. /\ item.what = "?" /\ fw.slow < MaxBusy => n = fw.slow + 1
      /\ ~ (item.what = "?" /\ fw.slow < MaxBusy) => n = fw.slow
  OBVIOUS
<1> HIDE DEF n
<1>4. fw' \in Firmware /\ fw'.slow = n /\ fw'.up = fw.up /\ fw'.data = fw.data /\ fw'.pending = fw.pending
  BY <1>1, <1>2 DEF Firmware
<1> QED
  BY <1>3, <1>4

\* The firmware takes what was sent.
LEMMA TakeKeeps ==
  ASSUME PlaceInv, FwTake
  PROVE  PlaceInv'
<1> DEFINE item == Head(tx)
<1>1. /\ tx # <<>> /\ tx' = Tail(tx) /\ UNCHANGED <<result, lastErrorCode, faults>>
      /\ \/ TakeNothing \/ TakeBusy(item) \/ TakeError(item) \/ TakePayload(item)
         \/ TakeOther(item) \/ TakeOrder(item)
  BY TakeCases
<1> HIDE DEF item
<1>2. Outcome /\ faults' \in 0 .. MaxFaults /\ fw \in Firmware /\ rx \in Seq(Lines)
  BY <1>1 DEF PlaceInv, Outcome
<1>3. tx' \in Seq(Queued)
  BY <1>1 DEF PlaceInv
<1>4. CASE TakeNothing
  BY <1>2, <1>3, <1>4, SameKeeps DEF TakeNothing
<1>5. CASE TakeBusy(item)
  <2>1. fw' \in Firmware
    BY <1>2, <1>5, SlowerFirmware DEF TakeBusy
  <2> QED BY <1>2, <1>3, <1>5, <2>1, SameKeeps DEF TakeBusy, Adds
<1>6. CASE TakeError(item)
  <2>1. Unmoved
    BY <1>6, TooLateSame DEF TakeError
  <2> QED BY <1>2, <1>3, <1>6, <2>1, SameKeeps DEF TakeError, Adds
<1>7. CASE TakePayload(item)
  BY <1>2, <1>3, <1>7, SameKeeps DEF TakePayload
<1>8. CASE TakeOther(item)
  <2>1. Unmoved
    BY <1>8, TooLateSame DEF TakeOther
  <2> QED BY <1>2, <1>3, <1>8, <2>1, SameKeeps DEF TakeOther
<1>9. CASE TakeOrder(item)
  BY <1>2, <1>3, <1>9, SameKeeps DEF TakeOrder
<1> QED
  BY <1>1, <1>4, <1>5, <1>6, <1>7, <1>8, <1>9

\* The firmware says the next line.
LEMMA EmitFacts ==
  ASSUME PlaceInv, FwEmit
  PROVE  /\ fw.up /\ fw.pending # <<>> /\ Len(fw.pending) \in Nat \ {0} /\ tx' = Overtaken(tx)
         /\ UNCHANGED <<call, result, lastErrorCode, faults>>
         /\ fw' \in Firmware /\ fw'.up
         /\ fw'.slow = IF Len(fw.pending) = 1 THEN 0 ELSE fw.slow
         /\ fw'.data = (fw.pending[1].text = ">")
         /\ Len(fw'.pending) = Len(fw.pending) - 1
         /\ \A i \in 1 .. Len(fw'.pending) : i + 1 \in 1 .. Len(fw.pending) /\ fw'.pending[i] = fw.pending[i + 1]
         /\ rx' \in Seq(Lines) /\ Len(rx') = Len(rx) + 1 /\ rx'[Len(rx')] = fw.pending[1]
         /\ \A i \in 1 .. Len(rx) : rx'[i] = rx[i]
<1> DEFINE s == fw.pending
           d == s[1].text = ">"
           n == IF Len(s) = 1 THEN 0 ELSE fw.slow
<1>1. /\ fw.up /\ s # <<>> /\ tx' = Overtaken(tx)
      /\ UNCHANGED <<call, result, lastErrorCode, faults>>
      /\ rx' = Append(rx, Head(s))
      /\ fw' = [fw EXCEPT !.pending = Tail(s), !.data = Head(s).text = ">", !.slow = n]
  BY DEF FwEmit
<1>2. s \in Seq(Lines) /\ fw \in Firmware /\ rx \in Seq(Lines) /\ Len(rx) \in Nat /\ n \in Nat
  BY DEF PlaceInv, Firmware
<1>n. n = IF Len(fw.pending) = 1 THEN 0 ELSE fw.slow
  OBVIOUS
<1> HIDE DEF n, s
<1>3. /\ Head(s) = s[1] /\ s[1] \in Lines /\ Tail(s) \in Seq(Lines) /\ Len(s) \in Nat \ {0}
      /\ Len(Tail(s)) = Len(s) - 1
      /\ \A i \in 1 .. Len(Tail(s)) : i + 1 \in 1 .. Len(s) /\ Tail(s)[i] = s[i + 1]
  BY <1>1, <1>2
<1> DEFINE t == Tail(s)
           m == s[1]
<1> HIDE DEF t, m
<1>4. fw' = [fw EXCEPT !.pending = t, !.data = d, !.slow = n] /\ t \in Seq(Lines) /\ d \in BOOLEAN
  BY <1>1, <1>3 DEF t
<1> HIDE DEF d
<1>5. /\ fw' \in Firmware /\ fw'.up = fw.up /\ fw'.slow = n
      /\ fw'.pending = t /\ fw'.data = d
  BY <1>2, <1>4 DEF Firmware
<1>6. rx' = Append(rx, m) /\ m \in Lines
  BY <1>1, <1>3 DEF m
<1>7. /\ rx' \in Seq(Lines) /\ Len(rx') = Len(rx) + 1 /\ rx'[Len(rx) + 1] = m
      /\ \A i \in 1 .. Len(rx) : rx'[i] = rx[i]
  BY <1>2, <1>6
<1> QED
  BY <1>1, <1>3, <1>5, <1>7, <1>n DEF s, t, m, d

\* One fault more.
LEMMA FaultCounts ==
  ASSUME faults \in 0 .. MaxFaults, Fault
  PROVE  faults' \in 0 .. MaxFaults /\ faults' = faults + 1 /\ MaxFaults \in Nat /\ faults < MaxFaults
BY ReaderAssumption DEF Fault

\* A fault that loses something is remembered.
LEMMA LosesSame ==
  ASSUME PlaceInv, Loses
  PROVE  Unmoved
<1>1. CASE Waiting
  <2>1. call' = [call EXCEPT !.lost = TRUE] /\ call \in Calls
    BY <1>1, CmdFacts DEF Loses, PlaceInv
  <2> QED BY <1>1, <2>1 DEF Unmoved, SameCall, Calls
<1> QED
  BY <1>1 DEF Loses, Unmoved

\* The place of a call that the firmware lets wait.
LEMMA TimesOutKeeps ==
  ASSUME PlaceInv, Waiting, NEW c \in Calls, c.script = call.script, c.at = call.at,
         c.read = call.read, TimesOut(c), faults' \in 0 .. MaxFaults
  PROVE  PlaceInv'
<1>1. /\ Outcome
      /\ \/ Finishes
         \/ \E k \in DOMAIN call.script : Proceeds(c, k, <<>>)
         \/ Probes(c)
  BY TimesOutMoves
<1>2. CASE Finishes
  BY <1>1, <1>2, FinishesKeeps
<1>3. ASSUME NEW k \in DOMAIN call.script, Proceeds(c, k, <<>>) PROVE PlaceInv'
  BY <1>1, <1>3, ProceedsKeeps
<1>4. CASE Probes(c)
  BY <1>1, <1>4, ProbesKeeps
<1> QED
  BY <1>1, <1>2, <1>3, <1>4

\* The place of a call after a fault.
LEMMA FaultKeeps ==
  ASSUME PlaceInv, LoseLine \/ Hang \/ Reboot \/ Stall \/ Unasked \/ McuRestart
  PROVE  PlaceInv'
<1>1. /\ rx \in Seq(Lines) /\ fw \in Firmware /\ fw.pending \in Seq(Lines)
      /\ tx \in Seq(Queued) /\ faults \in 0 .. MaxFaults
      /\ result \in {"none", "ok", "fail"} /\ lastErrorCode \in Errors
  BY DEF PlaceInv, Firmware
<1>2. faults' \in 0 .. MaxFaults
  BY <1>1, FaultCounts DEF LoseLine, Hang, Reboot, Stall, Unasked, McuRestart
<1>o. UNCHANGED <<result, lastErrorCode>> => Outcome
  BY <1>1 DEF Outcome
<1>4. CASE LoseLine
  <2> DEFINE e == Line(Noise)
  <2>1. e \in Lines
    BY LineTypes
  <2> HIDE DEF e
  <2>2. /\ Loses /\ rx # <<>> /\ tx' = tx /\ fw' = fw /\ UNCHANGED <<result, lastErrorCode>>
        /\ rx' = Front(rx) \/ rx' = Append(Front(rx), e)
    BY <1>4 DEF LoseLine, e
  <2>3. Front(rx) \in Seq(Lines)
    BY <1>1, <2>2, SubSeqProperties DEF Front
  <2>4. rx' \in Seq(Lines)
    <3> DEFINE f == Front(rx)
    <3>1. f \in Seq(Lines) /\ (rx' = f \/ rx' = Append(f, e))
      BY <2>2, <2>3
    <3> HIDE DEF f
    <3> QED BY <2>1, <3>1
  <2> QED BY <1>1, <1>2, <1>o, <2>2, <2>4, LosesSame, SameKeeps
<1>5. CASE Hang
  <2>1. /\ Loses /\ rx' = rx /\ tx' = tx /\ UNCHANGED <<result, lastErrorCode>>
        /\ fw' = [fw EXCEPT !.up = FALSE, !.pending = <<>>, !.data = FALSE, !.slow = 0]
    BY <1>5 DEF Hang
  <2>2. fw' \in Firmware
    <3>1. <<>> \in Seq(Lines)
      OBVIOUS
    <3> QED BY <1>1, <2>1, <3>1 DEF Firmware
  <2> QED BY <1>1, <1>2, <1>o, <2>1, <2>2, LosesSame, SameKeeps
<1>6. CASE Reboot
  <2> DEFINE w == <<Noise, "ready">>
             p == Forgotten(Answer(w, 0))
  <2>1. Loses /\ rx' = rx /\ tx' = <<>> /\ UNCHANGED <<result, lastErrorCode>> /\ Restarts(p)
    BY <1>6 DEF Reboot
  <2>2. w \in Seq(Words)
    BY WordPairs
  <2> HIDE DEF w
  <2>3. p \in Seq(Lines)
    BY <2>2, AnswerLines, ForgottenLines
  <2> HIDE DEF p
  <2>4. fw' \in Firmware
    BY <2>1, <2>3, RestartsFacts
  <2>5. tx' \in Seq(Queued)
    BY <2>1
  <2> QED BY <1>1, <1>2, <1>o, <2>1, <2>4, <2>5, LosesSame, SameKeeps
<1>7. CASE Stall
  <2> DEFINE c == [call EXCEPT !.clean = FALSE]
  <2>1. Waiting /\ TimesOut(c)
    BY <1>7 DEF Stall, Nothing
  <2>2. c \in Calls /\ c.script = call.script /\ c.at = call.at /\ c.read = call.read
    BY <2>1, CmdFacts DEF PlaceInv, Calls
  <2> HIDE DEF c
  <2> QED BY <1>2, <2>1, <2>2, TimesOutKeeps
<1>8. CASE Unasked
  <2>1. PICK text \in {"event", Noise} : rx' = Append(rx, Line(text))
    BY <1>8 DEF Unasked
  <2>2. text \in Words
    <3>1. "event" \in Words
      BY DEF Words
    <3> QED BY <3>1, LineTypes
  <2>3. rx' \in Seq(Lines)
    BY <2>1, <2>2, AddsOne DEF Adds
  <2>4. UNCHANGED <<call, tx, fw, result, lastErrorCode>>
    BY <1>8 DEF Unasked
  <2> QED BY <1>1, <1>2, <1>o, <2>3, <2>4, SameKeeps
<1>9. CASE McuRestart
  <2> DEFINE p == Forgotten(fw.pending)
  <2>1. p \in Seq(Lines)
    BY <1>1, ForgottenLines
  <2> HIDE DEF p
  <2>2. /\ tx' = Disowned(tx) /\ call' = Idle /\ rx' = <<>> /\ result' = "none"
        /\ lastErrorCode' = "NO_ERROR" /\ fw' = [fw EXCEPT !.pending = p]
    BY <1>9 DEF McuRestart, p
  <2>3. fw' \in Firmware
    BY <1>1, <2>1, <2>2 DEF Firmware
  <2>4. rx' \in Seq(Lines) /\ tx' \in Seq(Queued)
    BY <1>1, <2>2, QueueTypes
  <2> QED BY <1>2, <2>2, <2>3, <2>4 DEF PlaceInv, CallOK, Errors
<1> QED
  BY <1>4, <1>5, <1>6, <1>7, <1>8, <1>9

\* Every step keeps the place of the call.
LEMMA PlaceStep ==
  ASSUME PlaceInv, Next
  PROVE  PlaceInv'
<1>1. rx \in Seq(Lines) /\ faults \in 0 .. MaxFaults
  BY DEF PlaceInv
<1>2. ASSUME NEW op \in Ops, Start(op) PROVE PlaceInv'
  <2>1. Outcome /\ faults' = faults
    BY <1>2, StartMoves DEF Start
  <2>2. PICK c \in Calls : 1 \in DOMAIN c.script /\ Proceeds(c, 1, rx)
    BY <1>2, StartMoves
  <2> QED BY <1>1, <2>1, <2>2, ProceedsKeeps
<1>3. CASE ReadLine
  <2>1. Outcome /\ ReadEnds /\ faults' = faults
    BY <1>3, ReadMoves DEF ReadLine
  <2>2. Waiting /\ Tail(rx) \in Seq(Lines)
    BY <1>3, ReadFacts DEF ReadLine
  <2>3. CASE Finishes
    BY <1>1, <2>1, <2>3, FinishesKeeps
  <2>4. CASE Stays(Tail(rx))
    BY <1>1, <2>1, <2>2, <2>4, StaysKeeps
  <2>5. ASSUME NEW c \in Calls, NEW k \in DOMAIN c.script, Proceeds(c, k, Tail(rx)) PROVE PlaceInv'
    BY <1>1, <2>1, <2>5, ProceedsKeeps
  <2> QED BY <2>1, <2>3, <2>4, <2>5 DEF ReadEnds
<1>4. CASE Timeout
  <2>1. Waiting /\ TimesOut(call) /\ faults' = faults
    BY <1>4 DEF Timeout, Nothing
  <2>2. call \in Calls
    BY <2>1, CmdFacts DEF PlaceInv
  <2> QED BY <1>1, <2>1, <2>2, TimesOutKeeps
<1>5. CASE FwTake
  BY <1>5, TakeKeeps
<1>6. CASE FwEmit
  <2>1. /\ tx' = Overtaken(tx) /\ UNCHANGED <<call, result, lastErrorCode, faults>>
        /\ fw' \in Firmware /\ rx' \in Seq(Lines)
    BY <1>6, EmitFacts
  <2>2. tx' \in Seq(Queued)
    BY <2>1, QueueTypes DEF PlaceInv
  <2> QED BY <1>1, <2>1, <2>2, SameKeeps DEF PlaceInv, Outcome
<1> QED
  BY <1>2, <1>3, <1>4, <1>5, <1>6, FaultKeeps DEF Next

\* The place of a call is in its script for every operation of the driver, its counters
\* are within their limits, and what is on its way to the firmware is a command or a probe.
THEOREM PlaceIsKept == Spec => []PlaceInv
<1>1. Init => PlaceInv
  <2>1. ASSUME Init PROVE PlaceInv
    <3>1. /\ call = Idle /\ rx = <<>> /\ tx = <<>> /\ result = "none"
          /\ lastErrorCode = "NO_ERROR" /\ faults = 0
          /\ fw \in [at1 : Versions, up : {TRUE}, pending : {<<>>}, data : {FALSE},
                     slow : {0}, echo : {FALSE}]
      BY <2>1 DEF Init
    <3>2. fw \in Firmware
      <4>1. <<>> \in Seq(Lines)
        OBVIOUS
      <4>2. fw.at1 \in Versions /\ Versions \subseteq BOOLEAN
        BY <3>1, ReaderAssumption
      <4>3. /\ fw.up \in BOOLEAN /\ fw.data \in BOOLEAN /\ fw.echo \in BOOLEAN
            /\ fw.slow \in Nat /\ fw.pending \in Seq(Lines)
        <5>1. /\ fw.up \in {TRUE} /\ fw.data \in {FALSE} /\ fw.echo \in {FALSE}
              /\ fw.slow \in {0} /\ fw.pending \in {<<>>}
          BY <3>1
        <5>2. fw.pending \in Seq(Lines)
          <6>1. fw.pending = <<>>
            BY <5>1
          <6> QED BY <4>1, <6>1
        <5>3. fw.slow = 0
          BY <5>1
        <5>4. fw.slow \in Nat
          BY <5>3
        <5> QED BY <5>1, <5>2, <5>4
      <4>4. fw = [at1 |-> fw.at1, up |-> fw.up, pending |-> fw.pending, data |-> fw.data,
                  slow |-> fw.slow, echo |-> fw.echo]
        BY <3>1
      <4> QED BY <4>2, <4>3, <4>4 DEF Firmware
    <3>3. rx \in Seq(Lines) /\ tx \in Seq(Queued)
      BY <3>1
    <3>4. faults \in 0 .. MaxFaults
      BY <3>1, ReaderAssumption
    <3> QED BY <3>1, <3>2, <3>3, <3>4 DEF PlaceInv, CallOK, Errors
  <2> QED BY <2>1
<1>2. PlaceInv /\ [Next]_vars => PlaceInv'
  <2>1. ASSUME PlaceInv, UNCHANGED vars PROVE PlaceInv'
    BY <2>1 DEF vars, PlaceInv, CallOK, Waiting, Reads, Items, Cmd
  <2> QED BY <2>1, PlaceStep
<1> QED
  BY <1>1, <1>2, PTL DEF Spec

\* The type invariant of the line reader, for all operations and any number of faults.
THEOREM Types == Spec => []TypeOK
<1>1. PlaceInv => TypeOK
  <2>1. ASSUME PlaceInv PROVE TypeOK
    <3>1. /\ rx \in Seq([text : Words, of : Nat, nth : Nat])
          /\ result \in {"none", "ok", "fail"}
          /\ lastErrorCode \in {"NO_ERROR", "AT_ERROR", "NO_AP", "AT_NOT_RESPONDIG", "SEND"}
      BY <2>1 DEF PlaceInv, Lines, Errors
    <3>2. \A k \in DOMAIN tx : tx[k].what # "nothing"
      <4>1. \A k \in DOMAIN tx : tx[k] \in Queued
        BY <2>1, ElementOfSeq, LenProperties DEF PlaceInv
      <4> QED BY <4>1 DEF Queued, SendKinds
    <3>3. ASSUME Waiting
          PROVE  /\ call.at \in DOMAIN call.script /\ call.read \in 1 .. Reads
                 /\ call.timeout <= TimeoutCount /\ call.ignored <= MaxIgnored
      <4>1. call \in Calls /\ call.at \in DOMAIN call.script /\ call.read \in 1 .. Reads
        BY <2>1, <3>3, CmdFacts DEF PlaceInv
      <4> QED BY <4>1, ReaderAssumption DEF Calls
    <3> QED BY <3>1, <3>2, <3>3 DEF TypeOK
  <2> QED BY <2>1
<1> QED
  BY <1>1, PlaceIsKept, PTL

-----------------------------------------------------------------------------
(* The payload.                                                            *)

\* Calls about which the property says something.
Heard == Waiting /\ call.clean /\ ~ call.lost
Plainly == Heard /\ call.script \in PlainScripts
SendCall == Heard /\ call.script \in SendScripts

\* The lines s start with no other words; all words but the prompt; the lines of a send;
\* what may come between them; what may come before a prompt.
Only(s, words) == \A i \in 1 .. Len(s) : s[i].text \in words
Mute == Words \ {">"}
Spoken == {"OK", "other", "event", "busy", "ERROR", ">", "Recv ", "SEND OK", "SEND FAIL"}
Small == {"other", "event"}
Before == {"OK", "busy", "other", "event"}
Finals == {"SEND OK", "SEND FAIL"}

\* No prompt can come: none is said, and none of what was sent is answered with one.
PlainItem(item) ==
  item.what # "data" /\ item.answer \in Answers /\ item.refusal \subseteq Answers
Hushed ==
  ~ fw.data /\ Only(fw.pending, Mute) /\ \A k \in 1 .. Len(tx) : PlainItem(tx[k])

\* Probes, overtaken or not.
Late == [Probe EXCEPT !.overtaken = TRUE]
IsProbe(item) == item \in {Probe, Late}
OneProbe == tx = <<>> \/ (Len(tx) = 1 /\ IsProbe(tx[1]))
LateProbe == tx = <<>> \/ tx = <<Late>>

AtPrompt == call.at \in {1, 4}
Chatter == Only(rx, Spoken) /\ Only(fw.pending, Spoken) /\ ~ call.unlink

\* What the command at which the call is has sent is on its way, behind a probe perhaps
\* that comes too late; what nobody asked for is all that has come since.
JustSent ==
  /\ tx = <<Sending(Cmd, call.at)>> \/ tx = <<Late, Sending(Cmd, call.at)>>
  /\ fw.pending = <<>> /\ Only(rx, Small) /\ call.ignored + Len(rx) <= faults
  /\ call.timeout = 0

\* AT+CIPSEND is on its way.
Going == AtPrompt /\ ~ fw.data /\ JustSent

\* AT+CIPSEND was refused or not heard: no prompt comes.
Hopeless ==
  /\ AtPrompt /\ ~ fw.data /\ Only(rx, Mute) /\ Only(fw.pending, Mute)
  /\ \A k \in 1 .. Len(tx) : IsProbe(tx[k])

\* What may still come before the prompt: an answer and its echo for every probe that the
\* command may outlast, and what nobody asked for.
ToCome == Len(fw.pending) - 1 + 2 * (MaxBusy - fw.slow) + (MaxFaults - faults)

\* The firmware works on AT+CIPSEND: the lines it says, now or when it is probed again,
\* and those nobody asked for are fewer than the call may ignore.
Coming ==
  /\ AtPrompt /\ ~ fw.data /\ fw.up /\ Only(rx, Before) /\ OneProbe
  /\ \/ Len(fw.pending) = 2 /\ fw.pending[1].text = "OK" /\ fw.pending[2].text = ">"
     \/ Len(fw.pending) = 1 /\ fw.pending[1].text = ">"
  /\ fw.slow <= MaxBusy /\ (tx # <<>> => fw.slow < MaxBusy)
  /\ call.ignored + Len(rx) + ToCome <= MaxIgnored
  /\ rx = <<>> /\ tx = <<>> => call.timeout = 0

\* The prompt has come; a probe that it met comes too late.
Come ==
  /\ AtPrompt /\ fw.data /\ fw.up /\ fw.pending = <<>> /\ LateProbe
  /\ \E i \in 1 .. Len(rx) :
       /\ rx[i].text = ">" /\ Len(rx) - i <= faults
       /\ \A j \in 1 .. Len(rx) : /\ j < i => rx[j].text \in Before
                                  /\ j > i => rx[j].text \in Small
  /\ call.ignored + Len(rx) - 1 + (MaxFaults - faults) <= MaxIgnored

\* The payload is sent.
Paid == call.at \in {2, 5} /\ fw.data /\ fw.up /\ JustSent

\* The firmware has the payload.  Nothing but lines nobody asked for comes behind its
\* last line, and a probe that this line met comes too late.
LastSaid ==
  \A i \in 1 .. Len(fw.pending) : fw.pending[i].text \in Finals => i = Len(fw.pending)
LastCame ==
  \A i \in 1 .. Len(rx) :
    rx[i].text \in Finals =>
      /\ fw.pending = <<>> /\ LateProbe /\ Len(rx) - i <= faults
      /\ \A j \in 1 .. Len(rx) : j > i => rx[j].text \in Small
After ==
  /\ call.at \in {2, 3, 5, 6} /\ ~ fw.data /\ Only(rx, Mute) /\ Only(fw.pending, Mute)
  /\ OneProbe /\ LastSaid /\ LastCame

Phase == Going \/ Hopeless \/ Coming \/ Come \/ Paid \/ After
PayInv == (Plainly => Hushed) /\ (SendCall => Chatter /\ Phase)

Enough == TimeoutCount > 0 /\ 2 * MaxBusy + 2 + MaxFaults <= MaxIgnored

-----------------------------------------------------------------------------
(* A send.                                                                 *)

\* The parts of a send.
LEMMA SendScriptFacts ==
  ASSUME NEW s \in SendScripts
  PROVE  /\ DOMAIN s = 1 .. Len(s) /\ Len(s) \in {3, 6} /\ s[1].fresh
         /\ \A k \in 1 .. Len(s) : /\ k \in {1, 4} => s[k] \in Prompts
                                   /\ k \in {2, 5} => s[k] \in Datas
                                   /\ k \in {3, 6} => s[k] \in Results
<1>1. s \in Seq(SendCommands) /\ Sends3(s) /\ s[1].fresh
  BY DEF SendScripts
<1> QED
  BY <1>1 DEF Sends3

\* The parts of a send are numbered from 1 to 3 or to 6.
LEMMA PartNumbers ==
  ASSUME NEW n \in {3, 6}, NEW k \in 1 .. n
  PROVE  /\ k \in {1, 2, 3, 4, 5, 6} /\ k + 1 + 9 \notin 1 .. n
         /\ k \in {1, 4} => k + 1 \in 1 .. n /\ k + 1 \in {2, 5}
         /\ k \in {2, 5} => k + 1 \in 1 .. n /\ k + 1 \in {3, 6}
         /\ k \in {3, 6} /\ k + 1 \in 1 .. n => k + 1 = 4
<1>1. CASE n = 3
  BY <1>1
<1>2. CASE n = 6
  BY <1>2
<1> QED
  BY <1>1, <1>2

\* What a part of a send sends and waits for.
LEMMA PartFacts ==
  ASSUME NEW c \in Prompts \cup Datas \cup Results
  PROVE  /\ c.item = "none" /\ c.skip = 9 /\ c.stop = FALSE /\ Len(c.reads) = 1
         /\ c \in Prompts => /\ c.send = "command" /\ c.reads[1] = ">"
                             /\ c.answer = <<"OK", ">">> /\ c.refusal = {<<"ERROR">>}
         /\ c \in Datas => c.send = "data" /\ c.reads[1] = "Recv " /\ c.answer = <<"Recv ", "SEND OK">>
         /\ c \in Results => c.send = "nothing" /\ c.reads[1] = "SEND "
<1>1. ASSUME NEW a PROVE Len(<<a>>) = 1 /\ <<a>>[1] = a
  OBVIOUS
<1>2. c.item = "none" /\ c.skip = 9 /\ c.stop = FALSE
  BY DEF Prompts, Datas, Results, SendPart
<1>3. CASE c \in Prompts
  <2>1. /\ c.send = "command" /\ c.reads = <<">">>
        /\ c.answer = <<"OK", ">">> /\ c.refusal = {<<"ERROR">>}
    BY <1>3 DEF Prompts, SendPart
  <2>2. c \notin Datas /\ c \notin Results
    BY <2>1 DEF Datas, Results, SendPart
  <2> QED BY <1>1, <1>2, <2>1, <2>2
<1>4. CASE c \in Datas
  <2>1. c.send = "data" /\ c.reads = <<"Recv ">> /\ c.answer = <<"Recv ", "SEND OK">>
    BY <1>4 DEF Datas, SendPart
  <2>2. c \notin Prompts /\ c \notin Results
    BY <2>1 DEF Prompts, Results, SendPart
  <2> QED BY <1>1, <1>2, <2>1, <2>2
<1>5. CASE c \in Results
  <2>1. c.send = "nothing" /\ c.reads = <<"SEND ">>
    BY <1>5 DEF Results, SendPart
  <2>2. c \notin Prompts /\ c \notin Datas
    BY <2>1 DEF Prompts, Datas, SendPart
  <2> QED BY <1>1, <1>2, <2>1, <2>2
<1> QED
  BY <1>3, <1>4, <1>5

\* Where a send is.
LEMMA SendFacts ==
  ASSUME PlaceInv, SendCall
  PROVE  /\ call \in Calls /\ Waiting /\ call.script \in AllScripts
         /\ DOMAIN call.script = 1 .. Len(call.script) /\ Len(call.script) \in {3, 6}
         /\ call.at \in 1 .. Len(call.script) /\ call.at \in {1, 2, 3, 4, 5, 6}
         /\ Cmd.item = "none" /\ Cmd.skip = 9 /\ Cmd.stop = FALSE
         /\ ~ Listing /\ Reads = 1 /\ call.read = 1
         /\ call.at \in {1, 4} => /\ Cmd.send = "command" /\ Expected = ">"
                                  /\ Cmd.answer = <<"OK", ">">> /\ Cmd.refusal = {<<"ERROR">>}
         /\ call.at \in {2, 5} => /\ Cmd.send = "data" /\ Expected = "Recv "
                                  /\ Cmd.answer = <<"Recv ", "SEND OK">>
         /\ call.at \in {3, 6} => Cmd.send = "nothing" /\ Expected = "SEND "
<1>1. /\ Waiting /\ call \in Calls /\ call.script \in AllScripts
      /\ call.at \in DOMAIN call.script /\ call.read \in 1 .. Reads /\ call.script \in SendScripts
  BY CmdFacts DEF PlaceInv, SendCall, Heard
<1>2. DOMAIN call.script = 1 .. Len(call.script) /\ Len(call.script) \in {3, 6}
  BY <1>1, SendScriptFacts
<1>3. call.at \in 1 .. Len(call.script) /\ call.at \in {1, 2, 3, 4, 5, 6}
  BY <1>1, <1>2, PartNumbers
<1>4. /\ call.at \in {1, 4} => Cmd \in Prompts
      /\ call.at \in {2, 5} => Cmd \in Datas
      /\ call.at \in {3, 6} => Cmd \in Results
  BY <1>1, <1>3, SendScriptFacts DEF Cmd
<1>5. Cmd \in Prompts \cup Datas \cup Results
  BY <1>3, <1>4
<1>6. /\ Cmd.item = "none" /\ Cmd.skip = 9 /\ Cmd.stop = FALSE /\ Len(Cmd.reads) = 1
      /\ call.at \in {1, 4} => /\ Cmd.send = "command" /\ Cmd.reads[1] = ">"
                               /\ Cmd.answer = <<"OK", ">">> /\ Cmd.refusal = {<<"ERROR">>}
      /\ call.at \in {2, 5} => /\ Cmd.send = "data" /\ Cmd.reads[1] = "Recv "
                               /\ Cmd.answer = <<"Recv ", "SEND OK">>
      /\ call.at \in {3, 6} => Cmd.send = "nothing" /\ Cmd.reads[1] = "SEND "
  BY <1>4, <1>5, PartFacts
<1>7. Items = 0
  BY <1>6 DEF Items
<1>a. Len(Cmd.reads) = 1
  BY <1>6
<1>8. Reads = 1
  BY <1>a, <1>7 DEF Reads
<1>9. call.read = 1 /\ ~ Listing
  BY <1>1, <1>7, <1>8 DEF Listing
<1>10. Expected = Cmd.reads[1]
  BY <1>7, <1>9 DEF Expected
<1> QED
  BY <1>1, <1>2, <1>3, <1>6, <1>8, <1>9, <1>10

\* Which lines of a send are waited for.
LEMMA Begins ==
  ASSUME NEW text \in Spoken
  PROVE  /\ StartsWith(text, ">") <=> text = ">"
         /\ StartsWith(text, "Recv ") <=> text = "Recv "
         /\ StartsWith(text, "SEND ") <=> text \in Finals
BY DEF StartsWith, Longer, Spoken, Finals

-----------------------------------------------------------------------------
(* The payload: the steps of the driver.                                   *)

\* A call whose line has come.
LEMMA MatchedCall ==
  ASSUME NEW c \in Calls, NEW exact \in BOOLEAN
  PROVE  LET d == [c EXCEPT !.exact = exact, !.read = @ + 1]
         IN  /\ d \in Calls /\ d.script = c.script /\ d.at = c.at
             /\ d.clean = c.clean /\ d.lost = c.lost
<1>1. c.read + 1 \in Nat
  BY DEF Calls
<1> QED
  BY <1>1 DEF Calls

\* The call passes over a line that it does not wait for.
Passes ==
  /\ Stays(Tail(rx)) /\ call'.timeout = 0 /\ ~ call'.unlink /\ call'.ignored \in Nat
  /\ call'.ignored <= call.ignored + 1 /\ ~ StartsWith(Text, Expected)

\* The call goes on with the next part.
GoesOn ==
  /\ call.at + 1 \in DOMAIN call.script /\ StartsWith(Text, Expected)
  /\ \E c \in Calls : /\ c.script = call.script /\ c.clean = call.clean /\ c.lost = call.lost
                      /\ Proceeds(c, call.at + 1, Tail(rx))

\* A line that the call ignores, or an event.
LEMMA PassesMoves ==
  ASSUME PlaceInv, Reading, ~ StartsWith(Text, Expected), ~ call.unlink,
         Event \/ (Ignored /\ call.ignored # MaxIgnored)
  PROVE  Passes
<1>1. call \in Calls /\ call.ignored \in 0 .. MaxIgnored /\ call.ignored \in Nat
  BY CmdFacts, ReaderAssumption DEF PlaceInv, Reading, Calls
<1>2. CASE Event
  <2>1. Skips(call)
    BY <1>2 DEF Event
  <2>2. Stays(Tail(rx)) /\ call'.timeout = 0 /\ call'.ignored = call.ignored /\ call'.unlink = call.unlink
    BY <1>1, <2>1, SkipsMoves
  <2> QED BY <1>1, <2>2 DEF Passes
<1>3. CASE Ignored /\ call.ignored # MaxIgnored
  <2> DEFINE n == call.ignored + 1
             c == [call EXCEPT !.ignored = n]
  <2>1. Skips(c)
    BY <1>3 DEF Ignored
  <2>2. n \in 0 .. MaxIgnored /\ n \in Nat
    BY <1>1, <1>3, ReaderAssumption
  <2>n. n = call.ignored + 1
    OBVIOUS
  <2> HIDE DEF n
  <2>3. /\ c \in Calls /\ c.script = call.script /\ c.at = call.at /\ c.read = call.read
        /\ c.ignored = n /\ c.unlink = call.unlink /\ c.clean = call.clean /\ c.lost = call.lost
    BY <1>1, <2>2 DEF Calls
  <2> HIDE DEF c
  <2>4. Stays(Tail(rx)) /\ call'.timeout = 0 /\ call'.ignored = n /\ call'.unlink = call.unlink
    BY <2>1, <2>3, SkipsMoves
  <2> QED BY <1>1, <2>2, <2>4, <2>n DEF Passes
<1> QED
  BY <1>2, <1>3

\* A send that reads a line passes over it, goes on with the next part, or ends; no part
\* is left out.
LEMMA SendRead ==
  ASSUME PlaceInv, ReadLine, SendCall, ~ call.unlink, Text \in Spoken
  PROVE  \/ Passes
         \/ GoesOn
         \/ /\ Finishes
            /\ \/ call.ignored = MaxIgnored /\ ~ StartsWith(Text, Expected)
               \/ Text = "ERROR" \/ Text \in Finals
<1>1. Reading
  BY DEF ReadLine
<1>2. Waiting /\ Tail(rx) \in Seq(Lines)
  BY <1>1, ReadFacts
<1>3. /\ call \in Calls /\ DOMAIN call.script = 1 .. Len(call.script) /\ Len(call.script) \in {3, 6}
      /\ call.at \in 1 .. Len(call.script) /\ Cmd.item = "none" /\ Cmd.skip = 9
      /\ ~ Listing /\ Reads = 1 /\ call.read = 1
  BY SendFacts
<1>4. Expected \in {">", "Recv ", "SEND "}
  <2>1. call.at \in {1, 2, 3, 4, 5, 6}
    BY SendFacts
  <2> QED BY <2>1, SendFacts
<1>e. lastErrorCode \in Errors /\ {"AT_ERROR", "NO_AP", "AT_NOT_RESPONDIG", "SEND"} \subseteq Errors
  BY DEF PlaceInv, Errors
<1>k. call.at + 1 + 9 \notin DOMAIN call.script
  BY <1>3, PartNumbers
<1>f. ASSUME NEW error \in Errors, Fails(Tail(rx), error)
      PROVE  Finishes
  <2>1. Gives(call, Tail(rx), error)
    BY <1>f DEF Fails
  <2> QED BY <1>2, <1>3, <1>k, <2>1, GivesMoves
<1>5. CASE StartsWith(Text, Expected) /\ Matched
  <2> DEFINE exact == call.exact /\ (Cmd.matters => Meant(Head(rx)))
             c == [call EXCEPT !.exact = exact, !.read = @ + 1]
  <2>1. IF Text = "SEND FAIL" THEN Over(c, FALSE, Tail(rx), "SEND")
        ELSE Over(c, TRUE, Tail(rx), lastErrorCode)
    BY <1>3, <1>5 DEF Matched
  <2>2. exact \in BOOLEAN
    OBVIOUS
  <2> HIDE DEF exact
  <2>3. /\ c \in Calls /\ c.script = call.script /\ c.at = call.at
        /\ c.clean = call.clean /\ c.lost = call.lost
    BY <1>3, <2>2, MatchedCall
  <2> HIDE DEF c
  <2>4. CASE Text = "SEND FAIL"
    <3>1. Over(c, FALSE, Tail(rx), "SEND")
      BY <2>1, <2>4
    <3>2. \/ Finishes
          \/ \E k \in DOMAIN call.script :
               k = call.at + 1 + (IF FALSE THEN 0 ELSE Cmd.skip) /\ Proceeds(c, k, Tail(rx))
      BY <1>2, <1>e, <2>3, <3>1, OverMoves
    <3>3. call.at + 1 + (IF FALSE THEN 0 ELSE Cmd.skip) \notin DOMAIN call.script
      BY <1>3, <1>k
    <3> QED BY <2>4, <3>2, <3>3 DEF Finals
  <2>5. CASE Text # "SEND FAIL"
    <3>1. Over(c, TRUE, Tail(rx), lastErrorCode)
      BY <2>1, <2>5
    <3>2. \/ Finishes
          \/ \E k \in DOMAIN call.script :
               k = call.at + 1 + (IF TRUE THEN 0 ELSE Cmd.skip) /\ Proceeds(c, k, Tail(rx))
      BY <1>2, <1>e, <2>3, <3>1, OverMoves
    <3>3. call.at + 1 + (IF TRUE THEN 0 ELSE Cmd.skip) = call.at + 1
      BY <1>3
    <3>4. CASE call.at \in {3, 6}
      <4>1. Text \in Finals
        BY <1>5, <3>4, SendFacts, Begins
      <4> QED BY <1>5, <2>3, <3>2, <3>3, <4>1 DEF GoesOn
    <3>5. CASE call.at \notin {3, 6}
      <4>1. call.at + 1 \in DOMAIN call.script
        <5>1. call.at \in {1, 2, 4, 5}
          BY <3>5, SendFacts
        <5>2. call.at + 1 \in 1 .. Len(call.script)
          BY <1>3, <5>1, PartNumbers
        <5> QED BY <1>3, <5>2
      <4> DEFINE ok == c.ok /\ (TRUE \/ ~ Cmd.matters)
                 d == [c EXCEPT !.ok = ok]
      <4>2. Sends(d, call.at + 1, Tail(rx), lastErrorCode) /\ fw' = fw
        <5>1. c.at + 1 + (IF TRUE THEN 0 ELSE Cmd.skip) = call.at + 1
          BY <2>3, <3>3
        <5>2. ~ (call.at + 1 > Len(c.script)) /\ Cmd.stop = FALSE
          <6>1. call.at + 1 \in 1 .. Len(call.script) /\ Len(call.script) \in Nat
            BY <1>3, <4>1
          <6>2. ~ (call.at + 1 > Len(call.script))
            BY <6>1
          <6> QED BY <2>3, <6>2, SendFacts
        <5> QED BY <3>1, <5>1, <5>2 DEF Over
      <4>3. ok \in BOOLEAN
        BY <2>3 DEF Calls
      <4> HIDE DEF ok
      <4>4. d \in Calls /\ d.script = call.script /\ d.clean = call.clean /\ d.lost = call.lost
        BY <2>3, <4>3 DEF Calls
      <4> HIDE DEF d
      <4>5. Proceeds(d, call.at + 1, Tail(rx))
        BY <1>2, <1>e, <4>1, <4>2, <4>4, SendsMoves
      <4> QED BY <1>5, <4>1, <4>4, <4>5 DEF GoesOn
    <3> QED BY <3>4, <3>5
  <2> QED BY <2>4, <2>5
<1>6. CASE ~ StartsWith(Text, Expected) /\ Refused
  BY <1>4, <1>6, <1>e, <1>f DEF Refused
<1>7. CASE ~ StartsWith(Text, Expected) /\ (NoAP \/ Unlink \/ ListEnds)
  BY <1>3, <1>7 DEF NoAP, Unlink, ListEnds, Spoken
<1>8. CASE ~ StartsWith(Text, Expected) /\ Event
  BY <1>1, <1>8, PassesMoves
<1>9. CASE ~ StartsWith(Text, Expected) /\ Ignored
  <2>1. CASE call.ignored = MaxIgnored
    BY <1>9, <1>e, <1>f, <2>1 DEF Ignored
  <2>2. CASE call.ignored # MaxIgnored
    BY <1>1, <1>9, <2>2, PassesMoves
  <2> QED BY <2>1, <2>2
<1> QED
  BY <1>5, <1>6, <1>7, <1>8, <1>9 DEF ReadLine

\* Nothing is on the line; what is left of it is no worse.
LEMMA OnlyRest ==
  /\ \A words : Only(<<>>, words)
  /\ \A s, t, words : Rest(t, s) /\ Only(s, words) => Only(t, words)
BY DEF Only, Rest

\* The next line is one of those on the line.
LEMMA OnlyTail ==
  ASSUME PlaceInv, Reading
  PROVE  /\ \A words : Only(rx, words) => Only(Tail(rx), words) /\ Text \in words
         /\ Rest(Tail(rx), rx)
<1> DEFINE t == Tail(rx)
<1>1. /\ Len(rx) \in Nat \ {0} /\ Len(t) = Len(rx) - 1 /\ Text = rx[1].text
      /\ \A i \in 1 .. Len(t) : i + 1 \in 1 .. Len(rx) /\ t[i] = rx[i + 1]
  BY ReadFacts
<1> HIDE DEF t
<1>2. 1 \in 1 .. Len(rx)
  BY <1>1
<1>3. ASSUME NEW words, Only(rx, words) PROVE Only(t, words) /\ Text \in words
  BY <1>1, <1>2, <1>3 DEF Only
<1>4. Rest(t, rx)
  <2>1. \A i : i + Len(rx) - Len(t) = i + Len(rx) - (Len(rx) - 1)
    BY <1>1
  <2>2. ASSUME NEW i \in 1 .. Len(t) PROVE i + Len(rx) - Len(t) = i + 1
    BY <1>1
  <2>3. Len(t) <= Len(rx)
    BY <1>1
  <2> QED BY <1>1, <2>2, <2>3 DEF Rest
<1> QED
  BY <1>3, <1>4 DEF t

\* What comes last of what is left came last.
LEMMA LastCameRest ==
  ASSUME NEW t \in Seq(Lines), PlaceInv, LastCame, Rest(t, rx),
         rx' = t, fw' = fw, tx' = tx, faults' = faults
  PROVE  LastCame'
<1>1. rx \in Seq(Lines) /\ Len(rx) \in Nat /\ Len(t) \in Nat
  BY DEF PlaceInv
<1> DEFINE d == Len(rx) - Len(t)
<1>2. /\ d \in Nat /\ Len(rx) = Len(t) + d
      /\ \A i \in 1 .. Len(t) : i + d \in 1 .. Len(rx) /\ t[i] = rx[i + d]
  <2>1. Len(t) <= Len(rx)
    BY DEF Rest
  <2>2. d \in Nat /\ Len(rx) = Len(t) + d
    BY <1>1, <2>1
  <2>3. \A i \in 1 .. Len(t) : i + Len(rx) - Len(t) = i + d
    BY <1>1
  <2> QED BY <2>2, <2>3 DEF Rest
<1> HIDE DEF d
<1>3. ASSUME NEW i \in 1 .. Len(t), t[i].text \in Finals
      PROVE  /\ fw.pending = <<>> /\ LateProbe /\ Len(t) - i <= faults
             /\ \A j \in 1 .. Len(t) : j > i => t[j].text \in Small
  <2>1. i + d \in 1 .. Len(rx) /\ rx[i + d].text \in Finals
    BY <1>2, <1>3
  <2>2. /\ fw.pending = <<>> /\ LateProbe /\ Len(rx) - (i + d) <= faults
        /\ \A j \in 1 .. Len(rx) : j > i + d => rx[j].text \in Small
    BY <2>1 DEF LastCame
  <2>3. Len(rx) - (i + d) = Len(t) - i
    BY <1>1, <1>2
  <2>4. ASSUME NEW j \in 1 .. Len(t), j > i PROVE t[j].text \in Small
    <3>1. j + d \in 1 .. Len(rx) /\ t[j] = rx[j + d] /\ j + d > i + d
      BY <1>1, <1>2, <2>4
    <3> QED BY <2>2, <3>1
  <2> QED BY <2>2, <2>3, <2>4
<1> QED
  BY <1>3 DEF LastCame, LateProbe

\* The counters of a call.
LEMMA Counters ==
  ASSUME PlaceInv, Waiting
  PROVE  /\ call.ignored \in Nat /\ MaxIgnored \in Nat /\ MaxBusy \in Nat /\ MaxFaults \in Nat
         /\ TimeoutCount \in Nat /\ fw.slow \in Nat /\ faults \in Nat /\ faults <= MaxFaults
         /\ Len(rx) \in Nat /\ Len(fw.pending) \in Nat /\ Len(tx) \in Nat
<1>1. call \in Calls /\ fw \in Firmware
  BY CmdFacts DEF PlaceInv
<1>2. call.ignored \in Nat /\ fw.slow \in Nat /\ fw.pending \in Seq(Lines)
  BY <1>1, ReaderAssumption DEF Calls, Firmware
<1>3. rx \in Seq(Lines) /\ tx \in Seq(Queued) /\ faults \in 0 .. MaxFaults
  BY DEF PlaceInv
<1> QED
  BY <1>2, <1>3, ReaderAssumption

\* What may still come is not less than nothing.
LEMMA ToComeType ==
  ASSUME PlaceInv, Waiting, Coming
  PROVE  ToCome \in Nat
<1>1. /\ Len(fw.pending) \in {1, 2} /\ fw.slow <= MaxBusy /\ faults <= MaxFaults
      /\ fw.slow \in Nat /\ MaxBusy \in Nat /\ faults \in Nat /\ MaxFaults \in Nat
  BY Counters DEF Coming
<1>2. ASSUME NEW p \in {1, 2}, NEW y \in Nat, NEW s \in Nat, NEW m \in Nat, NEW f \in Nat, s <= y, f <= m
      PROVE  p - 1 + 2 * (y - s) + (m - f) \in Nat
  BY <1>2
<1> QED
  BY <1>1, <1>2 DEF ToCome

\* A call that has just sent something ignores no more lines than there were faults.
LEMMA JustSentIgnores ==
  ASSUME PlaceInv, Waiting, Enough, Reading, call.ignored + Len(rx) <= faults
  PROVE  call.ignored # MaxIgnored
<1>1. ASSUME NEW a \in Nat, NEW b \in Nat \ {0}, NEW f \in Nat, NEW m \in Nat, NEW i \in Nat, NEW y \in Nat,
             a + b <= f, f <= m, 2 * y + 2 + m <= i
      PROVE  a # i
  BY <1>1
<1>2. Len(rx) \in Nat \ {0}
  BY ReadFacts
<1> QED
  BY <1>1, <1>2, Counters DEF Enough

\* A call that has only sent: it passes over a line.
LEMMA JustSentPasses ==
  ASSUME PlaceInv, Waiting, JustSent, Reading, Passes, faults' = faults, Enough
  PROVE  JustSent'
<1>1. /\ rx' = Tail(rx) /\ fw' = fw /\ tx' = tx /\ call'.at = call.at /\ call'.script = call.script
      /\ call'.timeout = 0 /\ call'.ignored \in Nat /\ call'.ignored <= call.ignored + 1
  BY DEF Passes, Stays
<1>2. Cmd' = Cmd
  BY <1>1 DEF Cmd
<1>3. Only(rx', Small)
  BY <1>1, OnlyTail DEF JustSent
<1>4. Len(rx) \in Nat \ {0} /\ Len(Tail(rx)) = Len(rx) - 1
  BY ReadFacts
<1>5. call'.ignored + Len(rx') <= faults'
  <2>1. ASSUME NEW a \in Nat, NEW b \in Nat \ {0}, NEW c \in Nat, NEW f \in Nat, a + b <= f, c <= a + 1
        PROVE  c + (b - 1) <= f
    BY <2>1
  <2> QED BY <1>1, <1>4, <2>1, Counters DEF JustSent
<1>6. tx' = <<Sending(Cmd', call'.at)>> \/ tx' = <<Late, Sending(Cmd', call'.at)>>
  BY <1>1, <1>2 DEF JustSent
<1> QED
  BY <1>1, <1>3, <1>5, <1>6 DEF JustSent

\* A line is passed over while the prompt is to come.
LEMMA ComingPasses ==
  ASSUME PlaceInv, Waiting, Coming, Reading, Passes, faults' = faults
  PROVE  Coming'
<1>1. /\ rx' = Tail(rx) /\ fw' = fw /\ tx' = tx /\ call'.at = call.at
      /\ call'.timeout = 0 /\ call'.ignored \in Nat /\ call'.ignored <= call.ignored + 1
  BY DEF Passes, Stays
<1>2. Only(rx', Before)
  BY <1>1, OnlyTail DEF Coming
<1>3. Len(rx) \in Nat \ {0} /\ Len(Tail(rx)) = Len(rx) - 1
  BY ReadFacts
<1>4. call'.ignored + Len(rx') + ToCome' <= MaxIgnored
  <2>1. ASSUME NEW a \in Nat, NEW b \in Nat \ {0}, NEW c \in Nat, NEW m \in Nat, NEW i \in Nat,
               a + b + m <= i, c <= a + 1
        PROVE  c + (b - 1) + m <= i
    BY <2>1
  <2>2. call.ignored + Len(rx) + ToCome <= MaxIgnored
    BY DEF Coming
  <2>3. ToCome' = ToCome
    BY <1>1 DEF ToCome
  <2>4. call'.ignored + (Len(rx) - 1) + ToCome <= MaxIgnored
    <3> HIDE DEF ToCome
    <3> QED BY <1>1, <1>3, <2>1, <2>2, Counters, ToComeType
  <2> QED BY <1>1, <1>3, <2>3, <2>4
<1> QED
  BY <1>1, <1>2, <1>4 DEF Coming, AtPrompt, OneProbe

\* A line before the prompt that has come is passed over.
LEMMA ComePasses ==
  ASSUME PlaceInv, SendCall, Come, Reading, Passes, faults' = faults
  PROVE  Come'
<1> DEFINE t == Tail(rx)
<1>1. /\ rx' = t /\ fw' = fw /\ tx' = tx /\ call'.at = call.at
      /\ call'.ignored \in Nat /\ call'.ignored <= call.ignored + 1 /\ ~ StartsWith(Text, Expected)
  BY DEF Passes, Stays
<1>2. /\ Len(rx) \in Nat \ {0} /\ Len(t) = Len(rx) - 1 /\ Text = rx[1].text
      /\ \A i \in 1 .. Len(t) : i + 1 \in 1 .. Len(rx) /\ t[i] = rx[i + 1]
  BY ReadFacts
<1> HIDE DEF t
<1>3. PICK i \in 1 .. Len(rx) :
        /\ rx[i].text = ">" /\ Len(rx) - i <= faults
        /\ \A j \in 1 .. Len(rx) : /\ j < i => rx[j].text \in Before
                                   /\ j > i => rx[j].text \in Small
  BY DEF Come
<1>4. i # 1
  <2>1. Expected = ">"
    BY SendFacts DEF Come, AtPrompt
  <2>2. Text # ">"
    BY <1>1, <2>1 DEF StartsWith
  <2> QED BY <1>2, <1>3, <2>2
<1> DEFINE k == i - 1
<1>5. k \in 1 .. Len(t) /\ k + 1 = i /\ Len(t) - k = Len(rx) - i
  BY <1>2, <1>3, <1>4
<1> HIDE DEF k
<1>6. t[k].text = ">" /\ Len(t) - k <= faults
  BY <1>2, <1>3, <1>5
<1>7. ASSUME NEW j \in 1 .. Len(t)
      PROVE  (j < k => t[j].text \in Before) /\ (j > k => t[j].text \in Small)
  <2>1. j + 1 \in 1 .. Len(rx) /\ t[j] = rx[j + 1]
    BY <1>2
  <2>2. (j < k => j + 1 < i) /\ (j > k => j + 1 > i)
    BY <1>2, <1>5
  <2> QED BY <1>3, <2>1, <2>2
<1>8. call'.ignored + Len(rx') - 1 + (MaxFaults - faults') <= MaxIgnored
  <2>1. ASSUME NEW a \in Nat, NEW b \in Nat \ {0}, NEW c \in Nat, NEW m \in Nat, NEW f \in Nat, NEW n \in Nat,
               a + b - 1 + (m - f) <= n, c <= a + 1
        PROVE  c + (b - 1) - 1 + (m - f) <= n
    BY <2>1
  <2>2. Waiting
    BY DEF SendCall, Heard
  <2> QED BY <1>1, <1>2, <2>1, <2>2, Counters DEF Come
<1> QED
  BY <1>1, <1>5, <1>6, <1>7, <1>8 DEF Come, AtPrompt, LateProbe

\* A line is passed over.
LEMMA PassesPay ==
  ASSUME PlaceInv, SendCall, Chatter, Phase, ReadLine, Passes, Enough
  PROVE  Chatter' /\ Phase'
<1>1. Reading /\ faults' = faults /\ Waiting
  BY DEF ReadLine, Reading
<1>2. /\ rx' = Tail(rx) /\ fw' = fw /\ tx' = tx /\ call'.at = call.at /\ ~ call'.unlink
  BY DEF Passes, Stays
<1>3. /\ \A words : Only(rx, words) => Only(Tail(rx), words) /\ Text \in words
      /\ Rest(Tail(rx), rx) /\ Tail(rx) \in Seq(Lines)
  BY <1>1, OnlyTail, ReadFacts
<1>4. Chatter'
  BY <1>2, <1>3 DEF Chatter
<1>5. CASE Going
  BY <1>4, <1>1, <1>2, <1>5, JustSentPasses DEF Going, AtPrompt, Phase
<1>6. CASE Hopeless
  BY <1>4, <1>2, <1>3, <1>6 DEF Hopeless, AtPrompt, Phase
<1>7. CASE Coming
  BY <1>4, <1>1, <1>7, ComingPasses DEF Phase
<1>8. CASE Come
  BY <1>4, <1>1, <1>8, ComePasses DEF Phase
<1>9. CASE Paid
  BY <1>4, <1>1, <1>2, <1>9, JustSentPasses DEF Paid, Phase
<1>10. CASE After
  <2>1. LastCame'
    BY <1>1, <1>2, <1>3, <1>10, LastCameRest DEF After
  <2> QED BY <1>4, <1>2, <1>3, <1>10, <2>1 DEF After, OneProbe, LastSaid, Phase
<1> QED
  BY <1>4, <1>5, <1>6, <1>7, <1>8, <1>9, <1>10 DEF Phase

\* One or two elements.
LEMMA OneTwo ==
  ASSUME NEW a, NEW b
  PROVE  /\ Append(<<>>, a) = <<a>> /\ Append(<<a>>, b) = <<a, b>>
         /\ Head(<<a>>) = a /\ Tail(<<a>>) = <<>> /\ <<a>> # <<>> /\ Len(<<a>>) = 1 /\ <<a>>[1] = a
         /\ Head(<<a, b>>) = a /\ Tail(<<a, b>>) = <<b>> /\ <<a, b>> # <<>>
         /\ Len(<<a, b>>) = 2 /\ <<a, b>>[1] = a /\ <<a, b>>[2] = b
<1>1. Head(<<a>>) = a /\ <<a>> # <<>> /\ Len(<<a>>) = 1 /\ <<a>>[1] = a
  OBVIOUS
<1>2. Head(<<a, b>>) = a /\ <<a, b>> # <<>> /\ Len(<<a, b>>) = 2 /\ <<a, b>>[1] = a /\ <<a, b>>[2] = b
  OBVIOUS
<1>3. Append(<<>>, a) = <<a>>
  <2> DEFINE s == Append(<<>>, a)
             t == <<a>>
  <2>1. <<>> \in Seq({a}) /\ Len(<<>>) = 0
    BY EmptySeq
  <2>2. s \in Seq({a}) /\ Len(s) = 1 /\ s[1] = a
    BY <2>1, AppendProperties
  <2>3. t \in Seq({a}) /\ Len(t) = 1 /\ t[1] = a
    OBVIOUS
  <2> HIDE DEF s, t
  <2>4. s = t
    BY <2>2, <2>3, SeqEqual
  <2> QED BY <2>4 DEF s, t
<1>4. Append(<<a>>, b) = <<a, b>>
  <2> DEFINE r == <<a>>
             s == Append(r, b)
             t == <<a, b>>
  <2>1. r \in Seq({a, b}) /\ Len(r) = 1 /\ r[1] = a
    OBVIOUS
  <2>2. t \in Seq({a, b}) /\ Len(t) = 2 /\ t[1] = a /\ t[2] = b
    OBVIOUS
  <2> HIDE DEF r
  <2>3. s \in Seq({a, b}) /\ Len(s) = 2 /\ s[1] = a /\ s[2] = b
    <3> DEFINE S == {a, b}
    <3>1. r \in Seq(S) /\ b \in S
      BY <2>1
    <3> HIDE DEF S
    <3>2. s \in Seq(S) /\ Len(s) = Len(r) + 1 /\ s[Len(r) + 1] = b
      BY <3>1
    <3>3. \A i \in 1 .. Len(r) : s[i] = r[i]
      BY <3>1
    <3> HIDE DEF s
    <3> QED BY <2>1, <3>2, <3>3 DEF S
  <2> HIDE DEF s, t
  <2>4. \A i \in 1 .. 2 : i = 1 \/ i = 2
    OBVIOUS
  <2>5. s = t
    BY <2>2, <2>3, <2>4, SeqEqual
  <2> QED BY <2>5 DEF r, s, t
<1>5. Tail(<<a>>) = <<>>
  OBVIOUS
<1>6. Tail(<<a, b>>) = <<b>>
  OBVIOUS
<1> QED
  BY <1>1, <1>2, <1>3, <1>4, <1>5, <1>6

\* One element behind another.
LEMMA Behind == \A a, b : Append(<<a>>, b) = <<a, b>>
BY OneTwo

\* The next part is sent behind a probe at most, and little is on the line.
LEMMA Sends1 ==
  ASSUME LateProbe, NEW c, NEW k, NEW line, Proceeds(c, k, line), faults' = faults,
         c.script[k].send # "nothing", fw.pending = <<>>, Only(rx', Small), Len(rx') <= faults
  PROVE  JustSent'
<1>1. /\ call'.script = c.script /\ call'.at = k /\ call'.ignored = 0 /\ call'.timeout = 0
      /\ fw' = fw /\ tx' = Append(tx, Sending(c.script[k], k)) /\ rx' \in Seq(Lines)
  BY DEF Proceeds
<1>2. Sending(c.script[k], k) = Sending(Cmd', call'.at)
  BY <1>1 DEF Cmd
<1> DEFINE s == Sending(Cmd', call'.at)
<1>3. tx' = Append(tx, s)
  BY <1>1, <1>2
<1> HIDE DEF s
<1>4. tx' = <<s>> \/ tx' = <<Late, s>>
  <2>1. CASE tx = <<>>
    BY <1>3, <2>1, OneTwo
  <2>2. CASE tx = <<Late>>
    <3>1. tx' = Append(<<Late>>, s)
      BY <1>3, <2>2
    <3>2. Append(<<Late>>, s) = <<Late, s>>
      BY Behind, Zenon
    <3> QED BY <3>1, <3>2
  <2> QED BY <2>1, <2>2 DEF LateProbe
<1>5. call'.ignored + Len(rx') <= faults'
  <2>1. Len(rx') \in Nat
    BY <1>1
  <2>2. 0 + Len(rx') = Len(rx')
    BY <2>1
  <2> QED BY <1>1, <2>2
<1> QED
  BY <1>1, <1>4, <1>5 DEF JustSent, s

\* The prompt is answered with the payload.
LEMMA ComeGoesOn ==
  ASSUME PlaceInv, SendCall, Chatter, Come, ReadLine, GoesOn
  PROVE  Paid'
<1> DEFINE t == Tail(rx)
<1>1. Reading /\ faults' = faults /\ Waiting
  BY DEF ReadLine, Reading
<1>2. PICK c \in Calls : c.script = call.script /\ Proceeds(c, call.at + 1, t)
  BY DEF GoesOn
<1>3. /\ Len(rx) \in Nat \ {0} /\ Len(t) = Len(rx) - 1 /\ Text = rx[1].text
      /\ \A i \in 1 .. Len(t) : i + 1 \in 1 .. Len(rx) /\ t[i] = rx[i + 1]
  BY <1>1, ReadFacts
<1> HIDE DEF t
<1>4. Text = ">"
  <2>1. Text \in Spoken
    BY <1>1, OnlyTail DEF Chatter
  <2> QED BY <2>1, SendFacts, Begins DEF GoesOn, Come, AtPrompt
<1>5. PICK i \in 1 .. Len(rx) :
        /\ rx[i].text = ">" /\ Len(rx) - i <= faults
        /\ \A j \in 1 .. Len(rx) : /\ j < i => rx[j].text \in Before
                                   /\ j > i => rx[j].text \in Small
  BY DEF Come
<1>6. i = 1
  <2>1. 1 \in 1 .. Len(rx) /\ rx[1].text \notin Before
    BY <1>3, <1>4 DEF Before
  <2>2. ~ (1 < i)
    BY <1>5, <2>1
  <2> QED BY <1>5, <2>2
<1>7. Only(t, Small) /\ Len(t) <= faults
  <2>1. ASSUME NEW j \in 1 .. Len(t) PROVE t[j].text \in Small
    <3>1. j + 1 \in 1 .. Len(rx) /\ t[j] = rx[j + 1] /\ j + 1 > 1
      BY <1>3
    <3> QED BY <1>5, <1>6, <3>1
  <2> QED BY <1>3, <1>5, <1>6, <2>1 DEF Only
<1>8. Rest(rx', t) /\ rx' \in Seq(Lines) /\ fw' = fw /\ call'.at = call.at + 1
  BY <1>2 DEF Proceeds
<1>9. Only(rx', Small) /\ Len(rx') <= faults
  <2>1. Len(rx') <= Len(t) /\ Len(rx') \in Nat /\ Len(t) \in Nat
    BY <1>3, <1>8 DEF Rest
  <2>2. faults \in Nat
    BY <1>1, Counters
  <2> QED BY <1>7, <1>8, <2>1, <2>2, OnlyRest
<1>10. call.at + 1 \in {2, 5} /\ call.script[call.at + 1].send # "nothing"
  <2>1. call.script \in SendScripts /\ call.at \in 1 .. Len(call.script) /\ Len(call.script) \in {3, 6}
    BY SendFacts DEF SendCall
  <2>2. call.at + 1 \in 1 .. Len(call.script) /\ call.at + 1 \in {2, 5}
    BY <2>1, PartNumbers DEF Come, AtPrompt
  <2>3. call.script[call.at + 1] \in Datas
    BY <2>1, <2>2, SendScriptFacts
  <2> QED BY <2>2, <2>3, PartFacts
<1>11. JustSent'
  BY <1>1, <1>2, <1>9, <1>10, Sends1 DEF Come, t
<1> QED
  BY <1>8, <1>10, <1>11 DEF Paid, Come

\* The firmware has the payload: its lines are read, and the next send begins.
LEMMA AfterGoesOn ==
  ASSUME PlaceInv, SendCall, Chatter, After, ReadLine, GoesOn
  PROVE  Phase'
<1> DEFINE t == Tail(rx)
           k == call.at + 1
<1>1. Reading /\ faults' = faults /\ Waiting
  BY DEF ReadLine, Reading
<1>2. PICK c \in Calls : c.script = call.script /\ Proceeds(c, k, t)
  BY DEF GoesOn
<1>3. /\ Len(rx) \in Nat \ {0} /\ Len(t) = Len(rx) - 1 /\ Text = rx[1].text /\ t \in Seq(Lines)
      /\ \A i \in 1 .. Len(t) : i + 1 \in 1 .. Len(rx) /\ t[i] = rx[i + 1]
  BY <1>1, ReadFacts
<1>4. /\ Rest(rx', t) /\ rx' \in Seq(Lines) /\ fw' = fw /\ call'.at = k
      /\ tx' = IF c.script[k].send = "nothing" THEN tx ELSE Append(tx, Sending(c.script[k], k))
  BY <1>2 DEF Proceeds
<1>5. /\ call.script \in SendScripts /\ call.at \in 1 .. Len(call.script) /\ Len(call.script) \in {3, 6}
      /\ k \in 1 .. Len(call.script)
  BY SendFacts DEF SendCall, GoesOn
<1>6. Text \in Spoken /\ Rest(t, rx) /\ \A words : Only(rx, words) => Only(t, words)
  BY <1>1, OnlyTail DEF Chatter
<1>7. CASE call.at \in {2, 5}
  <2>1. k \in {3, 6}
    BY <1>5, <1>7, PartNumbers
  <2>2. call.script[k] \in Results
    BY <1>5, <2>1, SendScriptFacts
  <2>3. tx' = tx
    BY <1>2, <1>4, <2>2, PartFacts
  <2>4. Rest(rx', rx)
    <3> HIDE DEF t
    <3>1. /\ Len(rx') \in Nat /\ Len(t) \in Nat /\ Len(rx) \in Nat /\ Len(rx') <= Len(t) /\ Len(t) <= Len(rx)
          /\ \A i \in 1 .. Len(rx') : i + Len(t) - Len(rx') \in 1 .. Len(t) /\ rx'[i] = t[i + Len(t) - Len(rx')]
          /\ \A i \in 1 .. Len(t) : i + Len(rx) - Len(t) \in 1 .. Len(rx) /\ t[i] = rx[i + Len(rx) - Len(t)]
      BY <1>3, <1>4, <1>6 DEF Rest
    <3>2. ASSUME NEW i \in 1 .. Len(rx')
          PROVE  i + Len(rx) - Len(rx') \in 1 .. Len(rx) /\ rx'[i] = rx[i + Len(rx) - Len(rx')]
      <4> DEFINE j == i + Len(t) - Len(rx')
      <4>1. j \in 1 .. Len(t) /\ rx'[i] = t[j] /\ j + Len(rx) - Len(t) = i + Len(rx) - Len(rx')
        BY <3>1
      <4> HIDE DEF j
      <4> QED BY <3>1, <4>1
    <3>3. Len(rx') <= Len(rx)
      BY <3>1
    <3> QED BY <3>2, <3>3 DEF Rest
  <2>5. LastCame'
    BY <1>1, <1>4, <2>3, <2>4, LastCameRest DEF After
  <2>6. Only(rx', Mute)
    BY <2>4, OnlyRest DEF After
  <2> HIDE DEF k
  <2>7. After'
    BY <1>4, <2>1, <2>3, <2>5, <2>6 DEF After, OneProbe, LastSaid
  <2> QED BY <2>7 DEF Phase
<1>8. CASE call.at \in {3, 6}
  <2>1. k = 4
    BY <1>5, <1>8, PartNumbers
  <2>2. call.script[4] \in Prompts
    BY <1>5, <2>1, SendScriptFacts
  <2>3. Text \in Finals
    BY <1>6, <1>8, SendFacts, Begins DEF GoesOn
  <2> HIDE DEF t
  <2>4. 1 \in 1 .. Len(rx) /\ rx[1].text \in Finals
    BY <1>3, <2>3
  <2>5. /\ fw.pending = <<>> /\ LateProbe /\ Len(rx) - 1 <= faults
        /\ \A j \in 1 .. Len(rx) : j > 1 => rx[j].text \in Small
    BY <2>4 DEF After, LastCame
  <2>6. Only(t, Small) /\ Len(t) <= faults
    <3>1. ASSUME NEW j \in 1 .. Len(t) PROVE t[j].text \in Small
      <4>1. j + 1 \in 1 .. Len(rx) /\ t[j] = rx[j + 1] /\ j + 1 > 1
        BY <1>3
      <4> QED BY <2>5, <4>1
    <3> QED BY <1>3, <2>5, <3>1 DEF Only
  <2>7. Only(rx', Small) /\ Len(rx') <= faults
    <3>1. Len(rx') <= Len(t) /\ Len(rx') \in Nat /\ Len(t) \in Nat
      BY <1>3, <1>4 DEF Rest
    <3>2. faults \in Nat
      BY <1>1, Counters
    <3> QED BY <1>4, <2>6, <3>1, <3>2, OnlyRest
  <2>8. c.script[k].send # "nothing"
    BY <1>2, <2>1, <2>2, PartFacts
  <2>9. JustSent'
    BY <1>1, <1>2, <2>5, <2>7, <2>8, Sends1 DEF t
  <2>10. Going'
    BY <1>4, <2>1, <2>9 DEF Going, AtPrompt, After
  <2> QED BY <2>10 DEF Phase
<1> QED
  BY <1>7, <1>8 DEF After

\* No other line is the one that is waited for.
LEMMA GoesOnPay ==
  ASSUME PlaceInv, SendCall, Chatter, Phase, ReadLine, GoesOn
  PROVE  Chatter' /\ Phase'
<1>1. Reading /\ Waiting
  BY DEF ReadLine, Reading
<1>2. /\ \A words : Only(rx, words) => Only(Tail(rx), words) /\ Text \in words
  BY <1>1, OnlyTail
<1>3. Text \in Spoken /\ StartsWith(Text, Expected)
  BY <1>2 DEF Chatter, GoesOn
<1>4. PICK c \in Calls : Proceeds(c, call.at + 1, Tail(rx))
  BY DEF GoesOn
<1>5. Chatter'
  <2>1. Rest(rx', Tail(rx)) /\ fw' = fw /\ ~ call'.unlink
    BY <1>4 DEF Proceeds
  <2> QED BY <1>2, <2>1, OnlyRest DEF Chatter
<1>6. CASE Come
  BY <1>5, <1>6, ComeGoesOn DEF Phase
<1>7. CASE After
  BY <1>5, <1>7, AfterGoesOn
<1>8. CASE Going \/ Hopeless \/ Coming
  <2>1. Text = ">"
    BY <1>3, <1>8, SendFacts, Begins DEF Going, Hopeless, Coming, AtPrompt
  <2>2. Text \in Small \/ Text \in Mute \/ Text \in Before
    BY <1>2, <1>8 DEF Going, JustSent, Hopeless, Coming
  <2> QED BY <2>1, <2>2 DEF Small, Mute, Before
<1>9. CASE Paid
  <2>1. Text = "Recv "
    BY <1>3, <1>9, SendFacts, Begins DEF Paid
  <2>2. Text \in Small
    BY <1>2, <1>9 DEF Paid, JustSent
  <2> QED BY <2>1, <2>2 DEF Small
<1> QED
  BY <1>6, <1>7, <1>8, <1>9 DEF Phase

\* A plain call that sends one of its commands, or a probe.
LEMMA HushedSends ==
  ASSUME PlaceInv, Hushed, fw' = fw,
         \/ tx' = tx
         \/ tx' = Append(tx, Probe)
         \/ \E script \in PlainScripts : \E k \in DOMAIN script :
              /\ k \in Nat
              /\ tx' = IF script[k].send = "nothing" THEN tx ELSE Append(tx, Sending(script[k], k))
  PROVE  Hushed'
<1>1. tx \in Seq(Queued)
  BY DEF PlaceInv
<1>2. ASSUME NEW item \in Queued, PlainItem(item), tx' = Append(tx, item)
      PROVE  Hushed'
  <2>1. Len(tx) \in Nat /\ Len(tx') = Len(tx) + 1 /\ tx'[Len(tx) + 1] = item
        /\ \A k \in 1 .. Len(tx) : tx'[k] = tx[k]
    BY <1>1, <1>2
  <2>2. \A k \in 1 .. Len(tx') : k \in 1 .. Len(tx) \/ k = Len(tx) + 1
    BY <2>1
  <2> QED BY <1>2, <2>1, <2>2 DEF Hushed
<1>3. CASE tx' = tx
  BY <1>3 DEF Hushed
<1>4. CASE tx' = Append(tx, Probe)
  <2>1. PlainItem(Probe)
    <3>1. <<>> \in Answers
      BY DEF Answers
    <3> QED BY <3>1 DEF PlainItem, Probe
  <2> QED BY <1>2, <1>4, <2>1, SendingTypes
<1>5. ASSUME NEW script \in PlainScripts, NEW k \in DOMAIN script, k \in Nat,
             script[k].send # "nothing", tx' = Append(tx, Sending(script[k], k))
      PROVE  Hushed'
  <2>1. script \in Seq(Plain) /\ script \in AllScripts
    BY DEF PlainScripts, AllScripts
  <2>2. script[k] \in Plain
    BY <2>1, ElementOfSeq, LenProperties
  <2>3. Sending(script[k], k) \in Queued
    BY <1>5, <2>1, ScriptTypes, SendingTypes
  <2>4. PlainItem(Sending(script[k], k))
    BY <2>2 DEF PlainItem, Sending, Plain
  <2> QED BY <1>2, <1>5, <2>3, <2>4
<1> QED
  BY <1>3, <1>4, <1>5

\* A call that has ended says nothing about payload.
LEMMA EndedPay ==
  ASSUME ~ Heard'
  PROVE  PayInv'
BY DEF PayInv, Plainly, SendCall

LEMMA FinishesPay ==
  ASSUME Finishes
  PROVE  PayInv'
BY EndedPay DEF Finishes, Heard, Waiting

\* A line is read.
LEMMA ReadPay ==
  ASSUME PlaceInv, PayInv, ReadLine, Enough
  PROVE  PayInv'
<1>1. Waiting /\ Reading /\ ReadEnds
  BY ReadMoves DEF ReadLine, Reading
<1>2. CASE Finishes
  BY <1>2, FinishesPay
<1>3. CASE ~ Finishes
  <2>1. \/ Stays(Tail(rx))
        \/ \E c \in Calls : \E k \in DOMAIN c.script :
             /\ c.script = call.script /\ c.clean = call.clean /\ c.lost = call.lost
             /\ Proceeds(c, k, Tail(rx))
    BY <1>1, <1>3 DEF ReadEnds
  <2>2. call'.script = call.script /\ call'.clean = call.clean /\ call'.lost = call.lost
    BY <2>1 DEF Stays, Proceeds
  <2>3. Heard' => Heard
    BY <1>1, <2>2 DEF Heard
  <2>4. ASSUME Plainly' PROVE Hushed'
    <3>1. Hushed /\ call.script \in PlainScripts
      BY <2>2, <2>3, <2>4 DEF Plainly, PayInv
    <3>2. CASE Stays(Tail(rx))
      BY <3>1, <3>2, HushedSends DEF Stays
    <3>3. ASSUME NEW c \in Calls, NEW k \in DOMAIN c.script, c.script = call.script,
                 Proceeds(c, k, Tail(rx))
          PROVE  Hushed'
      <4>1. k \in Nat
        BY ScriptTypes DEF Calls
      <4>2. /\ fw' = fw
            /\ tx' = IF call.script[k].send = "nothing" THEN tx ELSE Append(tx, Sending(call.script[k], k))
        BY <3>3 DEF Proceeds
      <4> QED BY <3>1, <3>3, <4>1, <4>2, HushedSends
    <3> QED BY <2>1, <3>2, <3>3
  <2>5. ASSUME SendCall' PROVE Chatter' /\ Phase'
    <3>1. SendCall
      BY <2>2, <2>3, <2>5 DEF SendCall
    <3>2. Chatter /\ Phase /\ ~ call.unlink /\ Text \in Spoken
      BY <1>1, <3>1, OnlyTail DEF PayInv, Chatter
    <3>3. Passes \/ GoesOn
      BY <1>3, <3>1, <3>2, SendRead
    <3> QED BY <3>1, <3>2, <3>3, PassesPay, GoesOnPay
  <2> QED BY <2>4, <2>5 DEF PayInv
<1> QED
  BY <1>2, <1>3

\* Nothing comes, and the firmware is probed.
LEMMA TimeoutPay ==
  ASSUME PlaceInv, PayInv, Timeout
  PROVE  PayInv'
<1>1. /\ Waiting /\ rx = <<>> /\ tx = <<>> /\ (Busy => fw.slow < MaxBusy) /\ TimesOut(call)
      /\ faults' = faults
  BY DEF Timeout, Nothing
<1>2. call \in Calls /\ fw \in Firmware
  BY <1>1, CmdFacts DEF PlaceInv
<1>3. \/ Finishes
      \/ \E k \in DOMAIN call.script :
           /\ k > call.at /\ (Cmd.item = "none" => k = call.at + 1 + Cmd.skip)
           /\ Proceeds(call, k, <<>>)
      \/ Probes(call)
  BY <1>1, <1>2, TimesOutMoves
<1>4. CASE Finishes
  BY <1>4, FinishesPay
<1>5. ASSUME NEW k \in DOMAIN call.script, Cmd.item = "none" => k = call.at + 1 + Cmd.skip,
             Proceeds(call, k, <<>>)
      PROVE  PayInv'
  <2>1. /\ call'.script = call.script /\ call'.clean = call.clean /\ call'.lost = call.lost /\ fw' = fw
        /\ tx' = IF call.script[k].send = "nothing" THEN tx ELSE Append(tx, Sending(call.script[k], k))
    BY <1>5 DEF Proceeds
  <2>2. Heard' => Heard
    BY <1>1, <2>1 DEF Heard
  <2>3. ASSUME Plainly' PROVE Hushed'
    <3>1. k \in Nat
      BY <1>2, ScriptTypes DEF Calls
    <3>2. Hushed /\ call.script \in PlainScripts
      BY <2>1, <2>2, <2>3 DEF Plainly, PayInv
    <3> QED BY <2>1, <3>1, <3>2, HushedSends
  <2>4. ASSUME SendCall' PROVE FALSE
    <3>1. SendCall
      BY <2>1, <2>2, <2>4 DEF SendCall
    <3>2. /\ DOMAIN call.script = 1 .. Len(call.script) /\ Len(call.script) \in {3, 6}
          /\ call.at \in 1 .. Len(call.script) /\ Cmd.item = "none" /\ Cmd.skip = 9
      BY <3>1, SendFacts
    <3>3. call.at + 1 + 9 \notin 1 .. Len(call.script)
      BY <3>2, PartNumbers
    <3> QED BY <1>5, <3>2, <3>3
  <2> QED BY <2>3, <2>4 DEF PayInv
<1>6. CASE Probes(call)
  <2>1. /\ call'.script = call.script /\ call'.clean = call.clean /\ call'.lost = call.lost
        /\ call'.at = call.at /\ call'.ignored = call.ignored /\ call'.unlink = call.unlink
    BY <1>2, <1>6 DEF Probes, Calls
  <2>2. Heard' => Heard
    BY <1>1, <2>1 DEF Heard
  <2>3. fw' = fw /\ rx' = rx /\ tx' = Append(tx, Probe)
    BY <1>6 DEF Probes
  <2>4. ASSUME Plainly' PROVE Hushed'
    <3>1. Hushed
      BY <2>1, <2>2, <2>4 DEF Plainly, PayInv
    <3> QED BY <2>3, <3>1, HushedSends
  <2>5. ASSUME SendCall' PROVE Chatter' /\ Phase'
    <3>1. Chatter /\ Phase
      BY <2>1, <2>2, <2>5 DEF SendCall, PayInv
    <3>2. Chatter'
      BY <2>1, <2>3, <3>1 DEF Chatter
    <3>3. tx' = <<Probe>> /\ Len(tx') = 1 /\ tx'[1] = Probe /\ tx' # <<>>
      <4> DEFINE p == Probe
      <4>1. tx' = Append(<<>>, p)
        BY <1>1, <2>3
      <4> HIDE DEF p
      <4>2. tx' = <<p>>
        BY <4>1, OneTwo
      <4>3. Len(<<p>>) = 1 /\ <<p>>[1] = p /\ <<p>> # <<>>
        BY OneTwo
      <4> QED BY <4>2, <4>3 DEF p
    <3>4. OneProbe' /\ \A k \in 1 .. Len(tx') : IsProbe(tx'[k])
      BY <3>3 DEF OneProbe, IsProbe
    <3>5. ~ Going /\ ~ Paid
      <4>1. tx # <<>>  => ~ Going /\ ~ Paid
        BY <1>1
      <4>2. ASSUME NEW s, NEW t PROVE <<s>> # <<>> /\ <<t, s>> # <<>>
        BY OneTwo
      <4>3. \A s, t : <<s>> # <<>> /\ <<t, s>> # <<>>
        BY <4>2
      <4>4. ~ JustSent
        BY <1>1, <4>3 DEF JustSent
      <4> QED BY <4>4 DEF Going, Paid
    <3>6. ~ Come
      <4>1. Len(rx) = 0
        BY <1>1
      <4> QED BY <4>1 DEF Come
    <3>7. CASE Hopeless
      <4>1. Hopeless'
        BY <2>1, <2>3, <3>4, <3>7 DEF Hopeless, AtPrompt
      <4> QED BY <3>2, <4>1 DEF Phase
    <3>8. CASE Coming
      <4>1. fw.slow < MaxBusy
        <5>1. Len(fw.pending) # 0 /\ fw.up
          BY <3>8 DEF Coming
        <5> QED BY <1>1, <5>1 DEF Busy
      <4>2. ToCome' = ToCome
        BY <1>1, <2>3 DEF ToCome
      <4>3. call'.ignored + Len(rx') + ToCome' <= MaxIgnored
        BY <2>1, <2>3, <3>8, <4>2 DEF Coming
      <4> HIDE DEF ToCome
      <4>4. Coming'
        BY <2>1, <2>3, <3>3, <3>4, <3>8, <4>1, <4>3 DEF Coming, AtPrompt
      <4> QED BY <3>2, <4>4 DEF Phase
    <3>9. CASE After
      <4>1. LastCame'
        BY <1>1, <2>3 DEF LastCame
      <4>2. After'
        BY <2>1, <2>3, <3>4, <3>9, <4>1 DEF After, LastSaid
      <4> QED BY <3>2, <4>2 DEF Phase
    <3> QED BY <3>1, <3>5, <3>6, <3>7, <3>8, <3>9 DEF Phase
  <2> QED BY <2>4, <2>5 DEF PayInv
<1> QED
  BY <1>3, <1>4, <1>5, <1>6

\* An operation begins.
LEMMA StartPay ==
  ASSUME PlaceInv, NEW op \in Ops, Start(op)
  PROVE  PayInv'
<1>1. faults' = faults
  BY DEF Start
<1>2. PICK c \in Calls :
        /\ 1 \in DOMAIN c.script /\ Proceeds(c, 1, rx)
        /\ c.clean => Left(c.script) = 0 /\ ~ fw.data /\ (c.script[1].fresh => rx' = <<>>)
  BY StartMoves
<1>3. /\ call'.script = c.script /\ call'.at = 1 /\ call'.clean = c.clean /\ fw' = fw /\ ~ call'.unlink
      /\ tx' = IF c.script[1].send = "nothing" THEN tx ELSE Append(tx, Sending(c.script[1], 1))
  BY <1>2 DEF Proceeds
<1>4. ASSUME Heard' PROVE tx = <<>> /\ fw.pending = <<>> /\ ~ fw.data
  <2>1. c.clean
    BY <1>3, <1>4 DEF Heard
  <2>2. Len(tx) + Len(fw.pending) + (IF c.script[1].fresh THEN 0 ELSE Len(rx)) = 0
    BY <1>2, <2>1 DEF Left
  <2>3. tx \in Seq(Queued) /\ fw.pending \in Seq(Lines) /\ rx \in Seq(Lines)
    BY DEF PlaceInv, Firmware
  <2>4. Len(tx) \in Nat /\ Len(fw.pending) \in Nat /\ Len(rx) \in Nat
    BY <2>3
  <2>5. Len(tx) = 0 /\ Len(fw.pending) = 0
    <3>1. CASE c.script[1].fresh
      BY <2>2, <2>4, <3>1
    <3>2. CASE ~ c.script[1].fresh
      BY <2>2, <2>4, <3>2
    <3> QED BY <3>1, <3>2
  <2>6. tx = <<>> /\ fw.pending = <<>>
    BY <2>3, <2>5, EmptySeq
  <2> QED BY <1>2, <2>1, <2>6
<1>5. ASSUME Plainly' PROVE Hushed'
  <2>1. tx = <<>> /\ fw.pending = <<>> /\ ~ fw.data /\ c.script \in PlainScripts
    BY <1>3, <1>4, <1>5 DEF Plainly
  <2>2. Hushed
    BY <2>1, OnlyRest DEF Hushed
  <2>3. 1 \in Nat
    OBVIOUS
  <2> QED BY <1>2, <1>3, <2>1, <2>2, <2>3, HushedSends
<1>6. ASSUME SendCall' PROVE Chatter' /\ Phase'
  <2>1. /\ tx = <<>> /\ fw.pending = <<>> /\ ~ fw.data /\ c.script \in SendScripts /\ c.clean
    BY <1>3, <1>4, <1>6 DEF SendCall, Heard
  <2>2. c.script[1].fresh /\ c.script[1] \in Prompts
    <3>1. DOMAIN c.script = 1 .. Len(c.script)
      BY <2>1, SendScriptFacts
    <3> QED BY <1>2, <2>1, <3>1, SendScriptFacts
  <2>3. rx' = <<>>
    BY <1>2, <2>1, <2>2
  <2>4. Only(rx', Small) /\ Only(rx', Spoken) /\ Only(fw'.pending, Spoken)
    BY <1>3, <2>1, <2>3, OnlyRest
  <2>5. Len(rx') <= faults
    <3>1. Len(rx') = 0
      BY <2>3
    <3>2. faults \in Nat
      BY ReaderAssumption DEF PlaceInv
    <3> QED BY <3>1, <3>2
  <2>6. c.script[1].send # "nothing"
    BY <2>2, PartFacts
  <2>7. JustSent'
    BY <1>1, <1>2, <2>1, <2>4, <2>5, <2>6, Sends1 DEF LateProbe
  <2>8. Going'
    BY <1>3, <2>1, <2>7 DEF Going, AtPrompt
  <2> QED BY <1>3, <2>4, <2>8 DEF Chatter, Phase
<1> QED
  BY <1>5, <1>6 DEF PayInv

-----------------------------------------------------------------------------
(* The payload: the steps of the firmware.                                 *)

\* The lines of an answer have its words.
LEMMA SaysOnly ==
  ASSUME NEW s, NEW w, NEW words, Says(s, w), \A k \in 1 .. Len(w) : w[k] \in words
  PROVE  Only(s, words)
BY DEF Says, Only

\* The answer to a plain command has no prompt.
LEMMA PlainWords ==
  ASSUME NEW w \in Answers
  PROVE  \A k \in 1 .. Len(w) : w[k] \in Mute
<1>1. CASE w \in Seq(Quiet)
  <2>1. \A k \in 1 .. Len(w) : w[k] \in Quiet
    BY <1>1, ElementOfSeq
  <2>2. Quiet \subseteq Mute
    BY DEF Quiet, Mute, Words
  <2> QED BY <2>1, <2>2
<1>e. "ERROR" \in Mute /\ "UNLINK" \in Mute
  BY DEF Mute, Words
<1>2. CASE w = <<"ERROR">>
  <2>1. Len(w) = 1 /\ w[1] = "ERROR"
    BY <1>2
  <2>2. \A k \in 1 .. Len(w) : k = 1
    BY <2>1
  <2> QED BY <1>e, <2>1, <2>2
<1>3. CASE w = <<"UNLINK", "ERROR">>
  <2>1. Len(w) = 2 /\ w[1] = "UNLINK" /\ w[2] = "ERROR"
    BY <1>3
  <2>2. \A k \in 1 .. Len(w) : k = 1 \/ k = 2
    BY <2>1
  <2> QED BY <1>e, <2>1, <2>2
<1> QED
  BY <1>1, <1>2, <1>3 DEF Answers

\* A line is appended to lines like it.
LEMMA AddsOnly ==
  ASSUME PlaceInv, NEW words, NEW text \in words, "other" \in words, Only(rx, words), Adds(text)
  PROVE  Only(rx', words)
<1>1. /\ Len(rx') \in {Len(rx) + 1, Len(rx) + 2} /\ Len(rx) \in Nat
      /\ \A i \in 1 .. Len(rx) : rx'[i] = rx[i]
      /\ rx'[Len(rx')].text = text
      /\ \A i \in 1 .. Len(rx') : i > Len(rx) /\ i < Len(rx') => rx'[i].text = "other"
  BY DEF Adds, PlaceInv
<1>2. ASSUME NEW i \in 1 .. Len(rx') PROVE rx'[i].text \in words
  <2>1. i \in 1 .. Len(rx) \/ (i > Len(rx) /\ i < Len(rx')) \/ i = Len(rx')
    BY <1>1
  <2> QED BY <1>1, <2>1 DEF Only
<1> QED
  BY <1>2 DEF Only

\* The firmware reads: the call stays where it is.
LEMMA TakeUnmoved ==
  ASSUME PlaceInv, FwTake
  PROVE  Unmoved \/ call' = call
<1> DEFINE item == Head(tx)
<1>0. \/ TakeNothing \/ TakeBusy(item) \/ TakeError(item) \/ TakePayload(item)
     \/ TakeOther(item) \/ TakeOrder(item)
  BY TakeCases
<1> HIDE DEF item
<1>1. CASE TakeNothing \/ TakeBusy(item)
  BY <1>1 DEF TakeNothing, TakeBusy
<1>2. CASE TakeError(item) \/ TakeOther(item)
  <2>1. TooLate(item)
    BY <1>2 DEF TakeError, TakeOther
  <2> QED BY <2>1, TooLateSame
<1>3. CASE TakePayload(item)
  BY <1>3, Zenon DEF TakePayload
<1>4. CASE TakeOrder(item)
  BY <1>4 DEF TakeOrder
<1> QED BY <1>0, <1>1, <1>2, <1>3, <1>4

\* A call whose probe comes too late is not clean any more.
LEMMA TooLateUnclean ==
  ASSUME PlaceInv, Waiting, TooLate(Late)
  PROVE  ~ call'.clean
<1>1. call' = [call EXCEPT !.clean = FALSE]
  BY DEF TooLate, Late
<1>2. call \in Calls
  BY CmdFacts DEF PlaceInv
<1> QED
  BY <1>1, <1>2 DEF Calls

\* A call that is heard of when the firmware has read something was heard of before.
LEMMA TakeFacts ==
  ASSUME PlaceInv, FwTake, Heard'
  PROVE  /\ Heard /\ SameCall /\ Cmd' = Cmd /\ faults' = faults /\ tx' = Tail(tx)
         /\ \A item : TooLate(item) => item # Late
<1>1. tx' = Tail(tx) /\ faults' = faults
  BY TakeCases
<1>3. Unmoved \/ call' = call
  BY TakeUnmoved
<1>4. Waiting
  BY <1>3 DEF Heard, Unmoved, Waiting
<1>5. call \in Calls
  BY <1>4, CmdFacts DEF PlaceInv
<1>6. SameCall
  BY <1>3, <1>4, <1>5 DEF Unmoved, SameCall
<1>7. Heard
  BY <1>4, <1>6 DEF Heard, SameCall, Calls
<1>8. Cmd' = Cmd
  BY <1>6 DEF Cmd, SameCall
<1>9. ASSUME NEW i, TooLate(i), i = Late PROVE FALSE
  BY <1>4, <1>9, TooLateUnclean DEF Heard
<1> QED
  BY <1>1, <1>6, <1>7, <1>8, <1>9

\* What is known of a probe.
LEMMA ProbeFacts ==
  /\ Probe.what = "?" /\ Late.what = "?" /\ ~ Probe.overtaken /\ Late.overtaken /\ Probe # Late
  /\ Probe \in Queued /\ Late \in Queued
  /\ \A item : IsProbe(item) => item.what = "?"
<1>1. Probe.what = "?" /\ Late.what = "?" /\ ~ Probe.overtaken /\ Late.overtaken
  BY DEF Probe, Late
<1>2. Probe \in Queued
  BY SendingTypes
<1>3. Late \in Queued
  BY <1>2 DEF Late, Queued
<1> QED
  BY <1>1, <1>2, <1>3 DEF IsProbe

\* A plain call hears of no prompt.
LEMMA TakeHushed ==
  ASSUME PlaceInv, FwTake, Hushed
  PROVE  Hushed'
<1> DEFINE item == Head(tx)
<1>1. /\ tx # <<>> /\ tx' = Tail(tx) /\ item \in Queued
      /\ \/ TakeNothing \/ TakeBusy(item) \/ TakeError(item) \/ TakePayload(item)
         \/ TakeOther(item) \/ TakeOrder(item)
  BY TakeCases
<1>2. tx \in Seq(Queued) /\ fw \in Firmware
  BY DEF PlaceInv
<1>3. /\ item = tx[1] /\ 1 \in 1 .. Len(tx)
      /\ \A k \in 1 .. Len(Tail(tx)) : k + 1 \in 1 .. Len(tx) /\ Tail(tx)[k] = tx[k + 1]
  <2>1. Len(tx) \in Nat \ {0} /\ Len(Tail(tx)) = Len(tx) - 1
        /\ \A k \in 1 .. Len(Tail(tx)) : Tail(tx)[k] = tx[k + 1]
    BY <1>1, <1>2
  <2> QED BY <1>1, <1>2, <2>1
<1> HIDE DEF item
<1>4. PlainItem(item)
  BY <1>3 DEF Hushed
<1>5. \A k \in 1 .. Len(tx') : PlainItem(tx'[k])
  BY <1>1, <1>3 DEF Hushed
<1>6. ~ fw'.data /\ Only(fw'.pending, Mute)
  <2>1. CASE TakeNothing \/ TakeError(item)
    <3>1. fw' = fw
      BY <2>1 DEF TakeNothing, TakeError
    <3> QED BY <3>1 DEF Hushed
  <2>2. CASE TakeBusy(item)
    <3>1. fw'.data = fw.data /\ fw'.pending = fw.pending
      BY <1>2, <2>2, SlowerFirmware DEF TakeBusy
    <3> QED BY <3>1 DEF Hushed
  <2>3. CASE TakePayload(item) \/ TakeOther(item)
    <3>1. fw.data
      BY <2>3, Zenon DEF TakePayload, TakeOther
    <3>2. ~ fw.data
      BY DEF Hushed
    <3> QED BY <3>1, <3>2
  <2>4. CASE TakeOrder(item)
    <3>1. ~ fw'.data
      BY <2>4 DEF TakeOrder
    <3>2. CASE fw'.pending = <<>>
      BY <3>1, <3>2, OnlyRest
    <3>3. CASE \E words \in item.refusal \cup {item.answer} : Says(fw'.pending, words)
      <4>1. PICK words \in Answers : Says(fw'.pending, words)
        BY <1>4, <3>3 DEF PlainItem
      <4>2. \A k \in 1 .. Len(words) : words[k] \in Mute
        BY PlainWords
      <4> QED BY <3>1, <4>1, <4>2, SaysOnly
    <3> QED BY <2>4, <3>2, <3>3 DEF TakeOrder
  <2> QED BY <1>1, <2>1, <2>2, <2>3, <2>4
<1> QED
  BY <1>5, <1>6 DEF Hushed

\* Which words are which.
LEMMA WordSets ==
  /\ Small \subseteq Mute /\ Small \subseteq Spoken /\ Small \subseteq Before /\ Before \subseteq Mute
  /\ "other" \in Small /\ "busy" \in Before /\ "busy" \in Spoken /\ "ERROR" \in Mute
  /\ "ERROR" \in Spoken /\ "busy" \notin Finals /\ "ERROR" \notin Finals
  /\ "OK" \in Before /\ "OK" \in Spoken /\ ">" \in Spoken /\ Small \cap Finals = {}
  /\ "Recv " \in Mute \cap Spoken /\ "Recv " \notin Finals /\ Finals \subseteq Mute \cap Spoken
BY DEF Small, Mute, Spoken, Before, Finals, Words

\* Lines with fewer words have more of them.
LEMMA OnlyMore ==
  ASSUME NEW s, NEW a, NEW b, a \subseteq b, Only(s, a)
  PROVE  Only(s, b)
BY DEF Only

\* What has just been sent, and the firmware reads.
LEMMA JustSentHead ==
  ASSUME JustSent
  PROVE  \/ tx = <<Sending(Cmd, call.at)>> /\ Head(tx) = Sending(Cmd, call.at) /\ Tail(tx) = <<>>
         \/ /\ tx = <<Late, Sending(Cmd, call.at)>> /\ Head(tx) = Late
            /\ Tail(tx) = <<Sending(Cmd, call.at)>>
<1> DEFINE s == Sending(Cmd, call.at)
           p == Late
<1>1. tx = <<s>> \/ tx = <<p, s>>
  BY DEF JustSent
<1> HIDE DEF s, p
<1>2. CASE tx = <<s>>
  <2>1. Head(<<s>>) = s /\ Tail(<<s>>) = <<>>
    BY OneTwo
  <2> QED BY <1>2, <2>1 DEF s
<1>3. CASE tx = <<p, s>>
  <2>1. Head(<<p, s>>) = p /\ Tail(<<p, s>>) = <<s>>
    BY OneTwo
  <2> QED BY <1>3, <2>1 DEF s, p
<1> QED
  BY <1>1, <1>2, <1>3

\* Which of the cases of a step of the firmware are left.
LEMMA TakeWhat ==
  ASSUME PlaceInv, FwTake, Heard', NEW item, item = Head(tx), IsProbe(item) \/ item.what \in {"command", "data"}
  PROVE  /\ item = Late => TakeNothing \/ TakeBusy(item)
         /\ fw.data => TakeNothing \/ TakePayload(item) \/ TakeOther(item)
         /\ ~ fw.data => TakeNothing \/ TakeBusy(item) \/ TakeError(item) \/ TakeOrder(item)
         /\ TakeOrder(item) => item.what = "command"
         /\ TakePayload(item) => item.what = "data"
<1>1. /\ TakeNothing \/ TakeBusy(item) \/ TakeError(item) \/ TakePayload(item)
         \/ TakeOther(item) \/ TakeOrder(item)
  BY TakeCases
<1>2. item = Late => item.what = "?"
  BY ProbeFacts
<1>3. item.what \in {"?", "command", "data"}
  BY ProbeFacts
<1>4. TakeOrder(item) => item.what = "command" /\ ~ fw.data
  BY <1>3 DEF TakeOrder
<1>5. TakePayload(item) => item.what = "data" /\ fw.data
  BY Zenon DEF TakePayload
<1>6. (TakeError(item) => TooLate(item) /\ ~ fw.data) /\ (TakeOther(item) => TooLate(item) /\ fw.data)
  BY DEF TakeError, TakeOther
<1>7. TooLate(item) => item # Late
  BY TakeFacts
<1>8. TakeBusy(item) => ~ fw.data
  BY DEF TakeBusy
<1>9. item = Late => TakeNothing \/ TakeBusy(item)
  <2>1. "?" # "command" /\ "?" # "data"
    OBVIOUS
  <2> QED BY <1>1, <1>2, <1>4, <1>5, <1>6, <1>7, <2>1
<1> QED
  BY <1>1, <1>4, <1>5, <1>6, <1>8, <1>9

\* AT+CIPSEND is on its way, and the firmware reads.
LEMMA TakeGoing ==
  ASSUME PlaceInv, FwTake, Heard', SendCall, Chatter, Going, Enough
  PROVE  Chatter' /\ (Going' \/ Hopeless' \/ Coming')
<1> DEFINE s == Sending(Cmd, call.at)
           item == Head(tx)
<1>1. /\ SameCall /\ Cmd' = Cmd /\ faults' = faults /\ tx' = Tail(tx)
      /\ call'.at = call.at /\ call'.ignored = call.ignored /\ call'.timeout = call.timeout
      /\ call'.unlink = call.unlink
  BY TakeFacts DEF SameCall
<1>2. /\ AtPrompt /\ ~ fw.data /\ JustSent /\ fw.pending = <<>> /\ Only(rx, Small)
      /\ call.ignored + Len(rx) <= faults /\ call.timeout = 0
  BY DEF Going, JustSent
<1>3. AtPrompt'
  BY <1>1, <1>2 DEF AtPrompt
<1>4. s.what = "command" /\ s.answer = <<"OK", ">">> /\ s.refusal = {<<"ERROR">>}
  BY <1>2, SendFacts DEF AtPrompt, Sending
<1>5. (item = s /\ tx' = <<>>) \/ (item = Late /\ tx' = <<s>>)
  BY <1>1, <1>2, JustSentHead
<1>s. s = Sending(Cmd', call'.at)
  BY <1>1
<1> HIDE DEF s, item
<1>6. /\ item = Late => TakeNothing \/ TakeBusy(item)
      /\ TakeNothing \/ TakeBusy(item) \/ TakeError(item) \/ TakeOrder(item)
  BY <1>2, <1>4, <1>5, TakeWhat DEF IsProbe, item
<1>7. ~ TakeBusy(item)
  BY <1>2 DEF TakeBusy
<1>8. CASE TakeNothing
  <2>1. rx' = rx /\ fw' = fw
    BY <1>8 DEF TakeNothing
  <2>2. Chatter'
    BY <1>1, <2>1 DEF Chatter
  <2>3. CASE tx' = <<s>>
    <3>1. JustSent'
      BY <1>1, <1>2, <1>s, <2>1, <2>3 DEF JustSent
    <3> QED BY <1>2, <1>3, <2>1, <2>2, <3>1 DEF Going
  <2>4. CASE tx' = <<>>
    <3>1. Only(rx', Mute) /\ Only(fw'.pending, Mute)
      <4>1. Only(rx, Mute)
        BY <1>2, OnlyMore, WordSets
      <4>2. Only(fw.pending, Mute)
        BY <1>2, OnlyRest
      <4> QED BY <2>1, <4>1, <4>2
    <3> QED BY <1>2, <1>3, <2>1, <2>2, <2>4, <3>1 DEF Hopeless
  <2> QED BY <1>5, <2>3, <2>4
<1>9. CASE item = s /\ tx' = <<>> /\ ~ TakeNothing
  <2>1. TakeOrder(item)
    BY <1>4, <1>6, <1>7, <1>9 DEF TakeError
  <2>2. /\ MayEcho /\ ~ fw'.data /\ fw'.slow = 0 /\ fw'.up
        /\ \E words \in s.refusal \cup {s.answer} : Says(fw'.pending, words)
    BY <1>4, <1>9, <2>1 DEF TakeOrder
  <2>3. Only(rx', Small) /\ Len(rx') <= Len(rx) + 1 /\ Len(rx') \in Nat
    <3>1. Waiting /\ Len(rx) \in Nat
      BY Counters DEF SendCall, Heard
    <3>2. CASE rx' = rx
      BY <1>2, <3>1, <3>2
    <3>3. CASE Adds("other") /\ Len(rx') = Len(rx) + 1
      <4>1. Only(rx', Small)
        BY <1>2, <3>3, AddsOnly, WordSets
      <4> QED BY <3>1, <3>3, <4>1
    <3> QED BY <2>2, <3>2, <3>3 DEF MayEcho
  <2>4. Only(rx', Spoken) /\ Only(rx', Mute) /\ Only(rx', Before)
    BY <2>3, OnlyMore, WordSets
  <2>5. CASE Says(fw'.pending, <<"ERROR">>)
    <3> DEFINE w == <<"ERROR">>
    <3>1. Len(w) = 1 /\ w[1] = "ERROR"
      OBVIOUS
    <3> HIDE DEF w
    <3>2. \A k \in 1 .. Len(w) : w[k] \in Mute /\ w[k] \in Spoken
      <4>1. \A k \in 1 .. Len(w) : k = 1
        BY <3>1
      <4> QED BY <3>1, <4>1, WordSets
    <3>3. Only(fw'.pending, Mute) /\ Only(fw'.pending, Spoken)
      BY <2>5, <3>2, SaysOnly DEF w
    <3> QED BY <1>1, <1>3, <1>9, <2>2, <2>4, <3>3 DEF Hopeless, Chatter
  <2>6. CASE Says(fw'.pending, <<"OK", ">">>)
    <3> DEFINE w == <<"OK", ">">>
               p == fw'.pending
    <3>1. Len(w) = 2 /\ w[1] = "OK" /\ w[2] = ">"
      OBVIOUS
    <3> HIDE DEF w
    <3>2. Len(p) = 2 /\ p[1].text = "OK" /\ p[2].text = ">"
      BY <2>6, <3>1 DEF Says, w
    <3> HIDE DEF p
    <3>3. Only(p, Spoken)
      <4>1. \A k \in 1 .. Len(p) : k = 1 \/ k = 2
        BY <3>2
      <4> QED BY <3>2, <4>1, WordSets DEF Only
    <3>4. call'.ignored + Len(rx') + ToCome' <= MaxIgnored
      <4>1. ASSUME NEW a \in Nat, NEW b \in Nat, NEW c \in Nat, NEW f \in Nat, NEW m \in Nat, NEW y \in Nat,
                   NEW i \in Nat, a + b <= f, c <= b + 1, f <= m, 2 * y + 2 + m <= i
            PROVE  a + c + (2 - 1 + 2 * (y - 0) + (m - f)) <= i
        BY <4>1
      <4>2. ToCome' = 2 - 1 + 2 * (MaxBusy - 0) + (MaxFaults - faults)
        BY <1>1, <2>2, <3>2 DEF ToCome, p
      <4>3. /\ call.ignored \in Nat /\ Len(rx) \in Nat /\ Len(rx') \in Nat /\ faults \in Nat
            /\ MaxFaults \in Nat /\ MaxBusy \in Nat /\ MaxIgnored \in Nat /\ faults <= MaxFaults
        BY <2>3, Counters DEF SendCall, Heard
      <4>5. 2 * MaxBusy + 2 + MaxFaults <= MaxIgnored
        BY DEF Enough
      <4>4. call.ignored + Len(rx') + (2 - 1 + 2 * (MaxBusy - 0) + (MaxFaults - faults)) <= MaxIgnored
        BY <1>2, <2>3, <4>1, <4>3, <4>5
      <4> QED BY <1>1, <4>2, <4>4
    <3>5. 0 <= MaxBusy
      BY ReaderAssumption
    <3>6. Coming'
      <4> HIDE DEF ToCome
      <4>1. OneProbe' /\ (tx' # <<>> => fw'.slow < MaxBusy)
        BY <1>9 DEF OneProbe
      <4>2. fw'.slow <= MaxBusy /\ call'.timeout = 0
        BY <1>1, <1>2, <2>2, <3>5
      <4> QED BY <1>3, <2>2, <2>4, <3>2, <3>4, <4>1, <4>2 DEF Coming, p
    <3> QED BY <1>1, <2>4, <3>3, <3>6 DEF Chatter, p
  <2> QED BY <1>4, <2>2, <2>5, <2>6
<1> QED
  BY <1>5, <1>6, <1>7, <1>8, <1>9

\* No prompt comes, and the firmware reads.
LEMMA TakeHopeless ==
  ASSUME PlaceInv, FwTake, Heard', SendCall, Chatter, Hopeless
  PROVE  Chatter' /\ Hopeless'
<1> DEFINE item == Head(tx)
<1>1. /\ tx # <<>> /\ tx' = Tail(tx) /\ call'.at = call.at /\ call'.unlink = call.unlink
  BY TakeCases, TakeFacts DEF SameCall
<1>2. /\ AtPrompt /\ ~ fw.data /\ Only(rx, Mute) /\ Only(fw.pending, Mute)
      /\ \A k \in 1 .. Len(tx) : IsProbe(tx[k])
  BY DEF Hopeless
<1>3. IsProbe(item) /\ \A k \in 1 .. Len(tx') : IsProbe(tx'[k])
  <2>1. tx \in Seq(Queued)
    BY DEF PlaceInv
  <2>2. /\ item = tx[1] /\ 1 \in 1 .. Len(tx)
        /\ \A k \in 1 .. Len(Tail(tx)) : k + 1 \in 1 .. Len(tx) /\ Tail(tx)[k] = tx[k + 1]
    <3>1. Len(tx) \in Nat \ {0} /\ Len(Tail(tx)) = Len(tx) - 1
          /\ \A k \in 1 .. Len(Tail(tx)) : Tail(tx)[k] = tx[k + 1]
      BY <1>1, <2>1
    <3> QED BY <1>1, <2>1, <3>1
  <2> QED BY <1>1, <1>2, <2>2
<1> HIDE DEF item
<1>4. item.what = "?"
  BY <1>3, ProbeFacts
<1>5. TakeNothing \/ TakeBusy(item) \/ TakeError(item)
  <2>1. TakeNothing \/ TakeBusy(item) \/ TakeError(item) \/ TakeOrder(item)
    BY <1>2, <1>3, TakeWhat DEF item
  <2> QED BY <1>4, <2>1 DEF TakeOrder
<1>6. /\ Only(rx', Mute) /\ Only(rx', Spoken) /\ fw'.pending = fw.pending /\ ~ fw'.data
  <2>1. CASE TakeNothing
    BY <1>2, <2>1 DEF TakeNothing, Chatter
  <2>2. CASE TakeBusy(item)
    <3>1. Only(rx', Mute) /\ Only(rx', Spoken)
      <4>1. Adds("busy") /\ "busy" \in Mute /\ "other" \in Mute /\ "other" \in Spoken
        BY <2>2, WordSets DEF TakeBusy
      <4> QED BY <1>2, <4>1, AddsOnly, WordSets DEF Chatter
    <3>2. fw'.pending = fw.pending /\ fw'.data = fw.data
      BY <2>2, SlowerFirmware DEF TakeBusy, PlaceInv
    <3> QED BY <1>2, <3>1, <3>2
  <2>3. CASE TakeError(item)
    <3>1. Only(rx', Mute) /\ Only(rx', Spoken)
      <4>1. Adds("ERROR") /\ "ERROR" \in Mute /\ "other" \in Mute /\ "other" \in Spoken
        BY <2>3, WordSets DEF TakeError
      <4> QED BY <1>2, <4>1, AddsOnly, WordSets DEF Chatter
    <3>2. fw' = fw
      BY <2>3 DEF TakeError
    <3> QED BY <1>2, <3>1, <3>2
  <2> QED BY <1>5, <2>1, <2>2, <2>3
<1> QED
  BY <1>1, <1>2, <1>3, <1>6 DEF Hopeless, AtPrompt, Chatter

\* A probe alone is on its way.
LEMMA OneProbeHead ==
  ASSUME OneProbe, tx # <<>>, tx \in Seq(Queued)
  PROVE  IsProbe(Head(tx)) /\ Tail(tx) = <<>> /\ (LateProbe <=> Head(tx) = Late)
<1>1. Len(tx) = 1 /\ IsProbe(tx[1])
  BY DEF OneProbe
<1>2. Head(tx) = tx[1]
  BY <1>1
<1>3. Tail(tx) = <<>>
  <2>1. Tail(tx) \in Seq(Queued) /\ Len(Tail(tx)) = 0
    BY <1>1
  <2> QED BY <2>1, EmptySeq
<1>4. tx = <<tx[1]>>
  <2> DEFINE e == tx[1]
             t == <<e>>
  <2>1. t \in Seq({e}) /\ Len(t) = 1 /\ t[1] = e
    OBVIOUS
  <2>2. e \in Queued
    BY <1>1
  <2>3. t \in Seq(Queued)
    BY <2>2
  <2>4. tx[1] = e /\ \A i \in 1 .. 1 : i = 1
    OBVIOUS
  <2> HIDE DEF t, e
  <2>5. tx = t
    BY <1>1, <2>1, <2>3, <2>4, SeqEqual
  <2> QED BY <2>5 DEF t, e
<1>5. LateProbe <=> tx[1] = Late
  <2>1. ASSUME tx = <<Late>> PROVE tx[1] = Late
    BY <2>1, OneTwo
  <2>2. ASSUME tx[1] = Late PROVE tx = <<Late>>
    BY <1>4, <2>2
  <2> QED BY <2>1, <2>2 DEF LateProbe
<1> QED
  BY <1>1, <1>2, <1>3, <1>5

\* The prompt is to come, and the firmware reads a probe.
LEMMA TakeComing ==
  ASSUME PlaceInv, FwTake, Heard', SendCall, Chatter, Coming
  PROVE  Chatter' /\ Coming'
<1> DEFINE item == Head(tx)
           p == fw.pending
<1>1. /\ tx # <<>> /\ tx' = Tail(tx) /\ call'.at = call.at /\ call'.unlink = call.unlink
      /\ call'.ignored = call.ignored /\ call'.timeout = call.timeout /\ faults' = faults
  BY TakeCases, TakeFacts DEF SameCall
<1>2. /\ AtPrompt /\ ~ fw.data /\ fw.up /\ Only(rx, Before) /\ OneProbe
      /\ \/ Len(p) = 2 /\ p[1].text = "OK" /\ p[2].text = ">"
         \/ Len(p) = 1 /\ p[1].text = ">"
      /\ fw.slow < MaxBusy
      /\ call.ignored + Len(rx) + ToCome <= MaxIgnored
  BY <1>1 DEF Coming
<1>3. IsProbe(item) /\ tx' = <<>>
  BY <1>1, <1>2, OneProbeHead DEF PlaceInv
<1>4. /\ call.ignored \in Nat /\ MaxIgnored \in Nat /\ MaxBusy \in Nat /\ MaxFaults \in Nat
      /\ fw.slow \in Nat /\ faults \in Nat /\ faults <= MaxFaults /\ Len(rx) \in Nat
  BY Counters DEF SendCall, Heard
<1> HIDE DEF item, p
<1>5. TakeBusy(item)
  <2>1. TakeNothing \/ TakeBusy(item) \/ TakeError(item) \/ TakeOrder(item)
    BY <1>2, <1>3, TakeWhat DEF item
  <2>2. item.what = "?"
    BY <1>3, ProbeFacts
  <2>3. p # <<>>
    <3>1. Len(p) # 0
      BY <1>2
    <3> QED BY <3>1
  <2> QED BY <1>2, <2>1, <2>2, <2>3 DEF TakeNothing, TakeError, TakeOrder, p
<1>6. /\ fw'.up = fw.up /\ fw'.data = fw.data /\ fw'.pending = fw.pending /\ fw'.slow = fw.slow + 1
  <2>1. item.what = "?"
    BY <1>3, ProbeFacts
  <2> QED BY <1>2, <1>5, <2>1, SlowerFirmware DEF TakeBusy, PlaceInv
<1>7. Adds("busy")
  BY <1>5 DEF TakeBusy
<1>8. Only(rx', Before) /\ Only(rx', Spoken)
  <2>1. "busy" \in Before /\ "other" \in Before /\ "other" \in Spoken /\ "busy" \in Spoken
    BY WordSets
  <2> QED BY <1>2, <1>7, <2>1, AddsOnly DEF Chatter
<1>9. Len(rx') \in Nat \ {0} /\ Len(rx') <= Len(rx) + 2
  BY <1>4, <1>7 DEF Adds
<1>10. call'.ignored + Len(rx') + ToCome' <= MaxIgnored
  <2>2. Len(p) \in Nat
    BY <1>2
  <2>3. ToCome = Len(p) - 1 + 2 * (MaxBusy - fw.slow) + (MaxFaults - faults)
    BY DEF ToCome, p
  <2>4. ToCome' = Len(p) - 1 + 2 * (MaxBusy - (fw.slow + 1)) + (MaxFaults - faults)
    BY <1>1, <1>6 DEF ToCome, p
  <2>5. call.ignored + Len(rx) + (Len(p) - 1 + 2 * (MaxBusy - fw.slow) + (MaxFaults - faults)) <= MaxIgnored
    BY <1>2, <2>3
  <2> DEFINE b == 2 * (MaxBusy - fw.slow)
             c == 2 * (MaxBusy - (fw.slow + 1))
             f == MaxFaults - faults
  <2>7. b \in Int /\ c = b - 2 /\ f \in Int
    BY <1>4
  <2> HIDE DEF b, c, f
  <2>8. ASSUME NEW g \in Nat, NEW m \in Nat, NEW n \in Nat, NEW k \in Nat,
               g + m + (k - 1 + b + f) <= MaxIgnored, n <= m + 2
        PROVE  g + n + (k - 1 + c + f) <= MaxIgnored
    BY <1>4, <2>7, <2>8
  <2>9. call.ignored + Len(rx) + (Len(p) - 1 + b + f) <= MaxIgnored
    BY <2>5 DEF b, f
  <2>10. Len(rx') \in Nat
    BY <1>9
  <2>11. call.ignored + Len(rx') + (Len(p) - 1 + c + f) <= MaxIgnored
    BY <1>4, <1>9, <2>2, <2>8, <2>9, <2>10
  <2>6. call.ignored + Len(rx') + (Len(p) - 1 + 2 * (MaxBusy - (fw.slow + 1)) + (MaxFaults - faults)) <= MaxIgnored
    BY <2>11 DEF c, f
  <2> QED BY <1>1, <2>4, <2>6
<1>11. fw'.slow <= MaxBusy
  BY <1>2, <1>4, <1>6
<1>12. rx' # <<>>
  <2>1. Len(<<>>) = 0
    OBVIOUS
  <2> QED BY <1>9, <2>1
<1>13. OneProbe' /\ AtPrompt'
  BY <1>1, <1>2, <1>3 DEF OneProbe, AtPrompt
<1>14. Coming'
  <2> HIDE DEF ToCome
  <2> QED BY <1>2, <1>3, <1>6, <1>8, <1>10, <1>11, <1>12, <1>13 DEF Coming, p
<1>15. Chatter'
  BY <1>1, <1>6, <1>8 DEF Chatter
<1> QED
  BY <1>14, <1>15

\* The prompt has come, and the firmware reads the probe that comes too late.
LEMMA TakeCome ==
  ASSUME PlaceInv, FwTake, Heard', SendCall, Come
  PROVE  FALSE
<1> DEFINE item == Head(tx)
<1>1. tx # <<>> /\ LateProbe /\ fw.data /\ fw.up
  BY TakeCases DEF Come
<1>2. item = Late
  <2>1. tx = <<Late>>
    BY <1>1 DEF LateProbe
  <2> QED BY <2>1, OneTwo
<1> HIDE DEF item
<1>3. TakeNothing \/ TakeBusy(item)
  BY <1>2, TakeWhat DEF IsProbe, item
<1> QED
  BY <1>1, <1>3 DEF TakeNothing, TakeBusy

\* The answers to a payload: only their last line is final.
LEMMA ReceiptWords ==
  ASSUME NEW first \in (Mute \cap Spoken) \ Finals, NEW how \in Finals, NEW s,
         Says(s, <<first, how>>)
  PROVE  /\ Only(s, Mute) /\ Only(s, Spoken)
         /\ \A i \in 1 .. Len(s) : s[i].text \in Finals => i = Len(s)
<1> DEFINE w == <<first, how>>
<1>1. Len(w) = 2 /\ w[1] = first /\ w[2] = how
  OBVIOUS
<1>2. how \in Mute \cap Spoken
  BY WordSets
<1>s. Says(s, w)
  OBVIOUS
<1> HIDE DEF w
<1>3. \A k \in 1 .. Len(w) : k = 1 \/ k = 2
  BY <1>1
<1>4. \A k \in 1 .. Len(w) : w[k] \in Mute /\ w[k] \in Spoken
  BY <1>1, <1>2, <1>3
<1>5. Only(s, Mute) /\ Only(s, Spoken)
  BY <1>4, <1>s, SaysOnly
<1>6. Len(s) = 2 /\ s[1].text = first
  <2>1. Len(s) = 2 /\ s[1].text = w[1]
    BY <1>1, <1>s DEF Says
  <2> QED BY <1>1, <2>1
<1>7. \A i \in 1 .. Len(s) : i = 1 \/ i = Len(s)
  BY <1>6
<1> QED
  BY <1>5, <1>6, <1>7

\* The payload is on its way, and the firmware reads.
LEMMA TakePaid ==
  ASSUME PlaceInv, FwTake, Heard', SendCall, Chatter, Paid
  PROVE  Chatter' /\ After'
<1> DEFINE s == Sending(Cmd, call.at)
           item == Head(tx)
<1>1. /\ tx' = Tail(tx) /\ call'.at = call.at /\ call'.unlink = call.unlink
  BY TakeFacts DEF SameCall
<1>2. /\ call.at \in {2, 5} /\ fw.data /\ fw.up /\ JustSent /\ Only(rx, Small)
  BY DEF Paid, JustSent
<1>3. s.what = "data" /\ s.answer = <<"Recv ", "SEND OK">>
  BY <1>2, SendFacts DEF Sending
<1>5. (item = s /\ tx' = <<>>) \/ item = Late
  BY <1>1, <1>2, JustSentHead
<1> HIDE DEF s, item
<1>6. item = s /\ tx' = <<>> /\ TakePayload(item)
  <2>1. ~ TakeNothing /\ ~ TakeBusy(item)
    BY <1>2 DEF TakeNothing, TakeBusy
  <2>2. item # Late
    BY <2>1, TakeWhat DEF IsProbe, item
  <2>3. item.what = "data"
    BY <1>3, <1>5, <2>2
  <2>4. TakePayload(item) \/ TakeOther(item)
    BY <1>2, <2>1, <2>3, TakeWhat DEF item
  <2> QED BY <1>5, <2>2, <2>3, <2>4 DEF TakeOther
<1>7. /\ rx' = rx /\ ~ fw'.data
      /\ Says(fw'.pending, s.answer) \/ Says(fw'.pending, <<"Recv ", "SEND FAIL">>)
  BY <1>6, Zenon DEF TakePayload
<1>8. \E how \in Finals : Says(fw'.pending, <<"Recv ", how>>)
  <2>1. "SEND OK" \in Finals /\ "SEND FAIL" \in Finals
    BY DEF Finals
  <2> QED BY <1>3, <1>7, <2>1
<1>9. /\ Only(fw'.pending, Mute) /\ Only(fw'.pending, Spoken) /\ LastSaid'
  <2>1. \E first \in (Mute \cap Spoken) \ Finals : \E how \in Finals : Says(fw'.pending, <<first, how>>)
    <3>1. "Recv " \in (Mute \cap Spoken) \ Finals
      BY WordSets
    <3> QED BY <1>8, <3>1, Zenon
  <2> QED BY <2>1, ReceiptWords DEF LastSaid
<1>10. Only(rx', Mute) /\ Only(rx', Spoken) /\ \A i \in 1 .. Len(rx') : rx'[i].text \notin Finals
  <2>1. Only(rx, Mute) /\ Only(rx, Spoken)
    BY <1>2, OnlyMore, WordSets
  <2>2. \A i \in 1 .. Len(rx) : rx[i].text \notin Finals
    BY <1>2, WordSets DEF Only
  <2> QED BY <1>7, <2>1, <2>2
<1>11. LastCame'
  BY <1>10 DEF LastCame
<1>12. After'
  BY <1>1, <1>2, <1>6, <1>7, <1>9, <1>10, <1>11 DEF After, OneProbe
<1> QED
  BY <1>1, <1>9, <1>10, <1>12 DEF Chatter

\* The firmware has the payload, and reads a probe.
LEMMA TakeAfter ==
  ASSUME PlaceInv, FwTake, Heard', SendCall, Chatter, After
  PROVE  Chatter' /\ After'
<1> DEFINE item == Head(tx)
<1>1. /\ tx # <<>> /\ tx' = Tail(tx) /\ call'.at = call.at /\ call'.unlink = call.unlink
      /\ faults' = faults
  BY TakeCases, TakeFacts DEF SameCall
<1>2. /\ call.at \in {2, 3, 5, 6} /\ ~ fw.data /\ Only(rx, Mute) /\ Only(fw.pending, Mute)
      /\ OneProbe /\ LastSaid /\ LastCame
  BY DEF After
<1>3. IsProbe(item) /\ tx' = <<>> /\ (LateProbe <=> item = Late)
  BY <1>1, <1>2, OneProbeHead DEF PlaceInv
<1> HIDE DEF item
<1>4. /\ TakeNothing \/ TakeBusy(item) \/ TakeError(item)
      /\ item = Late => ~ TakeError(item)
  <2>1. item.what = "?"
    BY <1>3, ProbeFacts
  <2>2. TakeNothing \/ TakeBusy(item) \/ TakeError(item) \/ TakeOrder(item)
    BY <1>2, <1>3, TakeWhat DEF item
  <2>3. TakeError(item) => TooLate(item)
    BY DEF TakeError
  <2>4. TooLate(item) => item # Late
    BY TakeFacts
  <2> QED BY <2>1, <2>2, <2>3, <2>4 DEF TakeOrder
<1>5. OneProbe' /\ LateProbe'
  BY <1>3 DEF OneProbe, LateProbe
<1>6. CASE TakeNothing
  <2>1. rx' = rx /\ fw' = fw
    BY <1>6 DEF TakeNothing
  <2>2. LastCame'
    BY <1>1, <1>2, <1>5, <2>1 DEF LastCame
  <2>3. LastSaid'
    BY <1>2, <2>1 DEF LastSaid
  <2> QED BY <1>1, <1>2, <1>5, <2>1, <2>2, <2>3 DEF After, Chatter
<1>7. ASSUME NEW text \in {"busy", "ERROR"}, Adds(text), \A i \in 1 .. Len(rx) : rx[i].text \notin Finals,
             fw'.pending = fw.pending, fw'.data = fw.data
      PROVE  Chatter' /\ After'
  <2>1. /\ text \in Mute /\ text \in Spoken /\ "other" \in Mute /\ "other" \in Spoken
        /\ text \notin Finals /\ "other" \notin Finals
    BY WordSets
  <2>2. Only(rx', Mute) /\ Only(rx', Spoken)
    BY <1>2, <1>7, <2>1, AddsOnly DEF Chatter
  <2> DEFINE others == Words \ Finals
  <2>3. Only(rx, others)
    <3>1. \A i \in 1 .. Len(rx) : rx[i].text \in Words
      BY <1>2 DEF Only, Mute
    <3> QED BY <1>7, <3>1 DEF Only
  <2>4. text \in others /\ "other" \in others
    BY <2>1 DEF Mute
  <2>5. Only(rx', others)
    <3> HIDE DEF others
    <3> QED BY <1>7, <2>3, <2>4, AddsOnly
  <2>6. LastCame'
    BY <2>5 DEF Only, LastCame
  <2>7. LastSaid'
    BY <1>2, <1>7 DEF LastSaid
  <2> QED BY <1>1, <1>2, <1>5, <1>7, <2>2, <2>6, <2>7 DEF After, Chatter
<1>8. CASE TakeBusy(item)
  <2>1. fw.pending # <<>> /\ Adds("busy")
    BY <1>8 DEF TakeBusy
  <2>2. \A i \in 1 .. Len(rx) : rx[i].text \notin Finals
    BY <1>2, <2>1 DEF LastCame
  <2>3. fw'.pending = fw.pending /\ fw'.data = fw.data
    BY <1>8, SlowerFirmware DEF TakeBusy, PlaceInv
  <2> QED BY <1>7, <2>1, <2>2, <2>3
<1>9. CASE TakeError(item)
  <2>1. Adds("ERROR") /\ fw' = fw /\ ~ LateProbe
    BY <1>3, <1>4, <1>9 DEF TakeError
  <2>2. \A i \in 1 .. Len(rx) : rx[i].text \notin Finals
    BY <1>2, <2>1 DEF LastCame
  <2> QED BY <1>7, <2>1, <2>2
<1> QED
  BY <1>4, <1>6, <1>8, <1>9

\* The firmware reads what was sent.
LEMMA TakePay ==
  ASSUME PlaceInv, PayInv, FwTake, Enough
  PROVE  PayInv'
<1>1. ASSUME Heard' PROVE Heard /\ call'.script = call.script
  BY <1>1, TakeFacts DEF SameCall
<1>2. ASSUME Plainly' PROVE Hushed'
  <2>1. Plainly
    BY <1>1, <1>2 DEF Plainly
  <2> QED BY <2>1, TakeHushed DEF PayInv
<1>3. ASSUME SendCall' PROVE Chatter' /\ Phase'
  <2>1. SendCall /\ Heard'
    BY <1>1, <1>3 DEF SendCall
  <2>2. Chatter /\ Phase
    BY <2>1 DEF PayInv
  <2>3. CASE Going
    BY <2>1, <2>2, <2>3, TakeGoing DEF Phase
  <2>4. CASE Hopeless
    BY <2>1, <2>2, <2>4, TakeHopeless DEF Phase
  <2>5. CASE Coming
    BY <2>1, <2>2, <2>5, TakeComing DEF Phase
  <2>6. CASE Come
    BY <2>1, <2>6, TakeCome
  <2>7. CASE Paid
    BY <2>1, <2>2, <2>7, TakePaid DEF Phase
  <2>8. CASE After
    BY <2>1, <2>2, <2>8, TakeAfter DEF Phase
  <2> QED BY <2>2, <2>3, <2>4, <2>5, <2>6, <2>7, <2>8 DEF Phase
<1> QED
  BY <1>2, <1>3 DEF PayInv

\* What is sent alone.
LEMMA Single ==
  ASSUME NEW s \in Seq(Queued), Len(s) = 1
  PROVE  s = <<s[1]>>
<1> DEFINE e == s[1]
           t == <<e>>
<1>1. t \in Seq({e}) /\ Len(t) = 1 /\ t[1] = e
  OBVIOUS
<1>2. e \in Queued
  OBVIOUS
<1>3. t \in Seq(Queued)
  BY <1>2
<1>4. s[1] = e /\ \A i \in 1 .. 1 : i = 1
  OBVIOUS
<1> HIDE DEF t, e
<1>5. s = t
  BY <1>1, <1>3, <1>4, SeqEqual
<1> QED
  BY <1>5 DEF t, e

\* A probe that is overtaken comes too late.
LEMMA OvertakenProbe ==
  /\ \A item : IsProbe(item) =>
       [item EXCEPT !.overtaken = item.overtaken \/ item.what = "?"] = Late
  /\ tx \in Seq(Queued) /\ OneProbe => Overtaken(tx) \in {<<>>, <<Late>>}
<1>1. ASSUME NEW item, IsProbe(item)
      PROVE  [item EXCEPT !.overtaken = item.overtaken \/ item.what = "?"] = Late
  <2>1. CASE item = Probe
    BY <2>1 DEF Late, Probe
  <2>2. CASE item = Late
    BY <2>2 DEF Late, Probe
  <2> QED BY <1>1, <2>1, <2>2 DEF IsProbe
<1>2. ASSUME tx \in Seq(Queued), OneProbe PROVE Overtaken(tx) \in {<<>>, <<Late>>}
  <2> DEFINE o == Overtaken(tx)
  <2>1. /\ o \in Seq(Queued) /\ Len(o) = Len(tx)
        /\ \A k \in 1 .. Len(tx) : o[k] = [tx[k] EXCEPT !.overtaken = tx[k].overtaken \/ tx[k].what = "?"]
    BY <1>2, QueueTypes
  <2> HIDE DEF o
  <2>2. CASE tx = <<>>
    <3>1. Len(o) = 0
      BY <2>1, <2>2
    <3> QED BY <2>1, <3>1, EmptySeq DEF o
  <2>3. CASE Len(tx) = 1 /\ IsProbe(tx[1])
    <3>1. 1 \in 1 .. Len(tx) /\ Len(o) = 1
      BY <2>1, <2>3
    <3>2. o[1] = Late
      BY <1>1, <2>1, <2>3, <3>1
    <3>3. o = <<o[1]>>
      BY <2>1, <3>1, Single
    <3> QED BY <3>2, <3>3 DEF o
  <2> QED BY <1>2, <2>2, <2>3 DEF OneProbe
<1> QED
  BY <1>1, <1>2

\* One line is said: what is on the line, and what is still to be said, are like before.
LEMMA EmitOnly ==
  ASSUME PlaceInv, FwEmit
  PROVE  /\ \A words : Only(fw.pending, words) => Only(fw'.pending, words) /\ fw.pending[1].text \in words
         /\ \A words : Only(rx, words) /\ fw.pending[1].text \in words => Only(rx', words)
         /\ \A i \in 1 .. Len(rx') : i \in 1 .. Len(rx) \/ i = Len(rx')
<1> DEFINE p == fw.pending
           q == fw'.pending
<1>1. /\ Len(p) \in Nat \ {0} /\ \A i \in 1 .. Len(q) : i + 1 \in 1 .. Len(p) /\ q[i] = p[i + 1]
      /\ Len(rx') = Len(rx) + 1 /\ rx'[Len(rx')] = p[1] /\ \A i \in 1 .. Len(rx) : rx'[i] = rx[i]
  BY EmitFacts
<1>2. Len(rx) \in Nat
  BY DEF PlaceInv
<1> HIDE DEF p, q
<1>3. 1 \in 1 .. Len(p)
  BY <1>1
<1>4. \A i \in 1 .. Len(rx') : i \in 1 .. Len(rx) \/ i = Len(rx')
  BY <1>1, <1>2
<1>5. ASSUME NEW words, Only(p, words) PROVE Only(q, words) /\ p[1].text \in words
  BY <1>1, <1>3, <1>5 DEF Only
<1>6. ASSUME NEW words, Only(rx, words), p[1].text \in words PROVE Only(rx', words)
  BY <1>1, <1>4, <1>6 DEF Only
<1> QED
  BY <1>4, <1>5, <1>6 DEF p, q

\* A plain call: no prompt is said.
LEMMA EmitHushed ==
  ASSUME PlaceInv, FwEmit, Hushed
  PROVE  Hushed'
<1>1. tx' = Overtaken(tx) /\ fw'.data = (fw.pending[1].text = ">") /\ tx \in Seq(Queued)
  BY EmitFacts DEF PlaceInv
<1>2. Only(fw'.pending, Mute) /\ fw.pending[1].text \in Mute
  BY EmitOnly DEF Hushed
<1>3. ~ fw'.data
  BY <1>1, <1>2 DEF Mute
<1>4. ASSUME NEW k \in 1 .. Len(tx') PROVE PlainItem(tx'[k])
  <2>1. /\ k \in 1 .. Len(tx) /\ tx[k] \in Queued
        /\ tx'[k] = [tx[k] EXCEPT !.overtaken = tx[k].overtaken \/ tx[k].what = "?"]
    BY <1>1, <1>4, QueueTypes
  <2>2. PlainItem(tx[k])
    BY <2>1 DEF Hushed
  <2>3. /\ tx'[k].what = tx[k].what /\ tx'[k].answer = tx[k].answer
        /\ tx'[k].refusal = tx[k].refusal
    BY <2>1 DEF Queued
  <2> QED BY <2>2, <2>3 DEF PlainItem
<1> QED
  BY <1>2, <1>3, <1>4 DEF Hushed

\* A line that is said before the prompt, or the prompt.
LEMMA EmitComing ==
  ASSUME PlaceInv, FwEmit, SendCall, Coming
  PROVE  Coming' \/ Come'
<1> DEFINE p == fw.pending
           q == fw'.pending
<1>1. /\ tx' = Overtaken(tx) /\ call' = call /\ faults' = faults /\ fw' \in Firmware /\ fw'.up
      /\ fw'.slow = (IF Len(p) = 1 THEN 0 ELSE fw.slow)
      /\ fw'.data = (p[1].text = ">") /\ Len(q) = Len(p) - 1
      /\ \A i \in 1 .. Len(q) : i + 1 \in 1 .. Len(p) /\ q[i] = p[i + 1]
      /\ rx' \in Seq(Lines) /\ Len(rx') = Len(rx) + 1 /\ rx'[Len(rx')] = p[1]
      /\ \A i \in 1 .. Len(rx) : rx'[i] = rx[i]
  BY EmitFacts
<1>2. /\ AtPrompt /\ Only(rx, Before) /\ OneProbe
      /\ \/ Len(p) = 2 /\ p[1].text = "OK" /\ p[2].text = ">"
         \/ Len(p) = 1 /\ p[1].text = ">"
      /\ fw.slow <= MaxBusy /\ (tx # <<>> => fw.slow < MaxBusy)
      /\ call.ignored + Len(rx) + ToCome <= MaxIgnored
  BY DEF Coming
<1>3. /\ call.ignored \in Nat /\ MaxIgnored \in Nat /\ MaxBusy \in Nat /\ MaxFaults \in Nat
      /\ fw.slow \in Nat /\ faults \in Nat /\ faults <= MaxFaults /\ Len(rx) \in Nat
  BY Counters DEF SendCall, Heard
<1>4. AtPrompt' /\ rx' # <<>>
  <2>1. Len(<<>>) = 0 /\ Len(rx') # 0
    BY <1>1, <1>3
  <2> QED BY <1>1, <1>2, <2>1 DEF AtPrompt
<1>5. tx' \in {<<>>, <<Late>>} /\ (tx' # <<>> => tx # <<>>)
  <2>1. tx \in Seq(Queued)
    BY DEF PlaceInv
  <2>2. tx' \in Seq(Queued) /\ Len(tx') = Len(tx)
    BY <1>1, <2>1, QueueTypes
  <2>3. tx = <<>> => tx' = <<>>
    <3>1. Len(<<>>) = 0
      OBVIOUS
    <3> QED BY <2>2, <3>1, EmptySeq
  <2> QED BY <1>1, <1>2, <2>1, <2>3, OvertakenProbe
<1>6. LateProbe'
  BY <1>5 DEF LateProbe
<1>7. OneProbe'
  <2>1. Len(<<Late>>) = 1 /\ <<Late>>[1] = Late
    BY OneTwo
  <2> QED BY <1>5, <2>1 DEF OneProbe, IsProbe
<1>8. q \in Seq(Lines)
  BY <1>1 DEF Firmware
<1>9. \A i \in 1 .. Len(rx') : i \in 1 .. Len(rx) \/ i = Len(rx')
  BY EmitOnly
<1> HIDE DEF p, q
<1>10. CASE Len(p) = 2 /\ p[1].text = "OK" /\ p[2].text = ">"
  <2>1. Len(q) = 1 /\ q[1].text = ">"
    <3>1. Len(q) = 1
      BY <1>1, <1>10
    <3>2. 1 \in 1 .. Len(q) /\ 1 + 1 = 2
      BY <3>1
    <3> QED BY <1>1, <1>10, <3>1, <3>2
  <2>2. Only(rx', Before)
    BY <1>1, <1>2, <1>9, <1>10, WordSets DEF Only
  <2>3. fw'.slow = fw.slow /\ ~ fw'.data
    BY <1>1, <1>10
  <2>4. ToCome' + 1 = ToCome
    <3> DEFINE b == 2 * (MaxBusy - fw.slow)
    <3>1. ToCome = 2 - 1 + b + (MaxFaults - faults)
      BY <1>10 DEF ToCome, p
    <3>2. ToCome' = 1 - 1 + b + (MaxFaults - faults)
      BY <1>1, <2>1, <2>3 DEF ToCome, q
    <3>3. b \in Int
      BY <1>3
    <3> HIDE DEF b
    <3> QED BY <1>3, <3>1, <3>2, <3>3
  <2>5. ToCome \in Nat /\ ToCome' \in Int
    <3>1. ToCome \in Nat
      BY ToComeType DEF SendCall, Heard
    <3>2. ToCome' = Len(q) - 1 + 2 * (MaxBusy - fw.slow) + (MaxFaults - faults)
      BY <1>1, <2>3 DEF ToCome, q
    <3>3. ToCome' \in Int
      BY <1>3, <2>1, <3>2
    <3> QED BY <3>1, <3>3
  <2> HIDE DEF ToCome
  <2>6. call'.ignored + Len(rx') + ToCome' <= MaxIgnored
    <3>1. call.ignored + (Len(rx) + 1) + ToCome' <= MaxIgnored
      <4>1. ASSUME NEW a \in Nat, NEW n \in Nat, NEW t \in Nat, NEW u \in Int,
                   a + n + t <= MaxIgnored, u + 1 = t
            PROVE  a + (n + 1) + u <= MaxIgnored
        BY <1>3, <4>1
      <4> QED BY <1>2, <1>3, <2>4, <2>5, <4>1
    <3> QED BY <1>1, <3>1
  <2>7. Coming'
    BY <1>1, <1>2, <1>4, <1>5, <1>7, <2>1, <2>2, <2>3, <2>6 DEF Coming, q
  <2> QED BY <2>7
<1>11. CASE Len(p) = 1 /\ p[1].text = ">"
  <2>1. q = <<>> /\ fw'.data
    <3>1. Len(q) = 0
      BY <1>1, <1>11
    <3> QED BY <1>1, <1>8, <1>11, <3>1, EmptySeq
  <2>2. rx'[Len(rx')].text = ">" /\ Len(rx') - Len(rx') <= faults /\ Len(rx') \in 1 .. Len(rx')
    BY <1>1, <1>3, <1>11
  <2>3. \A j \in 1 .. Len(rx') : /\ j < Len(rx') => rx'[j].text \in Before
                                 /\ j > Len(rx') => rx'[j].text \in Small
    <3>1. ASSUME NEW j \in 1 .. Len(rx')
          PROVE  (j < Len(rx') => rx'[j].text \in Before) /\ ~ (j > Len(rx'))
      <4>1. Len(rx') \in Nat
        BY <1>1, <1>3
      <4>2. j < Len(rx') => j \in 1 .. Len(rx)
        BY <1>1, <1>3
      <4> QED BY <1>1, <1>2, <4>1, <4>2 DEF Only
    <3> QED BY <3>1
  <2>4. call'.ignored + Len(rx') - 1 + (MaxFaults - faults') <= MaxIgnored
    <3> DEFINE b == 2 * (MaxBusy - fw.slow)
    <3>1. ToCome = 1 - 1 + b + (MaxFaults - faults)
      BY <1>11 DEF ToCome, p
    <3>2. b \in Nat
      BY <1>2, <1>3
    <3> HIDE DEF b, ToCome
    <3>3. call.ignored + (Len(rx) + 1) - 1 + (MaxFaults - faults) <= MaxIgnored
      BY <1>2, <1>3, <3>1, <3>2
    <3> QED BY <1>1, <3>3
  <2>5. Come'
    BY <1>1, <1>4, <1>6, <2>1, <2>2, <2>3, <2>4 DEF Come, q
  <2> QED BY <2>5
<1> QED
  BY <1>2, <1>10, <1>11

\* A line that is said when the firmware has the payload.
LEMMA EmitAfter ==
  ASSUME PlaceInv, FwEmit, SendCall, After
  PROVE  After'
<1> DEFINE p == fw.pending
           q == fw'.pending
<1>1. /\ tx' = Overtaken(tx) /\ call' = call /\ faults' = faults /\ fw' \in Firmware /\ p # <<>>
      /\ fw'.data = (p[1].text = ">") /\ Len(q) = Len(p) - 1 /\ Len(p) \in Nat \ {0}
      /\ \A i \in 1 .. Len(q) : i + 1 \in 1 .. Len(p) /\ q[i] = p[i + 1]
      /\ Len(rx') = Len(rx) + 1 /\ rx'[Len(rx')] = p[1]
      /\ \A i \in 1 .. Len(rx) : rx'[i] = rx[i]
  BY EmitFacts
<1>2. /\ call.at \in {2, 3, 5, 6} /\ ~ fw.data /\ Only(rx, Mute) /\ Only(p, Mute)
      /\ OneProbe /\ LastSaid /\ LastCame
  BY DEF After
<1>3. /\ Only(q, Mute) /\ Only(rx', Mute) /\ p[1].text \in Mute
      /\ \A i \in 1 .. Len(rx') : i \in 1 .. Len(rx) \/ i = Len(rx')
  BY <1>2, EmitOnly
<1>4. ~ fw'.data
  BY <1>1, <1>3 DEF Mute
<1>5. tx' \in {<<>>, <<Late>>}
  BY <1>1, <1>2, OvertakenProbe DEF PlaceInv
<1>6. LateProbe' /\ OneProbe'
  <2>1. Len(<<Late>>) = 1 /\ <<Late>>[1] = Late
    BY OneTwo
  <2> QED BY <1>5, <2>1 DEF LateProbe, OneProbe, IsProbe
<1>7. \A i \in 1 .. Len(p) : p[i].text \in Finals => i = Len(p)
  BY <1>2 DEF LastSaid
<1>8. q \in Seq(Lines) /\ Len(rx) \in Nat /\ faults \in Nat
  BY <1>1, ReaderAssumption DEF Firmware, PlaceInv
<1> HIDE DEF p, q
<1>9. LastSaid'
  <2>1. ASSUME NEW i \in 1 .. Len(q), q[i].text \in Finals PROVE i = Len(q)
    <3>1. i + 1 \in 1 .. Len(p) /\ p[i + 1].text \in Finals
      BY <1>1, <2>1
    <3>2. i + 1 = Len(p)
      BY <1>7, <3>1
    <3> QED BY <1>1, <3>2
  <2> QED BY <2>1 DEF LastSaid, q
<1>10. LastCame'
  <2>1. ASSUME NEW i \in 1 .. Len(rx'), rx'[i].text \in Finals
        PROVE  i = Len(rx') /\ q = <<>>
    <3>1. i \notin 1 .. Len(rx)
      BY <1>1, <1>2, <2>1 DEF LastCame, p
    <3>2. i = Len(rx') /\ p[1].text \in Finals
      BY <1>1, <1>3, <2>1, <3>1
    <3>3. 1 = Len(p)
      <4>1. 1 \in 1 .. Len(p)
        BY <1>1
      <4> QED BY <1>7, <3>2, <4>1
    <3>4. Len(q) = 0
      <4>1. Len(q) = Len(p) - 1
        BY <1>1
      <4> QED BY <3>3, <4>1
    <3> QED BY <1>8, <3>2, <3>4, EmptySeq
  <2>2. /\ Len(rx') - Len(rx') <= faults
        /\ \A j \in 1 .. Len(rx') : ~ (j > Len(rx'))
    BY <1>1, <1>8
  <2> QED BY <1>1, <1>6, <2>1, <2>2 DEF LastCame, q
<1> QED
  BY <1>1, <1>2, <1>3, <1>4, <1>6, <1>9, <1>10 DEF After, q

\* The firmware says a line.
LEMMA EmitPay ==
  ASSUME PlaceInv, PayInv, FwEmit
  PROVE  PayInv'
<1>1. call' = call /\ fw.pending # <<>> /\ tx' = Overtaken(tx) /\ fw'.data = (fw.pending[1].text = ">")
  BY EmitFacts
<1>2. (Plainly' <=> Plainly) /\ (SendCall' <=> SendCall)
  BY <1>1 DEF Plainly, SendCall, Heard, Waiting
<1>3. ASSUME SendCall, Chatter, Phase PROVE Chatter' /\ Phase'
  <2>1. Chatter'
    BY <1>1, <1>3, EmitOnly DEF Chatter
  <2>2. ~ Going /\ ~ Paid /\ ~ Come
    BY <1>1 DEF Going, Paid, Come, JustSent
  <2>3. CASE Hopeless
    <3>1. /\ AtPrompt /\ Only(rx, Mute) /\ Only(fw.pending, Mute)
          /\ \A k \in 1 .. Len(tx) : IsProbe(tx[k])
      BY <2>3 DEF Hopeless
    <3>2. Only(fw'.pending, Mute) /\ Only(rx', Mute) /\ fw.pending[1].text \in Mute
      BY <3>1, EmitOnly
    <3>3. ~ fw'.data
      BY <1>1, <3>2 DEF Mute
    <3>4. ASSUME NEW k \in 1 .. Len(tx') PROVE IsProbe(tx'[k])
      <4>1. /\ k \in 1 .. Len(tx)
            /\ tx'[k] = [tx[k] EXCEPT !.overtaken = tx[k].overtaken \/ tx[k].what = "?"]
        BY <1>1, <3>4, QueueTypes DEF PlaceInv
      <4> QED BY <3>1, <4>1, OvertakenProbe DEF IsProbe
    <3> QED BY <1>1, <2>1, <3>1, <3>2, <3>3, <3>4 DEF Hopeless, AtPrompt, Phase
  <2>4. CASE Coming
    BY <1>3, <2>1, <2>4, EmitComing DEF Phase
  <2>5. CASE After
    BY <1>3, <2>1, <2>5, EmitAfter DEF Phase
  <2> QED BY <1>3, <2>2, <2>3, <2>4, <2>5 DEF Phase
<1> QED
  BY <1>2, <1>3, EmitHushed DEF PayInv

-----------------------------------------------------------------------------
(* The payload: faults.                                                    *)

\* A fault that loses something, or a restart, ends what is heard of a call.
LEMMA LosesPay ==
  ASSUME PlaceInv, LoseLine \/ Hang \/ Reboot \/ McuRestart
  PROVE  PayInv'
<1>1. CASE McuRestart
  BY <1>1, EndedPay DEF McuRestart, Heard, Waiting
<1>2. CASE Loses
  <2>1. CASE Waiting
    <3>1. call' = [call EXCEPT !.lost = TRUE] /\ call \in Calls
      BY <1>2, <2>1, CmdFacts DEF Loses, PlaceInv
    <3>2. call'.lost
      BY <3>1 DEF Calls
    <3> QED BY <3>2, EndedPay DEF Heard
  <2>2. CASE ~ Waiting
    BY <1>2, <2>2, EndedPay DEF Loses, Heard, Waiting
  <2> QED BY <2>1, <2>2
<1> QED
  BY <1>1, <1>2 DEF LoseLine, Hang, Reboot

\* A call that the firmware lets wait is not clean any more.
LEMMA StallPay ==
  ASSUME PlaceInv, Stall
  PROVE  PayInv'
<1> DEFINE c == [call EXCEPT !.clean = FALSE]
<1>1. Waiting /\ TimesOut(c)
  BY DEF Stall, Nothing
<1>2. c \in Calls /\ c.script = call.script /\ c.at = call.at /\ ~ c.clean
  BY <1>1, CmdFacts DEF PlaceInv, Calls
<1> HIDE DEF c
<1>3. Finishes \/ (\E k \in DOMAIN call.script : Proceeds(c, k, <<>>)) \/ Probes(c)
  BY <1>1, <1>2, TimesOutMoves
<1>4. CASE Finishes
  BY <1>4, FinishesPay
<1>5. CASE \E k \in DOMAIN call.script : Proceeds(c, k, <<>>)
  BY <1>2, <1>5, EndedPay DEF Proceeds, Heard
<1>6. CASE Probes(c)
  <2>1. ~ call'.clean
    BY <1>2, <1>6 DEF Probes, Calls
  <2> QED BY <2>1, EndedPay DEF Heard
<1> QED
  BY <1>3, <1>4, <1>5, <1>6

\* A line that nobody asked for.
LEMMA UnaskedFacts ==
  ASSUME PlaceInv, Unasked
  PROVE  /\ UNCHANGED <<call, tx, fw>> /\ faults' = faults + 1 /\ faults < MaxFaults
         /\ Len(rx') = Len(rx) + 1 /\ rx'[Len(rx')].text \in Small
         /\ \A i \in 1 .. Len(rx) : rx'[i] = rx[i]
         /\ \A i \in 1 .. Len(rx') : i \in 1 .. Len(rx) \/ i = Len(rx')
         /\ \A words : Small \subseteq words /\ Only(rx, words) => Only(rx', words)
<1>1. PICK text \in {"event", Noise} : rx' = Append(rx, Line(text))
  BY DEF Unasked
<1>2. text \in Words /\ text \in Small
  <2>1. Noise = "other"
    BY LineTypes
  <2> QED BY <1>1, <2>1 DEF Words, Small
<1>3. Adds(text) /\ Len(rx') = Len(rx) + 1 /\ Len(rx) \in Nat
  BY <1>1, <1>2, AddsOne DEF PlaceInv
<1>4. /\ UNCHANGED <<call, tx, fw>> /\ faults' = faults + 1 /\ faults < MaxFaults
  BY DEF Unasked, Fault
<1>5. rx'[Len(rx')].text = text /\ \A i \in 1 .. Len(rx) : rx'[i] = rx[i]
  BY <1>3 DEF Adds
<1>6. \A i \in 1 .. Len(rx') : i \in 1 .. Len(rx) \/ i = Len(rx')
  BY <1>3
<1>7. ASSUME NEW words, Small \subseteq words, Only(rx, words) PROVE Only(rx', words)
  BY <1>2, <1>5, <1>6, <1>7 DEF Only
<1> QED
  BY <1>2, <1>3, <1>4, <1>5, <1>6, <1>7

\* A line that nobody asked for comes in a send.
LEMMA UnaskedPhase ==
  ASSUME PlaceInv, Unasked, SendCall, Phase
  PROVE  Phase'
<1>1. /\ call' = call /\ tx' = tx /\ fw' = fw /\ faults' = faults + 1 /\ faults < MaxFaults
      /\ Len(rx') = Len(rx) + 1 /\ rx'[Len(rx')].text \in Small
      /\ \A i \in 1 .. Len(rx) : rx'[i] = rx[i]
      /\ \A i \in 1 .. Len(rx') : i \in 1 .. Len(rx) \/ i = Len(rx')
      /\ \A words : Small \subseteq words /\ Only(rx, words) => Only(rx', words)
  BY UnaskedFacts
<1>2. /\ call.ignored \in Nat /\ MaxIgnored \in Nat /\ MaxBusy \in Nat /\ MaxFaults \in Nat
      /\ fw.slow \in Nat /\ faults \in Nat /\ Len(rx) \in Nat
  BY Counters DEF SendCall, Heard
<1>3. Cmd' = Cmd /\ (AtPrompt => AtPrompt')
  BY <1>1 DEF Cmd, AtPrompt
<1>4. ASSUME JustSent PROVE JustSent'
  <2>1. call.ignored + Len(rx) <= faults /\ Only(rx, Small)
    BY <1>4 DEF JustSent
  <2>2. call.ignored + (Len(rx) + 1) <= faults + 1
    BY <1>2, <2>1
  <2>3. call'.ignored + Len(rx') <= faults'
    BY <1>1, <2>2
  <2>4. Only(rx', Small)
    BY <1>1, <2>1
  <2>5. tx' = <<Sending(Cmd', call'.at)>> \/ tx' = <<Late, Sending(Cmd', call'.at)>>
    BY <1>1, <1>3, <1>4 DEF JustSent
  <2> QED BY <1>1, <1>4, <2>3, <2>4, <2>5 DEF JustSent
<1>5. CASE Going
  BY <1>1, <1>3, <1>4, <1>5 DEF Going, Phase
<1>6. CASE Paid
  BY <1>1, <1>4, <1>6 DEF Paid, Phase
<1>7. CASE Hopeless
  <2>1. Only(rx', Mute)
    BY <1>1, <1>7, WordSets DEF Hopeless
  <2>2. Hopeless'
    BY <1>1, <1>3, <1>7, <2>1 DEF Hopeless
  <2> QED BY <2>2 DEF Phase
<1>8. CASE Coming
  <2>1. Only(rx', Before)
    BY <1>1, <1>8, WordSets DEF Coming
  <2>2. rx' # <<>>
    <3>1. Len(rx') # 0
      BY <1>1, <1>2
    <3> QED BY <3>1
  <2>3. call'.ignored + Len(rx') + ToCome' <= MaxIgnored
    <3> DEFINE d == Len(fw.pending) - 1 + 2 * (MaxBusy - fw.slow)
    <3>1. ToCome = d + (MaxFaults - faults)
      BY DEF ToCome
    <3>2. ToCome' = d + (MaxFaults - (faults + 1))
      BY <1>1 DEF ToCome
    <3>3. d \in Int
      <4>1. Len(fw.pending) \in Nat
        BY Counters DEF SendCall, Heard
      <4> QED BY <1>2, <4>1
    <3>4. call.ignored + Len(rx) + ToCome <= MaxIgnored
      BY <1>8 DEF Coming
    <3> HIDE DEF d, ToCome
    <3>5. call.ignored + (Len(rx) + 1) + (d + (MaxFaults - (faults + 1))) <= MaxIgnored
      BY <1>2, <3>1, <3>3, <3>4
    <3> QED BY <1>1, <3>2, <3>5
  <2>4. Coming'
    <3>1. OneProbe'
      BY <1>1, <1>8 DEF Coming, OneProbe
    <3> HIDE DEF ToCome
    <3> QED BY <1>1, <1>3, <1>8, <2>1, <2>2, <2>3, <3>1 DEF Coming
  <2> QED BY <2>4 DEF Phase
<1>9. CASE Come
  <2>1. PICK i \in 1 .. Len(rx) :
          /\ rx[i].text = ">" /\ Len(rx) - i <= faults
          /\ \A j \in 1 .. Len(rx) : /\ j < i => rx[j].text \in Before
                                     /\ j > i => rx[j].text \in Small
    BY <1>9 DEF Come
  <2>2. i \in 1 .. Len(rx') /\ Len(rx') - i <= faults' /\ rx'[i].text = ">"
    BY <1>1, <1>2, <2>1
  <2>3. ASSUME NEW j \in 1 .. Len(rx')
        PROVE  (j < i => rx'[j].text \in Before) /\ (j > i => rx'[j].text \in Small)
    <3>1. CASE j \in 1 .. Len(rx)
      BY <1>1, <2>1, <3>1
    <3>2. CASE j = Len(rx')
      <4>1. ~ (j < i)
        BY <1>1, <1>2, <2>1, <3>2
      <4> QED BY <1>1, <3>2, <4>1
    <3> QED BY <1>1, <3>1, <3>2
  <2>4. call'.ignored + Len(rx') - 1 + (MaxFaults - faults') <= MaxIgnored
    <3>1. call.ignored + Len(rx) - 1 + (MaxFaults - faults) <= MaxIgnored
      BY <1>9 DEF Come
    <3>2. call.ignored + (Len(rx) + 1) - 1 + (MaxFaults - (faults + 1)) <= MaxIgnored
      BY <1>2, <3>1
    <3> QED BY <1>1, <3>2
  <2>5. Come'
    BY <1>1, <1>3, <1>9, <2>2, <2>3, <2>4 DEF Come, LateProbe
  <2> QED BY <2>5 DEF Phase
<1>10. CASE After
  <2>1. Only(rx', Mute)
    BY <1>1, <1>10, WordSets DEF After
  <2>2. LastCame'
    <3>1. ASSUME NEW i \in 1 .. Len(rx'), rx'[i].text \in Finals
          PROVE  /\ fw.pending = <<>> /\ LateProbe /\ Len(rx') - i <= faults'
                 /\ \A j \in 1 .. Len(rx') : j > i => rx'[j].text \in Small
      <4>1. i \in 1 .. Len(rx)
        BY <1>1, <3>1, WordSets
      <4>2. /\ fw.pending = <<>> /\ LateProbe /\ Len(rx) - i <= faults
            /\ \A j \in 1 .. Len(rx) : j > i => rx[j].text \in Small
        BY <1>1, <1>10, <3>1, <4>1 DEF After, LastCame
      <4>3. Len(rx') - i <= faults'
        BY <1>1, <1>2, <4>1, <4>2
      <4>4. \A j \in 1 .. Len(rx') : j > i => rx'[j].text \in Small
        BY <1>1, <4>2
      <4> QED BY <4>2, <4>3, <4>4
    <3> QED BY <1>1, <3>1 DEF LastCame, LateProbe
  <2>3. LastSaid' /\ OneProbe'
    BY <1>1, <1>10 DEF After, LastSaid, OneProbe
  <2>4. After'
    BY <1>1, <1>10, <2>1, <2>2, <2>3 DEF After
  <2> QED BY <2>4 DEF Phase
<1> QED
  BY <1>5, <1>6, <1>7, <1>8, <1>9, <1>10 DEF Phase

\* A line that nobody asked for comes.
LEMMA UnaskedPay ==
  ASSUME PlaceInv, PayInv, Unasked
  PROVE  PayInv'
<1>1. /\ call' = call /\ tx' = tx /\ fw' = fw
      /\ \A words : Small \subseteq words /\ Only(rx, words) => Only(rx', words)
  BY UnaskedFacts
<1>2. (Plainly' <=> Plainly) /\ (SendCall' <=> SendCall)
  BY <1>1 DEF Plainly, SendCall, Heard, Waiting
<1>3. Hushed => Hushed'
  BY <1>1 DEF Hushed
<1>4. Chatter => Chatter'
  BY <1>1, WordSets DEF Chatter
<1> QED
  BY <1>2, <1>3, <1>4, UnaskedPhase DEF PayInv

-----------------------------------------------------------------------------
(* The payload: every step.                                                *)

\* Every step keeps what is known about payload.
LEMMA PayStep ==
  ASSUME PlaceInv, PayInv, Next, Enough
  PROVE  PayInv'
<1>1. ASSUME NEW op \in Ops, Start(op) PROVE PayInv'
  BY <1>1, StartPay
<1>2. CASE ReadLine
  BY <1>2, ReadPay
<1>3. CASE Timeout
  BY <1>3, TimeoutPay
<1>4. CASE FwTake
  BY <1>4, TakePay
<1>5. CASE FwEmit
  BY <1>5, EmitPay
<1>6. CASE LoseLine \/ Hang \/ Reboot \/ McuRestart
  BY <1>6, LosesPay
<1>7. CASE Stall
  BY <1>7, StallPay
<1>8. CASE Unasked
  BY <1>8, UnaskedPay
<1> QED
  BY <1>1, <1>2, <1>3, <1>4, <1>5, <1>6, <1>7, <1>8 DEF Next

\* A call is plain, or a send in one of its phases.
LEMMA PlainOrSend ==
  ASSUME PlaceInv, PayInv, Heard
  PROVE  Hushed \/ (SendCall /\ Chatter /\ Phase)
<1>1. call.script \in AllScripts
  BY CmdFacts DEF PlaceInv, Heard
<1> QED
  BY <1>1 DEF AllScripts, PayInv, Plainly, SendCall

\* A send at whose prompt the firmware is, or soon will be, goes on.
LEMMA PromptReads ==
  ASSUME PlaceInv, SendCall, Chatter, Coming \/ Come \/ Paid, ReadLine, Enough
  PROVE  Waiting'
<1>1. Reading /\ Waiting
  BY DEF ReadLine, Reading
<1>2. Text \in Spoken /\ ~ call.unlink /\ \A words : Only(rx, words) => Text \in words
  BY <1>1, OnlyTail DEF Chatter
<1>3. CASE Passes
  BY <1>3, CallIsNotIdle DEF Passes, Stays, Waiting
<1>4. CASE GoesOn
  BY <1>4, CallIsNotIdle DEF GoesOn, Proceeds, Waiting
<1>5. ASSUME \/ call.ignored = MaxIgnored /\ ~ StartsWith(Text, Expected)
             \/ Text = "ERROR" \/ Text \in Finals
      PROVE  FALSE
  <2>1. Len(rx) \in Nat \ {0} /\ Text = rx[1].text
    BY <1>1, ReadFacts
  <2>2. call.ignored \in Nat /\ MaxIgnored \in Nat
    BY <1>1, Counters
  <2>3. \A text \in Before \cup Small \cup {">"} : text # "ERROR" /\ text \notin Finals
    BY DEF Before, Small, Finals
  <2>4. CASE Coming
    <3>1. Text \in Before
      BY <1>2, <2>4 DEF Coming
    <3>2. call.ignored + Len(rx) + ToCome <= MaxIgnored /\ ToCome \in Nat
      BY <1>1, <2>4, ToComeType DEF Coming
    <3> HIDE DEF ToCome
    <3>3. call.ignored # MaxIgnored
      BY <2>1, <2>2, <3>2
    <3> QED BY <1>5, <2>3, <3>1, <3>3
  <2>5. CASE Come
    <3>1. PICK i \in 1 .. Len(rx) :
            /\ rx[i].text = ">"
            /\ \A j \in 1 .. Len(rx) : j < i => rx[j].text \in Before
      BY <2>5 DEF Come
    <3>2. CASE i = 1
      <4>1. Text = ">" /\ StartsWith(Text, Expected)
        BY <2>1, <2>5, <3>1, <3>2, SendFacts DEF Come, AtPrompt, StartsWith
      <4> QED BY <1>5, <2>3, <4>1
    <3>3. CASE i # 1
      <4>1. 1 \in 1 .. Len(rx) /\ 1 < i /\ Len(rx) >= 2
        BY <2>1, <3>1, <3>3
      <4>2. Text \in Before
        BY <2>1, <3>1, <4>1
      <4>3. call.ignored + Len(rx) - 1 + (MaxFaults - faults) <= MaxIgnored
        BY <2>5 DEF Come
      <4>4. faults \in Nat /\ MaxFaults \in Nat /\ faults <= MaxFaults
        BY <1>1, Counters
      <4>5. call.ignored # MaxIgnored
        BY <2>1, <2>2, <4>1, <4>3, <4>4
      <4> QED BY <1>5, <2>3, <4>2, <4>5
    <3> QED BY <3>2, <3>3
  <2>6. CASE Paid
    <3>1. Text \in Small /\ call.ignored + Len(rx) <= faults
      BY <1>2, <2>6 DEF Paid, JustSent
    <3>2. call.ignored # MaxIgnored
      BY <1>1, <3>1, JustSentIgnores
    <3> QED BY <1>5, <2>3, <3>1, <3>2
  <2> QED BY <2>4, <2>5, <2>6
<1> QED
  BY <1>2, <1>3, <1>4, <1>5, SendRead

\* What the firmware reads of it is what was just sent.
LEMMA SentNotEmpty ==
  ASSUME JustSent
  PROVE  tx # <<>>
<1> DEFINE s == Sending(Cmd, call.at)
           p == Late
<1>1. tx = <<s>> \/ tx = <<p, s>>
  BY DEF JustSent
<1> HIDE DEF s, p
<1>2. <<s>> # <<>> /\ <<p, s>> # <<>>
  BY OneTwo
<1> QED
  BY <1>1, <1>2

\* A send at whose prompt the firmware is, or soon will be, does not give up.
LEMMA PromptWaits ==
  ASSUME PlaceInv, SendCall, Coming \/ Come \/ Paid, Timeout, Enough
  PROVE  Waiting'
<1>1. Waiting /\ rx = <<>> /\ tx = <<>> /\ TimesOut(call) /\ call \in Calls
  BY SendFacts DEF Timeout, Nothing
<1>2. ~ Come
  <2>1. Len(rx) = 0
    BY <1>1
  <2> QED BY <2>1 DEF Come
<1>3. ~ Paid
  BY <1>1, SentNotEmpty DEF Paid
<1>4. call.timeout # TimeoutCount
  <2>1. call.timeout = 0
    BY <1>1, <1>2, <1>3 DEF Coming
  <2>2. TimeoutCount > 0 /\ TimeoutCount \in Nat
    BY <1>1, Counters DEF Enough
  <2> QED BY <2>1, <2>2
<1>5. Probes(call)
  BY <1>1, <1>4, TimesOutMoves
<1> QED
  BY <1>5, CallIsNotIdle DEF Probes, Waiting

\* While the firmware waits for payload, or soon will, the call does not end.
LEMMA PromptedGoesOn ==
  ASSUME PlaceInv, PayInv, Enough, Next, Heard, faults' = faults, Prompted
  PROVE  Waiting'
<1>1. ASSUME NEW words, Only(fw.pending, words), ">" \notin words, ~ fw.data PROVE FALSE
  <2>1. \A k \in DOMAIN fw.pending : k \in 1 .. Len(fw.pending)
    BY DEF PlaceInv, Firmware
  <2> QED BY <1>1, <2>1 DEF Prompted, Only
<1>2. ">" \notin Mute
  BY DEF Mute
<1>3. SendCall /\ Chatter /\ (Coming \/ Come \/ Paid)
  <2>1. ~ Hushed /\ ~ Hopeless /\ ~ After
    BY <1>1, <1>2 DEF Hushed, Hopeless, After
  <2>2. ~ Going
    <3>1. Going => Only(fw.pending, Mute) /\ ~ fw.data
      BY OnlyRest DEF Going, JustSent
    <3> QED BY <1>1, <1>2, <3>1
  <2> QED BY <2>1, <2>2, PlainOrSend DEF Phase
<1>4. call \in Calls /\ Waiting
  BY CmdFacts DEF PlaceInv, Heard
<1>5. CASE ReadLine
  BY <1>3, <1>5, PromptReads
<1>6. CASE Timeout
  BY <1>3, <1>6, PromptWaits
<1>7. CASE FwTake
  <2>1. call' = call \/ call' \in Calls
    BY <1>4, <1>7, TakeUnmoved DEF Unmoved, SameCall
  <2> QED BY <1>4, <2>1, CallIsNotIdle DEF Waiting
<1>8. CASE FwEmit
  BY <1>4, <1>8, EmitFacts DEF Waiting
<1>9. ~ Fault
  BY ReaderAssumption DEF Fault, PlaceInv
<1> QED
  BY <1>4, <1>5, <1>6, <1>7, <1>8, <1>9
     DEF Next, Start, LoseLine, Hang, Reboot, Stall, Unasked, McuRestart

\* What the firmware reads next is payload when it waits for payload, unless it is a probe
\* that comes too late.
LEMMA NextIsPayload ==
  ASSUME PlaceInv, PayInv, Heard, tx # <<>>
  PROVE  (Head(tx).what = "data" <=> fw.data) \/ (Head(tx) = Late /\ fw.data /\ fw.up)
<1> DEFINE item == Head(tx)
<1>1. tx \in Seq(Queued)
  BY DEF PlaceInv
<1>2. item = tx[1] /\ 1 \in 1 .. Len(tx)
  <2>1. Len(tx) \in Nat \ {0}
    BY <1>1
  <2> QED BY <1>1, <2>1
<1> HIDE DEF item
<1>3. IsProbe(item) => item.what # "data"
  BY ProbeFacts
<1>4. CASE Hushed
  BY <1>2, <1>4 DEF Hushed, PlainItem, item
<1>5. CASE SendCall /\ Phase
  <2>1. CASE Going \/ Paid
    <3> DEFINE s == Sending(Cmd, call.at)
    <3>1. JustSent
      BY <2>1 DEF Going, Paid
    <3>2. item = s \/ item = Late
      BY <3>1, JustSentHead DEF item
    <3>3. s.what = Cmd.send
      BY DEF Sending
    <3> HIDE DEF s
    <3>4. CASE Going
      <4>1. s.what = "command" /\ ~ fw.data
        BY <1>5, <3>3, <3>4, SendFacts DEF Going, AtPrompt
      <4>2. item.what # "data"
        BY <1>3, <3>2, <4>1 DEF IsProbe
      <4> QED BY <4>1, <4>2 DEF item
    <3>5. CASE Paid
      <4>1. s.what = "data" /\ fw.data /\ fw.up
        BY <1>5, <3>3, <3>5, SendFacts DEF Paid
      <4> QED BY <3>2, <4>1 DEF item
    <3> QED BY <2>1, <3>4, <3>5
  <2>2. CASE Hopeless
    BY <1>2, <1>3, <2>2 DEF Hopeless, item
  <2>3. CASE Coming \/ After
    <3>1. IsProbe(item) /\ ~ fw.data
      BY <1>1, <2>3, OneProbeHead DEF Coming, After, item
    <3> QED BY <1>3, <3>1 DEF item
  <2>4. CASE Come
    <3>1. tx = <<Late>> /\ fw.data /\ fw.up
      BY <2>4 DEF Come, LateProbe
    <3> QED BY <3>1, OneTwo
  <2> QED BY <1>5, <2>1, <2>2, <2>3, <2>4 DEF Phase
<1> QED
  BY <1>4, <1>5, PlainOrSend

\* No step but the firmware's takes away what was sent.
LEMMA OnlyFwTakes ==
  ASSUME PlaceInv, Next, Waiting, faults' = faults, tx # <<>>, tx' = Tail(tx)
  PROVE  FwTake
<1>1. Len(tx) \in Nat \ {0} /\ Len(tx') = Len(tx) - 1
  BY DEF PlaceInv
<1>2. ~ Fault
  BY ReaderAssumption DEF Fault, PlaceInv
<1>3. ~ FwEmit
  <2>1. ASSUME FwEmit PROVE FALSE
    <3>1. Len(tx') = Len(tx)
      BY <2>1, EmitFacts, QueueTypes DEF PlaceInv
    <3> QED BY <1>1, <3>1
  <2> QED BY <2>1
<1>4. ~ Timeout
  BY DEF Timeout
<1>5. ~ ReadLine
  <2>1. ASSUME ReadLine PROVE FALSE
    <3>1. ReadEnds
      BY <2>1, ReadMoves DEF ReadLine
    <3>2. CASE Finishes \/ Stays(Tail(rx))
      <4>1. Len(tx') = Len(tx)
        BY <3>2 DEF Finishes, Stays
      <4> QED BY <1>1, <4>1
    <3>3. ASSUME NEW c, NEW k, Proceeds(c, k, Tail(rx)) PROVE FALSE
      <4>1. Len(tx') = Len(tx) \/ Len(tx') = Len(tx) + 1
        <5> DEFINE s == Sending(c.script[k], k)
        <5>1. tx' = tx \/ tx' = Append(tx, s)
          BY <3>3 DEF Proceeds
        <5> HIDE DEF s
        <5>2. tx \in Seq(Queued \cup {s})
          BY DEF PlaceInv
        <5> QED BY <5>1, <5>2
      <4>2. ASSUME NEW n \in Nat, n - 1 = n \/ n - 1 = n + 1 PROVE FALSE
        BY <4>2
      <4>3. Len(tx) \in Nat /\ (Len(tx) - 1 = Len(tx) \/ Len(tx) - 1 = Len(tx) + 1)
        BY <1>1, <4>1
      <4> QED BY <4>2, <4>3
    <3> QED BY <3>1, <3>2, <3>3 DEF ReadEnds
  <2> QED BY <2>1
<1> QED
  BY <1>2, <1>3, <1>4, <1>5
     DEF Next, Start, LoseLine, Hang, Reboot, Stall, Unasked, McuRestart

\* As long as the line is clean and nothing is lost, the firmware gets the payload for
\* payload and nothing else for it, and no call gives up between AT+CIPSEND and the payload:
\* whatever operations are called and however probes, answers, echoes and unasked lines
\* cross, with any number of unasked lines up to MaxFaults and of probes up to MaxBusy.  The
\* call must look for an answer once more after the first timeout, and be ready to ignore
\* two lines, the echo and the answer, for every probe, two at the prompt, and the unasked
\* ones: the code probes three times and ignores 70.
THEOREM PayloadIsPayload ==
  ASSUME TimeoutCount > 0, 2 * MaxBusy + 2 + MaxFaults <= MaxIgnored
  PROVE  Spec => PayloadOnly
<1> DEFINE Step ==
      Waiting /\ call.clean /\ ~ call.lost =>
        \/ faults' # faults
        \/ /\ Prompted => Waiting'
           /\ tx # <<>> /\ tx' = Tail(tx) => (Head(tx).what = "data" <=> fw.data) \/ ~ call'.clean
<1>e. Enough
  BY DEF Enough
<1>1. Init => PayInv
  <2>1. Init => ~ Heard
    BY DEF Init, Heard, Waiting
  <2> QED BY <2>1 DEF PayInv, Plainly, SendCall
<1>2. PlaceInv /\ PayInv /\ [Next]_vars => PayInv'
  <2>1. ASSUME PayInv, UNCHANGED vars PROVE PayInv'
    <3>1. /\ call' = call /\ rx' = rx /\ tx' = tx /\ fw' = fw /\ faults' = faults
      BY <2>1 DEF vars
    <3>2. (Plainly' <=> Plainly) /\ (SendCall' <=> SendCall) /\ (Hushed' <=> Hushed)
      BY <3>1 DEF Plainly, SendCall, Heard, Waiting, Hushed
    <3>3. (Chatter' <=> Chatter) /\ AtPrompt' = AtPrompt /\ Cmd' = Cmd /\ OneProbe' = OneProbe
          /\ LateProbe' = LateProbe
      BY <3>1 DEF Chatter, AtPrompt, Cmd, OneProbe, LateProbe
    <3>4. JustSent => JustSent'
      BY <3>1, <3>3 DEF JustSent
    <3>5. (Going => Going') /\ (Paid => Paid') /\ (Hopeless => Hopeless')
      BY <3>1, <3>3, <3>4 DEF Going, Paid, Hopeless
    <3>6. (Come => Come') /\ (After => After')
      BY <3>1, <3>3 DEF Come, After, LastSaid, LastCame
    <3>7. Coming => Coming'
      BY <3>1, <3>3 DEF Coming, ToCome
    <3> QED BY <2>1, <3>2, <3>3, <3>5, <3>6, <3>7 DEF PayInv, Phase
  <2> QED BY <1>e, <2>1, PayStep
<1>3. PlaceInv /\ PayInv /\ [Next]_vars => [Step]_vars
  <2>1. ASSUME PlaceInv, PayInv, Next, Heard, faults' = faults
        PROVE  /\ Prompted => Waiting'
               /\ tx # <<>> /\ tx' = Tail(tx) =>
                    (Head(tx).what = "data" <=> fw.data) \/ ~ call'.clean
    <3>1. Prompted => Waiting'
      BY <1>e, <2>1, PromptedGoesOn
    <3>2. ASSUME tx # <<>>, tx' = Tail(tx), Head(tx) = Late, fw.data, fw.up
          PROVE  ~ call'.clean
      <4> DEFINE item == Head(tx)
      <4>1. FwTake /\ Waiting
        BY <2>1, <3>2, OnlyFwTakes DEF Heard
      <4>2. \/ TakeNothing \/ TakeBusy(item) \/ TakeError(item) \/ TakePayload(item)
            \/ TakeOther(item) \/ TakeOrder(item)
        BY <2>1, <4>1, TakeCases
      <4>3. item = Late /\ item.what = "?"
        BY <3>2, ProbeFacts
      <4> HIDE DEF item
      <4>4. ~ TakePayload(item)
        <5>1. TakePayload(item) => item.what = "data"
          BY Zenon DEF TakePayload
        <5> QED BY <4>3, <5>1
      <4>5. TooLate(item)
        BY <3>2, <4>2, <4>3, <4>4 DEF TakeNothing, TakeBusy, TakeError, TakeOther, TakeOrder
      <4> QED BY <2>1, <4>1, <4>3, <4>5, TooLateUnclean
    <3> QED BY <2>1, <3>1, <3>2, NextIsPayload
  <2> QED BY <2>1 DEF Heard
<1>4. Spec => [][Step]_vars
  BY <1>1, <1>2, <1>3, PlaceIsKept, PTL DEF Spec
<1> QED
  BY <1>4 DEF PayloadOnly

=============================================================================
