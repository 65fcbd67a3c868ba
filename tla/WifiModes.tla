------------------------------ MODULE WifiModes ------------------------------
(***************************************************************************)
(* The WiFi mode, the persistent settings and WiFi.status().               *)
(*                                                                         *)
(* The driver remembers the mode of the firmware, its mode at startup and  *)
(* whether settings are to be saved, and sends only the commands that      *)
(* change something.  A call of the WiFi object is one step, made of       *)
(* several commands each of which may be carried out, be refused, or be    *)
(* carried out without an answer; a call gives up in the middle when the   *)
(* code does.  With AT 1 every command says whether it saves; with AT 2    *)
(* the firmware has a switch for all of them, AT+SYSSTORE, which is turned *)
(* and turned back.                                                        *)
(***************************************************************************)
EXTENDS Naturals

CONSTANTS
  Versions, \* the builds looked at: WIFIESPAT2 or not
  Outcomes  \* what may become of a command

ASSUME WifiModesAssumption == Versions \subseteq BOOLEAN /\ Outcomes \subseteq {"done", "refused", "unanswered"}

Modes    == SUBSET {"STA", "SAP"}           \* the bits of AT+CWMODE
Unknown  == {"unknown"}                     \* wifiModeDef = -1
Settings == {"net", "ap", "ip"}             \* what can be saved apart from the mode
States   == {"NO_MODULE", "IDLE", "CONNECTED", "CONNECT_FAILED", "CONNECTION_LOST", "DISCONNECTED"}

VARIABLES
  d,     \* EspAtDrv
  fw,    \* the firmware: what is set, and what it starts with
  state, \* WiFi.state
  fine   \* history: the last reset() succeeded
vars == <<d, fw, state, fine>>

Driver   == [at2 : Versions, persistent : BOOLEAN, wifiMode : Modes, wifiModeDef : Modes \cup {Unknown}]
Firmware == [mode : Modes, modeDef : Modes, store : BOOLEAN, saved : SUBSET Settings,
             auto : BOOLEAN, joined : BOOLEAN]

\* A world is the driver, the firmware and the result of the last command.
World == [d |-> d, fw |-> fw, ok |-> TRUE]
Ok(W)     == [W EXCEPT !.ok = TRUE]
Failed(W) == [W EXCEPT !.ok = FALSE]

Become(W) == d' = W.d /\ fw' = W.fw

\* What becomes of the commands of a call, one by one; the commands that turn the
\* saving of settings are among them only where there is something to turn.
Answers(commands) == [(IF d.at2 THEN commands \cup {"store", "restore"} ELSE commands) -> Outcomes]
AnswersSaving(save, commands) ==
  IF d.persistent = save THEN [commands -> Outcomes] ELSE Answers(commands)

-----------------------------------------------------------------------------
(* The firmware.                                                           *)

\* A command that makes V of W.
Do(W, out, V) == [(IF out = "refused" THEN W ELSE V) EXCEPT !.ok = (out = "done")]

\* "0 sets STA mode"
Effect(m) == IF m = {} THEN {"STA"} ELSE m

Saves(W) == IF W.d.at2 THEN W.fw.store ELSE W.d.persistent

FwStore(W, b, out) == Do(W, out, [W EXCEPT !.fw.store = b])
FwMode(W, m, save, out) ==
  Do(W, out, [W EXCEPT !.fw.mode = Effect(m),
                       !.fw.modeDef = IF save THEN Effect(m) ELSE @,
                       !.fw.joined = @ /\ "STA" \in Effect(m)])
FwSet(W, what, out) ==
  Do(W, out, [W EXCEPT !.fw.saved = IF Saves(W) THEN @ \cup {what} ELSE @])
FwRestart(W) == [W EXCEPT !.fw.mode = W.fw.modeDef, !.fw.store = TRUE, !.fw.joined = FALSE]

-----------------------------------------------------------------------------
(* EspAtDrv.                                                               *)

\* mutant: a switch that was not turned back is not noted
TurnBackUnchecked(W, save, out) ==
  IF W.d.at2 /\ W.d.persistent # save THEN FwStore(W, W.d.persistent, out) ELSE W

\* AT+SYSSTORE around a command that is to be saved (or not to be)
Turn(W, save, out) == IF W.d.at2 /\ W.d.persistent # save THEN FwStore(W, save, out) ELSE W
TurnBack(W, save, out) ==
  LET V == FwStore(W, W.d.persistent, out) IN
  IF ~ W.d.at2 \/ W.d.persistent = save THEN W
  ELSE IF V.ok THEN V ELSE [V EXCEPT !.d.persistent = save]

\* mutant: the mode at startup is not compared
SetWifiModeOnce(W, m, save, o) ==
  LET A == Turn(W, save, o["store"])
      B == FwMode(A, m, IF W.d.at2 THEN A.fw.store ELSE save, o["mode"])
      C == TurnBack(B, save, o["restore"])
  IN
  IF W.d.wifiModeDef = Unknown THEN Failed(W)
  ELSE IF m = W.d.wifiMode THEN Ok(W)
  ELSE IF ~ A.ok THEN A
  ELSE IF ~ B.ok THEN Failed(C)
  ELSE [C EXCEPT !.ok = TRUE, !.d.wifiMode = m, !.d.wifiModeDef = IF save THEN m ELSE @]

\* mutant: the mode is noted though the firmware refused it
SetWifiModeUnchecked(W, m, save, o) ==
  LET A == Turn(W, save, o["store"])
      B == FwMode(A, m, IF W.d.at2 THEN A.fw.store ELSE save, o["mode"])
      C == TurnBack(B, save, o["restore"])
  IN
  IF W.d.wifiModeDef = Unknown THEN Failed(W)
  ELSE IF m = W.d.wifiMode /\ (~ save \/ m = W.d.wifiModeDef) THEN Ok(W)
  ELSE IF ~ A.ok THEN A
  ELSE [C EXCEPT !.ok = TRUE, !.d.wifiMode = m, !.d.wifiModeDef = IF save THEN m ELSE @]

SetWifiMode(W, m, save, o) ==
  LET A == Turn(W, save, o["store"])
      B == FwMode(A, m, IF W.d.at2 THEN A.fw.store ELSE save, o["mode"])
      C == TurnBack(B, save, o["restore"])
  IN
  IF W.d.wifiModeDef = Unknown THEN Failed(W)
  ELSE IF m = W.d.wifiMode /\ (~ save \/ m = W.d.wifiModeDef) THEN Ok(W)
  ELSE IF ~ A.ok THEN A
  ELSE IF ~ B.ok THEN Failed(C)
  ELSE [C EXCEPT !.ok = TRUE, !.d.wifiMode = m, !.d.wifiModeDef = IF save THEN m ELSE @]

\* mutant: the mode is always saved
JoinAPSaves(W, o) ==
  LET A == SetWifiMode(W, W.d.wifiMode \cup {"STA"}, TRUE, o)
      B == FwSet(A, "net", o["main"])
      J == [B EXCEPT !.fw.joined = (o["main"] # "refused")]
      C == Do(J, o["again"], [J EXCEPT !.fw.auto = TRUE])
  IN
  IF ~ A.ok THEN A ELSE IF ~ B.ok \/ ~ A.d.persistent THEN J ELSE Ok(C)

\* joinAP
JoinAP(W, o) ==
  LET A == SetWifiMode(W, W.d.wifiMode \cup {"STA"}, W.d.persistent, o)
      B == FwSet(A, "net", o["main"])
      J == [B EXCEPT !.fw.joined = (o["main"] # "refused")]
      C == Do(J, o["again"], [J EXCEPT !.fw.auto = TRUE])
  IN
  IF ~ A.ok THEN A ELSE IF ~ B.ok \/ ~ A.d.persistent THEN J ELSE Ok(C)

\* quitAP; AT+CWAUTOCONN is saved in any case
QuitAP(W, save, o) ==
  LET A == Turn(W, save, o["store"])
      N == [A EXCEPT !.fw.auto = FALSE]
      B == IF A.d.persistent \/ save THEN Do(A, o["again"], N) ELSE A
      C == TurnBack(B, save, o["restore"])
  IN
  IF "STA" \notin W.d.wifiMode THEN Failed(W)
  ELSE IF ~ A.ok THEN A
  ELSE Do(C, o["main"], [C EXCEPT !.fw.joined = FALSE])

\* a setting that needs the station or the access point turned on
Set(W, bit, what, o) ==
  LET A == SetWifiMode(W, W.d.wifiMode \cup {bit}, FALSE, o) IN
  IF A.ok THEN FwSet(A, what, o["main"]) ELSE A

\* mutant: the mode is unknown after a reset that failed
ResetForgetsMode(W, o) ==
  LET A == FwRestart(W) IN
  IF o["main"] # "done" THEN [Failed(A) EXCEPT !.d.wifiMode = Unknown]
  ELSE [Ok(A) EXCEPT !.d.wifiMode = A.fw.mode, !.d.wifiModeDef = A.fw.mode]

\* reset; that "ready" arrives is not checked, "main" stands for ATE0, AT+CIPMUX and
\* AT+CIPRECVMODE, "mode" for AT+CWMODE?
DriverReset(W, o) ==
  LET A == FwRestart(W)
      B == IF W.d.at2 THEN FwStore(A, FALSE, o["store"]) ELSE A
      C == IF B.ok \/ ~ W.d.at2 THEN B ELSE [B EXCEPT !.d.persistent = TRUE]
      D == IF o["mode"] = "refused" THEN C ELSE [C EXCEPT !.d.wifiMode = C.fw.mode]
  IN
  IF o["main"] # "done" THEN Failed(A)
  ELSE IF o["mode"] # "done" THEN Failed(D)
  ELSE [D EXCEPT !.ok = TRUE, !.d.wifiModeDef = D.fw.mode]

-----------------------------------------------------------------------------
(* The calls of the sketch.                                                *)

Call(W) == Become(W) /\ UNCHANGED <<state, fine>>

WiFiInit(o) ==
  LET W == DriverReset(World, o) IN
  Become(W) /\ fine' = W.ok /\ state' = IF W.ok THEN "IDLE" ELSE "NO_MODULE"

Reset(o) ==
  LET W == DriverReset(World, o) IN
  d.wifiModeDef # Unknown /\ Become(W) /\ fine' = W.ok /\ UNCHANGED state

SetPersistent(b, o) ==
  LET W == IF d.at2 THEN FwStore(World, b, o["store"]) ELSE World IN
  Call([W EXCEPT !.d.persistent = IF W.ok THEN b ELSE @])

Begin(o) ==
  LET W == JoinAP(World, o) IN
  Become(W) /\ state' = (IF W.ok THEN "CONNECTED" ELSE "CONNECT_FAILED") /\ UNCHANGED fine

Disconnect(save, o) ==
  LET W == QuitAP(World, save, o) IN
  Become(W) /\ state' = (IF W.ok THEN "DISCONNECTED" ELSE state) /\ UNCHANGED fine

\* config() with an address: the address, then the DNS server
Config(o) ==
  LET A == Set(World, "STA", "ip", o) IN
  Call(IF A.ok THEN FwSet(A, "ip", o["again"]) ELSE A)

\* config() with no address; that DNS comes from DHCP too is only tried
EnableDHCP(o) ==
  LET A == SetWifiMode(World, d.wifiMode \cup {"STA"}, FALSE, o)
      B == FwSet(A, "ip", o["again"])
  IN  Call(IF A.ok THEN FwSet(B, "ip", o["main"]) ELSE A)

\* the firmware does not save a host name
SetHostname(o) ==
  LET A == SetWifiMode(World, d.wifiMode \cup {"STA"}, FALSE, o) IN
  Call(IF A.ok THEN Do(A, o["main"], A) ELSE A)

\* saved whatever AT+SYSSTORE is
SetAutoConnect(b, out) == Call(Do(World, out, [World EXCEPT !.fw.auto = b]))

BeginAP(ssid, o) ==
  LET A == SetWifiMode(World, d.wifiMode \cup {"SAP"}, FALSE, o) IN
  Call(IF A.ok /\ ssid THEN FwSet(A, "ap", o["main"]) ELSE A)

EndAP(save, o) == Call(SetWifiMode(World, {}, d.persistent \/ save, o))

\* the access point is turned on for the setting, and off again
ConfigureAP(o, p) ==
  LET A == SetWifiMode(World, d.wifiMode \cup {"SAP"}, FALSE, o)
      B == FwSet(A, "ip", o["main"])
      C == SetWifiMode(Ok(B), d.wifiMode, FALSE, p)
  IN  Call(IF A.ok THEN [C EXCEPT !.ok = B.ok] ELSE A)

\* mutant: there is no way back from DISCONNECTED
NextStateKept(s, out) ==
  CASE s = "NO_MODULE"     -> s
    [] out = "unanswered"  -> "NO_MODULE"
    [] out = "refused"     -> s
    [] fw.joined           -> IF s = "DISCONNECTED" THEN s ELSE "CONNECTED"
    [] OTHER               -> IF s = "CONNECTED" THEN "CONNECTION_LOST" ELSE "DISCONNECTED"

\* what status() makes of the answer to AT+CIPSTATUS
NextState(s, out) ==
  CASE s = "NO_MODULE"               -> s
    [] d.wifiModeDef = Unknown       -> "NO_MODULE"
    [] out = "unanswered"            -> "NO_MODULE"
    [] out = "refused"               -> s
    [] fw.joined                     -> "CONNECTED"
    [] s = "CONNECT_FAILED"          -> s
    [] OTHER -> IF s = "CONNECTED" THEN "CONNECTION_LOST" ELSE "DISCONNECTED"

Status(out) == state' = NextState(state, out) /\ UNCHANGED <<d, fw, fine>>

-----------------------------------------------------------------------------
(* The firmware on its own: it joins the remembered network and loses it.  *)

FwJoins ==
  /\ fw.auto /\ "net" \in fw.saved /\ "STA" \in fw.mode /\ ~ fw.joined
  /\ fw' = [fw EXCEPT !.joined = TRUE] /\ UNCHANGED <<d, state, fine>>

FwLeaves == fw.joined /\ fw' = [fw EXCEPT !.joined = FALSE] /\ UNCHANGED <<d, state, fine>>

-----------------------------------------------------------------------------
Init ==
  /\ d \in {[at2 |-> v, persistent |-> FALSE, wifiMode |-> {}, wifiModeDef |-> Unknown] : v \in Versions}
  /\ \E m \in Modes \ {{}}, s \in SUBSET {"net"}, a \in BOOLEAN :
       fw = [mode |-> m, modeDef |-> m, store |-> TRUE, saved |-> s, auto |-> a, joined |-> FALSE]
  /\ state = "NO_MODULE"
  /\ fine = FALSE

StatusCall == \E out \in Outcomes : Status(out)
InitCall   == \E o \in Answers({"main", "mode"}) : WiFiInit(o)

SettingCall ==
  \/ \E o \in AnswersSaving(FALSE, {"main", "mode", "again"}) : Config(o) \/ EnableDHCP(o)
  \/ \E o \in AnswersSaving(FALSE, {"main", "mode"}) :
       \/ SetHostname(o) \/ \E ssid \in BOOLEAN : BeginAP(ssid, o)
       \/ \E p \in AnswersSaving(FALSE, {"mode"}) : ConfigureAP(o, p)
  \/ \E o \in Answers({}), b \in BOOLEAN : SetPersistent(b, o)
BeginCall           == \E o \in Answers({"main", "mode", "again"}) : Begin(o)
DisconnectCall(save) == \E o \in AnswersSaving(save, {"main", "again"}) : Disconnect(save, o)
AutoConnectCall      == \E out \in Outcomes, b \in BOOLEAN : SetAutoConnect(b, out)
EndAPCall(save)      == \E o \in AnswersSaving(d.persistent \/ save, {"mode"}) : EndAP(save, o)

Next ==
  \/ InitCall \/ StatusCall \/ SettingCall \/ BeginCall \/ AutoConnectCall \/ FwJoins \/ FwLeaves
  \/ \E o \in Answers({"main", "mode"}) : Reset(o)
  \/ \E save \in BOOLEAN : DisconnectCall(save) \/ EndAPCall(save)

Spec == Init /\ [][Next]_vars

-----------------------------------------------------------------------------
(* What must hold.                                                         *)

TypeOK == d \in Driver /\ fw \in Firmware /\ state \in States /\ fine \in BOOLEAN

\* Whatever was refused on the way, the mode the driver compares with is the mode of
\* the firmware, so that no command is left out that would change something.
ModeKnown == fine => Effect(d.wifiMode) = fw.mode

\* The firmware saves settings only while the driver counts on it.
SavesKnown == d.at2 /\ fine => (fw.store => d.persistent)

\* Settings are written to flash only for a sketch that asked for it, with
\* setPersistent(), with the parameter of the call, or with setAutoConnect().
Flash == <<fw.modeDef, fw.saved, fw.auto>>
Asked == d.persistent \/ AutoConnectCall \/ DisconnectCall(TRUE) \/ EndAPCall(TRUE)
FlashOnlyWhenAsked == [][fine /\ Flash' # Flash => Asked]_vars

\* A persistent begin() that succeeds starts the station at the next start, with
\* the network, whatever was refused, reset or turned off before.
Forgotten == state' = "CONNECTED" /\ ~ ("net" \in fw'.saved /\ "STA" \in fw'.modeDef)
RememberedAT1 == [][~ d.at2 /\ d.persistent /\ Forgotten => ~ BeginCall]_vars

\* The same with AT 2; README.md: "After the connection is successful, it is
\* remembered".
RememberedAT2 == [][d.at2 /\ d.persistent /\ Forgotten => ~ BeginCall]_vars

\* README.md: a sketch that uses a persistent connection needs "only wait until
\* WiFi.status() returns WL_CONNECTED".
WaitingConnects ==
  state = "IDLE" /\ fw.auto /\ "net" \in fw.saved /\ "STA" \in fw.mode ~> state = "CONNECTED"
=============================================================================
