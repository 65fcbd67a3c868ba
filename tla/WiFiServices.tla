----------------------------- MODULE WiFiServices -----------------------------
(***************************************************************************)
(* What WiFiServer and WiFi remember of the firmware besides the mode: the *)
(* state and the port of the server, and the parameters of the soft AP     *)
(* once they were asked for.  Nothing keeps them up to date: a command     *)
(* that is refused in the middle of begin(), and a restart of the module,  *)
(* make them differ from what the firmware has.  The sketch leaves the     *)
(* station to the remembered network, watches status() until it sees the   *)
(* connection, and runs a server and a soft AP at the same time.           *)
(*                                                                         *)
(* Without WIFIESPAT_MULTISERVER the firmware has one server, and answers  *)
(* "no change" and OK to a second AT+CIPSERVER=1.  A call is one step; one *)
(* command of the server at most is refused in a behaviour.                *)
(***************************************************************************)
EXTENDS WifiModes

CONSTANTS
  Ports,      \* ports the sketch gives to begin()
  MaxResets   \* bound: calls of reset()

ASSUME ServicesAssumption == Ports \subseteq Nat /\ MaxResets \in Nat

None   == [port |-> 0, open |-> FALSE]
Conns  == {1, 2}   \* what "max. connections" of the soft AP may be
Server == {"endSSL", "endFirst", "end", "maxConn", "server", "timeout"}   \* commands of a begin()

VARIABLES
  server,   \* WiFiServer: state and port; history: a restart since begin()
  listens,  \* the firmware's server
  ap,       \* WiFi.apMaxConn, 0 when not known; what the firmware has, and has saved
  past      \* history: what command of a server was refused, calls of reset(), a
            \* restart since the soft AP was asked for
services == <<server, listens, ap, past>>

ServerObject == [state : {"CLOSED", "LISTEN"}, port : Nat, restarted : BOOLEAN]
FwServer     == [port : Nat, open : BOOLEAN]
Ap   == [cache : {0} \cup Conns, fw : Conns, saved : Conns]
Past == [refused : {"nothing", "timeout", "another"}, resets : 0 .. MaxResets, stale : BOOLEAN]

-----------------------------------------------------------------------------
(* WiFiServer.  V is the server object and the firmware's server, `refused'*)
(* the command that the firmware refuses.                                  *)

Here == [state |-> server.state, port |-> server.port, restarted |-> server.restarted,
         listens |-> listens]

\* end(): only what is not CLOSED is stopped
End(V, stopped) ==
  IF V.state = "CLOSED" \/ ~ stopped THEN V
  ELSE [V EXCEPT !.state = "CLOSED", !.listens = None]

\* serverBegin(), with SSL or not: the first command that is refused ends it
ServerBegin(V, refused) ==
  LET opens == IF V.listens.open THEN V.listens ELSE [port |-> V.port, open |-> TRUE] IN
  [V EXCEPT !.state = IF refused \in {"maxConn", "server", "timeout"} THEN "CLOSED" ELSE "LISTEN",
            !.listens = IF refused \in {"maxConn", "server"} THEN @ ELSE opens,
            !.restarted = FALSE]

\* begin() and beginSSL()
BeginHere(V, refused) == ServerBegin(End(V, refused # "end"), refused)

\* Mutant: begin(port) does not stop the server before.
BeginPortOnly(V, port, refused) ==
  ServerBegin([End(V, refused # "endFirst") EXCEPT !.port = port], refused)

\* begin(port): end() is called before the port is changed, and again by begin()
BeginPort(V, port, refused) ==
  BeginHere([End(V, refused # "endFirst") EXCEPT !.port = port], refused)

\* beginSSL(port, ca) hands `ca' to begin(port), where it is taken for the port
BeginSSLPort(V, port, ca, refused) ==
  BeginPort([End(V, refused # "endSSL") EXCEPT !.port = port], IF ca THEN 1 ELSE 0, refused)

\* A call that makes V of the server.  The firmware refuses one command at most,
\* not counting that it may refuse to stop a server it does not have.
ServerCall(V, refused) ==
  /\ \/ refused = "nothing" /\ UNCHANGED past
     \/ refused \in {"endSSL", "endFirst", "end"} /\ ~ listens.open /\ UNCHANGED past
     \/ past.refused = "nothing" /\ past' = [past EXCEPT !.refused = IF refused = "timeout" THEN "timeout" ELSE "another"]
  /\ server' = [state |-> V.state, port |-> V.port, restarted |-> V.restarted]
  /\ listens' = V.listens
  /\ UNCHANGED <<vars, ap>>

EndServer == \E refused \in {"nothing", "end"} : ServerCall(End(Here, refused # "end"), refused)
BeginServer ==
  \E refused \in Server \cup {"nothing"} :
    \/ refused \notin {"endSSL", "endFirst"} /\ ServerCall(BeginHere(Here, refused), refused)
    \/ \E port \in Ports :
         \/ refused # "endSSL" /\ ServerCall(BeginPort(Here, port, refused), refused)
         \/ \E ca \in BOOLEAN : ServerCall(BeginSSLPort(Here, port, ca, refused), refused)

-----------------------------------------------------------------------------
(* The soft AP.                                                            *)

\* Mutant: what was known of the soft AP is kept.
BeginAPKeepsCache(c, ssid, o) ==
  LET A == SetWifiMode(World, d.wifiMode \cup {"SAP"}, FALSE, o)
      taken == A.ok /\ ssid /\ o["main"] # "refused"
  IN
  /\ BeginAP(ssid, o)
  /\ ap' = [ap EXCEPT !.fw = IF taken THEN c ELSE @,
                      !.saved = IF taken /\ Saves(A) THEN c ELSE @]
  /\ UNCHANGED <<server, listens, past>>

\* beginAP() forgets what was known of the soft AP before it sends anything
BeginAPWith(c, ssid, o) ==
  LET A == SetWifiMode(World, d.wifiMode \cup {"SAP"}, FALSE, o)
      taken == A.ok /\ ssid /\ o["main"] # "refused"
  IN
  /\ BeginAP(ssid, o)
  /\ ap' = [cache |-> 0, fw |-> IF taken THEN c ELSE ap.fw,
            saved |-> IF taken /\ Saves(A) THEN c ELSE ap.saved]
  /\ past' = [past EXCEPT !.stale = FALSE]
  /\ UNCHANGED <<server, listens>>

\* apMaxConnections() and the like ask when they do not know; apSSID() always asks
ApQuery ==
  /\ ap' = [ap EXCEPT !.cache = ap.fw]
  /\ past' = [past EXCEPT !.stale = FALSE]
  /\ UNCHANGED <<vars, server, listens>>

-----------------------------------------------------------------------------
(* The module restarts: reset() and init().                                *)

RestartServices(resets) ==
  /\ server' = [server EXCEPT !.restarted = TRUE]
  /\ listens' = None
  /\ ap' = [ap EXCEPT !.fw = ap.saved]
  /\ past' = [past EXCEPT !.resets = resets, !.stale = ap.cache # 0]

ResetModule ==
  /\ past.resets < MaxResets
  /\ \E o \in Answers({"main", "mode"}) : Reset(o)
  /\ RestartServices(past.resets + 1)
StartModule == d.wifiModeDef = Unknown /\ InitCall /\ RestartServices(past.resets)

Station ==
  /\ \/ StatusCall \/ FwJoins
     \/ \E o \in Answers({}), b \in BOOLEAN : SetPersistent(b, o)
  /\ UNCHANGED services

ServicesInit ==
  /\ Init /\ fw.mode = {"STA"}
  /\ server = [state |-> "CLOSED", port |-> 80, restarted |-> FALSE]
  /\ listens = None
  /\ ap = [cache |-> 0, fw |-> 1, saved |-> 1]
  /\ past = [refused |-> "nothing", resets |-> 0, stale |-> FALSE]

ServicesNext ==
  \/ Station \/ ResetModule \/ StartModule
  \/ EndServer \/ BeginServer \/ ApQuery
  \/ \E o \in AnswersSaving(FALSE, {"mode"}) : BeginAPWith(1, FALSE, o)
  \/ \E c \in Conns, o \in AnswersSaving(FALSE, {"main", "mode"}) : BeginAPWith(c, TRUE, o)

\* The firmware joins the network it remembers, and the sketch calls status() again
\* and again and is answered.
ServicesSpec ==
  /\ ServicesInit /\ [][ServicesNext]_<<vars, services>>
  /\ WF_<<vars, services>>(FwJoins /\ UNCHANGED services)
  /\ WF_<<vars, services>>(Status("done") /\ UNCHANGED services)

-----------------------------------------------------------------------------
\* The objects hold what their types allow.
ServicesTypeOK ==
  /\ TypeOK /\ server \in ServerObject /\ listens \in FwServer /\ ap \in Ap /\ past \in Past

\* status() of a server is true until the module restarts, whichever command of begin()
\* or end() was refused: LISTEN is a server that the firmware has open, on the port of
\* the object; CLOSED, which end() does not stop any more, leaves none open. The one
\* exception is a begin() of which only the last command was refused.
StatusTrue ==
  past.refused # "timeout" /\ ~ server.restarted =>
    /\ server.state = "LISTEN" <=> listens.open
    /\ listens.open => listens.port = server.port

\* The parameters of the soft AP that are returned without asking are those the
\* firmware has, until the module restarts.
CacheFresh == ap.cache # 0 /\ ~ past.stale => ap.cache = ap.fw
=============================================================================
