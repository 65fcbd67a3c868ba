------------------------- MODULE WiFiServices_proofs -------------------------
(***************************************************************************)
(* Proofs about the server object and the cached parameters of the soft    *)
(* AP.  A call of the server is a composition of operators on the server   *)
(* object and the firmware's server together; each has a lemma.  What the  *)
(* WiFi calls do to the rest is taken from WifiModes_proofs.               *)
(***************************************************************************)
EXTENDS WiFiServices, WifiModes_proofs

Servers == [state : {"CLOSED", "LISTEN"}, port : Nat, restarted : BOOLEAN,
            listens : [port : Nat, open : BOOLEAN]]

\* The server object and the firmware's server agree; after a restart of the module,
\* and until the next begin(), the firmware has none.
Agree(V) ==
  /\ V.restarted => ~ V.listens.open
  /\ ~ V.restarted =>
       /\ V.state = "LISTEN" <=> V.listens.open
       /\ V.listens.open => V.listens.port = V.port

\* What the middle of a begin() may find: a server that is closed is so on both sides.
Closed(V) == V.state = "CLOSED" => ~ V.listens.open

-----------------------------------------------------------------------------
(* The calls of WiFiServer.                                                *)

\* A server that is stopped is closed on both sides.
LEMMA EndFacts ==
  ASSUME NEW V \in Servers, NEW stopped \in BOOLEAN
  PROVE  LET E == End(V, stopped) IN
         /\ E \in Servers /\ E.port = V.port /\ E.restarted = V.restarted
         /\ ~ stopped => E = V
         /\ stopped => E.state = "CLOSED"
         /\ Closed(V) => Closed(E)
         /\ Agree(V) => Agree(E)
BY DEF End, Servers, None, Closed, Agree

\* A server with another port is as closed as it was.
LEMMA PortFacts ==
  ASSUME NEW V \in Servers, NEW port \in Nat
  PROVE  LET P == [V EXCEPT !.port = port] IN
         /\ P \in Servers /\ P.state = V.state /\ P.restarted = V.restarted
         /\ Closed(V) => Closed(P)
BY DEF Servers, Closed

\* begin() agrees with the firmware afterwards unless the last command is refused, also
\* when the server could not be stopped on its own port.
LEMMA ServerBeginFacts ==
  ASSUME NEW V \in Servers, NEW refused
  PROVE  /\ ServerBegin(V, refused) \in Servers
         /\ Closed(V) /\ (V.listens.open => V.listens.port = V.port) /\ refused # "timeout"
            /\ (refused \in {"maxConn", "server"} => V.state = "CLOSED")
              => Agree(ServerBegin(V, refused))
BY DEF ServerBegin, Servers, Closed, Agree

LEMMA BeginHereFacts ==
  ASSUME NEW V \in Servers, NEW refused
  PROVE  /\ BeginHere(V, refused) \in Servers
         /\ Closed(V) /\ refused # "timeout"
            /\ (refused = "end" /\ V.listens.open => V.listens.port = V.port)
              => Agree(BeginHere(V, refused))
<1> DEFINE stopped == (refused # "end")
           E == End(V, stopped)
<1>1. stopped \in BOOLEAN
  OBVIOUS
<1> HIDE DEF stopped
<1>2. /\ E \in Servers /\ E.port = V.port
      /\ ~ stopped => E = V
      /\ stopped => E.state = "CLOSED"
      /\ Closed(V) => Closed(E)
  BY <1>1, EndFacts
<1>3. BeginHere(V, refused) = ServerBegin(E, refused)
  BY DEF BeginHere, stopped
<1> HIDE DEF E
<1> QED
  BY <1>2, <1>3, ServerBeginFacts DEF stopped, Closed

\* begin(port) stops the server before it changes the port, so that no server stays
\* open on the old one.
LEMMA BeginPortFacts ==
  ASSUME NEW V \in Servers, NEW port \in Nat, NEW refused
  PROVE  /\ BeginPort(V, port, refused) \in Servers
         /\ Closed(V) /\ refused # "timeout" => Agree(BeginPort(V, port, refused))
<1> DEFINE stopped == (refused # "endFirst")
           E == End(V, stopped)
           P == [E EXCEPT !.port = port]
<1>1. stopped \in BOOLEAN
  OBVIOUS
<1> HIDE DEF stopped
<1>2. /\ E \in Servers
      /\ stopped => E.state = "CLOSED"
      /\ Closed(V) => Closed(E)
  BY <1>1, EndFacts
<1> HIDE DEF E
<1>3. P \in Servers /\ P.state = E.state /\ (Closed(E) => Closed(P))
  BY <1>2, PortFacts
<1>4. BeginPort(V, port, refused) = BeginHere(P, refused)
  BY DEF BeginPort, E, stopped
<1> HIDE DEF P
<1> QED
  BY <1>2, <1>3, <1>4, BeginHereFacts DEF stopped, Closed

LEMMA BeginSSLPortFacts ==
  ASSUME NEW V \in Servers, NEW port \in Nat, NEW ca \in BOOLEAN, NEW refused
  PROVE  /\ BeginSSLPort(V, port, ca, refused) \in Servers
         /\ Closed(V) /\ refused # "timeout" => Agree(BeginSSLPort(V, port, ca, refused))
<1> DEFINE stopped == (refused # "endSSL")
           E == End(V, stopped)
           P == [E EXCEPT !.port = port]
           q == IF ca THEN 1 ELSE 0
<1>1. stopped \in BOOLEAN /\ q \in Nat
  OBVIOUS
<1> HIDE DEF stopped, q
<1>2. E \in Servers /\ (Closed(V) => Closed(E))
  BY <1>1, EndFacts
<1> HIDE DEF E
<1>3. P \in Servers /\ (Closed(E) => Closed(P))
  BY <1>2, PortFacts
<1>4. BeginSSLPort(V, port, ca, refused) = BeginPort(P, q, refused)
  BY DEF BeginSSLPort, E, stopped, q
<1> HIDE DEF P
<1> QED
  BY <1>1, <1>2, <1>3, <1>4, BeginPortFacts

-----------------------------------------------------------------------------
(* The inductive invariant.                                                *)

ServicesInv ==
  /\ StartInv /\ ServicesTypeOK
  /\ past.refused # "timeout" => Agree(Here)

\* A step of the WiFi object or of the firmware keeps the part that is not the server's.
LEMMA MadeStart ==
  ASSUME StartInv, \E V : Makes(V), state' \in States, fine' \in BOOLEAN
  PROVE  StartInv' /\ TypeOK'
BY MadeWorld DEF StartInv

LEMMA HereTyped ==
  ASSUME ServicesTypeOK
  PROVE  Here \in Servers
BY DEF ServicesTypeOK, Here, Servers, ServerObject, FwServer

\* A call of the server, from a world of the server to another.
LEMMA ServerCallKeeps ==
  ASSUME ServicesInv, NEW V \in Servers, NEW refused \in Server \cup {"nothing"},
         ServerCall(V, refused),
         refused # "timeout" /\ Agree(Here) => Agree(V)
  PROVE  ServicesInv'
<1>1. /\ server' = [state |-> V.state, port |-> V.port, restarted |-> V.restarted]
      /\ listens' = V.listens /\ UNCHANGED <<d, fw, state, fine, ap>>
  BY DEF ServerCall, vars
<1>2. StartInv' /\ TypeOK'
  <2>1. World' = World
    BY <1>1 DEF World
  <2> QED
    BY <1>1, <2>1 DEF ServicesInv, StartInv, TypeOK, Starts
<1>3. past' \in Past
  BY DEF ServicesInv, ServicesTypeOK, Past, ServerCall
<1>4. server' \in ServerObject /\ listens' \in FwServer /\ ap' \in Ap
  BY <1>1 DEF ServicesInv, ServicesTypeOK, Servers, ServerObject, FwServer
<1>5. Here'.state = V.state /\ Here'.port = V.port /\ Here'.restarted = V.restarted
      /\ Here'.listens = V.listens
  BY <1>1 DEF Here
<1>6. past'.refused # "timeout" => past.refused # "timeout" /\ refused # "timeout"
  BY DEF ServicesInv, ServicesTypeOK, Past, ServerCall
<1>7. Agree(V) => Agree(Here)'
  BY <1>5 DEF Agree
<1> QED
  BY <1>2, <1>3, <1>4, <1>6, <1>7 DEF ServicesInv, ServicesTypeOK

LEMMA AgreeClosed ==
  ASSUME Agree(Here)
  PROVE  Closed(Here) /\ (Here.listens.open => Here.listens.port = Here.port)
BY DEF Agree, Closed

LEMMA ServerStep ==
  ASSUME ServicesInv, EndServer \/ BeginServer
  PROVE  ServicesInv'
<1>1. Here \in Servers
  BY HereTyped DEF ServicesInv
<1>2. ASSUME NEW refused \in {"nothing", "end"}, ServerCall(End(Here, refused # "end"), refused)
      PROVE  ServicesInv'
  <2> DEFINE stopped == (refused # "end")
  <2>1. stopped \in BOOLEAN
    OBVIOUS
  <2>2. ServerCall(End(Here, stopped), refused)
    BY <1>2
  <2> HIDE DEF stopped
  <2>3. End(Here, stopped) \in Servers /\ (Agree(Here) => Agree(End(Here, stopped)))
    BY <1>1, <2>1, EndFacts
  <2> QED
    BY <2>2, <2>3, ServerCallKeeps DEF Server
<1>3. ASSUME NEW refused \in Server \cup {"nothing"}, ServerCall(BeginHere(Here, refused), refused)
      PROVE  ServicesInv'
  BY <1>1, <1>3, BeginHereFacts, AgreeClosed, ServerCallKeeps
<1>4. ASSUME NEW refused \in Server \cup {"nothing"}, NEW port \in Ports
      PROVE  /\ ServerCall(BeginPort(Here, port, refused), refused) => ServicesInv'
             /\ \A ca \in BOOLEAN :
                  ServerCall(BeginSSLPort(Here, port, ca, refused), refused) => ServicesInv'
  <2>1. port \in Nat
    BY ServicesAssumption
  <2>2. ServerCall(BeginPort(Here, port, refused), refused) => ServicesInv'
    BY <1>1, <2>1, BeginPortFacts, AgreeClosed, ServerCallKeeps
  <2>3. ASSUME NEW ca \in BOOLEAN, ServerCall(BeginSSLPort(Here, port, ca, refused), refused)
        PROVE  ServicesInv'
    BY <1>1, <2>1, <2>3, BeginSSLPortFacts, AgreeClosed, ServerCallKeeps
  <2> QED
    BY <2>2, <2>3
<1> QED
  BY <1>2, <1>3, <1>4 DEF EndServer, BeginServer

\* A restart closes the firmware's server; the object is told nothing of it.
LEMMA RestartStep ==
  ASSUME ServicesInv, ResetModule \/ StartModule
  PROVE  ServicesInv'
<1>1. \E resets \in 0 .. MaxResets : RestartServices(resets)
  BY ServicesAssumption DEF ResetModule, StartModule, ServicesInv, ServicesTypeOK, Past
<1>2. PICK resets \in 0 .. MaxResets : RestartServices(resets)
  BY <1>1
<1>3. StartInv' /\ TypeOK'
  <2>1. TypeOK /\ fw.modeDef # {} /\ (InitCall \/ \E o \in Answers({"main", "mode"}) : Reset(o))
    BY DEF ServicesInv, StartInv, ResetModule, StartModule
  <2>2. \E V : Makes(V)
    BY <2>1, ResetStep
  <2>3. fine' \in BOOLEAN /\ state' \in {"IDLE", "NO_MODULE", state}
    BY <2>1, ResetStep
  <2>4. state' \in States
    BY <2>1, <2>3 DEF TypeOK, States
  <2> QED
    BY <2>2, <2>3, <2>4, MadeStart DEF ServicesInv
<1>4. server' \in ServerObject /\ server'.restarted
  BY <1>2 DEF RestartServices, ServicesInv, ServicesTypeOK, ServerObject
<1>5. listens' \in FwServer /\ ~ listens'.open
  BY <1>2 DEF RestartServices, FwServer, None
<1>6. ap' \in Ap
  BY <1>2 DEF RestartServices, ServicesInv, ServicesTypeOK, Ap
<1>7. past' \in Past
  BY <1>2 DEF RestartServices, ServicesInv, ServicesTypeOK, Past
<1>8. Agree(Here)'
  BY <1>4, <1>5 DEF Agree, Here
<1> QED
  BY <1>3, <1>4, <1>5, <1>6, <1>7, <1>8 DEF ServicesInv, ServicesTypeOK

\* The calls that leave the server alone.
LEMMA OtherServicesStep ==
  ASSUME ServicesInv,
         \/ Station \/ ApQuery
         \/ \E o \in AnswersSaving(FALSE, {"mode"}) : BeginAPWith(1, FALSE, o)
         \/ \E c \in Conns, o \in AnswersSaving(FALSE, {"main", "mode"}) : BeginAPWith(c, TRUE, o)
  PROVE  ServicesInv'
<1>0. TypeOK /\ fw.modeDef # {} /\ state \in States /\ fine \in BOOLEAN
  BY DEF ServicesInv, StartInv, TypeOK
<1>1. ASSUME UNCHANGED <<server, listens>>, past' \in Past, past'.refused = past.refused,
             ap' \in Ap, StartInv', TypeOK'
      PROVE  ServicesInv'
  <2>1. Here' = Here
    BY <1>1 DEF Here
  <2> QED
    BY <1>1, <2>1 DEF ServicesInv, ServicesTypeOK, Agree
<1>2. CASE Station
  <2>1. StartInv' /\ TypeOK'
    <3>1. CASE StatusCall \/ FwJoins
      <4>1. \E V : Makes(V)
        BY <1>0, <3>1, OtherStep
      <4>2. state' \in States /\ fine' \in BOOLEAN
        BY <1>0, <3>1, OtherStep
      <4> QED BY <4>1, <4>2, MadeStart DEF ServicesInv
    <3>2. ASSUME NEW o \in Answers({}), NEW b \in BOOLEAN, SetPersistent(b, o)
          PROVE  StartInv' /\ TypeOK'
      <4>1. \E V : Makes(V)
        BY <1>0, <3>2, SetPersistentStep
      <4>2. state' \in States /\ fine' \in BOOLEAN
        BY <1>0, <3>2, SetPersistentStep
      <4> QED BY <4>1, <4>2, MadeStart DEF ServicesInv
    <3> QED
      BY <1>2, <3>1, <3>2 DEF Station
  <2>2. UNCHANGED services
    BY <1>2 DEF Station
  <2> QED
    BY <1>1, <2>1, <2>2 DEF services, ServicesInv, ServicesTypeOK
<1>3. CASE ApQuery
  <2>1. World' = World /\ UNCHANGED <<d, fw, state, fine>>
    BY <1>3 DEF ApQuery, vars, World
  <2>2. StartInv' /\ TypeOK'
    BY <2>1 DEF ServicesInv, StartInv, TypeOK, Starts
  <2>3. ap' \in Ap /\ past' \in Past /\ past'.refused = past.refused
    BY <1>3 DEF ApQuery, ServicesInv, ServicesTypeOK, Ap, Past
  <2> QED
    BY <1>1, <1>3, <2>2, <2>3 DEF ApQuery
<1>4. ASSUME NEW commands, "mode" \in commands, NEW o \in AnswersSaving(FALSE, commands),
             NEW c \in Conns, NEW ssid \in BOOLEAN, BeginAPWith(c, ssid, o)
      PROVE  ServicesInv'
  <2>1. BeginAP(ssid, o)
    BY <1>4 DEF BeginAPWith
  <2>2. \E V : Makes(V)
    BY <1>0, <1>4, <2>1, BeginAPStep
  <2>3. state' \in States /\ fine' \in BOOLEAN
    BY <1>0, <1>4, <2>1, BeginAPStep
  <2>4. StartInv' /\ TypeOK'
    BY <2>2, <2>3, MadeStart DEF ServicesInv
  <2>5. ap' \in Ap
    <3>1. PICK f \in {c, ap.fw}, s \in {c, ap.saved} : ap' = [cache |-> 0, fw |-> f, saved |-> s]
      BY <1>4 DEF BeginAPWith
    <3> QED BY <3>1 DEF ServicesInv, ServicesTypeOK, Ap
  <2>6. past' \in Past /\ past'.refused = past.refused
    BY <1>4 DEF BeginAPWith, ServicesInv, ServicesTypeOK, Past
  <2> QED
    BY <1>1, <1>4, <2>4, <2>5, <2>6 DEF BeginAPWith
<1>5. 1 \in Conns /\ "mode" \in {"mode"} /\ "mode" \in {"main", "mode"}
  BY DEF Conns
<1> QED
  BY <1>2, <1>3, <1>4, <1>5

LEMMA ServicesInitInv == ServicesInit => ServicesInv
<1> SUFFICES ASSUME ServicesInit PROVE ServicesInv
  OBVIOUS
<1>1. StartInv /\ TypeOK
  BY InitInv DEF ServicesInit, StartInv
<1>2. server \in ServerObject /\ listens \in FwServer /\ ap \in Ap /\ past \in Past
  BY ServicesAssumption
     DEF ServicesInit, ServerObject, FwServer, None, Ap, Conns, Past
<1>3. Agree(Here)
  BY DEF ServicesInit, Agree, Here, None
<1> QED
  BY <1>1, <1>2, <1>3 DEF ServicesInv, ServicesTypeOK

LEMMA ServicesNextInv == ServicesInv /\ [ServicesNext]_<<vars, services>> => ServicesInv'
<1> SUFFICES ASSUME ServicesInv, [ServicesNext]_<<vars, services>> PROVE ServicesInv'
  OBVIOUS
<1>1. CASE ServicesNext
  BY <1>1, ServerStep, RestartStep, OtherServicesStep DEF ServicesNext
<1>2. CASE UNCHANGED <<vars, services>>
  <2>1. UNCHANGED <<d, fw, state, fine, server, listens, ap, past>>
    BY <1>2 DEF vars, services
  <2>2. World' = World /\ Here' = Here
    BY <2>1 DEF World, Here
  <2> QED
    BY <2>1, <2>2 DEF ServicesInv, StartInv, TypeOK, Starts, ServicesTypeOK, Agree
<1> QED
  BY <1>1, <1>2

-----------------------------------------------------------------------------
(* The theorems.                                                           *)

\* The objects hold what their types allow.
THEOREM ServicesTypesCorrect == ServicesSpec => []ServicesTypeOK
<1>1. ServicesInv => ServicesTypeOK
  BY DEF ServicesInv
<1> QED
  BY ServicesInitInv, ServicesNextInv, <1>1, PTL DEF ServicesSpec

\* status() of the server object tells whether the firmware listens, and where, whichever
\* command of begin(), beginSSL() or end() was refused, until the module restarts; only
\* the last command of begin() is an exception.
THEOREM StatusIsTrue == ServicesSpec => []StatusTrue
<1>1. ServicesInv => StatusTrue
  BY DEF ServicesInv, StatusTrue, Agree, Here
<1> QED
  BY ServicesInitInv, ServicesNextInv, <1>1, PTL DEF ServicesSpec

\* A cached parameter of the soft AP is the firmware's, until the module restarts.
THEOREM CacheIsFresh == ServicesSpec => []CacheFresh
<1>1. ServicesInit => CacheFresh
  BY DEF ServicesInit, CacheFresh
<1>2. CacheFresh /\ ServicesInv /\ [ServicesNext]_<<vars, services>> => CacheFresh'
  <2> SUFFICES ASSUME CacheFresh, ServicesInv, [ServicesNext]_<<vars, services>> PROVE CacheFresh'
    OBVIOUS
  <2>0. ap \in Ap /\ past \in Past
    BY DEF ServicesInv, ServicesTypeOK
  <2>1. CASE UNCHANGED ap /\ past'.stale = past.stale
    BY <2>1 DEF CacheFresh
  <2>2. CASE EndServer \/ BeginServer
    <3>1. \A V, refused : ServerCall(V, refused) => UNCHANGED ap /\ past'.stale = past.stale
      BY <2>0 DEF ServerCall, Past
    <3> QED BY <2>1, <2>2, <3>1 DEF EndServer, BeginServer
  <2>3. CASE ResetModule \/ StartModule
    <3>1. \E resets : RestartServices(resets)
      BY <2>3 DEF ResetModule, StartModule
    <3>2. ap' = [ap EXCEPT !.fw = ap.saved] /\ past'.stale = (ap.cache # 0)
      BY <2>0, <3>1 DEF RestartServices, Past
    <3> QED BY <2>0, <3>2 DEF CacheFresh, Ap
  <2>4. ASSUME NEW c, NEW ssid, NEW o, BeginAPWith(c, ssid, o) PROVE CacheFresh'
    BY <2>4 DEF BeginAPWith, CacheFresh
  <2>5. CASE ApQuery
    BY <2>0, <2>5 DEF ApQuery, CacheFresh, Ap
  <2>6. CASE Station \/ UNCHANGED <<vars, services>>
    BY <2>1, <2>6 DEF Station, services
  <2> QED
    BY <2>2, <2>3, <2>4, <2>5, <2>6 DEF ServicesNext
<1> QED
  BY ServicesInitInv, ServicesNextInv, <1>1, <1>2, PTL DEF ServicesSpec
=============================================================================
