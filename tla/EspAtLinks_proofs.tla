-------------------------- MODULE EspAtLinks_proofs --------------------------
(***************************************************************************)
(* Proofs about the link table of the driver (EspAtLinks), for every       *)
(* number of links, connections, bytes and lost lines and both versions of *)
(* the firmware.                                                           *)
(*                                                                         *)
(* Types first, whatever is lost.  Then, while nothing is lost, what the   *)
(* driver will believe of a link once it has read the lines on their way   *)
(* is what the firmware has: the invariant follows each link along the     *)
(* line, from the table at the one end to the firmware at the other.       *)
(***************************************************************************)
EXTENDS EspAtLinks, SequenceTheorems, TLAPS

-----------------------------------------------------------------------------
(* What is on the line and which calls wait for it.                        *)

EventLines ==
  [what : {"CONNECT", "CLOSED"}, link : Links]
    \cup [what : {"IPD"}, link : Links, len : 0 .. MaxData]
AnswerLines ==
  [what : {"OK"}, conn : 0 .. MaxConns]
    \cup [what : {"ERROR", "READY"}]
    \cup [what : {"DATA"}, len : 0 .. MaxData]
    \cup [what : {"STATUS"}, up : SUBSET Links]
    \cup [what : {"LENS"}, len : [Links -> (IF AT1 THEN 0 ELSE -1) .. MaxData]]
Lines == EventLines \cup AnswerLines

Calls ==
  [name : {"connect", "recv", "remote"}, link : Links]
    \cup [name : {"none", "close", "checkLinks", "checkedLinks", "recvLenQuery", "reset"}]
Requests ==
  [name : {"start", "close"}, link : Links]
    \cup [name : {"recv"}, link : Links, size : 1 .. MaxData]
    \cup [name : {"none", "status", "lens", "reset"}]

\* the call c waits for the answer to the command r
Serves(c, r) ==
  \/ r.name = "start" /\ c.name = "connect" /\ c.link = r.link
  \/ r.name = "close" /\ c.name = "close"
  \/ r.name = "recv" /\ c.name = "recv" /\ c.link = r.link
  \/ r.name = "status" /\ c.name \in {"remote", "checkLinks"}
  \/ r.name = "lens" /\ c.name = "recvLenQuery"
  \/ r.name = "reset" /\ c.name = "reset"

CallsOK ==
  /\ call \in Calls /\ req \in Requests
  /\ req = Idle \/ Serves(call, req)
  /\ call.name \in {"checkLinks", "checkedLinks"} => AT1
  /\ call.name = "reset" => faults > 0

\* At most one answer is on its way: the command has left, the call waits.
OneAnswer ==
  \A i \in 1 .. Len(rx) : rx[i].what \notin Unasked =>
    /\ req = Idle /\ call.name \notin {"none", "checkedLinks"}
    /\ \A j \in 1 .. Len(rx) : j # i => rx[j].what \in Unasked

\* Every connection the firmware or a line speaks of has been made, and no two
\* links have the same one.
ConnsMade ==
  /\ \A l \in Links : fw[l].conn <= conns /\ (fw[l].up => fw[l].conn > 0)
  /\ \A k, l \in Links : k # l /\ fw[k].conn > 0 => fw[k].conn # fw[l].conn
  /\ \A i \in 1 .. Len(rx) : rx[i].what = "OK" => rx[i].conn <= conns

TypeInv == TypeOK /\ rx \in Seq(Lines) /\ CallsOK /\ OneAnswer /\ ConnsMade

-----------------------------------------------------------------------------
(* Lemmas about entries and lines.                                         *)

LEMMA LinksFacts == Links \subseteq Nat /\ 0 \in Links /\ SerialMod \in Nat \ {0}
BY LinksAssumption DEF Links

\* NextSerial, SetFlags, Incoming and Closed make entries of the table.
LEMMA EntryTypes ==
  ASSUME NEW k \in Link
  PROVE  /\ NextSerial(k) \in Link /\ Incoming(k) \in Link /\ Closed(k) \in Link
         /\ \A F \in SUBSET Flags : SetFlags(k, F) \in Link
         /\ \A a \in 0 .. MaxData : [k EXCEPT !.available = a] \in Link
<1>1. 0 \in 0 .. MaxData
  BY BoundsAssumption
<1>2. \A F \in SUBSET Flags : SetFlags(k, F) \in Link
  BY DEF Link, SetFlags
<1>3. \A j \in Link : NextSerial(j) \in Link
  BY LinksAssumption DEF Link, NextSerial
<1>4. {"CONNECTED", "INCOMING"} \in SUBSET Flags /\ {} \in SUBSET Flags
  BY DEF Flags
<1>5. Incoming(k) \in Link
  BY <1>2, <1>3, <1>4 DEF Incoming
<1>6. \A j \in Link, a \in 0 .. MaxData : [j EXCEPT !.available = a] \in Link
  BY DEF Link
<1>7. Closed(k) \in Link
  <2>1. SetFlags(k, {}) \in Link /\ SetFlags(k, {}).available \in 0 .. MaxData
    BY <1>2, <1>4 DEF Link
  <2> QED
    BY <2>1, <1>1, <1>6 DEF Closed
<1> QED
  BY <1>2, <1>3, <1>5, <1>6, <1>7

\* The lines that are left when one has been read.
LEMMA TailOfLine ==
  ASSUME rx \in Seq(Lines), rx # <<>>, rx' = Tail(rx)
  PROVE  /\ rx' \in Seq(Lines) /\ Head(rx) = rx[1] /\ rx[1] \in Lines
         /\ Len(rx) \in Nat \ {0} /\ Len(rx') = Len(rx) - 1
         /\ \A i \in 1 .. Len(rx') : i + 1 \in 1 .. Len(rx) /\ rx'[i] = rx[i + 1]
OBVIOUS

\* A sequence without one of its elements.
LEMMA Without ==
  ASSUME NEW S, NEW s \in Seq(S), NEW i \in 1 .. Len(s)
  PROVE  /\ RemoveAt(s, i) \in Seq(S) /\ Len(RemoveAt(s, i)) = Len(s) - 1
         /\ \A j \in 1 .. Len(s) - 1 : RemoveAt(s, i)[j] = s[IF j < i THEN j ELSE j + 1]
<1> DEFINE a == SubSeq(s, 1, i - 1)
           b == SubSeq(s, i + 1, Len(s))
<1>1. Len(s) \in Nat /\ i \in Nat /\ 1 <= i /\ i <= Len(s)
  OBVIOUS
<1>2. a \in Seq(S) /\ Len(a) = i - 1 /\ \A j \in 1 .. i - 1 : a[j] = s[j]
  BY <1>1
<1>3. b \in Seq(S) /\ Len(b) = Len(s) - i /\ \A j \in 1 .. Len(s) - i : b[j] = s[i + j]
  BY <1>1
<1>4. RemoveAt(s, i) = a \o b
  BY DEF RemoveAt
<1> HIDE DEF a, b
<1>a. a \in Seq(S) /\ b \in Seq(S)
  BY <1>2, <1>3
<1>b. \A u, v \in Seq(S) : u \o v \in Seq(S) /\ Len(u \o v) = Len(u) + Len(v)
  OBVIOUS
<1>c. a \o b \in Seq(S) /\ Len(a \o b) = Len(a) + Len(b)
  BY <1>a, <1>b
<1>5. a \o b \in Seq(S) /\ Len(a \o b) = Len(s) - 1
  BY <1>c, <1>1, <1>2, <1>3
<1>6. ASSUME NEW j \in 1 .. Len(s) - 1
      PROVE  (a \o b)[j] = s[IF j < i THEN j ELSE j + 1]
  <2>1. CASE j < i
    <3>1. j \in 1 .. Len(a)
      BY <2>1, <1>1, <1>2
    <3> QED
      BY <3>1, <2>1, <1>2, <1>3
  <2>2. CASE ~ j < i
    <3>1. j - Len(a) \in 1 .. Len(s) - i /\ j > Len(a) /\ i + (j - Len(a)) = j + 1
      BY <2>2, <1>1, <1>2
    <3>2. (a \o b)[j] = b[j - Len(a)]
      BY <3>1, <1>2, <1>3
    <3> QED
      BY <3>1, <3>2, <2>2, <1>3
  <2> QED
    BY <2>1, <2>2
<1> QED
  BY <1>4, <1>5, <1>6

\* The lines s have been sent: behind those on their way are some of s, at most
\* one of them an answer.
Sent(s) ==
  /\ rx' \in Seq(Lines) /\ faults' \in 0 .. MaxFaults /\ faults <= faults'
  /\ Len(rx) <= Len(rx') /\ \A i \in 1 .. Len(rx) : rx'[i] = rx[i]
  /\ \A i \in 1 .. Len(rx') : i > Len(rx) => \E j \in 1 .. Len(s) : rx'[i] = s[j]
  /\ \A i, j \in 1 .. Len(rx') : i > Len(rx) /\ j > Len(rx) /\ rx'[i].what \notin Unasked
       /\ rx'[j].what \notin Unasked => i = j

\* s has at most one answer
Single(s) ==
  \A i, j \in 1 .. Len(s) : s[i].what \notin Unasked /\ s[j].what \notin Unasked => i = j

\* Emit sends its lines, one of which may get lost.
LEMMA EmitLines ==
  ASSUME rx \in Seq(Lines), faults \in 0 .. MaxFaults, NEW s \in Seq(Lines), Emit(s), Single(s)
  PROVE  Sent(s)
<1>1. MaxFaults \in Nat /\ faults' \in 0 .. MaxFaults /\ faults <= faults'
  BY BoundsAssumption DEF Emit
<1> DEFINE Part(t) ==
      /\ t \in Seq(Lines) /\ rx' = rx \o t
      /\ \A j \in 1 .. Len(t) : \E k \in 1 .. Len(s) : t[j] = s[k]
      /\ \A i, j \in 1 .. Len(t) : t[i].what \notin Unasked /\ t[j].what \notin Unasked => i = j
<1>2. PICK t : Part(t)
  <2>1. CASE rx' = rx \o s
    BY <2>1 DEF Single
  <2>2. ASSUME NEW n \in 1 .. Len(s), rx' = rx \o RemoveAt(s, n)
        PROVE  \E t : Part(t)
    <3> DEFINE t == RemoveAt(s, n)
    <3>a. /\ t \in Seq(Lines) /\ Len(t) = Len(s) - 1
          /\ \A j \in 1 .. Len(s) - 1 : t[j] = s[IF j < n THEN j ELSE j + 1]
      BY Without, s \in Seq(Lines)
    <3>1. /\ t \in Seq(Lines) /\ Len(t) = Len(s) - 1 /\ Len(s) \in Nat
          /\ \A j \in 1 .. Len(s) - 1 : t[j] = s[IF j < n THEN j ELSE j + 1]
      BY <3>a
    <3> HIDE DEF t
    <3>2. \A j \in 1 .. Len(t) : (IF j < n THEN j ELSE j + 1) \in 1 .. Len(s)
      BY <3>1
    <3>3. \A j \in 1 .. Len(t) : \E k \in 1 .. Len(s) : t[j] = s[k]
      BY <3>1, <3>2
    <3>4. ASSUME NEW i \in 1 .. Len(t), NEW j \in 1 .. Len(t),
                 t[i].what \notin Unasked, t[j].what \notin Unasked
          PROVE  i = j
      <4>1. (IF i < n THEN i ELSE i + 1) = (IF j < n THEN j ELSE j + 1)
        BY <3>1, <3>2, <3>4 DEF Single
      <4> QED
        BY <4>1, <3>1
    <3>5. rx' = rx \o t
      BY <2>2 DEF t
    <3> QED
      BY <3>1, <3>3, <3>4, <3>5
  <2> QED
    BY <2>1, <2>2 DEF Emit
<1>3. rx' \in Seq(Lines) /\ Len(rx') = Len(rx) + Len(t) /\ Len(rx) \in Nat /\ Len(t) \in Nat
  BY <1>2
<1>4. \A i \in 1 .. Len(rx) : rx'[i] = rx[i]
  BY <1>2
<1>5. \A i \in 1 .. Len(rx') : i > Len(rx) => i - Len(rx) \in 1 .. Len(t) /\ rx'[i] = t[i - Len(rx)]
  BY <1>2
<1>6. \A i, j \in 1 .. Len(rx') : i > Len(rx) /\ j > Len(rx) /\ rx'[i].what \notin Unasked
        /\ rx'[j].what \notin Unasked => i = j
  <2> SUFFICES ASSUME NEW i \in 1 .. Len(rx'), NEW j \in 1 .. Len(rx'), i > Len(rx), j > Len(rx),
                      rx'[i].what \notin Unasked, rx'[j].what \notin Unasked
               PROVE  i = j
    OBVIOUS
  <2>1. i - Len(rx) = j - Len(rx)
    BY <1>2, <1>5
  <2> QED
    BY <2>1, <1>3
<1>7. \A i \in 1 .. Len(rx') : i > Len(rx) => \E j \in 1 .. Len(s) : rx'[i] = s[j]
  BY <1>2, <1>5
<1> QED
  BY <1>1, <1>3, <1>4, <1>6, <1>7 DEF Sent

\* The fields of a line.
LEMMA LineFields ==
  ASSUME NEW m \in Lines
  PROVE  /\ m.what \in {"CONNECT", "CLOSED"} => m.link \in Links
         /\ m.what = "IPD" => m.link \in Links /\ m.len \in 0 .. MaxData
         /\ m.what = "OK" => m.conn \in 0 .. MaxConns
         /\ m.what = "DATA" => m.len \in 0 .. MaxData
         /\ m.what = "STATUS" => m.up \in SUBSET Links
         /\ m.what = "LENS" => m.len \in [Links -> (IF AT1 THEN 0 ELSE -1) .. MaxData]
BY DEF Lines, EventLines, AnswerLines

\* The fields of a call and of a command.
LEMMA CallFields ==
  ASSUME NEW c \in Calls, NEW r \in Requests
  PROVE  /\ c.name \in {"connect", "recv", "remote"} => c.link \in Links
         /\ r.name \in {"start", "close", "recv"} => r.link \in Links
         /\ r.name = "recv" => r.size \in 1 .. MaxData
         /\ c.name = "none" <=> c = Idle
         /\ r.name = "none" <=> r = Idle
BY DEF Calls, Requests, Idle

-----------------------------------------------------------------------------
(* Every step keeps the types.                                             *)

\* A line nobody asked for is read.
LEMMA EventKeeps ==
  ASSUME TypeInv, NEW w, Event(w), w \in Unasked, link' \in [Links -> Link]
  PROVE  TypeInv'
<1>1. /\ rx' \in Seq(Lines) /\ Len(rx) \in Nat \ {0} /\ Len(rx') = Len(rx) - 1
      /\ \A i \in 1 .. Len(rx') : i + 1 \in 1 .. Len(rx) /\ rx'[i] = rx[i + 1]
  BY TailOfLine DEF TypeInv, Event
<1>2. TypeOK'
  BY DEF TypeInv, TypeOK, Event
<1>3. CallsOK'
  BY DEF TypeInv, CallsOK, Event
<1>4. OneAnswer'
  <2> SUFFICES ASSUME NEW i \in 1 .. Len(rx'), rx'[i].what \notin Unasked
               PROVE  /\ req = Idle /\ call.name \notin {"none", "checkedLinks"}
                      /\ \A j \in 1 .. Len(rx') : j # i => rx'[j].what \in Unasked
    BY DEF OneAnswer, Event
  <2>1. i + 1 \in 1 .. Len(rx) /\ rx[i + 1].what \notin Unasked
    BY <1>1
  <2>2. /\ req = Idle /\ call.name \notin {"none", "checkedLinks"}
        /\ \A j \in 1 .. Len(rx) : j # i + 1 => rx[j].what \in Unasked
    BY <2>1 DEF TypeInv, OneAnswer
  <2>3. \A j \in 1 .. Len(rx') : j # i => j + 1 # i + 1
    OBVIOUS
  <2> QED
    BY <1>1, <2>2, <2>3
<1>5. ConnsMade'
  BY <1>1 DEF TypeInv, ConnsMade, Event
<1> QED
  BY <1>1, <1>2, <1>3, <1>4, <1>5 DEF TypeInv

\* The answer is read, and the call ends or goes on to the command that follows.
LEMMA AnswerKeeps ==
  ASSUME TypeInv, NEW n, NEW w, Got(n, w), w \notin Unasked,
         link' \in [Links -> Link], held' \subseteq Handle, given' \subseteq 0 .. conns,
         \/ call' = Idle
         \/ call.name = "checkLinks" /\ call' = [name |-> "checkedLinks"]
  PROVE  TypeInv' /\ req = Idle /\ \A i \in 1 .. Len(rx') : rx'[i].what \in Unasked
<1>1. /\ rx' \in Seq(Lines) /\ Len(rx) \in Nat \ {0} /\ Len(rx') = Len(rx) - 1
      /\ \A i \in 1 .. Len(rx') : i + 1 \in 1 .. Len(rx) /\ rx'[i] = rx[i + 1]
      /\ rx[1].what = w
  BY TailOfLine DEF TypeInv, Got
<1>2. /\ req = Idle /\ req' = Idle
      /\ \A j \in 1 .. Len(rx) : j # 1 => rx[j].what \in Unasked
  <2>1. 1 \in 1 .. Len(rx)
    BY <1>1
  <2> QED
    BY <1>1, <2>1 DEF TypeInv, OneAnswer, Got
<1>3. \A i \in 1 .. Len(rx') : rx'[i].what \in Unasked
  <2>1. \A i \in 1 .. Len(rx') : i + 1 # 1
    OBVIOUS
  <2> QED
    BY <1>1, <1>2, <2>1
<1>4. TypeOK'
  BY <1>2 DEF TypeInv, TypeOK, Got
<1>5. CallsOK'
  <2>1. call' \in Calls /\ call'.name \in {"none", "checkedLinks"}
    BY DEF Calls, Idle
  <2>2. call'.name = "checkedLinks" => AT1
    BY DEF TypeInv, CallsOK, Idle
  <2> QED
    BY <1>2, <2>1, <2>2 DEF TypeInv, CallsOK
<1>6. OneAnswer'
  BY <1>3 DEF OneAnswer
<1>7. ConnsMade'
  BY <1>1 DEF TypeInv, ConnsMade, Got
<1> QED
  BY <1>1, <1>2, <1>3, <1>4, <1>5, <1>6, <1>7 DEF TypeInv

\* A call sends its command.
LEMMA SendKeeps ==
  ASSUME TypeInv, NEW n, NEW c \in Calls, NEW r \in Requests, Send(n, c, r), Serves(c, r),
         c.name \in {"checkLinks", "checkedLinks"} => AT1, c.name # "reset",
         link' \in [Links -> Link], held' \subseteq Handle, given' = given
  PROVE  TypeInv' /\ rx' = <<>>
<1>1. rx = <<>> /\ rx' = <<>> /\ Len(rx) = 0
  BY DEF Send
<1>2. c # Idle
  BY DEF Serves, Idle
<1>3. TypeOK'
  BY <1>2 DEF TypeInv, TypeOK, Send
<1>4. CallsOK'
  BY DEF TypeInv, CallsOK, Send
<1>5. OneAnswer'
  BY <1>1 DEF OneAnswer
<1>6. ConnsMade'
  BY DEF TypeInv, ConnsMade, Send
<1> QED
  BY <1>1, <1>3, <1>4, <1>5, <1>6 DEF TypeInv, Send

\* The sketch does something with the ids while no call is going on.
LEMMA SketchKeeps ==
  ASSUME TypeInv, UNCHANGED <<call, req, rx, fw, conns, faults>>,
         link' \in [Links -> Link], held' \subseteq Handle, given' \subseteq 0 .. conns
  PROVE  TypeInv'
<1>1. TypeOK'
  BY DEF TypeInv, TypeOK
<1>2. CallsOK' /\ OneAnswer' /\ ConnsMade'
  BY DEF TypeInv, CallsOK, OneAnswer, ConnsMade
<1> QED
  BY <1>1, <1>2 DEF TypeInv

\* The firmware sends lines, and takes the command that waits when one of them is
\* the answer.
LEMMA FirmwareKeeps ==
  ASSUME TypeInv, NEW s \in Seq(Lines), Sent(s), UNCHANGED driverVars,
         req' = req \/ req' = Idle,
         \A i \in 1 .. Len(s) : s[i].what \notin Unasked => req # Idle /\ req' = Idle,
         \A i \in 1 .. Len(s) : s[i].what = "OK" => s[i].conn <= conns',
         fw' \in [Links -> FwLink], conns' \in conns .. MaxConns,
         \A l \in Links : fw'[l].conn <= conns' /\ (fw'[l].up => fw'[l].conn > 0),
         \A k, l \in Links : k # l /\ fw'[k].conn > 0 => fw'[k].conn # fw'[l].conn
  PROVE  TypeInv'
<1>1. rx \in Seq(Lines) /\ Len(rx) \in Nat /\ conns \in Nat /\ faults \in Nat /\ faults' \in Nat
  BY BoundsAssumption DEF TypeInv, TypeOK, Sent
<1>2. TypeOK'
  BY <1>1 DEF TypeInv, TypeOK, driverVars, Sent
<1>3. CallsOK'
  BY <1>1, CallFields DEF TypeInv, CallsOK, driverVars, Sent, Idle, Requests
<1>4. \A i \in 1 .. Len(rx') : i > Len(rx) \/ (i \in 1 .. Len(rx) /\ rx'[i] = rx[i])
  BY <1>1 DEF Sent
<1>5. OneAnswer'
  <2> SUFFICES ASSUME NEW i \in 1 .. Len(rx'), rx'[i].what \notin Unasked
               PROVE  /\ req' = Idle /\ call.name \notin {"none", "checkedLinks"}
                      /\ \A j \in 1 .. Len(rx') : j # i => rx'[j].what \in Unasked
    BY DEF OneAnswer, driverVars
  <2>1. CASE i > Len(rx)
    <3>1. req # Idle /\ req' = Idle
      BY <2>1 DEF Sent
    <3>2. call.name \notin {"none", "checkedLinks"}
      BY <3>1 DEF TypeInv, CallsOK, Serves
    <3>3. \A j \in 1 .. Len(rx) : rx[j].what \in Unasked
      BY <3>1 DEF TypeInv, OneAnswer
    <3>4. ASSUME NEW j \in 1 .. Len(rx'), j # i PROVE rx'[j].what \in Unasked
      BY <3>3, <3>4, <2>1, <1>4 DEF Sent
    <3> QED
      BY <3>1, <3>2, <3>4
  <2>2. CASE i \in 1 .. Len(rx) /\ rx'[i] = rx[i]
    <3>1. /\ req = Idle /\ call.name \notin {"none", "checkedLinks"}
          /\ \A j \in 1 .. Len(rx) : j # i => rx[j].what \in Unasked
      BY <2>2 DEF TypeInv, OneAnswer
    <3>2. ASSUME NEW j \in 1 .. Len(rx'), j # i PROVE rx'[j].what \in Unasked
      <4>1. CASE j > Len(rx)
        BY <4>1, <3>1 DEF Sent
      <4>2. CASE j \in 1 .. Len(rx) /\ rx'[j] = rx[j]
        BY <4>2, <3>1, <3>2
      <4> QED
        BY <4>1, <4>2, <1>4
    <3> QED
      BY <3>1, <3>2
  <2> QED
    BY <2>1, <2>2, <1>4
<1>6. ConnsMade'
  <2>1. ASSUME NEW i \in 1 .. Len(rx'), rx'[i].what = "OK" PROVE rx'[i].conn <= conns'
    <3>1. CASE i > Len(rx)
      BY <3>1, <2>1 DEF Sent
    <3>2. CASE i \in 1 .. Len(rx) /\ rx'[i] = rx[i]
      <4>1. rx[i] \in Lines
        BY <3>2, <1>1
      <4>2. rx[i].conn \in Nat /\ rx[i].conn <= conns
        BY <4>1, <3>2, <2>1, LineFields, BoundsAssumption DEF TypeInv, ConnsMade
      <4> QED
        BY <4>2, <3>2, <1>1
    <3> QED
      BY <3>1, <3>2, <1>4
  <2> QED
    BY <2>1 DEF ConnsMade
<1> QED
  BY <1>2, <1>3, <1>5, <1>6 DEF TypeInv, Sent

\* The lines the firmware sends are lines, with at most one answer.
LEMMA SentLines ==
  ASSUME NEW l \in Links
  PROVE  /\ \A w \in {"CONNECT", "CLOSED"} :
              Line(w, l) \in Lines /\ Line(w, l).what = w /\ Line(w, l).link = l
         /\ \A d \in 0 .. MaxData : [what |-> "IPD", link |-> l, len |-> d] \in Lines
         /\ \A d \in 0 .. MaxData : [what |-> "DATA", len |-> d] \in Lines
         /\ \A c \in 0 .. MaxConns : [what |-> "OK", conn |-> c] \in Lines
         /\ \A w \in {"ERROR", "READY"} : Answer(w) \in Lines /\ Answer(w).what = w
BY DEF Lines, EventLines, AnswerLines, Line, Answer

\* One or two lines of which the second or none is an event.
LEMMA Singles ==
  ASSUME NEW a \in Lines, NEW b \in Lines, a.what \in Unasked \/ b.what \in Unasked
  PROVE  /\ <<a>> \in Seq(Lines) /\ Single(<<a>>) /\ \A i \in 1 .. Len(<<a>>) : <<a>>[i] = a
         /\ <<a, b>> \in Seq(Lines) /\ Single(<<a, b>>)
         /\ \A i \in 1 .. Len(<<a, b>>) : <<a, b>>[i] \in {a, b}
         /\ <<a>> \o <<b>> = <<a, b>> /\ <<a>> \o <<>> = <<a>>
<1>1. <<a>> \in Seq(Lines) /\ Single(<<a>>) /\ \A i \in 1 .. Len(<<a>>) : <<a>>[i] = a
  BY DEF Single
<1>2. <<a, b>> \in Seq(Lines) /\ Single(<<a, b>>)
  BY DEF Single
<1>3. \A i \in 1 .. Len(<<a, b>>) : <<a, b>>[i] \in {a, b}
  OBVIOUS
<1>4. <<a>> \o <<b>> = <<a, b>>
  <2> DEFINE t == <<a>> \o <<b>>
  <2>1. Len(t) = 2 /\ t[1] = a /\ t[2] = b /\ t \in Seq({a, b})
    OBVIOUS
  <2> HIDE DEF t
  <2>2. t = <<a, b>>
    BY <2>1
  <2> QED
    BY <2>2 DEF t
<1>5. <<a>> \o <<>> = <<a>>
  <2>1. \A s \in Seq(Lines) : s \o <<>> = s
    OBVIOUS
  <2> QED
    BY <2>1, <1>1
<1> QED
  BY <1>1, <1>2, <1>3, <1>4, <1>5

\* What the firmware knows of one link changes, or a new connection is made on it.
LEMMA FwLinkChanges ==
  ASSUME TypeInv, NEW l \in Links, NEW f \in FwLink, fw' = [fw EXCEPT ![l] = f],
         \/ conns' = conns /\ f.conn = fw[l].conn /\ (f.up => fw[l].up)
         \/ conns < MaxConns /\ conns' = conns + 1 /\ f.conn = conns + 1
  PROVE  /\ fw' \in [Links -> FwLink] /\ conns' \in conns .. MaxConns
         /\ \A j \in Links : fw'[j].conn <= conns' /\ (fw'[j].up => fw'[j].conn > 0)
         /\ \A j, k \in Links : j # k /\ fw'[j].conn > 0 => fw'[j].conn # fw'[k].conn
<1>1. conns \in 0 .. MaxConns /\ MaxConns \in Nat /\ fw \in [Links -> FwLink]
  BY BoundsAssumption DEF TypeInv, TypeOK
<1>2. \A j \in Links : fw[j].conn \in 0 .. conns /\ fw[j].up \in BOOLEAN /\ (fw[j].up => fw[j].conn > 0)
  BY <1>1 DEF TypeInv, ConnsMade, FwLink
<1>3. \A j, k \in Links : j # k /\ fw[j].conn > 0 => fw[j].conn # fw[k].conn
  BY DEF TypeInv, ConnsMade
<1>4. \A j \in Links : fw'[j] = IF j = l THEN f ELSE fw[j]
  BY <1>1
<1>5. fw' \in [Links -> FwLink] /\ conns' \in conns .. MaxConns
  BY <1>1
<1>6. \A j \in Links : fw'[j].conn <= conns' /\ (fw'[j].up => fw'[j].conn > 0)
  BY <1>1, <1>2, <1>4
<1>7. \A j, k \in Links : j # k /\ fw'[j].conn > 0 => fw'[j].conn # fw'[k].conn
  BY <1>1, <1>2, <1>3, <1>4
<1> QED
  BY <1>5, <1>6, <1>7

\* A link of the firmware whose connection ends.
LEMMA EndedLink ==
  ASSUME NEW f \in FwLink
  PROVE  /\ Ended(f) \in FwLink /\ Ended(f).conn = f.conn /\ Ended(f).data = f.data
         /\ Ended(f).up = FALSE /\ Ended(f).finished = FALSE
         /\ \A d \in 0 .. MaxData : /\ [f EXCEPT !.data = d] \in FwLink
                                    /\ [f EXCEPT !.data = d].conn = f.conn
                                    /\ [f EXCEPT !.data = d].up = f.up
                                    /\ [f EXCEPT !.data = d].data = d
BY DEF Ended, FwLink

LEMMA PeerTypes ==
  ASSUME TypeInv, NEW l \in Links, PeerConnects(l) \/ PeerSends(l) \/ PeerCloses(l)
  PROVE  TypeInv'
<1>1. /\ fw \in [Links -> FwLink] /\ rx \in Seq(Lines) /\ conns \in 0 .. MaxConns
      /\ faults \in 0 .. MaxFaults /\ MaxFaults \in Nat /\ MaxConns \in Nat /\ MaxData \in Nat
  BY BoundsAssumption DEF TypeInv, TypeOK
<1>2. \A w \in {"CONNECT", "CLOSED"} : /\ Line(w, l) \in Lines
                                       /\ <<Line(w, l)>> \in Seq(Lines) /\ Single(<<Line(w, l)>>)
  <2> TAKE w \in {"CONNECT", "CLOSED"}
  <2>1. Line(w, l) \in Lines /\ Line(w, l).what \in Unasked
    BY SentLines DEF Unasked
  <2> QED
    BY <2>1, Singles
<1>3. ASSUME PeerConnects(l) PROVE TypeInv'
  <2> DEFINE s == <<Line("CONNECT", l)>>
  <2>1. FreshLink(conns + 1) \in FwLink /\ FreshLink(conns + 1).conn = conns + 1
    BY <1>1, <1>3 DEF PeerConnects, FreshLink, FwLink
  <2>2. Sent(s)
    <3>1. CASE Emit(s)
      BY <3>1, <1>1, <1>2, EmitLines
    <3>2. CASE faults < MaxFaults /\ faults' = faults + 1 /\ rx' = Append(rx, Line("CONNECT", l))
      BY <3>2, <1>1, <1>2 DEF Sent
    <3> QED
      BY <3>1, <3>2, <1>3 DEF PeerConnects
  <2>3. s[1].what \in Unasked /\ Len(s) = 1
    BY DEF Line, Unasked
  <2> HIDE DEF s
  <2>4. s \in Seq(Lines) /\ \A i \in 1 .. Len(s) : s[i].what \in Unasked
    BY <2>3, <1>2 DEF s
  <2> QED
    BY <1>3, <2>1, <2>2, <2>4, FirmwareKeeps, FwLinkChanges DEF PeerConnects, Unasked
<1>4. ASSUME PeerSends(l) PROVE TypeInv'
  <2> DEFINE m == [what |-> "IPD", link |-> l, len |-> fw[l].data + 1]
             f == [fw[l] EXCEPT !.data = @ + 1]
  <2>1. fw[l].data + 1 \in 0 .. MaxData /\ f \in FwLink /\ f.conn = fw[l].conn /\ f.up = fw[l].up
    <3>1. fw[l].data + 1 \in 0 .. MaxData
      BY <1>1, <1>4 DEF PeerSends, FwLink
    <3>2. f = [fw[l] EXCEPT !.data = fw[l].data + 1] /\ fw[l] \in FwLink
      BY <1>1
    <3> QED
      BY <3>1, <3>2, EndedLink
  <2>2. fw' = [fw EXCEPT ![l] = f] /\ Emit(<<m>>) /\ UNCHANGED <<driverVars, req, conns>>
    BY <1>4 DEF PeerSends
  <2>3. m \in Lines /\ m.what = "IPD"
    BY <2>1, SentLines
  <2> HIDE DEF m, f
  <2>4. <<m>> \in Seq(Lines) /\ Single(<<m>>) /\ Len(<<m>>) = 1 /\ <<m>>[1].what = "IPD"
    BY <2>3 DEF Single
  <2>5. Sent(<<m>>)
    BY <2>2, <2>4, <1>1, EmitLines
  <2> QED
    <3>1. /\ fw' \in [Links -> FwLink] /\ conns' \in conns .. MaxConns
          /\ \A j \in Links : fw'[j].conn <= conns' /\ (fw'[j].up => fw'[j].conn > 0)
          /\ \A j, k \in Links : j # k /\ fw'[j].conn > 0 => fw'[j].conn # fw'[k].conn
      BY <2>1, <2>2, FwLinkChanges
    <3>2. /\ \A i \in 1 .. Len(<<m>>) : <<m>>[i].what \in Unasked
          /\ \A i \in 1 .. Len(<<m>>) : <<m>>[i].what # "OK"
      BY <2>4 DEF Unasked
    <3> HIDE DEF Sent
    <3> QED
      BY <2>2, <2>4, <2>5, <3>1, <3>2, FirmwareKeeps
<1>5. ASSUME PeerCloses(l), AT1 \/ fw[l].data = 0 PROVE TypeInv'
  <2> DEFINE s == <<Line("CLOSED", l)>>
  <2>1. Ended(fw[l]) \in FwLink /\ Ended(fw[l]).conn = fw[l].conn /\ ~ Ended(fw[l]).up
    BY <1>1 DEF Ended, FwLink
  <2>2. /\ fw' = [fw EXCEPT ![l] = Ended(fw[l])] /\ Emit(s)
        /\ UNCHANGED <<driverVars, req, conns>>
    BY <1>5 DEF PeerCloses
  <2>3. s[1].what = "CLOSED" /\ Len(s) = 1 /\ s \in Seq(Lines) /\ Sent(s)
    BY <2>2, <1>1, <1>2, EmitLines DEF Line
  <2> HIDE DEF s
  <2> QED
    <3>1. /\ fw' \in [Links -> FwLink] /\ conns' \in conns .. MaxConns
          /\ \A j \in Links : fw'[j].conn <= conns' /\ (fw'[j].up => fw'[j].conn > 0)
          /\ \A j, k \in Links : j # k /\ fw'[j].conn > 0 => fw'[j].conn # fw'[k].conn
      BY <2>1, <2>2, FwLinkChanges
    <3>2. /\ \A i \in 1 .. Len(s) : s[i].what \in Unasked
          /\ \A i \in 1 .. Len(s) : s[i].what # "OK"
      BY <2>3 DEF Unasked
    <3> HIDE DEF Sent
    <3> QED
      BY <2>2, <2>3, <3>1, <3>2, FirmwareKeeps
<1>6. ASSUME PeerCloses(l), ~ (AT1 \/ fw[l].data = 0) PROVE TypeInv'
  <2> DEFINE f == [fw[l] EXCEPT !.finished = TRUE]
  <2>1. f \in FwLink /\ f.conn = fw[l].conn /\ f.up = fw[l].up
    BY <1>1 DEF FwLink
  <2>2. fw' = [fw EXCEPT ![l] = f] /\ UNCHANGED <<driverVars, req, conns, rx, faults>>
    BY <1>6 DEF PeerCloses
  <2> HIDE DEF f
  <2>3. << >> \in Seq(Lines) /\ Len(<< >>) = 0 /\ Sent(<< >>)
    BY <2>2, <1>1 DEF Sent
  <2>4. \A i \in 1 .. Len(<< >>) : FALSE
    BY <2>3
  <2> QED
    BY <2>1, <2>2, <2>3, <2>4, FirmwareKeeps, FwLinkChanges
<1> QED
  BY <1>3, <1>4, <1>5, <1>6

\* The smaller of two numbers.
LEMMA MinOf ==
  ASSUME NEW a \in Nat, NEW b \in Nat
  PROVE  Min({a, b}) = IF a <= b THEN a ELSE b
<1> DEFINE c == IF a <= b THEN a ELSE b
<1>1. c \in {a, b} /\ \A y \in {a, b} : c <= y
  OBVIOUS
<1>2. \A x \in {a, b} : (\A y \in {a, b} : x <= y) => x = c
  OBVIOUS
<1> QED
  BY <1>1, <1>2 DEF Min

\* The answer to the command r of the driver is the lines s.
LEMMA AnswerTypes ==
  ASSUME TypeInv, NEW name, Answers(name), name # "none",
         NEW s \in Seq(Lines), Single(s), Emit(s),
         \A i \in 1 .. Len(s) : s[i].what = "OK" => s[i].conn <= conns',
         fw' \in [Links -> FwLink], conns' \in conns .. MaxConns,
         \A l \in Links : fw'[l].conn <= conns' /\ (fw'[l].up => fw'[l].conn > 0),
         \A k, l \in Links : k # l /\ fw'[k].conn > 0 => fw'[k].conn # fw'[l].conn
  PROVE  TypeInv'
<1>1. rx \in Seq(Lines) /\ faults \in 0 .. MaxFaults /\ req # Idle /\ req' = Idle
  BY DEF TypeInv, TypeOK, Answers, Idle
<1>2. Sent(s)
  BY <1>1, EmitLines
<1>3. UNCHANGED driverVars
  BY DEF Answers
<1> HIDE DEF Answers, Emit
<1> QED
  BY <1>1, <1>2, <1>3, FirmwareKeeps

LEMMA AnswerStartTypes == TypeInv /\ AnswerStart => TypeInv'
<1> SUFFICES ASSUME TypeInv, AnswerStart PROVE TypeInv'
  OBVIOUS
<1> DEFINE l == req.link
<1>1. /\ fw \in [Links -> FwLink] /\ conns \in 0 .. MaxConns /\ MaxConns \in Nat /\ MaxData \in Nat
      /\ l \in Links /\ Answers("start")
  BY BoundsAssumption, CallFields DEF TypeInv, TypeOK, CallsOK, AnswerStart, Answers
<1> HIDE DEF l
<1>2. CASE /\ conns < MaxConns /\ fw' = [fw EXCEPT ![l] = FreshLink(conns + 1)] /\ conns' = conns + 1
           /\ Emit(<<Line("CONNECT", l), [what |-> "OK", conn |-> conns + 1]>>)
  <2> DEFINE m == [what |-> "OK", conn |-> conns + 1]
             a == Line("CONNECT", l)
  <2>1. FreshLink(conns + 1) \in FwLink /\ FreshLink(conns + 1).conn = conns + 1
    BY <1>1, <1>2 DEF FreshLink, FwLink
  <2>2. m \in Lines /\ m.conn = conns + 1 /\ a \in Lines /\ a.what = "CONNECT"
    BY <1>1, <1>2, SentLines
  <2>3. Emit(<<a, m>>)
    BY <1>2
  <2> HIDE DEF m, a
  <2>4. <<a, m>> \in Seq(Lines) /\ Single(<<a, m>>)
    BY <2>2, Singles DEF Unasked
  <2>5. \A i \in 1 .. Len(<<a, m>>) : <<a, m>>[i].what = "OK" => <<a, m>>[i].conn <= conns'
    BY <2>2, <1>1, <1>2
  <2>6. /\ fw' \in [Links -> FwLink] /\ conns' \in conns .. MaxConns
        /\ \A j \in Links : fw'[j].conn <= conns' /\ (fw'[j].up => fw'[j].conn > 0)
        /\ \A j, k \in Links : j # k /\ fw'[j].conn > 0 => fw'[j].conn # fw'[k].conn
    BY <2>1, <1>1, <1>2, FwLinkChanges
  <2> QED
    BY <1>1, <2>3, <2>4, <2>5, <2>6, AnswerTypes
<1>3. CASE UNCHANGED <<fw, conns>> /\ (Emit(<<Answer("ERROR")>>) \/ Emit(<<Line("CLOSED", l), Answer("ERROR")>>))
  <2> DEFINE e == Answer("ERROR")
             a == Line("CLOSED", l)
  <2>1. e \in Lines /\ e.what = "ERROR" /\ a \in Lines /\ a.what = "CLOSED"
    BY <1>1, SentLines
  <2>2. /\ fw' \in [Links -> FwLink] /\ conns' \in conns .. MaxConns
        /\ \A j \in Links : fw'[j].conn <= conns' /\ (fw'[j].up => fw'[j].conn > 0)
        /\ \A j, k \in Links : j # k /\ fw'[j].conn > 0 => fw'[j].conn # fw'[k].conn
    BY <1>1, <1>3 DEF TypeInv, ConnsMade
  <2>3. Emit(<<e>>) \/ Emit(<<a, e>>)
    BY <1>3
  <2> HIDE DEF a, e
  <2>4. /\ <<a, e>> \in Seq(Lines) /\ Single(<<a, e>>) /\ <<e>> \in Seq(Lines) /\ Single(<<e>>)
        /\ \A i \in 1 .. Len(<<a, e>>) : <<a, e>>[i].what # "OK"
        /\ \A i \in 1 .. Len(<<e>>) : <<e>>[i].what # "OK"
    <3>1. a.what \in Unasked
      BY <2>1 DEF Unasked
    <3>2. /\ <<a, e>> \in Seq(Lines) /\ Single(<<a, e>>)
          /\ \A i \in 1 .. Len(<<a, e>>) : <<a, e>>[i] \in {a, e}
      BY <3>1, <2>1, Singles
    <3>3. <<e>> \in Seq(Lines) /\ Single(<<e>>) /\ \A i \in 1 .. Len(<<e>>) : <<e>>[i] = e
      BY <3>1, <2>1, Singles
    <3> QED
      BY <3>2, <3>3, <2>1
  <2>5. CASE Emit(<<e>>)
    BY <1>1, <2>2, <2>4, <2>5, AnswerTypes
  <2>6. CASE Emit(<<a, e>>)
    BY <1>1, <2>2, <2>4, <2>6, AnswerTypes
  <2> QED
    BY <2>3, <2>5, <2>6
<1> QED
  BY <1>2, <1>3 DEF AnswerStart, l

LEMMA AnswerCloseTypes == TypeInv /\ AnswerClose => TypeInv'
<1> SUFFICES ASSUME TypeInv, AnswerClose PROVE TypeInv'
  OBVIOUS
<1> DEFINE l == req.link
           f == [Ended(fw[l]) EXCEPT !.data = 0]
<1>1. /\ fw \in [Links -> FwLink] /\ conns \in 0 .. MaxConns /\ MaxConns \in Nat
      /\ 0 \in 0 .. MaxData /\ l \in Links /\ Answers("close") /\ conns' = conns
  BY BoundsAssumption, CallFields DEF TypeInv, TypeOK, CallsOK, AnswerClose, Answers
<1>2. /\ \/ /\ fw' = [fw EXCEPT ![l] = f]
            /\ Emit(<<Line("CLOSED", l), [what |-> "OK", conn |-> 0]>>)
         \/ Emit(<<Answer("ERROR")>>) /\ UNCHANGED fw
  BY DEF AnswerClose
<1>3. f \in FwLink /\ f.conn = fw[l].conn /\ f.up = FALSE
  <2>1. Ended(fw[l]) \in FwLink /\ Ended(fw[l]).conn = fw[l].conn /\ Ended(fw[l]).up = FALSE
    BY <1>1, EndedLink
  <2> QED
    BY <2>1, <1>1, EndedLink
<1> HIDE DEF l, f
<1>4. /\ fw' \in [Links -> FwLink] /\ conns' \in conns .. MaxConns
      /\ \A j \in Links : fw'[j].conn <= conns' /\ (fw'[j].up => fw'[j].conn > 0)
      /\ \A j, k \in Links : j # k /\ fw'[j].conn > 0 => fw'[j].conn # fw'[k].conn
  <2>1. CASE fw' = [fw EXCEPT ![l] = f]
    BY <2>1, <1>1, <1>3, FwLinkChanges
  <2>2. CASE fw' = fw
    BY <2>2, <1>1 DEF TypeInv, ConnsMade
  <2> QED
    BY <2>1, <2>2, <1>2
<1> DEFINE e == Answer("ERROR")
           a == Line("CLOSED", l)
           m == [what |-> "OK", conn |-> 0]
<1>5. /\ e \in Lines /\ e.what = "ERROR" /\ a \in Lines /\ a.what = "CLOSED"
      /\ m \in Lines /\ m.conn = 0
  BY <1>1, SentLines
<1>6. Emit(<<e>>) \/ Emit(<<a, m>>)
  BY <1>2
<1> HIDE DEF a, e, m
<1>7. /\ <<a, m>> \in Seq(Lines) /\ Single(<<a, m>>) /\ <<e>> \in Seq(Lines) /\ Single(<<e>>)
      /\ \A i \in 1 .. Len(<<a, m>>) : <<a, m>>[i].what = "OK" => <<a, m>>[i].conn <= conns'
      /\ \A i \in 1 .. Len(<<e>>) : <<e>>[i].what # "OK"
  <2>1. a.what \in Unasked
    BY <1>5 DEF Unasked
  <2>2. /\ <<a, m>> \in Seq(Lines) /\ Single(<<a, m>>)
        /\ \A i \in 1 .. Len(<<a, m>>) : <<a, m>>[i] \in {a, m}
    BY <2>1, <1>5, Singles
  <2>3. <<e>> \in Seq(Lines) /\ Single(<<e>>) /\ \A i \in 1 .. Len(<<e>>) : <<e>>[i] = e
    BY <2>1, <1>5, Singles
  <2>4. \A i \in 1 .. Len(<<a, m>>) : <<a, m>>[i].what = "OK" => <<a, m>>[i].conn <= conns'
    <3>1. m.conn <= conns'
      BY <1>1, <1>5
    <3> QED
      BY <2>2, <3>1, <1>5
  <2> QED
    BY <2>2, <2>3, <2>4, <1>5
<1>8. CASE Emit(<<e>>)
  BY <1>1, <1>4, <1>7, <1>8, AnswerTypes
<1>9. CASE Emit(<<a, m>>)
  BY <1>1, <1>4, <1>7, <1>9, AnswerTypes
<1> QED
  BY <1>6, <1>8, <1>9

LEMMA AnswerRecvTypes == TypeInv /\ AnswerRecv => TypeInv'
<1> SUFFICES ASSUME TypeInv, AnswerRecv PROVE TypeInv'
  OBVIOUS
<1> DEFINE l == req.link
           n == Min({req.size, fw[l].data})
           rest == [fw[l] EXCEPT !.data = @ - n]
           last == fw[l].finished /\ n = fw[l].data
           f == IF last THEN Ended(rest) ELSE rest
           d == [what |-> "DATA", len |-> n]
           a == Line("CLOSED", l)
           e == Answer("ERROR")
<1>1. /\ fw \in [Links -> FwLink] /\ conns \in 0 .. MaxConns /\ MaxConns \in Nat /\ MaxData \in Nat
      /\ l \in Links /\ req.size \in 1 .. MaxData /\ Answers("recv") /\ conns' = conns
  BY BoundsAssumption, CallFields DEF TypeInv, TypeOK, CallsOK, AnswerRecv, Answers
<1>2. fw[l].data \in 0 .. MaxData /\ n \in 0 .. fw[l].data
  <2>1. fw[l].data \in 0 .. MaxData
    BY <1>1 DEF FwLink
  <2>2. req.size \in Nat /\ fw[l].data \in Nat
    BY <2>1, <1>1
  <2>3. n = IF req.size <= fw[l].data THEN req.size ELSE fw[l].data
    BY <2>2, MinOf
  <2> HIDE DEF n
  <2> QED
    BY <2>1, <2>2, <2>3
<1>3. \/ n = 0 /\ Emit(<<e>>) /\ UNCHANGED fw
      \/ fw' = [fw EXCEPT ![l] = f] /\ (Emit(<<d>>) \/ Emit(<<d, a>>))
  <2>1. CASE n = 0
    BY <2>1 DEF AnswerRecv
  <2>2. CASE n # 0
    <3>1. fw' = [fw EXCEPT ![l] = f] /\ Emit(<<d>> \o IF last THEN <<a>> ELSE <<>>)
      BY <2>2 DEF AnswerRecv
    <3>2. d \in Lines /\ a \in Lines /\ a.what \in Unasked
      <4>1. a \in Lines /\ a.what = "CLOSED"
        BY <1>1, SentLines
      <4> HIDE DEF n
      <4>2. n \in 0 .. MaxData
        BY <1>1, <1>2
      <4> QED
        BY <4>1, <4>2, <1>1, SentLines DEF Unasked
    <3> HIDE DEF d, a, last, f
    <3>3. <<d>> \o <<a>> = <<d, a>> /\ <<d>> \o <<>> = <<d>>
      BY <3>2, Singles
    <3> QED
      BY <3>1, <3>3
  <2> QED
    BY <2>1, <2>2
<1>4. f \in FwLink /\ f.conn = fw[l].conn /\ (f.up => fw[l].up)
  <2> HIDE DEF n
  <2>1. fw[l].data - n \in 0 .. MaxData /\ fw[l] \in FwLink
    BY <1>1, <1>2
  <2>2. rest \in FwLink /\ rest.conn = fw[l].conn /\ rest.up = fw[l].up
    BY <2>1, EndedLink
  <2> HIDE DEF rest
  <2>3. Ended(rest) \in FwLink /\ Ended(rest).conn = fw[l].conn /\ Ended(rest).up = FALSE
    BY <2>2, EndedLink
  <2> QED
    BY <2>2, <2>3
<1>5. /\ d \in Lines /\ d.what = "DATA" /\ a \in Lines /\ a.what = "CLOSED"
      /\ e \in Lines /\ e.what = "ERROR"
  <2> HIDE DEF n
  <2>1. n \in 0 .. MaxData
    BY <1>1, <1>2
  <2> QED
    BY <2>1, <1>1, SentLines
<1> HIDE DEF d, a, e, f, n, l
<1>6. /\ fw' \in [Links -> FwLink] /\ conns' \in conns .. MaxConns
      /\ \A j \in Links : fw'[j].conn <= conns' /\ (fw'[j].up => fw'[j].conn > 0)
      /\ \A j, k \in Links : j # k /\ fw'[j].conn > 0 => fw'[j].conn # fw'[k].conn
  <2>1. CASE fw' = [fw EXCEPT ![l] = f]
    BY <2>1, <1>1, <1>4, FwLinkChanges
  <2>2. CASE fw' = fw
    BY <2>2, <1>1 DEF TypeInv, ConnsMade
  <2> QED
    BY <2>1, <2>2, <1>3
<1>7. /\ <<d, a>> \in Seq(Lines) /\ Single(<<d, a>>) /\ <<e>> \in Seq(Lines) /\ Single(<<e>>)
      /\ <<d>> \in Seq(Lines) /\ Single(<<d>>)
      /\ \A i \in 1 .. Len(<<d, a>>) : <<d, a>>[i].what # "OK"
      /\ \A i \in 1 .. Len(<<d>>) : <<d>>[i].what # "OK"
      /\ \A i \in 1 .. Len(<<e>>) : <<e>>[i].what # "OK"
  <2>1. a.what \in Unasked
    BY <1>5 DEF Unasked
  <2>2. /\ <<d, a>> \in Seq(Lines) /\ Single(<<d, a>>) /\ <<d>> \in Seq(Lines) /\ Single(<<d>>)
        /\ \A i \in 1 .. Len(<<d, a>>) : <<d, a>>[i] \in {d, a}
        /\ \A i \in 1 .. Len(<<d>>) : <<d>>[i] = d
    BY <2>1, <1>5, Singles
  <2>3. <<e>> \in Seq(Lines) /\ Single(<<e>>) /\ \A i \in 1 .. Len(<<e>>) : <<e>>[i] = e
    BY <2>1, <1>5, Singles
  <2> QED
    BY <2>2, <2>3, <1>5
<1>8. CASE Emit(<<e>>)
  BY <1>1, <1>6, <1>7, <1>8, AnswerTypes
<1>9. CASE Emit(<<d>>)
  BY <1>1, <1>6, <1>7, <1>9, AnswerTypes
<1>10. CASE Emit(<<d, a>>)
  BY <1>1, <1>6, <1>7, <1>10, AnswerTypes
<1> QED
  BY <1>3, <1>8, <1>9, <1>10

\* The answers that list the links, and "ready".
LEMMA AnswerListTypes == TypeInv /\ (AnswerStatus \/ AnswerLens \/ AnswerReset) => TypeInv'
<1> SUFFICES ASSUME TypeInv, AnswerStatus \/ AnswerLens \/ AnswerReset PROVE TypeInv'
  OBVIOUS
<1> DEFINE up == [what |-> "STATUS", up |-> {l \in Links : fw[l].up}]
           lens == [what |-> "LENS",
                    len |-> [l \in Links |-> IF AT1 \/ fw[l].up THEN fw[l].data ELSE -1]]
           ready == Answer("READY")
<1>1. /\ fw \in [Links -> FwLink] /\ conns \in 0 .. MaxConns /\ MaxConns \in Nat /\ MaxData \in Nat
      /\ conns' = conns
  BY BoundsAssumption DEF TypeInv, TypeOK, AnswerStatus, AnswerLens, AnswerReset
<1>2. up \in Lines /\ lens \in Lines /\ ready \in Lines
  <2>1. \A l \in Links : fw[l].data \in 0 .. MaxData
    BY <1>1 DEF FwLink
  <2>2. [l \in Links |-> IF AT1 \/ fw[l].up THEN fw[l].data ELSE -1]
          \in [Links -> (IF AT1 THEN 0 ELSE -1) .. MaxData]
    BY <2>1, <1>1
  <2>3. lens \in AnswerLines
    BY <2>2 DEF AnswerLines
  <2>4. up \in AnswerLines /\ ready \in AnswerLines
    BY DEF AnswerLines, Answer
  <2> QED
    BY <2>3, <2>4 DEF Lines
<1>3. up.what # "OK" /\ lens.what # "OK" /\ ready.what # "OK"
  BY DEF Answer
<1>4. \E m \in {up, lens, ready}, name \in {"status", "lens", "reset"} :
         Answers(name) /\ rx' = Append(rx, m) /\ UNCHANGED faults
  BY DEF AnswerStatus, AnswerLens, AnswerReset
<1>5. fw' = fw \/ fw' = [l \in Links |-> [Ended(fw[l]) EXCEPT !.data = 0]]
  BY DEF AnswerStatus, AnswerLens, AnswerReset
<1> HIDE DEF up, lens, ready
<1>6. PICK m \in Lines, name \in {"status", "lens", "reset"} :
         m.what # "OK" /\ Answers(name) /\ rx' = Append(rx, m) /\ UNCHANGED faults
  BY <1>2, <1>3, <1>4
<1>7. \A l \in Links : /\ [Ended(fw[l]) EXCEPT !.data = 0] \in FwLink
                       /\ [Ended(fw[l]) EXCEPT !.data = 0].conn = fw[l].conn
                       /\ [Ended(fw[l]) EXCEPT !.data = 0].up = FALSE
  <2> TAKE l \in Links
  <2>1. Ended(fw[l]) \in FwLink /\ Ended(fw[l]).conn = fw[l].conn /\ Ended(fw[l]).up = FALSE
    BY <1>1, EndedLink
  <2>2. 0 \in 0 .. MaxData
    BY <1>1
  <2> QED
    BY <2>1, <2>2, EndedLink
<1>8. /\ fw' \in [Links -> FwLink] /\ conns' \in conns .. MaxConns
      /\ \A j \in Links : fw'[j].conn <= conns' /\ (fw'[j].up => fw'[j].conn > 0)
      /\ \A j, k \in Links : j # k /\ fw'[j].conn > 0 => fw'[j].conn # fw'[k].conn
  <2>1. CASE fw' = fw
    BY <2>1, <1>1 DEF TypeInv, ConnsMade
  <2>2. CASE fw' = [l \in Links |-> [Ended(fw[l]) EXCEPT !.data = 0]]
    <3>1. fw' \in [Links -> FwLink]
      BY <2>2, <1>7
    <3>2. \A j \in Links : fw'[j].conn = fw[j].conn /\ fw'[j].up = FALSE
      BY <2>2, <1>7
    <3> QED
      BY <3>1, <3>2, <1>1 DEF TypeInv, ConnsMade
  <2> QED
    BY <2>1, <2>2, <1>5
<1>9. <<m>> \in Seq(Lines) /\ Single(<<m>>) /\ \A i \in 1 .. Len(<<m>>) : <<m>>[i].what # "OK"
  BY <1>6 DEF Single
<1>10. Emit(<<m>>)
  <2>1. rx \in Seq(Lines)
    BY DEF TypeInv
  <2>2. Append(rx, m) = rx \o <<m>>
    BY <2>1
  <2> QED
    BY <2>2, <1>6 DEF Emit
<1> QED
  BY <1>6, <1>8, <1>9, <1>10, AnswerTypes

\* The fields of the state that the steps of the driver use.
LEMMA StateFields ==
  ASSUME TypeInv
  PROVE  /\ link \in [Links -> Link] /\ fw \in [Links -> FwLink] /\ held \subseteq Handle
         /\ conns \in 0 .. MaxConns /\ MaxConns \in Nat /\ MaxData \in Nat /\ MaxFaults \in Nat
         /\ given \subseteq 0 .. conns /\ faults \in 0 .. MaxFaults
         /\ call \in Calls /\ req \in Requests /\ rx \in Seq(Lines) /\ ConnsMade
         /\ \A l \in Links : /\ link[l].flags \in SUBSET Flags /\ link[l].serial \in 0 .. SerialMod - 1
                             /\ link[l].available \in 0 .. MaxData
         /\ \A h \in held : h.link \in Links /\ h.serial \in 0 .. SerialMod - 1 /\ h.conn \in 0 .. MaxConns
BY BoundsAssumption DEF TypeInv, TypeOK, CallsOK, Link, Handle

LEMMA ReadTypes == TypeInv /\ (ReadIPD \/ ReadConnect \/ ReadClosed) => TypeInv'
<1> SUFFICES ASSUME TypeInv, ReadIPD \/ ReadConnect \/ ReadClosed PROVE TypeInv'
  OBVIOUS
<1>1. link \in [Links -> Link] /\ rx \in Seq(Lines)
  BY StateFields
<1>2. ASSUME NEW w, Event(w) PROVE Head(rx) \in Lines /\ Head(rx).what = w
  BY <1>1, <1>2 DEF Event
<1>3. ASSUME ReadIPD PROVE TypeInv'
  <2>1. Head(rx).link \in Links /\ Head(rx).len \in 0 .. MaxData
    BY <1>2, <1>3, LineFields DEF ReadIPD
  <2>2. link' \in [Links -> Link]
    BY <2>1, <1>1, <1>3, EntryTypes DEF ReadIPD
  <2> QED
    BY <2>2, <1>3, EventKeeps DEF ReadIPD, Unasked
<1>4. ASSUME ReadConnect PROVE TypeInv'
  <2>1. Head(rx).link \in Links
    BY <1>2, <1>4, LineFields DEF ReadConnect
  <2>2. Incoming(link[Head(rx).link]) \in Link /\ link[Head(rx).link] \in Link
    BY <2>1, <1>1, EntryTypes
  <2>3. link' \in [Links -> Link]
    BY <2>1, <2>2, <1>1, <1>4 DEF ReadConnect
  <2> QED
    BY <2>3, <1>4, EventKeeps DEF ReadConnect, Unasked
<1>5. ASSUME ReadClosed PROVE TypeInv'
  <2>1. Head(rx).link \in Links
    BY <1>2, <1>5, LineFields DEF ReadClosed
  <2>2. Closed(link[Head(rx).link]) \in Link
    BY <2>1, <1>1, EntryTypes
  <2>3. link' \in [Links -> Link]
    BY <2>1, <2>2, <1>1, <1>5 DEF ReadClosed
  <2> QED
    BY <2>3, <1>5, EventKeeps DEF ReadClosed, Unasked
<1> QED
  BY <1>3, <1>4, <1>5

\* The table after the answer to a call.
LEMMA AnsweredTable ==
  ASSUME TypeInv,
         ConnectOK \/ ConnectError \/ CloseDone \/ RecvData \/ RecvError \/ RemoteDone
           \/ CheckLinks \/ RecvLens \/ ResetDone
  PROVE  link' \in [Links -> Link]
<1>1. link \in [Links -> Link] /\ rx \in Seq(Lines) /\ call \in Calls /\ req \in Requests
      /\ MaxData \in Nat
  BY StateFields
<1>2. ASSUME NEW n, NEW w, Got(n, w)
      PROVE  Head(rx) \in Lines /\ Head(rx).what = w /\ (n \in {"connect", "recv", "remote"} => call.link \in Links)
  BY <1>1, <1>2, CallFields DEF Got
<1>3. {} \in SUBSET Flags /\ {"CONNECTED", "INCOMING"} \in SUBSET Flags
  BY DEF Flags
<1>4. CASE ConnectOK
  <2>1. call.link \in Links /\ NextSerial(link[call.link]) \in Link
    BY <1>1, <1>2, <1>4, EntryTypes DEF ConnectOK
  <2> QED
    BY <2>1, <1>1, <1>4 DEF ConnectOK
<1>5. CASE ConnectError \/ RemoteDone
  <2>1. call.link \in Links /\ SetFlags(link[call.link], {}) \in Link
    BY <1>1, <1>2, <1>3, <1>5, EntryTypes DEF ConnectError, RemoteDone
  <2> QED
    BY <2>1, <1>1, <1>5 DEF ConnectError, RemoteDone
<1>6. CASE CloseDone \/ ResetDone
  BY <1>1, <1>6 DEF CloseDone, ResetDone
<1>7. CASE RecvData
  <2>1. call.link \in Links /\ Head(rx).len \in 0 .. MaxData
    BY <1>2, <1>7, LineFields DEF RecvData
  <2>2. link[call.link].available \in 0 .. MaxData
    BY <2>1, StateFields
  <2>3. (IF Head(rx).len > link[call.link].available THEN 0 ELSE link[call.link].available - Head(rx).len)
          \in 0 .. MaxData
    BY <2>1, <2>2, <1>1
  <2> QED
    BY <2>1, <2>3, <1>1, <1>7, EntryTypes DEF RecvData
<1>8. CASE RecvError
  <2>1. call.link \in Links /\ 0 \in 0 .. MaxData
    BY <1>1, <1>2, <1>8 DEF RecvError
  <2> QED
    BY <2>1, <1>1, <1>8, EntryTypes DEF RecvError
<1>9. CASE CheckLinks
  <2>1. \A l \in Links : SetFlags(link[l], {}) \in Link /\ Incoming(link[l]) \in Link /\ link[l] \in Link
    BY <1>1, <1>3, EntryTypes
  <2> QED
    BY <2>1, <1>9 DEF CheckLinks
<1>10. CASE RecvLens
  <2> DEFINE n == Head(rx).len
  <2>1. n \in [Links -> (IF AT1 THEN 0 ELSE -1) .. MaxData]
    BY <1>2, <1>10, LineFields DEF RecvLens
  <2>2. link' = [l \in Links |->
          IF AT1 THEN [link[l] EXCEPT !.available = n[l]]
          ELSE IF n[l] < 0 THEN [SetFlags(link[l], {}) EXCEPT !.available = 0]
          ELSE [link[l] EXCEPT !.available = n[l],
                               !.flags = IF Missed(l) THEN {"CONNECTED", "INCOMING"} ELSE @]]
    BY <1>10 DEF RecvLens
  <2> HIDE DEF n
  <2>3. \A l \in Links :
          (IF AT1 THEN [link[l] EXCEPT !.available = n[l]]
          ELSE IF n[l] < 0 THEN [SetFlags(link[l], {}) EXCEPT !.available = 0]
          ELSE [link[l] EXCEPT !.available = n[l],
                               !.flags = IF Missed(l) THEN {"CONNECTED", "INCOMING"} ELSE @]) \in Link
    <3> TAKE l \in Links
    <3>1. link[l] \in Link /\ SetFlags(link[l], {}) \in Link /\ n[l] \in (IF AT1 THEN 0 ELSE -1) .. MaxData
      BY <1>1, <1>3, <2>1, EntryTypes
    <3>2. 0 \in 0 .. MaxData /\ (AT1 \/ ~ n[l] < 0 => n[l] \in 0 .. MaxData)
      BY <3>1, <1>1
    <3>3. AT1 \/ ~ n[l] < 0 => [link[l] EXCEPT !.available = n[l]] \in Link
      BY <3>1, <3>2, EntryTypes
    <3>4. [SetFlags(link[l], {}) EXCEPT !.available = 0] \in Link
      BY <3>1, <3>2, EntryTypes
    <3>5. ~ n[l] < 0 => [link[l] EXCEPT !.available = n[l],
                         !.flags = IF Missed(l) THEN {"CONNECTED", "INCOMING"} ELSE @] \in Link
      BY <3>1, <3>2, <1>3 DEF Link
    <3> QED
      BY <3>3, <3>4, <3>5
  <2> QED
    BY <2>2, <2>3
<1> QED
  BY <1>4, <1>5, <1>6, <1>7, <1>8, <1>9, <1>10

LEMMA ReturnTypes ==
  ASSUME TypeInv,
         ConnectOK \/ ConnectError \/ CloseDone \/ RecvData \/ RecvError \/ RemoteDone
           \/ CheckLinks \/ RecvLens \/ ResetDone
  PROVE  TypeInv' /\ req = Idle /\ \A i \in 1 .. Len(rx') : rx'[i].what \in Unasked
<1>1. link' \in [Links -> Link]
  BY AnsweredTable
<1>2. CASE ConnectOK
  <2> DEFINE l == call.link
             c == Head(rx).conn
  <2>1. Head(rx) \in Lines /\ Head(rx).what = "OK" /\ l \in Links /\ Head(rx) = rx[1] /\ 1 \in 1 .. Len(rx)
    BY StateFields, CallFields, <1>2 DEF ConnectOK, Got
  <2>2. c \in 0 .. MaxConns /\ c <= conns
    BY <2>1, StateFields, LineFields DEF ConnsMade
  <2>3. link'[l].serial \in 0 .. SerialMod - 1
    BY <1>1, <2>1 DEF Link
  <2>4. /\ held' = held \cup {[link |-> l, serial |-> link'[l].serial, conn |-> c]}
        /\ given' = given \cup {c} /\ call' = Idle /\ Got("connect", "OK")
    BY <1>2 DEF ConnectOK, Return
  <2> HIDE DEF l, c
  <2>5. held' \subseteq Handle
    BY <2>1, <2>2, <2>3, <2>4, StateFields DEF Handle
  <2>6. given' \subseteq 0 .. conns
    BY <2>2, <2>4, StateFields
  <2> QED
    BY <1>1, <2>4, <2>5, <2>6, AnswerKeeps DEF Unasked
<1>3. CASE ConnectError \/ CloseDone \/ RecvData \/ RecvError \/ RemoteDone \/ RecvLens \/ ResetDone
  <2>1. call' = Idle /\ UNCHANGED <<held, given>>
    BY <1>3 DEF ConnectError, CloseDone, RecvData, RecvError, RemoteDone, RecvLens, ResetDone, Return
  <2>2. PICK n, w : Got(n, w) /\ w \notin Unasked
    <3>1. \/ Got("connect", "ERROR") \/ Got("close", "OK") \/ Got("close", "ERROR")
          \/ Got("recv", "DATA") \/ Got("recv", "ERROR") \/ Got("remote", "STATUS")
          \/ Got("recvLenQuery", "LENS") \/ Got("reset", "READY")
      BY <1>3
      DEF ConnectError, CloseDone, RecvData, RecvError, RemoteDone, RecvLens, ResetDone
    <3>2. \A w \in {"OK", "ERROR", "DATA", "STATUS", "LENS", "READY"} : w \notin Unasked
      BY DEF Unasked
    <3> HIDE DEF Got
    <3> QED
      BY <3>1, <3>2, Zenon
  <2>3. held' \subseteq Handle /\ given' \subseteq 0 .. conns
    BY <2>1, StateFields
  <2> QED
    BY <1>1, <2>1, <2>2, <2>3, AnswerKeeps
<1>4. CASE CheckLinks
  <2>1. /\ Got("checkLinks", "STATUS") /\ call.name = "checkLinks"
        /\ call' = [name |-> "checkedLinks"] /\ UNCHANGED <<held, given>>
    BY <1>4 DEF CheckLinks, Got
  <2>2. held' \subseteq Handle /\ given' \subseteq 0 .. conns
    BY <2>1, StateFields
  <2> QED
    BY <1>1, <2>1, <2>2, AnswerKeeps DEF Unasked
<1> QED
  BY <1>2, <1>3, <1>4

LEMMA StartTypes ==
  ASSUME TypeInv,
         \/ \E l \in Links : Connect(l)
         \/ \E h \in held : Close(h) \/ Remote(h) \/ Poll(h) \/ \E n \in 1 .. MaxData : Recv(h, n)
         \/ RecvLenQuery
  PROVE  TypeInv' /\ rx = <<>> /\ rx' = <<>> /\ UNCHANGED <<fw, conns, faults, given>>
<1>1. link \in [Links -> Link] /\ held \subseteq Handle /\ \A h \in held : h.link \in Links
  BY StateFields
<1>3. CASE \E l \in Links : Connect(l)
  <2>1. PICK l \in Links : Connect(l)
    BY <1>3
  <2> DEFINE c == [name |-> "connect", link |-> l]
             r == [name |-> "start", link |-> l]
  <2>2. Send("none", c, r) /\ UNCHANGED <<given, held>>
    BY <2>1 DEF Connect, StartCall
  <2>3. c \in Calls /\ r \in Requests /\ Serves(c, r)
    BY DEF Calls, Requests, Serves
  <2>4. link' \in [Links -> Link]
    <3>1. {"CONNECTED"} \in SUBSET Flags
      BY DEF Flags
    <3> QED
      BY <3>1, <2>1, <1>1, EntryTypes DEF Connect
  <2> QED
    BY <2>2, <2>3, <2>4, <1>1, SendKeeps DEF Send
<1>4. ASSUME NEW h \in held, Close(h) PROVE TypeInv' /\ rx' = <<>> /\ rx = <<>> /\ UNCHANGED <<fw, conns, faults, given>>
  <2> DEFINE c == [name |-> "close"]
             r == [name |-> "close", link |-> h.link]
  <2>2. Send("none", c, r) /\ UNCHANGED given /\ held' \subseteq Handle
    BY <1>1, <1>4 DEF Close, StartCall
  <2>3. c \in Calls /\ r \in Requests /\ Serves(c, r)
    BY <1>1 DEF Calls, Requests, Serves
  <2>4. link' \in [Links -> Link]
    <3>1. link[h.link].flags \cup {"CLOSING"} \in SUBSET Flags /\ 0 \in 0 .. MaxData
      BY <1>1, StateFields DEF Flags
    <3>2. [link[h.link] EXCEPT !.flags = @ \cup {"CLOSING"}, !.available = 0] \in Link
      BY <3>1, <1>1 DEF Link
    <3>3. link' = [link EXCEPT ![h.link] = [link[h.link] EXCEPT !.flags = @ \cup {"CLOSING"}, !.available = 0]]
      BY <1>1, <1>4 DEF Close
    <3> QED
      BY <3>2, <3>3, <1>1
  <2> QED
    BY <2>2, <2>3, <2>4, SendKeeps DEF Send
<1>5. ASSUME NEW h \in held, Remote(h) \/ Poll(h) \/ \E n \in 1 .. MaxData : Recv(h, n)
      PROVE  TypeInv' /\ rx' = <<>> /\ rx = <<>> /\ UNCHANGED <<fw, conns, faults, given>>
  <2>1. UNCHANGED <<link, held, given>>
    BY <1>5 DEF Remote, Poll, Recv, StartCall
  <2>2. PICK c \in Calls, r \in Requests :
          Send("none", c, r) /\ Serves(c, r) /\ (c.name \in {"checkLinks", "checkedLinks"} => AT1)
            /\ c.name # "reset"
    <3>1. CASE Remote(h)
      <4>1. [name |-> "remote", link |-> h.link] \in Calls /\ [name |-> "status"] \in Requests
        BY <1>1 DEF Calls, Requests
      <4>2. Serves([name |-> "remote", link |-> h.link], [name |-> "status"])
        BY DEF Serves
      <4>3. Send("none", [name |-> "remote", link |-> h.link], [name |-> "status"])
        BY <3>1 DEF Remote, StartCall
      <4> QED
        BY <4>1, <4>2, <4>3
    <3>2. CASE Poll(h)
      <4>1. /\ [name |-> "checkLinks"] \in Calls /\ [name |-> "status"] \in Requests
            /\ [name |-> "recvLenQuery"] \in Calls /\ [name |-> "lens"] \in Requests
        BY DEF Calls, Requests
      <4>2. /\ Serves([name |-> "checkLinks"], [name |-> "status"])
            /\ Serves([name |-> "recvLenQuery"], [name |-> "lens"])
        BY DEF Serves
      <4>3. CASE AT1
        <5>1. Send("none", [name |-> "checkLinks"], [name |-> "status"])
          BY <3>2, <4>3 DEF Poll, StartCall
        <5> QED
          BY <5>1, <4>1, <4>2, <4>3
      <4>4. CASE ~ AT1
        <5>1. Send("none", [name |-> "recvLenQuery"], [name |-> "lens"])
          BY <3>2, <4>4 DEF Poll, StartCall
        <5> QED
          BY <5>1, <4>1, <4>2
      <4> QED
        BY <4>3, <4>4
    <3>3. CASE \E n \in 1 .. MaxData : Recv(h, n)
      <4>1. PICK n \in 1 .. MaxData : Recv(h, n)
        BY <3>3
      <4>2. /\ [name |-> "recv", link |-> h.link] \in Calls
            /\ [name |-> "recv", link |-> h.link, size |-> n] \in Requests
        BY <1>1 DEF Calls, Requests
      <4>3. Serves([name |-> "recv", link |-> h.link], [name |-> "recv", link |-> h.link, size |-> n])
        BY DEF Serves
      <4>4. Send("none", [name |-> "recv", link |-> h.link], [name |-> "recv", link |-> h.link, size |-> n])
        BY <4>1 DEF Recv, StartCall
      <4> QED
        BY <4>2, <4>3, <4>4
    <3> QED
      BY <3>1, <3>2, <3>3, <1>5
  <2> QED
    BY <2>1, <2>2, <1>1, SendKeeps DEF Send
<1>6. CASE RecvLenQuery
  <2> DEFINE c == [name |-> "recvLenQuery"]
             r == [name |-> "lens"]
  <2>2. Send("checkedLinks", c, r) /\ UNCHANGED <<link, held, given>>
    BY <1>6 DEF RecvLenQuery
  <2>3. c \in Calls /\ r \in Requests /\ Serves(c, r)
    BY DEF Calls, Requests, Serves
  <2> QED
    BY <2>2, <2>3, <1>1, SendKeeps DEF Send
<1> QED
  BY <1>3, <1>4, <1>5, <1>6

LEMMA AcceptTypes ==
  ASSUME TypeInv, NEW l \in Links, Accept(l)
  PROVE  TypeInv'
<1>1. /\ link \in [Links -> Link] /\ held \subseteq Handle /\ given \subseteq 0 .. conns
      /\ fw \in [Links -> FwLink] /\ conns \in Nat /\ conns <= MaxConns /\ MaxConns \in Nat
  BY StateFields
<1>2. fw[l].conn \in 0 .. MaxConns /\ fw[l].conn <= conns
  BY <1>1, StateFields DEF FwLink, ConnsMade
<1>3. link[l].flags \ {"INCOMING"} \in SUBSET Flags /\ link[l].serial \in 0 .. SerialMod - 1
  BY StateFields
<1>4. link' \in [Links -> Link]
  <2>1. [link[l] EXCEPT !.flags = link[l].flags \ {"INCOMING"}] \in Link
    BY <1>1, <1>3 DEF Link
  <2>2. link' = [link EXCEPT ![l] = [link[l] EXCEPT !.flags = link[l].flags \ {"INCOMING"}]]
    BY <1>1 DEF Accept
  <2> QED
    BY <2>1, <2>2, <1>1
<1>5. held' \subseteq Handle
  BY <1>1, <1>2, <1>3 DEF Accept, Handle
<1>6. given' \subseteq 0 .. conns
  BY <1>1, <1>2 DEF Accept
<1> QED
  BY <1>4, <1>5, <1>6, SketchKeeps DEF Accept

LEMMA NextTypes ==
  ASSUME TypeInv, [Next]_vars
  PROVE  TypeInv'
<1>1. CASE UNCHANGED vars
  <2>1. link' \in [Links -> Link] /\ held' \subseteq Handle /\ given' \subseteq 0 .. conns
    BY <1>1, StateFields DEF vars
  <2> QED
    BY <1>1, <2>1, SketchKeeps DEF vars
<1>2. CASE Peer
  BY <1>2, PeerTypes DEF Peer
<1>3. CASE Firmware
  BY <1>3, AnswerStartTypes, AnswerCloseTypes, AnswerRecvTypes, AnswerListTypes DEF Firmware
<1>4. CASE Work
  BY <1>4, ReadTypes, ReturnTypes, StartTypes DEF Work
<1>5. ASSUME NEW h \in held, Forget(h) PROVE TypeInv'
  <2>1. link' \in [Links -> Link] /\ held' \subseteq Handle /\ given' \subseteq 0 .. conns
    BY <1>5, StateFields DEF Forget
  <2> QED
    BY <1>5, <2>1, SketchKeeps DEF Forget
<1>6. CASE Reset
  <2>1. /\ faults \in Nat /\ faults' = faults + 1 /\ faults' \in 0 .. MaxFaults /\ rx = <<>> /\ rx' = <<>>
        /\ call' = [name |-> "reset"] /\ req' = [name |-> "reset"]
        /\ UNCHANGED <<link, fw, held, conns, given>>
    BY <1>6, StateFields DEF Reset, Quiet
  <2>2. call' \in Calls /\ req' \in Requests /\ Serves(call', req') /\ call' # Idle
    BY <2>1 DEF Calls, Requests, Serves, Idle
  <2>3. TypeOK'
    BY <2>1, <2>2 DEF TypeInv, TypeOK
  <2>4. CallsOK'
    BY <2>1, <2>2 DEF CallsOK
  <2>5. rx' \in Seq(Lines) /\ OneAnswer' /\ ConnsMade'
    BY <2>1 DEF TypeInv, OneAnswer, ConnsMade
  <2> QED
    BY <2>3, <2>4, <2>5 DEF TypeInv
<1>7. CASE Sketch
  BY <1>7, <1>5, <1>6, AcceptTypes, StartTypes DEF Sketch, Connects, Accepts, Polls
<1> QED
  BY <1>1, <1>2, <1>3, <1>4, <1>7 DEF Next

LEMMA InitTypes == Init => TypeInv
<1> SUFFICES ASSUME Init PROVE TypeInv
  OBVIOUS
<1>1. [flags |-> {}, serial |-> 0, available |-> 0] \in Link
  BY LinksAssumption, BoundsAssumption DEF Link
<1>2. [up |-> FALSE, conn |-> 0, data |-> 0, finished |-> FALSE] \in FwLink
  BY BoundsAssumption DEF FwLink
<1>3. TypeOK
  BY <1>1, <1>2, BoundsAssumption DEF Init, TypeOK
<1>4. CallsOK
  BY DEF Init, CallsOK, Calls, Requests, Idle
<1>5. rx \in Seq(Lines) /\ OneAnswer /\ ConnsMade
  BY DEF Init, OneAnswer, ConnsMade
<1> QED
  BY <1>3, <1>4, <1>5 DEF TypeInv

\* The variables have their types; what the line and the firmware name are connections
\* that were made, and one answer at most is on its way.
THEOREM TypeInvariance == Spec => []TypeInv
<1>1. TypeInv /\ [Next]_vars => TypeInv'
  BY NextTypes
<1> QED
  BY <1>1, InitTypes, PTL DEF Spec

\* The variables have their types in every behaviour: every entry of the table,
\* every id and every byte count stays in its range, a call that has ended has left
\* no command behind, and no connection was handed out that was never made.
THEOREM TypesCorrect == Spec => []TypeOK
<1>1. TypeInv => TypeOK
  BY DEF TypeInv
<1> QED
  BY <1>1, TypeInvariance, PTL

-----------------------------------------------------------------------------
(* What a link becomes while the driver reads the lines on their way.      *)

\* An entry of the link table and the connection its serial id stands for.
View == [k : Link, conn : Nat]

Missing(k) == "CONNECTED" \notin k.flags \/ "CLOSING" \in k.flags

\* The entry becomes k, which gives the link a new serial id.
Renewed(V, W, k) ==
  W.k = k /\ k.serial > V.k.serial /\ (~ AT1 => W.conn > V.conn)

StepConnect(m, l, V, W) ==
  /\ m.what = "CONNECT"
  /\ IF m.link = l /\ V.k.available = 0 /\ Missing(V.k)
     THEN Renewed(V, W, Incoming(V.k)) ELSE W = V
StepClosed(m, l, V, W) ==
  m.what = "CLOSED" /\ W = IF m.link = l THEN [V EXCEPT !.k = Closed(V.k)] ELSE V
StepIPD(m, l, V, W) ==
  m.what = "IPD" /\ W = IF m.link = l THEN [V EXCEPT !.k = [V.k EXCEPT !.available = m.len]] ELSE V

StepEvent(m, l, V, W) ==
  StepConnect(m, l, V, W) \/ StepClosed(m, l, V, W) \/ StepIPD(m, l, V, W)

StepOK(c, m, l, V, W) ==
  /\ m.what = "OK"
  /\ IF c.name = "connect" /\ c.link = l
     THEN Renewed(V, W, NextSerial(V.k)) /\ W.conn = m.conn ELSE W = V
StepError(c, m, l, V, W) ==
  /\ m.what = "ERROR"
  /\ W = IF c.name = "connect" /\ c.link = l THEN [V EXCEPT !.k = SetFlags(V.k, {})]
         ELSE IF c.name = "recv" /\ c.link = l THEN [V EXCEPT !.k = [V.k EXCEPT !.available = 0]]
         ELSE V
StepData(c, m, l, V, W) ==
  /\ m.what = "DATA"
  /\ W = IF c.link = l
         THEN [V EXCEPT !.k = [V.k EXCEPT !.available =
                 IF m.len > V.k.available THEN 0 ELSE V.k.available - m.len]]
         ELSE V
StepStatus(c, m, l, V, W) ==
  /\ m.what = "STATUS"
  /\ IF c.name = "remote"
     THEN W = IF c.link = l /\ l \notin m.up THEN [V EXCEPT !.k = SetFlags(V.k, {})] ELSE V
     ELSE IF l \notin m.up THEN W = [V EXCEPT !.k = SetFlags(V.k, {})]
     ELSE IF Missing(V.k) THEN Renewed(V, W, Incoming(V.k)) ELSE W = V
StepLens(m, l, V, W) ==
  /\ m.what = "LENS"
  /\ ~ AT1 => (m.len[l] >= 0 => ~ Missing(V.k))
  /\ W = [V EXCEPT !.k =
            IF m.len[l] < 0 THEN [SetFlags(V.k, {}) EXCEPT !.available = 0]
            ELSE [V.k EXCEPT !.available = m.len[l]]]

StepAnswer(c, m, l, V, W) ==
  \/ StepOK(c, m, l, V, W) \/ StepError(c, m, l, V, W) \/ StepData(c, m, l, V, W)
  \/ StepStatus(c, m, l, V, W) \/ StepLens(m, l, V, W)

Step(c, m, l, V, W) == StepEvent(m, l, V, W) \/ StepAnswer(c, m, l, V, W)

\* What every view satisfies when n connections have been made and the sketch
\* has got, or is about to get, those of P.
Sound(V, n, P) ==
  /\ V.k.serial <= n /\ V.conn <= n
  /\ "INCOMING" \in V.k.flags => "CONNECTED" \in V.k.flags
  /\ ~ AT1 /\ "INCOMING" \in V.k.flags => V.conn \notin P

\* The driver, in the call c, gets from V to W when it reads the lines s.
Reach(V, W, s, c, l, n, P) ==
  \E f \in [0 .. Len(s) -> View] :
    /\ f[0] = V /\ f[Len(s)] = W
    /\ \A i \in 0 .. Len(s) : Sound(f[i], n, P)
    /\ \A i \in 1 .. Len(s) : Step(c, s[i], l, f[i - 1], f[i])

\* The id h is of the life of the link that V is of, or of an earlier one.
Earlier(h, V) ==
  /\ h.serial <= V.k.serial /\ (h.serial = V.k.serial => h.conn = V.conn)
  /\ ~ AT1 => h.conn <= V.conn /\ (h.conn = V.conn => h.serial = V.k.serial)

\* the connections the sketch has got or is about to get
Promised == given \cup {c \in 1 .. conns :
  \E i \in 1 .. Len(rx) : rx[i].what = "OK" /\ rx[i].conn = c}

\* connect() has chosen the link and waits for the firmware
Pending(l) == req.name = "start" /\ req.link = l

\* What the driver will believe of link l is what the firmware has.
Agrees(V, l) ==
  LET connected == "CONNECTED" \in V.k.flags IN
  /\ "CLOSING" \in V.k.flags =>
       connected /\ req.name = "close" /\ req.link = l /\ fw[l].up
  /\ connected /\ ~ Pending(l) => fw[l].up /\ V.conn = fw[l].conn
  /\ ~ connected /\ (Pending(l) \/ fw[l].up) => V.k.serial < conns
  /\ fw[l].up /\ Pending(l) => V.k.serial < conns

\* AT 2, where the driver is told of every end only when the data are read
Agrees2(V, l) ==
  /\ Pending(l) => V.k.flags = {"CONNECTED"} /\ V.k.available = 0 /\ ~ fw[l].up
  /\ ~ Pending(l) => ("CONNECTED" \in V.k.flags <=> fw[l].up)
  /\ ~ Pending(l) /\ "CLOSING" \notin V.k.flags => V.k.available = fw[l].data
  /\ ~ fw[l].up => fw[l].data = 0

\* Of link l: what the driver believes, the ids it has given out and what it will
\* make of the lines on their way.
Leads(V, W, l) ==
  /\ V.k = link[l] /\ \A h \in held : h.link = l => Earlier(h, V)
  /\ Reach(V, W, rx, call, l, conns, Promised)

LinkOK(l) ==
  \E V, W \in View : Leads(V, W, l) /\ Agrees(W, l) /\ (~ AT1 => Agrees2(W, l))

\* connect() will hand out a connection that was never handed out
Fresh ==
  \A i \in 1 .. Len(rx) : call.name = "connect" /\ rx[i].what = "OK" => rx[i].conn \in 1 .. conns \ given

TableInv ==
  Undisturbed => /\ \A g, h \in held : SameConnection(g, h)
                 /\ Fresh /\ \A l \in Links : LinkOK(l)

-----------------------------------------------------------------------------
(* Lemmas about what the driver will make of the line.                     *)

LEMMA ReachEnds ==
  ASSUME NEW V, NEW W, NEW s \in Seq(Lines), NEW c, NEW l, NEW n, NEW P, Reach(V, W, s, c, l, n, P)
  PROVE  V \in View /\ W \in View /\ Sound(V, n, P) /\ Sound(W, n, P)
<1>1. Len(s) \in Nat
  OBVIOUS
<1>2. 0 \in 0 .. Len(s) /\ Len(s) \in 0 .. Len(s)
  BY <1>1
<1> QED
  BY <1>2 DEF Reach

\* Nothing is on its way.
LEMMA ReachNil ==
  ASSUME NEW V, NEW W, NEW c, NEW l, NEW n, NEW P
  PROVE  Reach(V, W, <<>>, c, l, n, P) <=> V = W /\ V \in View /\ Sound(V, n, P)
<1>1. Len(<<>>) = 0 /\ 0 .. 0 = {0} /\ 1 .. 0 = {}
  OBVIOUS
<1>2. ASSUME Reach(V, W, <<>>, c, l, n, P) PROVE V = W /\ V \in View /\ Sound(V, n, P)
  BY <1>1, <1>2 DEF Reach
<1>3. ASSUME V = W, V \in View, Sound(V, n, P) PROVE Reach(V, W, <<>>, c, l, n, P)
  <2> DEFINE f == [i \in 0 .. Len(<<>>) |-> V]
  <2>1. f \in [0 .. Len(<<>>) -> View] /\ f[0] = V /\ f[Len(<<>>)] = W
    BY <1>1, <1>3
  <2>2. \A i \in 0 .. Len(<<>>) : Sound(f[i], n, P)
    BY <1>1, <1>3
  <2>3. \A i \in 1 .. Len(<<>>) : Step(c, <<>>[i], l, f[i - 1], f[i])
    BY <1>1
  <2> HIDE DEF f
  <2> QED
    BY <2>1, <2>2, <2>3 DEF Reach
<1> QED
  BY <1>2, <1>3

\* One more line is on its way.
LEMMA ReachAppend ==
  ASSUME NEW V, NEW W, NEW s \in Seq(Lines), NEW m \in Lines, NEW c, NEW l, NEW n, NEW P,
         Reach(V, W, s, c, l, n, P), NEW U \in View, Step(c, m, l, W, U), Sound(U, n, P)
  PROVE  Reach(V, U, Append(s, m), c, l, n, P)
<1> DEFINE t == Append(s, m)
           k == Len(s)
<1>1. k \in Nat /\ Len(t) = k + 1 /\ t[k + 1] = m /\ \A i \in 1 .. k : t[i] = s[i]
  OBVIOUS
<1>2. PICK f \in [0 .. k -> View] :
        /\ f[0] = V /\ f[k] = W
        /\ \A i \in 0 .. k : Sound(f[i], n, P)
        /\ \A i \in 1 .. k : Step(c, s[i], l, f[i - 1], f[i])
  BY DEF Reach
<1> HIDE DEF t, k
<1> DEFINE g == [i \in 0 .. k + 1 |-> IF i <= k THEN f[i] ELSE U]
<1>3. /\ g \in [0 .. k + 1 -> View] /\ g[0] = V /\ g[k + 1] = U /\ g[k] = W
      /\ \A i \in 0 .. k : g[i] = f[i]
  BY <1>1, <1>2
<1> HIDE DEF g
<1>4. \A i \in 0 .. k + 1 : i \in 0 .. k \/ i = k + 1
  BY <1>1
<1>5. \A i \in 0 .. k + 1 : Sound(g[i], n, P)
  BY <1>2, <1>3, <1>4
<1>6. ASSUME NEW i \in 1 .. k + 1 PROVE Step(c, t[i], l, g[i - 1], g[i])
  <2>1. CASE i \in 1 .. k
    <3>1. i - 1 \in 0 .. k /\ i \in 0 .. k
      BY <1>1, <2>1
    <3> QED
      BY <3>1, <2>1, <1>1, <1>2, <1>3
  <2>2. CASE i = k + 1
    <3>1. i - 1 = k
      BY <2>2, <1>1
    <3> QED
      BY <3>1, <2>2, <1>1, <1>3
  <2> QED
    BY <2>1, <2>2, <1>1
<1>7. Len(t) = k + 1
  BY <1>1
<1>8. Reach(V, U, t, c, l, n, P)
  BY <1>3, <1>5, <1>6, <1>7 DEF Reach
<1> QED
  BY <1>8 DEF t

\* The driver reads the oldest line.
LEMMA ReachTail ==
  ASSUME NEW V, NEW W, NEW s \in Seq(Lines), s # <<>>, NEW c, NEW l, NEW n, NEW P,
         Reach(V, W, s, c, l, n, P)
  PROVE  \E U \in View : /\ Step(c, Head(s), l, V, U) /\ Sound(U, n, P)
                         /\ Reach(U, W, Tail(s), c, l, n, P)
<1> DEFINE t == Tail(s)
           k == Len(s)
<1>1. k \in Nat /\ k >= 1 /\ Len(t) = k - 1 /\ Head(s) = s[1] /\ \A i \in 1 .. k - 1 : t[i] = s[i + 1]
  OBVIOUS
<1>2. PICK f \in [0 .. k -> View] :
        /\ f[0] = V /\ f[k] = W
        /\ \A i \in 0 .. k : Sound(f[i], n, P)
        /\ \A i \in 1 .. k : Step(c, s[i], l, f[i - 1], f[i])
  BY DEF Reach
<1> HIDE DEF t, k
<1> DEFINE g == [i \in 0 .. k - 1 |-> f[i + 1]]
<1>3. \A i \in 0 .. k - 1 : i + 1 \in 0 .. k /\ i + 1 \in 1 .. k
  BY <1>1
<1>4. /\ g \in [0 .. k - 1 -> View] /\ \A i \in 0 .. k - 1 : g[i] = f[i + 1]
  BY <1>2, <1>3
<1> HIDE DEF g
<1>5. g[0] = f[1] /\ g[k - 1] = W
  <2>1. 0 \in 0 .. k - 1 /\ k - 1 \in 0 .. k - 1 /\ 0 + 1 = 1 /\ (k - 1) + 1 = k
    BY <1>1
  <2> QED
    BY <2>1, <1>2, <1>4
<1>6. \A i \in 0 .. k - 1 : Sound(g[i], n, P)
  BY <1>2, <1>3, <1>4
<1>7. ASSUME NEW i \in 1 .. k - 1 PROVE Step(c, t[i], l, g[i - 1], g[i])
  <2>1. i \in 0 .. k - 1 /\ i - 1 \in 0 .. k - 1 /\ (i - 1) + 1 = i /\ (i + 1) - 1 = i /\ i + 1 \in 1 .. k
    BY <1>1
  <2>2. g[i] = f[i + 1] /\ g[i - 1] = f[i] /\ t[i] = s[i + 1]
    BY <2>1, <1>1, <1>4
  <2>3. Step(c, s[i + 1], l, f[(i + 1) - 1], f[i + 1])
    BY <2>1, <1>2
  <2> QED
    BY <2>1, <2>2, <2>3
<1>8. Reach(f[1], W, t, c, l, n, P)
  <2>1. Len(t) = k - 1
    BY <1>1
  <2> QED
    BY <2>1, <1>4, <1>5, <1>6, <1>7 DEF Reach
<1>9. f[1] \in View /\ Step(c, Head(s), l, V, f[1]) /\ Sound(f[1], n, P)
  <2>1. 1 \in 1 .. k /\ 1 \in 0 .. k /\ 1 - 1 = 0
    BY <1>1
  <2> QED
    BY <2>1, <1>1, <1>2
<1> QED
  BY <1>8, <1>9 DEF t

\* More connections have been made, others are promised.
LEMMA ReachSound ==
  ASSUME NEW V, NEW W, NEW s \in Seq(Lines), NEW c, NEW l, NEW n, NEW P, NEW n2, NEW P2,
         Reach(V, W, s, c, l, n, P), \A X \in View : Sound(X, n, P) => Sound(X, n2, P2)
  PROVE  Reach(V, W, s, c, l, n2, P2)
<1>1. PICK f \in [0 .. Len(s) -> View] :
        /\ f[0] = V /\ f[Len(s)] = W
        /\ \A i \in 0 .. Len(s) : Sound(f[i], n, P)
        /\ \A i \in 1 .. Len(s) : Step(c, s[i], l, f[i - 1], f[i])
  BY DEF Reach
<1>2. \A i \in 0 .. Len(s) : Sound(f[i], n2, P2)
  BY <1>1
<1> QED
  BY <1>1, <1>2 DEF Reach

\* Lines nobody asked for mean the same in every call.
LEMMA ReachCall ==
  ASSUME NEW V, NEW W, NEW s \in Seq(Lines), NEW c, NEW d, NEW l, NEW n, NEW P,
         Reach(V, W, s, c, l, n, P), \A i \in 1 .. Len(s) : s[i].what \in Unasked
  PROVE  Reach(V, W, s, d, l, n, P)
<1>1. PICK f \in [0 .. Len(s) -> View] :
        /\ f[0] = V /\ f[Len(s)] = W
        /\ \A i \in 0 .. Len(s) : Sound(f[i], n, P)
        /\ \A i \in 1 .. Len(s) : Step(c, s[i], l, f[i - 1], f[i])
  BY DEF Reach
<1>2. \A m, X, Y : m.what \in Unasked /\ Step(c, m, l, X, Y) => Step(d, m, l, X, Y)
  BY DEF Step, StepAnswer, StepOK, StepError, StepData, StepStatus, StepLens, Unasked
<1>3. \A i \in 1 .. Len(s) : Step(d, s[i], l, f[i - 1], f[i])
  BY <1>1, <1>2
<1> QED
  BY <1>1, <1>3 DEF Reach

\* An id given for a life of the link is of that life or an earlier one for ever.
LEMMA StepEarlier ==
  ASSUME NEW V \in View, NEW U \in View, NEW c, NEW m, NEW l, Step(c, m, l, V, U),
         NEW h \in Handle, Earlier(h, V)
  PROVE  Earlier(h, U)
<1>1. /\ V.k.serial \in Nat /\ U.k.serial \in Nat /\ V.conn \in Nat /\ U.conn \in Nat
      /\ h.serial \in Nat /\ h.conn \in Nat
  BY DEF View, Link, Handle
<1>2. \/ U.k.serial = V.k.serial /\ U.conn = V.conn
      \/ U.k.serial > V.k.serial /\ (~ AT1 => U.conn > V.conn)
  <2>1. CASE StepEvent(m, l, V, U)
    <3>1. CASE StepConnect(m, l, V, U)
      BY <3>1 DEF StepConnect, Renewed
    <3>2. CASE StepClosed(m, l, V, U)
      <4>1. Closed(V.k).serial = V.k.serial
        BY DEF Closed, SetFlags, View, Link
      <4> QED
        BY <3>2, <4>1 DEF StepClosed, View
    <3>3. CASE StepIPD(m, l, V, U)
      BY <3>3 DEF StepIPD, View, Link
    <3> QED
      BY <2>1, <3>1, <3>2, <3>3 DEF StepEvent
  <2>2. CASE StepOK(c, m, l, V, U)
    BY <2>2 DEF StepOK, Renewed
  <2>3. CASE StepError(c, m, l, V, U) \/ StepData(c, m, l, V, U)
    BY <2>3 DEF StepError, StepData, View, Link, SetFlags
  <2>4. CASE StepStatus(c, m, l, V, U)
    BY <2>4 DEF StepStatus, Renewed, View, Link, SetFlags
  <2>5. CASE StepLens(m, l, V, U)
    BY <2>5 DEF StepLens, View, Link, SetFlags
  <2> QED
    BY <2>1, <2>2, <2>3, <2>4, <2>5 DEF Step, StepAnswer
<1> QED
  BY <1>1, <1>2 DEF Earlier

-----------------------------------------------------------------------------
(* The driver reads.                                                       *)

LEMMA FewerPromises ==
  ASSUME NEW n, NEW P, NEW P2, P2 \subseteq P
  PROVE  \A X \in View : Sound(X, n, P) => Sound(X, n, P2)
BY DEF Sound

\* When the oldest line has been read, the driver is where it would have been.
LEMMA ReadsHead ==
  ASSUME TypeInv, NEW l \in Links, LinkOK(l), rx # <<>>, rx' = Tail(rx), UNCHANGED <<req, fw, conns>>,
         Promised' \subseteq Promised,
         call' = call \/ \A i \in 1 .. Len(rx') : rx'[i].what \in Unasked,
         \A V, U \in View :
           /\ V.k = link[l] /\ \A h \in held : h.link = l => Earlier(h, V)
           /\ Sound(V, conns, Promised) /\ Sound(U, conns, Promised)
           /\ Step(call, Head(rx), l, V, U)
           => U.k = link'[l] /\ \A h \in held' : h.link = l => Earlier(h, U)
  PROVE  LinkOK(l)'
<1>1. PICK V \in View, W \in View : Leads(V, W, l) /\ Agrees(W, l) /\ (~ AT1 => Agrees2(W, l))
  BY DEF LinkOK
<1>2. rx \in Seq(Lines) /\ rx' \in Seq(Lines)
  BY StateFields
<1>3. Reach(V, W, rx, call, l, conns, Promised)
  BY <1>1 DEF Leads
<1>4. Sound(V, conns, Promised)
  BY <1>2, <1>3, ReachEnds
<1>5. PICK U \in View : /\ Step(call, Head(rx), l, V, U) /\ Sound(U, conns, Promised)
                        /\ Reach(U, W, rx', call, l, conns, Promised)
  BY <1>2, <1>3, ReachTail
<1>6. U.k = link'[l] /\ \A h \in held' : h.link = l => Earlier(h, U)
  BY <1>1, <1>4, <1>5 DEF Leads
<1>7. Reach(U, W, rx', call, l, conns, Promised')
  BY <1>2, <1>5, FewerPromises, ReachSound
<1>8. Reach(U, W, rx', call', l, conns', Promised')
  <2>1. Reach(U, W, rx', call', l, conns, Promised')
    BY <1>2, <1>7, ReachCall
  <2> QED
    BY <2>1
<1>9. Leads(U, W, l)'
  BY <1>6, <1>8 DEF Leads
<1>10. Agrees(W, l)' /\ (~ AT1 => Agrees2(W, l)')
  BY <1>1 DEF Agrees, Agrees2, Pending
<1> QED
  BY <1>5, <1>1, <1>9, <1>10 DEF LinkOK

\* The steps of a line nobody asked for, and of an answer.
LEMMA StepKinds ==
  ASSUME NEW c, NEW m, NEW l, NEW V, NEW W, Step(c, m, l, V, W)
  PROVE  /\ m.what = "CONNECT" => StepConnect(m, l, V, W)
         /\ m.what = "CLOSED" => StepClosed(m, l, V, W)
         /\ m.what = "IPD" => StepIPD(m, l, V, W)
         /\ m.what = "OK" => StepOK(c, m, l, V, W)
         /\ m.what = "ERROR" => StepError(c, m, l, V, W)
         /\ m.what = "DATA" => StepData(c, m, l, V, W)
         /\ m.what = "STATUS" => StepStatus(c, m, l, V, W)
         /\ m.what = "LENS" => StepLens(m, l, V, W)
         /\ m.what # "READY"
BY DEF Step, StepEvent, StepAnswer, StepConnect, StepClosed, StepIPD, StepOK, StepError, StepData,
   StepStatus, StepLens

\* What a step leaves in the entry.
LEMMA EntryKept ==
  ASSUME NEW V \in View, NEW k
  PROVE  [V EXCEPT !.k = k].k = k /\ [V EXCEPT !.k = k].conn = V.conn
BY DEF View

LEMMA EventTable ==
  ASSUME TypeInv, ReadIPD \/ ReadConnect \/ ReadClosed, NEW l \in Links,
         NEW V \in View, NEW U \in View, V.k = link[l], Step(call, Head(rx), l, V, U)
  PROVE  U.k = link'[l]
<1> DEFINE m == Head(rx)
<1>1. link \in [Links -> Link] /\ m \in Lines
  <2>1. rx # <<>>
    BY DEF ReadIPD, ReadConnect, ReadClosed, Event
  <2> QED
    BY <2>1, StateFields
<1>2. CASE ReadIPD
  <2>1. m.what = "IPD" /\ m.link \in Links /\ link' = [link EXCEPT ![m.link].available = m.len]
    BY <1>1, <1>2, LineFields DEF ReadIPD, Event
  <2>2. U = IF m.link = l THEN [V EXCEPT !.k = [V.k EXCEPT !.available = m.len]] ELSE V
    BY <2>1, StepKinds DEF StepIPD
  <2> HIDE DEF m
  <2> QED
    BY <2>1, <2>2, <1>1, EntryKept
<1>3. CASE ReadConnect
  <2>1. /\ m.what = "CONNECT" /\ m.link \in Links
        /\ link' = [link EXCEPT ![m.link] =
             IF link[m.link].available = 0 /\ (~ Connected(m.link) \/ Has(m.link, "CLOSING"))
             THEN Incoming(@) ELSE @]
    BY <1>1, <1>3, LineFields DEF ReadConnect, Event
  <2>2. IF m.link = l /\ V.k.available = 0 /\ Missing(V.k) THEN Renewed(V, U, Incoming(V.k)) ELSE U = V
    BY <2>1, StepKinds DEF StepConnect
  <2> HIDE DEF m
  <2> QED
    BY <2>1, <2>2, <1>1 DEF Renewed, Missing, Connected, Has
<1>4. CASE ReadClosed
  <2>1. m.what = "CLOSED" /\ m.link \in Links /\ link' = [link EXCEPT ![m.link] = Closed(@)]
    BY <1>1, <1>4, LineFields DEF ReadClosed, Event
  <2>2. U = IF m.link = l THEN [V EXCEPT !.k = Closed(V.k)] ELSE V
    BY <2>1, StepKinds DEF StepClosed
  <2> HIDE DEF m
  <2> QED
    BY <2>1, <2>2, <1>1, EntryKept
<1> QED
  BY <1>2, <1>3, <1>4

LEMMA PromisesOfTail ==
  ASSUME TypeInv, rx # <<>>, rx' = Tail(rx), conns' = conns,
         given' = given \/ (Head(rx).what = "OK" /\ Head(rx).conn \in 1 .. conns
                              /\ given' = given \cup {Head(rx).conn})
  PROVE  Promised' \subseteq Promised
<1>1. /\ Head(rx) = rx[1] /\ Len(rx) \in Nat \ {0} /\ 1 \in 1 .. Len(rx)
      /\ \A i \in 1 .. Len(rx') : i + 1 \in 1 .. Len(rx) /\ rx'[i] = rx[i + 1]
  BY StateFields, TailOfLine
<1>2. given' \subseteq Promised
  BY <1>1 DEF Promised
<1>3. ASSUME NEW c \in 1 .. conns, NEW i \in 1 .. Len(rx'), rx'[i].what = "OK" /\ rx'[i].conn = c
      PROVE  c \in Promised
  BY <1>1, <1>3 DEF Promised
<1> QED
  BY <1>2, <1>3 DEF Promised

\* A line nobody asked for is read.
LEMMA EventInv ==
  ASSUME TypeInv, TableInv, Undisturbed, ReadIPD \/ ReadConnect \/ ReadClosed
  PROVE  TableInv'
<1>1. /\ rx # <<>> /\ rx' = Tail(rx) /\ Head(rx).what \in Unasked
      /\ UNCHANGED <<call, req, fw, held, conns, given, faults>>
  BY DEF ReadIPD, ReadConnect, ReadClosed, Event, Unasked
<1>2. \A i \in 1 .. Len(rx') : i + 1 \in 1 .. Len(rx) /\ rx'[i] = rx[i + 1]
  BY <1>1, StateFields, TailOfLine
<1>3. \A g, h \in held' : SameConnection(g, h)
  BY <1>1 DEF TableInv
<1>4. Fresh'
  BY <1>1, <1>2 DEF TableInv, Fresh
<1>5. ASSUME NEW l \in Links PROVE LinkOK(l)'
  <2>1. LinkOK(l)
    BY DEF TableInv
  <2>2. Promised' \subseteq Promised
    BY <1>1, PromisesOfTail
  <2>3. ASSUME NEW V \in View, NEW U \in View, V.k = link[l], Step(call, Head(rx), l, V, U),
               \A h \in held : h.link = l => Earlier(h, V)
        PROVE  U.k = link'[l] /\ \A h \in held' : h.link = l => Earlier(h, U)
    <3>1. U.k = link'[l]
      BY <2>3, EventTable
    <3>2. \A h \in held' : h \in held /\ h \in Handle
      BY <1>1, StateFields
    <3> QED
      BY <2>3, <3>1, <3>2, StepEarlier
  <2> QED
    BY <1>1, <2>1, <2>2, <2>3, ReadsHead
<1> QED
  BY <1>3, <1>4, <1>5 DEF TableInv

\* The table after an answer is what the driver would make of it.
LEMMA AnswerTable ==
  ASSUME TypeInv,
         ConnectOK \/ ConnectError \/ CloseDone \/ RecvData \/ RecvError \/ RemoteDone
           \/ CheckLinks \/ RecvLens \/ ResetDone,
         NEW l \in Links, NEW V \in View, NEW U \in View, V.k = link[l],
         Step(call, Head(rx), l, V, U)
  PROVE  U.k = link'[l]
<1> DEFINE m == Head(rx)
<1>1. /\ link \in [Links -> Link] /\ link[l] \in Link /\ call \in Calls /\ req \in Requests
      /\ m \in Lines /\ (call.name \in {"connect", "recv", "remote"} => call.link \in Links)
  <2>1. rx # <<>>
    BY DEF ConnectOK, ConnectError, CloseDone, RecvData, RecvError, RemoteDone, CheckLinks, RecvLens,
           ResetDone, Got
  <2> QED
    BY <2>1, StateFields, CallFields
<1>2. CASE ConnectOK
  <2>1. m.what = "OK" /\ call.name = "connect" /\ link' = [link EXCEPT ![call.link] = NextSerial(@)]
    BY <1>2 DEF ConnectOK, Got
  <2>2. IF call.link = l THEN U.k = NextSerial(V.k) ELSE U = V
    BY <2>1, StepKinds DEF StepOK, Renewed
  <2> QED
    BY <2>1, <2>2, <1>1
<1>3. CASE ConnectError
  <2>1. m.what = "ERROR" /\ call.name = "connect" /\ link' = [link EXCEPT ![call.link] = SetFlags(@, {})]
    BY <1>3 DEF ConnectError, Got
  <2>2. U = IF call.link = l THEN [V EXCEPT !.k = SetFlags(V.k, {})] ELSE V
    BY <2>1, StepKinds DEF StepError
  <2> QED
    BY <2>1, <2>2, <1>1, EntryKept
<1>4. CASE CloseDone
  <2>1. m.what \in {"OK", "ERROR"} /\ call.name = "close" /\ link' = link
    BY <1>4 DEF CloseDone, Got
  <2>2. U = V
    BY <2>1, StepKinds DEF StepOK, StepError
  <2> QED
    BY <2>1, <2>2
<1>5. CASE RecvData
  <2>1. /\ m.what = "DATA" /\ call.name = "recv"
        /\ link' = [link EXCEPT ![call.link].available = IF m.len > @ THEN 0 ELSE @ - m.len]
    BY <1>5 DEF RecvData, Got
  <2>2. U = IF call.link = l
            THEN [V EXCEPT !.k = [V.k EXCEPT !.available =
                    IF m.len > V.k.available THEN 0 ELSE V.k.available - m.len]]
            ELSE V
    BY <2>1, StepKinds DEF StepData
  <2> HIDE DEF m
  <2> QED
    BY <2>1, <2>2, <1>1, EntryKept
<1>6. CASE RecvError
  <2>1. m.what = "ERROR" /\ call.name = "recv" /\ link' = [link EXCEPT ![call.link].available = 0]
    BY <1>6 DEF RecvError, Got
  <2>2. U = IF call.link = l THEN [V EXCEPT !.k = [V.k EXCEPT !.available = 0]] ELSE V
    BY <2>1, StepKinds DEF StepError
  <2> QED
    BY <2>1, <2>2, <1>1, EntryKept
<1>7. CASE RemoteDone
  <2>1. /\ m.what = "STATUS" /\ call.name = "remote"
        /\ link' = IF call.link \in m.up THEN link ELSE [link EXCEPT ![call.link] = SetFlags(@, {})]
    BY <1>7 DEF RemoteDone, Got
  <2>2. U = IF call.link = l /\ l \notin m.up THEN [V EXCEPT !.k = SetFlags(V.k, {})] ELSE V
    BY <2>1, StepKinds DEF StepStatus
  <2> HIDE DEF m
  <2> QED
    BY <2>1, <2>2, <1>1, EntryKept
<1>8. CASE CheckLinks
  <2>1. /\ m.what = "STATUS" /\ call.name = "checkLinks"
        /\ link'[l] = IF l \notin m.up THEN SetFlags(link[l], {})
                      ELSE IF Missed(l) THEN Incoming(link[l]) ELSE link[l]
    BY <1>8 DEF CheckLinks, Got
  <2>2. IF l \notin m.up THEN U = [V EXCEPT !.k = SetFlags(V.k, {})]
        ELSE IF Missing(V.k) THEN U.k = Incoming(V.k) ELSE U = V
    BY <2>1, StepKinds DEF StepStatus, Renewed
  <2>3. Missing(V.k) = Missed(l)
    BY DEF Missing, Missed, Connected, Has
  <2> HIDE DEF m
  <2> QED
    BY <2>1, <2>2, <2>3, EntryKept
<1>9. CASE RecvLens
  <2>1. /\ m.what = "LENS"
        /\ link'[l] = IF AT1 THEN [link[l] EXCEPT !.available = m.len[l]]
                      ELSE IF m.len[l] < 0 THEN [SetFlags(link[l], {}) EXCEPT !.available = 0]
                      ELSE [link[l] EXCEPT !.available = m.len[l],
                              !.flags = IF Missed(l) THEN {"CONNECTED", "INCOMING"} ELSE @]
    BY <1>9 DEF RecvLens, Got
  <2>2. m.len[l] \in (IF AT1 THEN 0 ELSE -1) .. MaxData
    BY <1>1, <2>1, LineFields
  <2>3. /\ ~ AT1 => (m.len[l] >= 0 => ~ Missing(V.k))
        /\ U = [V EXCEPT !.k = IF m.len[l] < 0 THEN [SetFlags(V.k, {}) EXCEPT !.available = 0]
                               ELSE [V.k EXCEPT !.available = m.len[l]]]
    BY <2>1, StepKinds DEF StepLens
  <2>4. U.k = IF m.len[l] < 0 THEN [SetFlags(link[l], {}) EXCEPT !.available = 0]
              ELSE [link[l] EXCEPT !.available = m.len[l]]
    BY <2>3, EntryKept
  <2>5. m.len[l] < 0 \/ m.len[l] >= 0
    BY <2>2
  <2>6. CASE AT1
    <3>1. ~ m.len[l] < 0
      BY <2>2, <2>6
    <3> QED
      BY <3>1, <2>1, <2>4, <2>6
  <2>7. CASE ~ AT1 /\ m.len[l] < 0
    BY <2>1, <2>4, <2>7
  <2>8. CASE ~ AT1 /\ m.len[l] >= 0
    <3>1. ~ Missed(l) /\ ~ m.len[l] < 0
      BY <2>2, <2>3, <2>8 DEF Missing, Missed, Connected, Has
    <3>2. [link[l] EXCEPT !.available = m.len[l], !.flags = @] = [link[l] EXCEPT !.available = m.len[l]]
      BY <1>1 DEF Link
    <3> HIDE DEF m
    <3> QED
      BY <3>1, <3>2, <2>1, <2>4, <2>8
  <2> QED
    BY <2>5, <2>6, <2>7, <2>8
<1>10. CASE ResetDone
  BY <1>10, StepKinds DEF ResetDone, Got
<1> QED
  BY <1>2, <1>3, <1>4, <1>5, <1>6, <1>7, <1>8, <1>9, <1>10

\* An answer is read.
LEMMA ReturnInv ==
  ASSUME TypeInv, TableInv, Undisturbed,
         ConnectOK \/ ConnectError \/ CloseDone \/ RecvData \/ RecvError \/ RemoteDone
           \/ CheckLinks \/ RecvLens \/ ResetDone
  PROVE  TableInv'
<1>1. rx # <<>> /\ rx' = Tail(rx) /\ UNCHANGED <<req, fw, conns, faults>>
  BY DEF ConnectOK, ConnectError, CloseDone, RecvData, RecvError, RemoteDone, CheckLinks, RecvLens,
         ResetDone, Got
<1>2. \A i \in 1 .. Len(rx') : rx'[i].what \in Unasked
  BY ReturnTypes
<1>3. Fresh'
  BY <1>2 DEF Fresh, Unasked
<1>4. Head(rx) = rx[1] /\ 1 \in 1 .. Len(rx) /\ Head(rx) \in Lines
  BY <1>1, StateFields
<1>5. CASE ConnectOK
  <2> DEFINE k == call.link
             c == Head(rx).conn
             h == [link |-> k, serial |-> link'[k].serial, conn |-> c]
  <2>1. /\ k \in Links /\ Head(rx).what = "OK" /\ call.name = "connect"
        /\ held' = held \cup {h} /\ given' = given \cup {c}
    BY <1>5, StateFields, CallFields DEF ConnectOK, Got
  <2>2. c \in 1 .. conns \ given
    BY <1>4, <2>1 DEF TableInv, Fresh
  <2>3. Promised' \subseteq Promised
    BY <1>1, <2>1, <2>2, PromisesOfTail
  <2>4. h.link = k /\ h.serial = link'[k].serial /\ h.conn = c
    OBVIOUS
  <2> HIDE DEF k, c, h
  <2>5. \A g \in held' : g \in Handle
    BY ReturnTypes, StateFields DEF TypeInv, TypeOK
  <2>6. ASSUME NEW l \in Links, NEW V \in View, NEW U \in View, V.k = link[l],
               \A g \in held : g.link = l => Earlier(g, V),
               Step(call, Head(rx), l, V, U)
        PROVE  /\ U.k = link'[l] /\ \A g \in held' : g.link = l => Earlier(g, U)
               /\ l = k => \A g \in held : g.link = l => g.serial < U.k.serial
    <3>1. U.k = link'[l]
      BY <1>5, <2>6, AnswerTable
    <3>2. \A g \in held : g.link = l => Earlier(g, U)
      BY <2>6, StepEarlier, StateFields
    <3>3. l = k => U.conn = c /\ U.k.serial > V.k.serial
      BY <2>1, <2>6, StepKinds DEF StepOK, Renewed, k, c
    <3>4. l = k => Earlier(h, U)
      <4>1. U.k.serial \in Nat /\ U.conn \in Nat
        BY DEF View, Link
      <4> QED
        BY <3>1, <3>3, <4>1, <2>4 DEF Earlier
    <3>5. l = k => \A g \in held : g.link = l => g.serial < U.k.serial
      <4>1. U.k.serial \in Nat /\ V.k.serial \in Nat /\ \A g \in held : g.serial \in Nat
        BY StateFields DEF View, Link
      <4> QED
        BY <4>1, <3>3, <2>6 DEF Earlier
    <3> QED
      BY <3>1, <3>2, <3>4, <3>5, <2>1, <2>4
  <2>7. ASSUME NEW l \in Links PROVE LinkOK(l)'
    <3>1. LinkOK(l)
      BY DEF TableInv
    <3> QED
      BY <3>1, <1>1, <1>2, <2>3, <2>6, ReadsHead
  <2>8. \A g \in held : ~ (g.link = h.link /\ g.serial = h.serial)
    <3>1. LinkOK(k)
      BY <2>1 DEF TableInv
    <3>2. PICK V \in View, W \in View : Leads(V, W, k)
      BY <3>1 DEF LinkOK
    <3>3. PICK U \in View : Step(call, Head(rx), k, V, U)
      BY <3>2, <1>1, StateFields, ReachTail DEF Leads
    <3>4. U.k = link'[k] /\ \A g \in held : g.link = k => g.serial < U.k.serial
      BY <2>1, <2>6, <3>2, <3>3 DEF Leads
    <3>5. U.k.serial \in Nat /\ \A g \in held : g.serial \in Nat
      BY StateFields DEF View, Link
    <3> QED
      BY <3>4, <3>5, <2>4
  <2>9. \A g, j \in held' : SameConnection(g, j)
    BY <2>1, <2>8 DEF TableInv, SameConnection
  <2> QED
    BY <1>3, <2>7, <2>9 DEF TableInv
<1>6. CASE ~ ConnectOK
  <2>1. UNCHANGED <<held, given>>
    BY <1>6 DEF ConnectError, CloseDone, RecvData, RecvError, RemoteDone, CheckLinks, RecvLens,
                ResetDone
  <2>2. Promised' \subseteq Promised
    BY <1>1, <2>1, PromisesOfTail
  <2>3. \A g, j \in held' : SameConnection(g, j)
    BY <2>1 DEF TableInv
  <2>4. ASSUME NEW l \in Links PROVE LinkOK(l)'
    <3>1. LinkOK(l)
      BY DEF TableInv
    <3>2. ASSUME NEW V \in View, NEW U \in View, V.k = link[l],
                 \A g \in held : g.link = l => Earlier(g, V), Step(call, Head(rx), l, V, U)
          PROVE  U.k = link'[l] /\ \A g \in held' : g.link = l => Earlier(g, U)
      <4>1. U.k = link'[l]
        BY <3>2, AnswerTable
      <4> QED
        BY <4>1, <3>2, <2>1, StepEarlier, StateFields
    <3> QED
      BY <3>1, <1>1, <1>2, <2>2, <3>2, ReadsHead
  <2> QED
    BY <1>3, <2>3, <2>4 DEF TableInv
<1> QED
  BY <1>5, <1>6

-----------------------------------------------------------------------------
(* The sketch calls, when nothing is on its way.                           *)

\* With nothing on its way the table itself agrees with the firmware.
LEMMA AtRest ==
  ASSUME rx = <<>>, NEW l \in Links
  PROVE  LinkOK(l) <=>
           \E V \in View : /\ V.k = link[l] /\ \A h \in held : h.link = l => Earlier(h, V)
                           /\ Sound(V, conns, Promised) /\ Agrees(V, l) /\ (~ AT1 => Agrees2(V, l))
BY ReachNil DEF LinkOK, Leads

\* A call sends its command.  The entry and the ids may change with it.
LEMMA SendInv ==
  ASSUME TypeInv, TableInv, Undisturbed, rx = <<>>, rx' = <<>>,
         UNCHANGED <<fw, conns, faults, given>>, held' \subseteq held,
         \A l \in Links, V \in View :
           /\ V.k = link[l] /\ Sound(V, conns, Promised) /\ Agrees(V, l)
           /\ ~ AT1 => Agrees2(V, l)
           => /\ link'[l] \in Link /\ link'[l].serial = V.k.serial
              /\ "INCOMING" \in link'[l].flags => "INCOMING" \in V.k.flags /\ "CONNECTED" \in link'[l].flags
              /\ \A U \in View : U.k = link'[l] /\ U.conn = V.conn =>
                   Agrees(U, l)' /\ (~ AT1 => Agrees2(U, l)')
  PROVE  TableInv'
<1>1. Promised' = Promised
  <2>1. Len(rx) = 0 /\ Len(rx') = 0
    OBVIOUS
  <2> QED
    BY <2>1 DEF Promised
<1>2. Fresh'
  <2>1. Len(rx') = 0
    OBVIOUS
  <2> QED
    BY <2>1 DEF Fresh
<1>3. \A g, h \in held' : SameConnection(g, h)
  BY DEF TableInv
<1>4. ASSUME NEW l \in Links PROVE LinkOK(l)'
  <2>1. PICK V \in View : /\ V.k = link[l] /\ \A h \in held : h.link = l => Earlier(h, V)
                          /\ Sound(V, conns, Promised) /\ Agrees(V, l) /\ (~ AT1 => Agrees2(V, l))
    BY AtRest DEF TableInv
  <2>2. /\ link'[l] \in Link /\ link'[l].serial = V.k.serial
        /\ "INCOMING" \in link'[l].flags => "INCOMING" \in V.k.flags /\ "CONNECTED" \in link'[l].flags
        /\ \A X \in View : X.k = link'[l] /\ X.conn = V.conn =>
             Agrees(X, l)' /\ (~ AT1 => Agrees2(X, l)')
    BY <2>1
  <2>3. PICK U \in View : U.k = link'[l] /\ U.conn = V.conn
    <3>1. [k |-> link'[l], conn |-> V.conn] \in View
      BY <2>2 DEF View
    <3> QED
      BY <3>1
  <2>4. \A h \in held' : h.link = l => Earlier(h, U)
    BY <2>1, <2>2, <2>3 DEF Earlier
  <2>5. Sound(U, conns', Promised')
    BY <2>1, <2>2, <2>3, <1>1 DEF Sound
  <2>6. Reach(U, U, rx', call', l, conns', Promised')
    BY <2>3, <2>5, ReachNil
  <2>7. Leads(U, U, l)'
    BY <2>3, <2>4, <2>6 DEF Leads
  <2> QED
    BY <2>2, <2>3, <2>7 DEF LinkOK
<1> QED
  BY <1>2, <1>3, <1>4 DEF TableInv

\* Calls that leave the table alone.
LEMMA AskInv ==
  ASSUME TypeInv, TableInv, Undisturbed,
         \/ \E h \in held : Remote(h) \/ Poll(h) \/ \E n \in 1 .. MaxData : Recv(h, n)
         \/ RecvLenQuery
  PROVE  TableInv'
<1>1. rx = <<>> /\ rx' = <<>> /\ UNCHANGED <<fw, conns, faults, given>>
  BY StartTypes
<1>2. UNCHANGED <<link, held>> /\ call.name \in {"none", "checkedLinks"}
      /\ req'.name \in {"status", "lens", "recv"}
  BY DEF Remote, Poll, Recv, RecvLenQuery, StartCall, Send
<1>3. req = Idle
  BY <1>2 DEF TypeInv, CallsOK, Serves
<1>4. ASSUME NEW l \in Links, NEW V \in View, V.k = link[l], Agrees(V, l), ~ AT1 => Agrees2(V, l),
             NEW U \in View, U.k = link'[l], U.conn = V.conn
      PROVE  Agrees(U, l)' /\ (~ AT1 => Agrees2(U, l)')
  BY <1>1, <1>2, <1>3, <1>4 DEF Agrees, Agrees2, Pending, Idle
<1>5. ASSUME NEW l \in Links, NEW V \in View, V.k = link[l], Sound(V, conns, Promised)
      PROVE  /\ link'[l] \in Link /\ link'[l].serial = V.k.serial
             /\ "INCOMING" \in link'[l].flags => "INCOMING" \in V.k.flags /\ "CONNECTED" \in link'[l].flags
  BY <1>2, <1>5 DEF Sound, View
<1> QED
  BY <1>1, <1>2, <1>4, <1>5, SendInv

LEMMA ConnectInv ==
  ASSUME TypeInv, TableInv, Undisturbed, NEW k \in Links, Connect(k)
  PROVE  TableInv'
<1>1. rx = <<>> /\ rx' = <<>> /\ UNCHANGED <<fw, conns, faults, given, held>>
  BY StartTypes DEF Connect
<1>2. /\ req = Idle /\ req' = [name |-> "start", link |-> k] /\ Free(k)
      /\ link' = [link EXCEPT ![k] = SetFlags(@, {"CONNECTED"})] /\ link \in [Links -> Link]
  BY StateFields, CallFields DEF Connect, StartCall, Send, TypeInv, CallsOK, Serves
<1>3. SetFlags(link[k], {"CONNECTED"}) \in Link
  <2>1. {"CONNECTED"} \in SUBSET Flags
    BY DEF Flags
  <2> QED
    BY <2>1, <1>2, EntryTypes
<1>4. /\ SetFlags(link[k], {"CONNECTED"}).serial = link[k].serial
      /\ SetFlags(link[k], {"CONNECTED"}).flags = {"CONNECTED"}
      /\ SetFlags(link[k], {"CONNECTED"}).available = link[k].available
  BY <1>2 DEF SetFlags, Link
<1>5. \A l \in Links : Pending(l)' <=> l = k
  BY <1>2 DEF Pending
<1>6. \A l \in Links : ~ Pending(l)
  BY <1>2 DEF Pending, Idle
<1>7. /\ "CONNECTED" \notin link[k].flags /\ "CLOSING" \notin link[k].flags /\ link[k].available = 0
  BY <1>2 DEF Free, Connected, Has
<1>8. ASSUME NEW l \in Links, NEW V \in View, V.k = link[l], Agrees(V, l), ~ AT1 => Agrees2(V, l),
             NEW U \in View, U.k = link'[l], U.conn = V.conn
      PROVE  Agrees(U, l)' /\ (~ AT1 => Agrees2(U, l)')
  <2>1. CASE l = k
    <3>1. U.k.flags = {"CONNECTED"} /\ U.k.available = 0 /\ U.k.serial = V.k.serial
      BY <2>1, <1>2, <1>4, <1>7, <1>8
    <3>2. Agrees(U, l)'
      BY <3>1, <2>1, <1>1, <1>5, <1>6, <1>7, <1>8 DEF Agrees
    <3>3. ~ AT1 => Agrees2(U, l)'
      BY <3>1, <2>1, <1>1, <1>5, <1>6, <1>7, <1>8 DEF Agrees2
    <3> QED
      BY <3>2, <3>3
  <2>2. CASE l # k
    <3>1. U.k = V.k /\ "CLOSING" \notin V.k.flags
      BY <2>2, <1>2, <1>8 DEF Agrees, Idle
    <3> QED
      BY <3>1, <2>2, <1>1, <1>5, <1>6, <1>8 DEF Agrees, Agrees2
  <2> QED
    BY <2>1, <2>2
<1>9. ASSUME NEW l \in Links, NEW V \in View, V.k = link[l], Sound(V, conns, Promised)
      PROVE  /\ link'[l] \in Link /\ link'[l].serial = V.k.serial
             /\ "INCOMING" \in link'[l].flags => "INCOMING" \in V.k.flags /\ "CONNECTED" \in link'[l].flags
  BY <1>2, <1>3, <1>4, <1>9 DEF Sound
<1> QED
  BY <1>1, <1>8, <1>9, SendInv

LEMMA CloseInv ==
  ASSUME TypeInv, TableInv, Undisturbed, NEW h \in held, Close(h)
  PROVE  TableInv'
<1> DEFINE k == h.link
<1>1. rx = <<>> /\ rx' = <<>> /\ UNCHANGED <<fw, conns, faults, given>> /\ held' \subseteq held
  BY StartTypes DEF Close
<1>2. /\ req = Idle /\ req' = [name |-> "close", link |-> k] /\ "CONNECTED" \in link[k].flags
      /\ k \in Links /\ link \in [Links -> Link]
      /\ link' = [link EXCEPT ![k].flags = @ \cup {"CLOSING"}, ![k].available = 0]
  BY StateFields, CallFields DEF Close, StartCall, Send, TypeInv, CallsOK, Serves, Active, CheckLinkId,
                                 Connected, Has
<1> HIDE DEF k
<1>3. /\ link'[k].serial = link[k].serial /\ link'[k].flags = link[k].flags \cup {"CLOSING"}
      /\ link'[k].available = 0 /\ \A l \in Links : l # k => link'[l] = link[l]
  BY <1>2 DEF Link
<1>4. link' \in [Links -> Link]
  BY StartTypes DEF TypeInv, TypeOK
<1>5. \A l \in Links : ~ Pending(l)' /\ ~ Pending(l)
  BY <1>2 DEF Pending, Idle
<1>6. ASSUME NEW l \in Links, NEW V \in View, V.k = link[l], Agrees(V, l), ~ AT1 => Agrees2(V, l),
             NEW U \in View, U.k = link'[l], U.conn = V.conn
      PROVE  Agrees(U, l)' /\ (~ AT1 => Agrees2(U, l)')
  <2>1. CASE l = k
    <3>1. /\ U.k.flags = V.k.flags \cup {"CLOSING"} /\ U.k.serial = V.k.serial
          /\ "CONNECTED" \in V.k.flags
      BY <2>1, <1>2, <1>3, <1>6
    <3>2. Agrees(U, l)'
      BY <3>1, <2>1, <1>1, <1>2, <1>5, <1>6 DEF Agrees
    <3>3. ~ AT1 => Agrees2(U, l)'
      BY <3>1, <2>1, <1>1, <1>2, <1>5, <1>6 DEF Agrees2
    <3> QED
      BY <3>2, <3>3
  <2>2. CASE l # k
    <3>1. U.k = V.k /\ "CLOSING" \notin V.k.flags
      BY <2>2, <1>2, <1>3, <1>6 DEF Agrees, Idle
    <3> QED
      BY <3>1, <2>2, <1>1, <1>5, <1>6 DEF Agrees, Agrees2
  <2> QED
    BY <2>1, <2>2
<1>7. ASSUME NEW l \in Links, NEW V \in View, V.k = link[l], Sound(V, conns, Promised)
      PROVE  /\ link'[l] \in Link /\ link'[l].serial = V.k.serial
             /\ "INCOMING" \in link'[l].flags => "INCOMING" \in V.k.flags /\ "CONNECTED" \in link'[l].flags
  BY <1>2, <1>3, <1>4, <1>7 DEF Sound
<1> QED
  BY <1>1, <1>6, <1>7, SendInv

LEMMA ForgetInv ==
  ASSUME TypeInv, TableInv, Undisturbed, NEW h \in held, Forget(h)
  PROVE  TableInv'
<1>1. /\ rx = <<>> /\ rx' = <<>> /\ UNCHANGED <<link, call, req, rx, fw, conns, given, faults>>
      /\ held' \subseteq held /\ link \in [Links -> Link]
  BY StateFields DEF Forget, Quiet
<1>2. ASSUME NEW l \in Links, NEW V \in View, V.k = link[l], Agrees(V, l), ~ AT1 => Agrees2(V, l),
             NEW U \in View, U.k = link'[l], U.conn = V.conn
      PROVE  Agrees(U, l)' /\ (~ AT1 => Agrees2(U, l)')
  BY <1>1, <1>2 DEF Agrees, Agrees2, Pending
<1>3. ASSUME NEW l \in Links, NEW V \in View, V.k = link[l], Sound(V, conns, Promised)
      PROVE  /\ link'[l] \in Link /\ link'[l].serial = V.k.serial
             /\ "INCOMING" \in link'[l].flags => "INCOMING" \in V.k.flags /\ "CONNECTED" \in link'[l].flags
  BY <1>1, <1>3 DEF Sound
<1> QED
  BY <1>1, <1>2, <1>3, SendInv

\* What holds of a link whose connection accept() returns.
LEMMA Accepted ==
  ASSUME TypeInv, TableInv, Undisturbed, Quiet, NEW l \in Links, "INCOMING" \in link[l].flags,
         NEW V \in View, V.k = link[l], Sound(V, conns, Promised), Agrees(V, l)
  PROVE  /\ V.conn = fw[l].conn /\ fw[l].up /\ fw[l].conn > 0
         /\ ~ AT1 => fw[l].conn \notin Promised
<1>1. req = Idle /\ ~ Pending(l)
  BY DEF TypeInv, TypeOK, Quiet, Pending, Idle
<1>2. "CONNECTED" \in V.k.flags
  BY DEF Sound
<1>3. fw[l].up /\ V.conn = fw[l].conn
  BY <1>1, <1>2 DEF Agrees
<1>4. fw[l].conn > 0
  BY <1>3 DEF TypeInv, ConnsMade
<1> QED
  BY <1>3, <1>4 DEF Sound

LEMMA AcceptInv ==
  ASSUME TypeInv, TableInv, Undisturbed, NEW k \in Links, Accept(k)
  PROVE  TableInv'
<1> DEFINE h == [link |-> k, serial |-> link[k].serial, conn |-> fw[k].conn]
<1>1. /\ rx = <<>> /\ rx' = <<>> /\ Quiet /\ UNCHANGED <<call, req, rx, fw, conns, faults>>
      /\ "INCOMING" \in link[k].flags /\ link' = [link EXCEPT ![k].flags = @ \ {"INCOMING"}]
      /\ held' = held \cup {h} /\ given' = given \cup {fw[k].conn}
      /\ link \in [Links -> Link] /\ held \subseteq Handle
  BY StateFields DEF Accept, Quiet, Has
<1>2. h.link = k /\ h.serial = link[k].serial /\ h.conn = fw[k].conn
  OBVIOUS
<1> HIDE DEF h
<1>3. /\ link'[k].serial = link[k].serial /\ link'[k].flags = link[k].flags \ {"INCOMING"}
      /\ link'[k].available = link[k].available /\ \A l \in Links : l # k => link'[l] = link[l]
  BY <1>1 DEF Link
<1>4. link' \in [Links -> Link]
  BY AcceptTypes DEF TypeInv, TypeOK
<1>5. Fresh' /\ Promised = given /\ Promised' = given \cup {fw[k].conn}
  <2>1. Len(rx) = 0 /\ Len(rx') = 0
    BY <1>1
  <2> QED
    BY <2>1, <1>1 DEF Promised, Fresh
<1>6. PICK K \in View : /\ K.k = link[k] /\ \A g \in held : g.link = k => Earlier(g, K)
                        /\ Sound(K, conns, Promised) /\ Agrees(K, k) /\ (~ AT1 => Agrees2(K, k))
  BY <1>1, AtRest DEF TableInv
<1>7. K.conn = fw[k].conn /\ fw[k].conn > 0
  BY <1>1, <1>6, Accepted
<1>8. \A g, j \in held' : SameConnection(g, j)
  <2>1. \A g \in held : g.link = h.link /\ g.serial = h.serial => g = h
    <3>1. \A g \in held : g.link = h.link /\ g.serial = h.serial => g.conn = h.conn
      BY <1>2, <1>6, <1>7 DEF Earlier
    <3>2. h \in Handle
      BY AcceptTypes, <1>1 DEF TypeInv, TypeOK
    <3> QED
      BY <3>1, <3>2, <1>1 DEF Handle
  <2> QED
    BY <2>1, <1>1 DEF TableInv, SameConnection
<1>9. ASSUME NEW l \in Links PROVE LinkOK(l)'
  <2>1. PICK V \in View : /\ V.k = link[l] /\ \A g \in held : g.link = l => Earlier(g, V)
                          /\ Sound(V, conns, Promised) /\ Agrees(V, l) /\ (~ AT1 => Agrees2(V, l))
                          /\ (l = k => V = K)
    <3>1. CASE l = k
      BY <3>1, <1>6
    <3>2. CASE l # k
      BY <3>2, <1>1, AtRest DEF TableInv
    <3> QED
      BY <3>1, <3>2
  <2>2. PICK U \in View : U.k = link'[l] /\ U.conn = V.conn
    <3>1. [k |-> link'[l], conn |-> V.conn] \in View
      BY <1>4 DEF View
    <3> QED
      BY <3>1
  <2>3. /\ U.k.serial = V.k.serial /\ U.k.available = V.k.available
        /\ U.k.flags = IF l = k THEN V.k.flags \ {"INCOMING"} ELSE V.k.flags
    BY <2>1, <2>2, <1>3
  <2>4. \A g \in held' : g.link = l => Earlier(g, U)
    <3>1. \A g \in held : g.link = l => Earlier(g, U)
      BY <2>1, <2>2, <2>3 DEF Earlier
    <3>2. l = k => Earlier(h, U)
      <4>1. U.k.serial \in Nat /\ U.conn \in Nat
        BY <2>2 DEF View, Link
      <4> QED
        BY <4>1, <2>1, <2>2, <2>3, <1>2, <1>7 DEF Earlier
    <3> QED
      BY <3>1, <3>2, <1>1, <1>2
  <2>5. Sound(U, conns', Promised')
    <3>1. U.k.serial <= conns' /\ U.conn <= conns'
      BY <2>1, <2>2, <2>3, <1>1 DEF Sound
    <3>2. "INCOMING" \in U.k.flags => "CONNECTED" \in U.k.flags
      BY <2>1, <2>3 DEF Sound
    <3>3. ~ AT1 /\ "INCOMING" \in U.k.flags => U.conn \notin Promised'
      <4>1. SUFFICES ASSUME ~ AT1, "INCOMING" \in U.k.flags PROVE U.conn \notin Promised'
        OBVIOUS
      <4>2. l # k /\ "INCOMING" \in link[l].flags
        BY <4>1, <2>1, <2>3
      <4>3. V.conn = fw[l].conn /\ fw[l].conn \notin Promised
        BY <4>1, <4>2, <1>1, <2>1, Accepted
      <4>4. fw[l].conn # fw[k].conn
        BY <4>2, <1>7 DEF TypeInv, ConnsMade
      <4> QED
        BY <4>3, <4>4, <1>5, <2>2
    <3> QED
      BY <3>1, <3>2, <3>3 DEF Sound
  <2>6. Leads(U, U, l)'
    <3>1. Reach(U, U, rx', call', l, conns', Promised')
      BY <2>2, <2>5, <1>1, ReachNil
    <3> QED
      BY <3>1, <2>2, <2>4 DEF Leads
  <2>7. Agrees(U, l)' /\ (~ AT1 => Agrees2(U, l)')
    <3>1. ~ Pending(l)' /\ ~ Pending(l) /\ req' = Idle
      BY <1>1 DEF TypeInv, TypeOK, Quiet, Pending, Idle
    <3>2. "CLOSING" \notin V.k.flags
      BY <2>1, <3>1, <1>1 DEF Agrees, Idle
    <3>3. "CLOSING" \notin U.k.flags /\ ("CONNECTED" \in U.k.flags <=> "CONNECTED" \in V.k.flags)
      BY <2>3, <3>2
    <3>4. Agrees(U, l)'
      BY <1>1, <2>1, <2>2, <2>3, <3>1, <3>3 DEF Agrees
    <3>5. ~ AT1 => Agrees2(U, l)'
      BY <1>1, <2>1, <2>3, <3>1, <3>2, <3>3 DEF Agrees2
    <3> QED
      BY <3>4, <3>5
  <2> QED
    BY <2>2, <2>6, <2>7 DEF LinkOK
<1> QED
  BY <1>5, <1>8, <1>9 DEF TableInv

-----------------------------------------------------------------------------
(* The firmware sends.                                                     *)

\* Nothing is lost as long as nothing is disturbed.
LEMMA NothingLost ==
  ASSUME TypeInv, NEW s, Emit(s), Undisturbed'
  PROVE  rx' = rx \o s /\ faults' = faults
BY StateFields DEF Emit, Undisturbed

\* What held when there were fewer connections still holds.
LEMMA MorePromises ==
  ASSUME TypeInv, conns' \in {conns, conns + 1}, Promised' \subseteq Promised \cup {conns + 1}
  PROVE  \A X \in View : Sound(X, conns, Promised) => Sound(X, conns', Promised')
<1> SUFFICES ASSUME NEW X \in View, Sound(X, conns, Promised) PROVE Sound(X, conns', Promised')
  OBVIOUS
<1>1. X.k.serial \in Nat /\ X.conn \in Nat /\ conns \in Nat
  BY StateFields DEF View, Link
<1>2. X.k.serial <= conns' /\ X.conn <= conns' /\ X.conn # conns + 1
  BY <1>1 DEF Sound
<1> QED
  BY <1>2 DEF Sound

LEMMA PromisesOfSent ==
  ASSUME TypeInv, NEW s \in Seq(Lines), rx' = rx \o s, given' = given, conns' \in {conns, conns + 1},
         \A i \in 1 .. Len(s) : s[i].what = "OK" => s[i].conn \in {0, conns + 1}
  PROVE  Promised' \subseteq Promised \cup {conns + 1}
<1>1. rx \in Seq(Lines) /\ conns \in Nat /\ Len(rx) \in Nat /\ Len(s) \in Nat
  BY StateFields
<1>2. \A i \in 1 .. Len(rx') :
        (i \in 1 .. Len(rx) /\ rx'[i] = rx[i]) \/ (i - Len(rx) \in 1 .. Len(s) /\ rx'[i] = s[i - Len(rx)])
  BY <1>1
<1>3. ASSUME NEW c \in 1 .. conns', NEW i \in 1 .. Len(rx'), rx'[i].what = "OK", rx'[i].conn = c
      PROVE  c \in Promised \cup {conns + 1}
  <2>1. CASE i \in 1 .. Len(rx) /\ rx'[i] = rx[i]
    <3>1. c <= conns
      BY <2>1, <1>3, StateFields DEF ConnsMade
    <3>2. c \in 1 .. conns
      BY <3>1, <1>1
    <3> QED
      BY <3>2, <2>1, <1>3 DEF Promised
  <2>2. CASE i - Len(rx) \in 1 .. Len(s) /\ rx'[i] = s[i - Len(rx)]
    <3>1. c \in {0, conns + 1}
      BY <2>2, <1>3
    <3> QED
      BY <3>1, <1>1
  <2> QED
    BY <2>1, <2>2, <1>2
<1> QED
  BY <1>3 DEF Promised

\* One line has been sent, or two; with them the driver gets on from W.
LEMMA SentOne ==
  ASSUME TypeInv, UNCHANGED driverVars, NEW m \in Lines, rx' = rx \o <<m>>,
         \A X \in View : Sound(X, conns, Promised) => Sound(X, conns', Promised'),
         NEW l \in Links, NEW V \in View, NEW W \in View, Leads(V, W, l),
         NEW U \in View, Step(call, m, l, W, U), Sound(U, conns', Promised')
  PROVE  Leads(V, U, l)'
<1>1. rx \in Seq(Lines) /\ rx' = Append(rx, m)
  BY StateFields
<1>2. Reach(V, W, rx, call, l, conns', Promised')
  BY <1>1, ReachSound DEF Leads
<1>3. Reach(V, U, Append(rx, m), call, l, conns', Promised')
  BY <1>1, <1>2, ReachAppend
<1>4. Reach(V, U, rx', call', l, conns', Promised')
  BY <1>1, <1>3 DEF driverVars
<1> QED
  BY <1>4 DEF Leads, driverVars

LEMMA SentTwo ==
  ASSUME TypeInv, UNCHANGED driverVars, NEW a \in Lines, NEW m \in Lines, rx' = rx \o <<a, m>>,
         \A X \in View : Sound(X, conns, Promised) => Sound(X, conns', Promised'),
         NEW l \in Links, NEW V \in View, NEW W \in View, Leads(V, W, l),
         NEW T \in View, Step(call, a, l, W, T), Sound(T, conns', Promised'),
         NEW U \in View, Step(call, m, l, T, U), Sound(U, conns', Promised')
  PROVE  Leads(V, U, l)'
<1>1. rx \in Seq(Lines) /\ Append(rx, a) \in Seq(Lines)
  BY StateFields
<1>2. rx' = Append(Append(rx, a), m)
  <2> DEFINE s == rx \o <<a, m>>
             t == Append(Append(rx, a), m)
             n == Len(rx)
  <2>1. n \in Nat /\ Len(s) = n + 2 /\ Len(t) = n + 2 /\ s \in Seq(Lines) /\ t \in Seq(Lines)
    BY <1>1
  <2>2. \A i \in 1 .. n : s[i] = rx[i] /\ t[i] = rx[i]
    BY <1>1
  <2>3. s[n + 1] = a /\ s[n + 2] = m /\ t[n + 1] = a /\ t[n + 2] = m
    BY <1>1
  <2>4. \A i \in 1 .. n + 2 : i \in 1 .. n \/ i = n + 1 \/ i = n + 2
    BY <2>1
  <2> HIDE DEF s, t, n
  <2>5. s = t
    <3>1. \A i \in 1 .. n + 2 : s[i] = t[i]
      BY <2>2, <2>3, <2>4
    <3> QED
      BY <3>1, <2>1, SeqEqual
  <2> QED
    BY <2>5 DEF s, t
<1>3. Reach(V, W, rx, call, l, conns', Promised')
  BY <1>1, ReachSound DEF Leads
<1>4. Reach(V, T, Append(rx, a), call, l, conns', Promised')
  BY <1>1, <1>3, ReachAppend
<1>5. Reach(V, U, Append(Append(rx, a), m), call, l, conns', Promised')
  BY <1>1, <1>4, ReachAppend
<1>6. Reach(V, U, rx', call', l, conns', Promised')
  BY <1>2, <1>5 DEF driverVars
<1> QED
  BY <1>6 DEF Leads, driverVars

\* A line about another link, or an answer about another link.
LEMMA StepElsewhere ==
  ASSUME NEW c, NEW m, NEW l, NEW W,
         \/ m.what \in Unasked /\ m.link # l
         \/ m.what \in {"OK", "ERROR"} /\ ~ (c.name \in {"connect", "recv"} /\ c.link = l)
         \/ m.what = "DATA" /\ c.link # l
  PROVE  Step(c, m, l, W, W)
BY DEF Step, StepEvent, StepAnswer, StepConnect, StepClosed, StepIPD, StepOK, StepError, StepData, Unasked

\* What the driver will believe of a link that the step is not about.
LEMMA AgreesElsewhere ==
  ASSUME TypeInv, NEW l \in Links, NEW W \in View, Agrees(W, l), ~ AT1 => Agrees2(W, l),
         fw'[l] = fw[l], conns' \in {conns, conns + 1}, W.k.serial \in Nat,
         \/ req' = req
         \/ req' = Idle /\ ~ (req.name \in {"start", "close"} /\ req.link = l)
  PROVE  Agrees(W, l)' /\ (~ AT1 => Agrees2(W, l)')
<1>1. Pending(l)' = Pending(l)
  BY DEF Pending, Idle
<1>2. ("CLOSING" \in W.k.flags => req.name = "close" /\ req.link = l)
        => ("CLOSING" \in W.k.flags => req'.name = "close" /\ req'.link = l)
  BY DEF Idle
<1>3. W.k.serial < conns => W.k.serial < conns'
  BY StateFields
<1>4. Agrees(W, l)'
  BY <1>1, <1>2, <1>3 DEF Agrees
<1>5. ~ AT1 => Agrees2(W, l)'
  BY <1>1 DEF Agrees2
<1> QED
  BY <1>4, <1>5

LEMMA ElsewhereOne ==
  ASSUME TypeInv, UNCHANGED driverVars, NEW m \in Lines, rx' = rx \o <<m>>,
         \A X \in View : Sound(X, conns, Promised) => Sound(X, conns', Promised'),
         NEW l \in Links, LinkOK(l), \A W \in View : Step(call, m, l, W, W),
         fw'[l] = fw[l], conns' \in {conns, conns + 1},
         \/ req' = req
         \/ req' = Idle /\ ~ (req.name \in {"start", "close"} /\ req.link = l)
  PROVE  LinkOK(l)'
<1>1. PICK V \in View, W \in View : Leads(V, W, l) /\ Agrees(W, l) /\ (~ AT1 => Agrees2(W, l))
  BY DEF LinkOK
<1>2. Sound(W, conns, Promised)
  BY <1>1, StateFields, ReachEnds DEF Leads
<1>3. Leads(V, W, l)'
  BY <1>1, <1>2, SentOne
<1>4. W.k.serial \in Nat
  BY DEF View, Link
<1>5. Agrees(W, l)' /\ (~ AT1 => Agrees2(W, l)')
  BY <1>1, <1>4, AgreesElsewhere
<1> QED
  BY <1>3, <1>5 DEF LinkOK

LEMMA ElsewhereTwo ==
  ASSUME TypeInv, UNCHANGED driverVars, NEW a \in Lines, NEW m \in Lines, rx' = rx \o <<a, m>>,
         \A X \in View : Sound(X, conns, Promised) => Sound(X, conns', Promised'),
         NEW l \in Links, LinkOK(l), \A W \in View : Step(call, a, l, W, W) /\ Step(call, m, l, W, W),
         fw'[l] = fw[l], conns' \in {conns, conns + 1},
         \/ req' = req
         \/ req' = Idle /\ ~ (req.name \in {"start", "close"} /\ req.link = l)
  PROVE  LinkOK(l)'
<1>1. PICK V \in View, W \in View : Leads(V, W, l) /\ Agrees(W, l) /\ (~ AT1 => Agrees2(W, l))
  BY DEF LinkOK
<1>2. Sound(W, conns, Promised)
  BY <1>1, StateFields, ReachEnds DEF Leads
<1>3. Leads(V, W, l)'
  BY <1>1, <1>2, SentTwo
<1>4. W.k.serial \in Nat
  BY DEF View, Link
<1>5. Agrees(W, l)' /\ (~ AT1 => Agrees2(W, l)')
  BY <1>1, <1>4, AgreesElsewhere
<1> QED
  BY <1>3, <1>5 DEF LinkOK

\* The ids and the connections to hand out stay what they were.
LEMMA SentInv ==
  ASSUME TypeInv, TableInv, Undisturbed, UNCHANGED driverVars, conns' \in {conns, conns + 1},
         NEW s \in Seq(Lines), rx' = rx \o s,
         call.name = "connect" =>
           \A i \in 1 .. Len(s) : s[i].what = "OK" => s[i].conn = conns + 1 /\ conns' = conns + 1,
         \A l \in Links : LinkOK(l)'
  PROVE  TableInv'
<1>1. rx \in Seq(Lines) /\ conns \in Nat /\ Len(rx) \in Nat /\ Len(s) \in Nat /\ given \subseteq 0 .. conns
  BY StateFields
<1>2. \A i \in 1 .. Len(rx') :
        (i \in 1 .. Len(rx) /\ rx'[i] = rx[i]) \/ (i - Len(rx) \in 1 .. Len(s) /\ rx'[i] = s[i - Len(rx)])
  BY <1>1
<1>3. Fresh'
  <2> SUFFICES ASSUME NEW i \in 1 .. Len(rx'), call'.name = "connect", rx'[i].what = "OK"
               PROVE  rx'[i].conn \in 1 .. conns' \ given'
    BY DEF Fresh
  <2>1. call = call' /\ given' = given
    BY DEF driverVars
  <2>2. CASE i \in 1 .. Len(rx) /\ rx'[i] = rx[i]
    <3>1. rx[i].conn \in 1 .. conns \ given
      BY <2>1, <2>2 DEF TableInv, Fresh
    <3>2. rx[i].conn \in 1 .. conns'
      BY <3>1, <1>1
    <3> QED
      BY <3>1, <3>2, <2>1, <2>2
  <2>3. CASE i - Len(rx) \in 1 .. Len(s) /\ rx'[i] = s[i - Len(rx)]
    <3>1. rx'[i].conn = conns + 1 /\ conns' = conns + 1
      BY <2>1, <2>3
    <3>2. conns + 1 \in 1 .. conns + 1 /\ conns + 1 \notin given
      BY <1>1
    <3> QED
      BY <3>1, <3>2, <2>1
  <2> QED
    BY <2>2, <2>3, <1>2
<1>4. \A g, h \in held' : SameConnection(g, h)
  BY DEF TableInv, driverVars
<1> QED
  BY <1>3, <1>4 DEF TableInv

\* The fields of an entry that has changed.
LEMMA EntryFields ==
  ASSUME NEW k \in Link
  PROVE  /\ NextSerial(k).flags = k.flags /\ NextSerial(k).available = k.available
         /\ k.serial + 1 < SerialMod => NextSerial(k).serial = k.serial + 1
         /\ Incoming(k).flags = {"CONNECTED", "INCOMING"} /\ Incoming(k).available = k.available
         /\ k.serial + 1 < SerialMod => Incoming(k).serial = k.serial + 1
         /\ Closed(k).flags = {} /\ Closed(k).serial = k.serial
         /\ Closed(k).available = IF AT1 THEN k.available ELSE 0
         /\ \A F : SetFlags(k, F).flags = F /\ SetFlags(k, F).serial = k.serial
                   /\ SetFlags(k, F).available = k.available
         /\ \A a : /\ [k EXCEPT !.available = a].flags = k.flags
                   /\ [k EXCEPT !.available = a].serial = k.serial
                   /\ [k EXCEPT !.available = a].available = a
<1>1. \A n \in Nat : n < SerialMod => n % SerialMod = n
  BY LinksAssumption
<1>2. \A F : SetFlags(k, F).flags = F /\ SetFlags(k, F).serial = k.serial
             /\ SetFlags(k, F).available = k.available
  BY DEF SetFlags, Link
<1>3. \A j \in [flags : SUBSET Flags, serial : Nat, available : 0 .. MaxData] :
        /\ NextSerial(j).flags = j.flags /\ NextSerial(j).available = j.available
        /\ j.serial + 1 < SerialMod => NextSerial(j).serial = j.serial + 1
  BY <1>1 DEF NextSerial
<1>4. k.serial \in Nat /\ k \in [flags : SUBSET Flags, serial : Nat, available : 0 .. MaxData]
  BY LinksAssumption DEF Link
<1>5. /\ Incoming(k).flags = {"CONNECTED", "INCOMING"} /\ Incoming(k).available = k.available
      /\ k.serial + 1 < SerialMod => Incoming(k).serial = k.serial + 1
  <2> DEFINE j == SetFlags(k, {"CONNECTED", "INCOMING"})
  <2>1. j \in [flags : SUBSET Flags, serial : Nat, available : 0 .. MaxData]
    BY <1>4 DEF SetFlags, Flags
  <2>2. j.flags = {"CONNECTED", "INCOMING"} /\ j.serial = k.serial /\ j.available = k.available
    BY <1>2
  <2> HIDE DEF j
  <2> QED
    BY <2>1, <2>2, <1>3 DEF Incoming, j
<1>6. /\ Closed(k).flags = {} /\ Closed(k).serial = k.serial
      /\ Closed(k).available = IF AT1 THEN k.available ELSE 0
  BY DEF Closed, SetFlags, Link
<1>7. \A a : /\ [k EXCEPT !.available = a].flags = k.flags
             /\ [k EXCEPT !.available = a].serial = k.serial
             /\ [k EXCEPT !.available = a].available = a
  BY DEF Link
<1> QED
  BY <1>2, <1>3, <1>4, <1>5, <1>6, <1>7

\* A view with another entry or another connection.
LEMMA ViewOf ==
  ASSUME NEW k \in Link, NEW c \in Nat
  PROVE  \E V \in View : V.k = k /\ V.conn = c
<1>1. [k |-> k, conn |-> c] \in View
  BY DEF View
<1> QED
  BY <1>1

LEMMA ViewFields ==
  ASSUME NEW V \in View
  PROVE  /\ V.k \in Link /\ V.conn \in Nat /\ V.k.serial \in Nat /\ V.k.available \in 0 .. MaxData
         /\ \A k \in Link : [V EXCEPT !.k = k] \in View /\ [V EXCEPT !.k = k].k = k
                            /\ [V EXCEPT !.k = k].conn = V.conn
BY DEF View, Link

LEMMA PeerConnectsInv ==
  ASSUME TypeInv, TableInv, Undisturbed, Undisturbed', NEW k \in Links, PeerConnects(k)
  PROVE  TableInv'
<1> DEFINE m == Line("CONNECT", k)
<1>1. /\ conns \in Nat /\ conns' = conns + 1 /\ ~ fw[k].up /\ fw' = [fw EXCEPT ![k] = FreshLink(conns + 1)]
      /\ UNCHANGED <<driverVars, req>> /\ fw \in [Links -> FwLink] /\ conns' < SerialMod
      /\ faults = 0 /\ faults' = 0 /\ SerialMod \in Nat
  BY StateFields, LinksAssumption DEF PeerConnects, Undisturbed
<1>2. rx' = rx \o <<m>> /\ ~ (call.name = "connect" /\ call.link = k)
  <2>1. faults' # faults + 1
    BY <1>1
  <2>2. ~ (call.name = "connect" /\ call.link = k)
    BY <2>1 DEF PeerConnects
  <2>3. Emit(<<m>>)
    BY <2>2 DEF PeerConnects
  <2> QED
    BY <2>2, <2>3, NothingLost
<1>3. m \in Lines /\ m.what = "CONNECT" /\ m.link = k
  BY SentLines
<1> HIDE DEF m
<1>4. <<m>> \in Seq(Lines) /\ \A i \in 1 .. Len(<<m>>) : <<m>>[i] = m
  BY <1>3
<1>5. given' = given /\ call' = call /\ \A i \in 1 .. Len(<<m>>) : <<m>>[i].what # "OK"
  BY <1>1, <1>3, <1>4 DEF driverVars
<1>6. Promised' \subseteq Promised \cup {conns + 1}
  BY <1>1, <1>2, <1>4, <1>5, PromisesOfSent
<1>7. \A X \in View : Sound(X, conns, Promised) => Sound(X, conns', Promised')
  BY <1>1, <1>6, MorePromises
<1>8. conns + 1 \notin Promised'
  <2>1. ASSUME NEW i \in 1 .. Len(rx'), rx'[i].what = "OK" PROVE rx'[i].conn <= conns
    <3>1. rx \in Seq(Lines) /\ Len(rx) \in Nat
      BY StateFields
    <3>2. (i \in 1 .. Len(rx) /\ rx'[i] = rx[i]) \/ rx'[i] = m
      BY <3>1, <1>2, <1>3
    <3> QED
      BY <3>2, <2>1, <1>3, StateFields DEF ConnsMade
  <2>2. conns + 1 \notin given /\ ~ (conns + 1 <= conns)
    BY <1>1, StateFields
  <2> QED
    BY <2>1, <2>2, <1>5 DEF Promised
<1>9. ASSUME NEW l \in Links, l # k PROVE LinkOK(l)'
  <2>1. LinkOK(l) /\ \A W \in View : Step(call, m, l, W, W)
    BY <1>3, <1>9, StepElsewhere DEF TableInv, Unasked
  <2>2. fw'[l] = fw[l] /\ req' = req
    BY <1>1, <1>9
  <2> QED
    BY <2>1, <2>2, <1>1, <1>2, <1>3, <1>7, ElsewhereOne
<1>10. LinkOK(k)'
  <2>1. PICK V \in View, W \in View : Leads(V, W, k) /\ Agrees(W, k) /\ (~ AT1 => Agrees2(W, k))
    BY DEF TableInv, LinkOK
  <2>2. /\ Sound(W, conns, Promised) /\ W.k \in Link /\ W.k.serial \in Nat /\ W.k.serial <= conns
        /\ W.conn \in Nat /\ W.conn <= conns
    BY <2>1, StateFields, ReachEnds, ViewFields DEF Leads, Sound
  <2>3. ~ Pending(k) /\ req' = req
    BY <1>1, <1>2 DEF TypeInv, CallsOK, Serves, Pending, Idle
  <2>4. "CONNECTED" \notin W.k.flags /\ "CLOSING" \notin W.k.flags
    BY <2>1, <2>3, <1>1 DEF Agrees
  <2>5. ~ AT1 => W.k.available = 0
    BY <2>1, <2>3, <2>4, <1>1 DEF Agrees2
  <2>6. /\ fw'[k].up = TRUE /\ fw'[k].conn = conns + 1 /\ fw'[k].data = 0
    BY <1>1 DEF FreshLink
  <2>7. CASE W.k.available = 0
    <3>1. PICK U \in View : U.k = Incoming(W.k) /\ U.conn = conns + 1
      <4>1. Incoming(W.k) \in Link /\ conns + 1 \in Nat
        BY <2>2, <1>1, EntryTypes
      <4> QED
        BY <4>1, ViewOf
    <3>2. /\ U.k.flags = {"CONNECTED", "INCOMING"} /\ U.k.available = 0
          /\ U.k.serial = W.k.serial + 1
      BY <3>1, <2>2, <2>7, <1>1, EntryFields
    <3>3. Step(call, m, k, W, U)
      <4>1. Renewed(W, U, Incoming(W.k))
        BY <3>1, <3>2, <2>2, <1>1 DEF Renewed, Sound
      <4>2. StepConnect(m, k, W, U)
        BY <4>1, <2>4, <2>7, <1>3 DEF StepConnect, Missing
      <4> QED
        BY <4>2 DEF Step, StepEvent
    <3>4. Sound(U, conns', Promised')
      BY <3>1, <3>2, <2>2, <1>1, <1>8 DEF Sound
    <3>5. Leads(V, U, k)'
      BY <3>1, <3>3, <3>4, <2>1, <1>1, <1>2, <1>3, <1>7, SentOne
    <3>6. Agrees(U, k)' /\ (~ AT1 => Agrees2(U, k)')
      BY <3>1, <3>2, <2>3, <2>6 DEF Agrees, Agrees2, Pending
    <3> QED
      BY <3>1, <3>5, <3>6 DEF LinkOK
  <2>8. CASE W.k.available # 0
    <3>1. AT1
      BY <2>5, <2>8
    <3>2. Step(call, m, k, W, W)
      BY <2>8, <1>3 DEF Step, StepEvent, StepConnect
    <3>3. Leads(V, W, k)'
      BY <3>2, <2>1, <2>2, <1>1, <1>2, <1>3, <1>7, SentOne
    <3>4. W.k.serial < conns'
      BY <2>2, <1>1
    <3>5. Agrees(W, k)'
      BY <3>4, <2>3, <2>4, <2>6 DEF Agrees, Pending
    <3> QED
      BY <3>1, <3>3, <3>5 DEF LinkOK
  <2> QED
    BY <2>7, <2>8
<1> QED
  BY <1>1, <1>2, <1>4, <1>5, <1>9, <1>10, SentInv

LEMMA SentSound ==
  ASSUME TypeInv, NEW s \in Seq(Lines), rx' = rx \o s, given' = given, conns' \in {conns, conns + 1},
         \A i \in 1 .. Len(s) : s[i].what = "OK" => s[i].conn \in {0, conns + 1}
  PROVE  \A X \in View : Sound(X, conns, Promised) => Sound(X, conns', Promised')
BY PromisesOfSent, MorePromises

\* The fields of what the driver will make of a link.
LEMMA WhatComes ==
  ASSUME TypeInv, NEW l \in Links, NEW V \in View, NEW W \in View, Leads(V, W, l)
  PROVE  /\ Sound(W, conns, Promised) /\ W.k \in Link /\ W.k.serial \in Nat /\ W.k.serial <= conns
         /\ W.conn \in Nat /\ W.conn <= conns /\ W.k.available \in 0 .. MaxData
BY StateFields, ReachEnds, ViewFields DEF Leads, Sound

LEMMA PeerSendsInv ==
  ASSUME TypeInv, TableInv, Undisturbed, Undisturbed', NEW k \in Links, PeerSends(k)
  PROVE  TableInv'
<1>1. PICK d \in 0 .. MaxData : d = fw[k].data + 1
  <2>1. fw[k].data \in 0 .. MaxData /\ fw[k].data < MaxData
    BY StateFields DEF PeerSends, FwLink
  <2> QED
    BY <2>1, StateFields
<1> DEFINE m == [what |-> "IPD", link |-> k, len |-> d]
<1>2. /\ conns \in Nat /\ conns' = conns /\ fw[k].up /\ fw' = [fw EXCEPT ![k].data = d]
      /\ UNCHANGED <<driverVars, req>> /\ fw \in [Links -> FwLink]
  BY <1>1, StateFields DEF PeerSends
<1>3. rx' = rx \o <<m>>
  <2>1. Emit(<<m>>)
    BY <1>1 DEF PeerSends
  <2> QED
    BY <2>1, NothingLost
<1>4. m \in Lines /\ m.what = "IPD" /\ m.link = k /\ m.len = d
  BY SentLines
<1> HIDE DEF m
<1>5. <<m>> \in Seq(Lines) /\ \A i \in 1 .. Len(<<m>>) : <<m>>[i].what # "OK"
  BY <1>4
<1>6. \A X \in View : Sound(X, conns, Promised) => Sound(X, conns', Promised')
  BY <1>2, <1>3, <1>5, SentSound DEF driverVars
<1>7. ASSUME NEW l \in Links, l # k PROVE LinkOK(l)'
  <2>1. LinkOK(l) /\ \A W \in View : Step(call, m, l, W, W)
    BY <1>4, <1>7, StepElsewhere DEF TableInv, Unasked
  <2>2. fw'[l] = fw[l] /\ req' = req
    BY <1>2, <1>7
  <2> QED
    BY <2>1, <2>2, <1>2, <1>3, <1>4, <1>6, ElsewhereOne
<1>8. LinkOK(k)'
  <2>1. PICK V \in View, W \in View : Leads(V, W, k) /\ Agrees(W, k) /\ (~ AT1 => Agrees2(W, k))
    BY DEF TableInv, LinkOK
  <2>2. /\ Sound(W, conns, Promised) /\ W.k \in Link
        /\ [W.k EXCEPT !.available = d] \in Link
    BY <2>1, WhatComes, EntryTypes
  <2>3. PICK U \in View : U = [W EXCEPT !.k = [W.k EXCEPT !.available = d]]
    BY <2>2, ViewFields
  <2>4. /\ U.k.flags = W.k.flags /\ U.k.serial = W.k.serial /\ U.k.available = d /\ U.conn = W.conn
    <3>1. U.k = [W.k EXCEPT !.available = d] /\ U.conn = W.conn
      BY <2>2, <2>3, ViewFields
    <3> QED
      BY <3>1, <2>2, EntryFields
  <2>5. Step(call, m, k, W, U)
    BY <2>3, <1>4 DEF Step, StepEvent, StepIPD
  <2>6. Sound(U, conns', Promised')
    BY <2>2, <2>4, <1>6 DEF Sound
  <2>7. Leads(V, U, k)'
    BY <2>1, <2>5, <2>6, <1>2, <1>3, <1>4, <1>6, SentOne
  <2>8. fw'[k].up = fw[k].up /\ fw'[k].conn = fw[k].conn /\ fw'[k].data = d /\ req' = req
    BY <1>2 DEF FwLink
  <2>9. Agrees(U, k)'
    BY <2>1, <2>4, <2>8, <1>2 DEF Agrees, Pending
  <2>10. ~ AT1 => Agrees2(U, k)'
    BY <2>1, <2>4, <2>8, <1>2 DEF Agrees2, Pending
  <2> QED
    BY <2>7, <2>9, <2>10 DEF LinkOK
<1> QED
  BY <1>2, <1>3, <1>5, <1>7, <1>8, SentInv

LEMMA PeerClosesInv ==
  ASSUME TypeInv, TableInv, Undisturbed, Undisturbed', NEW k \in Links, PeerCloses(k),
         AT1 \/ fw[k].data = 0
  PROVE  TableInv'
<1> DEFINE m == Line("CLOSED", k)
<1>1. /\ conns \in Nat /\ conns' = conns /\ fw[k].up /\ fw' = [fw EXCEPT ![k] = Ended(fw[k])]
      /\ UNCHANGED <<driverVars, req>> /\ fw \in [Links -> FwLink] /\ Emit(<<m>>)
  BY StateFields DEF PeerCloses
<1>2. rx' = rx \o <<m>>
  BY <1>1, NothingLost
<1>3. m \in Lines /\ m.what = "CLOSED" /\ m.link = k
  BY SentLines
<1> HIDE DEF m
<1>4. <<m>> \in Seq(Lines) /\ \A i \in 1 .. Len(<<m>>) : <<m>>[i].what # "OK"
  BY <1>3
<1>5. \A X \in View : Sound(X, conns, Promised) => Sound(X, conns', Promised')
  BY <1>1, <1>2, <1>4, SentSound DEF driverVars
<1>6. ASSUME NEW l \in Links, l # k PROVE LinkOK(l)'
  <2>1. LinkOK(l) /\ \A W \in View : Step(call, m, l, W, W)
    BY <1>3, <1>6, StepElsewhere DEF TableInv, Unasked
  <2>2. fw'[l] = fw[l] /\ req' = req
    BY <1>1, <1>6
  <2> QED
    BY <2>1, <2>2, <1>1, <1>2, <1>3, <1>5, ElsewhereOne
<1>7. LinkOK(k)'
  <2>1. PICK V \in View, W \in View : Leads(V, W, k) /\ Agrees(W, k) /\ (~ AT1 => Agrees2(W, k))
    BY DEF TableInv, LinkOK
  <2>2. Sound(W, conns, Promised) /\ W.k \in Link /\ Closed(W.k) \in Link
    BY <2>1, WhatComes, EntryTypes
  <2>3. PICK U \in View : U = [W EXCEPT !.k = Closed(W.k)]
    BY <2>2, ViewFields
  <2>4. /\ U.k.flags = {} /\ U.k.serial = W.k.serial /\ U.conn = W.conn
        /\ ~ AT1 => U.k.available = 0
    BY <2>2, <2>3, ViewFields, EntryFields
  <2>5. Step(call, m, k, W, U)
    BY <2>3, <1>3 DEF Step, StepEvent, StepClosed
  <2>6. Sound(U, conns', Promised')
    BY <2>2, <2>4, <1>5 DEF Sound
  <2>7. Leads(V, U, k)'
    BY <2>1, <2>5, <2>6, <1>1, <1>2, <1>3, <1>5, SentOne
  <2>8. fw'[k].up = FALSE /\ fw'[k].data = fw[k].data /\ req' = req
    BY <1>1, EndedLink
  <2>9. Agrees(U, k)'
    BY <2>1, <2>4, <2>8, <1>1 DEF Agrees, Pending
  <2>10. ~ AT1 => Agrees2(U, k)'
    BY <2>1, <2>4, <2>8, <1>1 DEF Agrees2, Pending
  <2> QED
    BY <2>7, <2>9, <2>10 DEF LinkOK
<1> QED
  BY <1>1, <1>2, <1>4, <1>6, <1>7, SentInv

\* AT 2 keeps the end to itself until the data have been read.
LEMMA PeerFinishesInv ==
  ASSUME TypeInv, TableInv, Undisturbed, NEW k \in Links, PeerCloses(k), ~ (AT1 \/ fw[k].data = 0)
  PROVE  TableInv'
<1>1. /\ UNCHANGED <<driverVars, req, conns, rx, faults>> /\ fw' = [fw EXCEPT ![k].finished = TRUE]
      /\ fw \in [Links -> FwLink]
  BY StateFields DEF PeerCloses
<1>2. \A l \in Links : fw'[l].up = fw[l].up /\ fw'[l].conn = fw[l].conn /\ fw'[l].data = fw[l].data
  BY <1>1 DEF FwLink
<1>3. Promised' = Promised
  BY <1>1 DEF Promised, driverVars
<1>4. ASSUME NEW l \in Links PROVE LinkOK(l)'
  <2>1. PICK V \in View, W \in View : Leads(V, W, l) /\ Agrees(W, l) /\ (~ AT1 => Agrees2(W, l))
    BY DEF TableInv, LinkOK
  <2>2. Leads(V, W, l)'
    BY <2>1, <1>1, <1>3 DEF Leads, driverVars
  <2>3. Agrees(W, l)' /\ (~ AT1 => Agrees2(W, l)')
    BY <2>1, <1>1, <1>2 DEF Agrees, Agrees2, Pending
  <2> QED
    BY <2>2, <2>3 DEF LinkOK
<1>5. Fresh' /\ \A g, h \in held' : SameConnection(g, h)
  BY <1>1 DEF TableInv, Fresh, driverVars
<1> QED
  BY <1>4, <1>5 DEF TableInv

\* connect() succeeds: the driver is told of the connection, then gets its answer.
LEMMA StartedInv ==
  ASSUME TypeInv, TableInv, Undisturbed, Undisturbed', NEW k \in Links, k = req.link, Answers("start"),
         ~ fw[k].up, conns < MaxConns, fw' = [fw EXCEPT ![k] = FreshLink(conns + 1)],
         conns' = conns + 1, Emit(<<Line("CONNECT", k), [what |-> "OK", conn |-> conns + 1]>>)
  PROVE  TableInv'
<1>1. PICK c \in 0 .. MaxConns : c = conns + 1
  BY StateFields
<1> DEFINE a == Line("CONNECT", k)
           m == [what |-> "OK", conn |-> c]
<1>2. /\ conns \in Nat /\ UNCHANGED driverVars /\ fw \in [Links -> FwLink] /\ conns' < SerialMod
      /\ SerialMod \in Nat /\ req.name = "start" /\ req' = Idle
      /\ call.name = "connect" /\ call.link = k
  BY StateFields, LinksAssumption DEF Answers, Undisturbed, TypeInv, CallsOK, Serves, Idle
<1>3. rx' = rx \o <<a, m>>
  BY <1>1, NothingLost
<1>4. /\ a \in Lines /\ a.what = "CONNECT" /\ a.link = k
      /\ m \in Lines /\ m.what = "OK" /\ m.conn = c
  BY SentLines
<1> HIDE DEF a, m
<1>5. /\ <<a, m>> \in Seq(Lines)
      /\ \A i \in 1 .. Len(<<a, m>>) : <<a, m>>[i].what = "OK" => <<a, m>>[i].conn = conns + 1
  BY <1>1, <1>4
<1>6. \A X \in View : Sound(X, conns, Promised) => Sound(X, conns', Promised')
  BY <1>2, <1>3, <1>5, SentSound DEF driverVars
<1>7. ASSUME NEW l \in Links, l # k PROVE LinkOK(l)'
  <2>1. LinkOK(l) /\ \A W \in View : Step(call, a, l, W, W)
    BY <1>4, <1>7, StepElsewhere DEF TableInv, Unasked
  <2>2. \A W \in View : Step(call, m, l, W, W)
    BY <1>2, <1>4, <1>7, StepElsewhere
  <2>3. fw'[l] = fw[l] /\ req.link # l
    BY <1>2, <1>7
  <2> QED
    BY <2>1, <2>2, <2>3, <1>2, <1>3, <1>4, <1>6, ElsewhereTwo
<1>8. LinkOK(k)'
  <2>1. PICK V \in View, W \in View : Leads(V, W, k) /\ Agrees(W, k) /\ (~ AT1 => Agrees2(W, k))
    BY DEF TableInv, LinkOK
  <2>2. /\ Sound(W, conns, Promised) /\ W.k \in Link /\ W.k.serial \in Nat /\ W.k.serial <= conns
        /\ W.conn \in Nat /\ W.conn <= conns
    BY <2>1, WhatComes
  <2>3. Pending(k) /\ ~ Pending(k)' /\ req' = Idle /\ "CLOSING" \notin W.k.flags
    BY <2>1, <1>2 DEF Pending, Idle, Agrees
  <2>4. "CONNECTED" \notin W.k.flags => W.k.serial < conns
    BY <2>1, <2>3 DEF Agrees
  <2>5. ~ AT1 => W.k.flags = {"CONNECTED"} /\ W.k.available = 0
    BY <2>1, <2>3 DEF Agrees2
  <2>6. fw'[k].up = TRUE /\ fw'[k].conn = c /\ fw'[k].data = 0
    BY <1>1, <1>2 DEF FreshLink
  <2>7. PICK T \in View :
          /\ Step(call, a, k, W, T) /\ Sound(T, conns', Promised') /\ T.k.serial <= conns
          /\ "CLOSING" \notin T.k.flags
          /\ "CONNECTED" \notin T.k.flags => T.k.serial < conns
          /\ ~ AT1 => T.k.flags = {"CONNECTED"} /\ T.k.available = 0 /\ T.conn < c
    <3>1. CASE W.k.available = 0 /\ "CONNECTED" \notin W.k.flags
      <4>1. AT1 /\ W.k.serial < conns
        BY <3>1, <2>4, <2>5
      <4>2. PICK T \in View : T.k = Incoming(W.k) /\ T.conn = 0
        <5>1. Incoming(W.k) \in Link
          BY <2>2, EntryTypes
        <5> QED
          BY <5>1, ViewOf
      <4>3. T.k.flags = {"CONNECTED", "INCOMING"} /\ T.k.serial = W.k.serial + 1
        BY <4>1, <4>2, <2>2, <1>1, <1>2, EntryFields
      <4>4. Renewed(W, T, Incoming(W.k))
        BY <4>1, <4>2, <4>3, <2>2 DEF Renewed
      <4>5. Step(call, a, k, W, T)
        <5>1. StepConnect(a, k, W, T)
          BY <4>4, <3>1, <1>4 DEF StepConnect, Missing
        <5> QED
          BY <5>1 DEF Step, StepEvent
      <4>6. Sound(T, conns', Promised')
        BY <4>1, <4>2, <4>3, <2>2, <1>1, <1>2 DEF Sound
      <4>7. T.k.serial <= conns
        BY <4>1, <4>3, <2>2, <1>2
      <4> QED
        BY <4>1, <4>3, <4>5, <4>6, <4>7
    <3>2. CASE ~ (W.k.available = 0 /\ "CONNECTED" \notin W.k.flags)
      <4>1. Step(call, a, k, W, W)
        <5>1. StepConnect(a, k, W, W)
          BY <3>2, <2>3, <1>4 DEF StepConnect, Missing
        <5> QED
          BY <5>1 DEF Step, StepEvent
      <4>2. Sound(W, conns', Promised') /\ W.conn < c
        BY <2>2, <1>1, <1>2, <1>6
      <4> QED
        BY <4>1, <4>2, <2>2, <2>3, <2>4, <2>5
    <3> QED
      BY <3>1, <3>2
  <2>8. T.k \in Link /\ T.k.serial \in Nat
    BY ViewFields
  <2>9. PICK U \in View : U.k = NextSerial(T.k) /\ U.conn = c
    <3>1. NextSerial(T.k) \in Link /\ c \in Nat
      BY <2>8, <1>1, EntryTypes
    <3> QED
      BY <3>1, ViewOf
  <2>10. /\ U.k.flags = T.k.flags /\ U.k.available = T.k.available /\ U.k.serial = T.k.serial + 1
    BY <2>7, <2>8, <2>9, <1>2, EntryFields
  <2>11. Step(call, m, k, T, U)
    <3>1. Renewed(T, U, NextSerial(T.k))
      BY <2>7, <2>8, <2>9, <2>10 DEF Renewed
    <3>2. StepOK(call, m, k, T, U)
      BY <3>1, <2>9, <1>2, <1>4 DEF StepOK
    <3> QED
      BY <3>2 DEF Step, StepAnswer
  <2>12. Sound(U, conns', Promised')
    <3>1. U.k.serial <= conns' /\ U.conn <= conns'
      BY <2>7, <2>8, <2>9, <2>10, <1>1, <1>2
    <3>2. "INCOMING" \in U.k.flags => "CONNECTED" \in U.k.flags
      BY <2>7, <2>10 DEF Sound
    <3>3. ~ AT1 => "INCOMING" \notin U.k.flags
      BY <2>7, <2>10
    <3> QED
      BY <3>1, <3>2, <3>3 DEF Sound
  <2>13. Leads(V, U, k)'
    BY <2>1, <2>7, <2>11, <2>12, <1>2, <1>3, <1>4, <1>6, SentTwo
  <2>14. Agrees(U, k)'
    <3>1. "CONNECTED" \notin U.k.flags => U.k.serial < conns'
      BY <2>7, <2>8, <2>10, <1>2
    <3> QED
      BY <3>1, <2>3, <2>6, <2>7, <2>9, <2>10 DEF Agrees
  <2>15. ~ AT1 => Agrees2(U, k)'
    BY <2>3, <2>6, <2>7, <2>10 DEF Agrees2
  <2> QED
    BY <2>13, <2>14, <2>15 DEF LinkOK
<1> QED
  BY <1>2, <1>3, <1>5, <1>7, <1>8, SentInv

\* connect() fails: the answer alone, or the end of the attempt and the answer.
LEMMA NotStartedInv ==
  ASSUME TypeInv, TableInv, Undisturbed, Undisturbed', NEW k \in Links, k = req.link, Answers("start"),
         UNCHANGED <<fw, conns>>,
         \/ Emit(<<Answer("ERROR")>>)
         \/ ~ fw[k].up /\ Emit(<<Line("CLOSED", k), Answer("ERROR")>>)
  PROVE  TableInv'
<1> DEFINE a == Line("CLOSED", k)
           m == Answer("ERROR")
<1>2. /\ conns \in Nat /\ UNCHANGED driverVars /\ fw \in [Links -> FwLink]
      /\ req.name = "start" /\ req' = Idle /\ call.name = "connect" /\ call.link = k
  BY StateFields DEF Answers, TypeInv, CallsOK, Serves, Idle
<1>3. rx' = rx \o <<m>> \/ (~ fw[k].up /\ rx' = rx \o <<a, m>>)
  BY NothingLost
<1>4. /\ a \in Lines /\ a.what = "CLOSED" /\ a.link = k
      /\ m \in Lines /\ m.what = "ERROR"
  BY SentLines
<1> HIDE DEF a, m
<1>5. /\ <<a, m>> \in Seq(Lines) /\ \A i \in 1 .. Len(<<a, m>>) : <<a, m>>[i].what # "OK"
      /\ <<m>> \in Seq(Lines) /\ \A i \in 1 .. Len(<<m>>) : <<m>>[i].what # "OK"
  BY <1>4
<1>6. \A X \in View : Sound(X, conns, Promised) => Sound(X, conns', Promised')
  <2>1. CASE rx' = rx \o <<m>>
    BY <2>1, <1>2, <1>5, SentSound DEF driverVars
  <2>2. CASE rx' = rx \o <<a, m>>
    BY <2>2, <1>2, <1>5, SentSound DEF driverVars
  <2> QED
    BY <2>1, <2>2, <1>3
<1>7. ASSUME NEW l \in Links, l # k PROVE LinkOK(l)'
  <2>1. LinkOK(l) /\ \A W \in View : Step(call, a, l, W, W)
    BY <1>4, <1>7, StepElsewhere DEF TableInv, Unasked
  <2>2. \A W \in View : Step(call, m, l, W, W)
    BY <1>2, <1>4, <1>7, StepElsewhere
  <2>3. fw'[l] = fw[l] /\ req.link # l
    BY <1>7
  <2>4. CASE rx' = rx \o <<m>>
    BY <2>1, <2>2, <2>3, <2>4, <1>2, <1>4, <1>6, ElsewhereOne
  <2>5. CASE rx' = rx \o <<a, m>>
    BY <2>1, <2>2, <2>3, <2>5, <1>2, <1>4, <1>6, ElsewhereTwo
  <2> QED
    BY <2>4, <2>5, <1>3
<1>8. LinkOK(k)'
  <2>1. PICK V \in View, W \in View : Leads(V, W, k) /\ Agrees(W, k) /\ (~ AT1 => Agrees2(W, k))
    BY DEF TableInv, LinkOK
  <2>2. Sound(W, conns, Promised) /\ W.k \in Link
    BY <2>1, WhatComes
  <2>3. Pending(k) /\ ~ Pending(k)' /\ req' = Idle
    BY <1>2 DEF Pending, Idle
  <2>4. fw[k].up => W.k.serial < conns
    BY <2>1, <2>3 DEF Agrees
  <2>5. ~ AT1 => ~ fw[k].up /\ W.k.available = 0 /\ fw[k].data = 0
    BY <2>1, <2>3 DEF Agrees2
  <2> DEFINE Unset(X) ==
        /\ X.k.flags = {} /\ X.k.serial = W.k.serial /\ X.conn = W.conn
        /\ ~ AT1 => X.k.available = 0
  <2>6. \A X \in View : Unset(X) =>
          Sound(X, conns', Promised') /\ Agrees(X, k)' /\ (~ AT1 => Agrees2(X, k)')
    <3> SUFFICES ASSUME NEW X \in View, Unset(X)
                 PROVE  Sound(X, conns', Promised') /\ Agrees(X, k)' /\ (~ AT1 => Agrees2(X, k)')
      OBVIOUS
    <3>1. Sound(X, conns', Promised')
      <4>1. Sound(W, conns', Promised')
        BY <2>2, <1>6
      <4> QED
        BY <4>1 DEF Sound
    <3>2. Agrees(X, k)'
      BY <2>3, <2>4 DEF Agrees
    <3>3. ~ AT1 => Agrees2(X, k)'
      BY <2>3, <2>5 DEF Agrees2
    <3> QED
      BY <3>1, <3>2, <3>3
  <2>7. ASSUME NEW X \in View
        PROVE  \E U \in View : /\ Step(call, m, k, X, U) /\ U.k.flags = {} /\ U.k.serial = X.k.serial
                               /\ U.conn = X.conn /\ U.k.available = X.k.available
    <3>1. {} \in SUBSET Flags /\ X.k \in Link
      BY ViewFields
    <3>2. SetFlags(X.k, {}) \in Link
      BY <3>1, EntryTypes
    <3>3. PICK U \in View : U = [X EXCEPT !.k = SetFlags(X.k, {})]
      BY <3>2, ViewFields
    <3>4. U.k = SetFlags(X.k, {}) /\ U.conn = X.conn
      BY <3>2, <3>3, ViewFields
    <3>5. U.k.flags = {} /\ U.k.serial = X.k.serial /\ U.k.available = X.k.available
      BY <3>1, <3>4, EntryFields
    <3>6. StepError(call, m, k, X, U)
      BY <3>3, <1>2, <1>4 DEF StepError
    <3> QED
      BY <3>4, <3>5, <3>6 DEF Step, StepAnswer
  <2>8. CASE rx' = rx \o <<m>>
    <3>1. PICK U \in View : Step(call, m, k, W, U) /\ Unset(U)
      BY ZenonT(60), <2>5, <2>7
    <3>2. Leads(V, U, k)'
      BY <3>1, <2>1, <2>6, <2>8, <1>2, <1>4, <1>6, SentOne
    <3> QED
      BY <3>1, <3>2, <2>6 DEF LinkOK
  <2>9. CASE rx' = rx \o <<a, m>>
    <3>1. Closed(W.k) \in Link
      BY <2>2, EntryTypes
    <3>2. PICK T \in View : T = [W EXCEPT !.k = Closed(W.k)]
      BY <3>1, ViewFields
    <3>3. T.k = Closed(W.k) /\ T.conn = W.conn
      BY <3>1, <3>2, ViewFields
    <3>4. Unset(T)
      BY <3>3, <2>2, EntryFields
    <3>5. Step(call, a, k, W, T)
      BY <3>2, <1>4 DEF Step, StepEvent, StepClosed
    <3>6. PICK U \in View : Step(call, m, k, T, U) /\ Unset(U)
      BY <3>4, <2>7
    <3>7. Sound(T, conns', Promised') /\ Sound(U, conns', Promised')
      BY <3>4, <3>6, <2>6
    <3>8. Leads(V, U, k)'
      BY <3>5, <3>6, <3>7, <2>1, <2>9, <1>2, <1>4, <1>6, SentTwo
    <3> QED
      BY <3>6, <3>8, <2>6 DEF LinkOK
  <2> QED
    BY <2>8, <2>9, <1>3
<1>9. conns' \in {conns, conns + 1}
  OBVIOUS
<1>10. CASE rx' = rx \o <<m>>
  BY <1>2, <1>5, <1>7, <1>8, <1>9, <1>10, SentInv
<1>11. CASE rx' = rx \o <<a, m>>
  BY <1>2, <1>5, <1>7, <1>8, <1>9, <1>11, SentInv
<1> QED
  BY <1>3, <1>10, <1>11

LEMMA AnswerStartInv ==
  ASSUME TypeInv, TableInv, Undisturbed, Undisturbed', AnswerStart
  PROVE  TableInv'
<1>1. PICK k \in Links : k = req.link
  BY CallFields DEF AnswerStart, Answers, TypeInv, CallsOK
<1>2. Answers("start")
  BY DEF AnswerStart
<1>3. \/ /\ ~ fw[k].up /\ conns < MaxConns /\ fw' = [fw EXCEPT ![k] = FreshLink(conns + 1)]
         /\ conns' = conns + 1
         /\ Emit(<<Line("CONNECT", k), [what |-> "OK", conn |-> conns + 1]>>)
      \/ /\ UNCHANGED <<fw, conns>>
         /\ \/ Emit(<<Answer("ERROR")>>)
            \/ ~ fw[k].up /\ Emit(<<Line("CLOSED", k), Answer("ERROR")>>)
  BY <1>1 DEF AnswerStart
<1> QED
  BY <1>1, <1>2, <1>3, StartedInv, NotStartedInv

\* The connection is closed: its end and the answer; or there was none any more.
LEMMA AnswerCloseInv ==
  ASSUME TypeInv, TableInv, Undisturbed, Undisturbed', AnswerClose
  PROVE  TableInv'
<1>1. PICK k \in Links : k = req.link
  BY CallFields DEF AnswerClose, Answers, TypeInv, CallsOK
<1> DEFINE a == Line("CLOSED", k)
           m == [what |-> "OK", conn |-> 0]
           e == Answer("ERROR")
<1>2. /\ conns \in Nat /\ conns' = conns /\ UNCHANGED driverVars /\ fw \in [Links -> FwLink]
      /\ req.name = "close" /\ req' = Idle /\ call.name = "close" /\ MaxData \in Nat /\ MaxConns \in Nat
  BY StateFields DEF AnswerClose, Answers, TypeInv, CallsOK, Serves, Idle
<1>3. \/ /\ fw[k].up /\ fw' = [fw EXCEPT ![k] = [Ended(fw[k]) EXCEPT !.data = 0]]
         /\ rx' = rx \o <<a, m>>
      \/ ~ fw[k].up /\ rx' = rx \o <<e>> /\ UNCHANGED fw
  BY <1>1, NothingLost DEF AnswerClose
<1>4. /\ a \in Lines /\ a.what = "CLOSED" /\ a.link = k
      /\ m \in Lines /\ m.what = "OK" /\ m.conn = 0
      /\ e \in Lines /\ e.what = "ERROR"
  <2>1. 0 \in 0 .. MaxConns
    BY <1>2
  <2> QED
    BY <2>1, SentLines
<1> HIDE DEF a, m, e
<1>5. /\ <<a, m>> \in Seq(Lines) /\ <<e>> \in Seq(Lines)
      /\ \A i \in 1 .. Len(<<a, m>>) : <<a, m>>[i].what = "OK" => <<a, m>>[i].conn = 0
      /\ \A i \in 1 .. Len(<<e>>) : <<e>>[i].what # "OK"
  BY <1>4
<1>6. \A X \in View : Sound(X, conns, Promised) => Sound(X, conns', Promised')
  <2>1. CASE rx' = rx \o <<a, m>>
    BY <2>1, <1>2, <1>5, SentSound DEF driverVars
  <2>2. CASE rx' = rx \o <<e>>
    BY <2>2, <1>2, <1>5, SentSound DEF driverVars
  <2> QED
    BY <2>1, <2>2, <1>3
<1>7. \A l \in Links, X \in View : Step(call, m, l, X, X) /\ Step(call, e, l, X, X)
  BY <1>2, <1>4, StepElsewhere
<1>8. ASSUME NEW l \in Links, l # k PROVE LinkOK(l)'
  <2>1. LinkOK(l) /\ \A W \in View : Step(call, a, l, W, W)
    BY <1>4, <1>8, StepElsewhere DEF TableInv, Unasked
  <2>2. fw'[l] = fw[l] /\ req.link # l
    BY <1>1, <1>2, <1>3, <1>8
  <2>3. CASE rx' = rx \o <<a, m>>
    BY <2>1, <2>2, <2>3, <1>2, <1>4, <1>6, <1>7, ElsewhereTwo
  <2>4. CASE rx' = rx \o <<e>>
    BY <2>1, <2>2, <2>4, <1>2, <1>4, <1>6, <1>7, ElsewhereOne
  <2> QED
    BY <2>3, <2>4, <1>3
<1>9. LinkOK(k)'
  <2>1. PICK V \in View, W \in View : Leads(V, W, k) /\ Agrees(W, k) /\ (~ AT1 => Agrees2(W, k))
    BY DEF TableInv, LinkOK
  <2>2. Sound(W, conns, Promised) /\ Sound(W, conns', Promised') /\ W.k \in Link
    BY <2>1, <1>6, WhatComes
  <2>3. ~ Pending(k) /\ ~ Pending(k)'
    BY <1>2 DEF Pending, Idle
  <2>4. CASE fw[k].up /\ fw' = [fw EXCEPT ![k] = [Ended(fw[k]) EXCEPT !.data = 0]] /\ rx' = rx \o <<a, m>>
    <3>1. Closed(W.k) \in Link
      BY <2>2, EntryTypes
    <3>2. PICK U \in View : U = [W EXCEPT !.k = Closed(W.k)]
      BY <3>1, ViewFields
    <3>3. U.k = Closed(W.k) /\ U.conn = W.conn
      BY <3>1, <3>2, ViewFields
    <3>4. /\ U.k.flags = {} /\ U.k.serial = W.k.serial
          /\ ~ AT1 => U.k.available = 0
      BY <3>3, <2>2, EntryFields
    <3>5. Step(call, a, k, W, U)
      BY <3>2, <1>4 DEF Step, StepEvent, StepClosed
    <3>6. Sound(U, conns', Promised')
      BY <3>3, <3>4, <2>2 DEF Sound
    <3>7. Leads(V, U, k)'
      BY <3>5, <3>6, <2>1, <2>4, <1>2, <1>4, <1>6, <1>7, SentTwo
    <3>8. fw'[k].up = FALSE /\ fw'[k].data = 0
      <4>0. fw[k] \in FwLink /\ 0 \in 0 .. MaxData
        BY <1>2
      <4>1. Ended(fw[k]) \in FwLink /\ Ended(fw[k]).up = FALSE /\ 0 \in 0 .. MaxData
        BY <4>0, EndedLink
      <4>2. fw'[k] = [Ended(fw[k]) EXCEPT !.data = 0]
        BY <2>4, <1>2
      <4> QED
        BY <4>1, <4>2, EndedLink
    <3>9. Agrees(U, k)'
      BY <3>4, <3>8, <2>3 DEF Agrees
    <3>10. ~ AT1 => Agrees2(U, k)'
      BY <3>4, <3>8, <2>3 DEF Agrees2
    <3> QED
      BY <3>7, <3>9, <3>10 DEF LinkOK
  <2>5. CASE ~ fw[k].up /\ rx' = rx \o <<e>> /\ UNCHANGED fw
    <3>1. Leads(V, W, k)'
      BY <2>1, <2>2, <2>5, <1>2, <1>4, <1>6, <1>7, SentOne
    <3>2. Agrees(W, k)'
      BY <2>1, <2>3, <2>5, <1>2 DEF Agrees
    <3>3. ~ AT1 => Agrees2(W, k)'
      BY <2>1, <2>3, <2>5 DEF Agrees2
    <3> QED
      BY <3>1, <3>2, <3>3 DEF LinkOK
  <2> QED
    BY <2>4, <2>5, <1>3
<1>10. \A l \in Links : LinkOK(l)'
  BY <1>8, <1>9
<1>11. call.name # "connect" /\ conns' \in {conns, conns + 1}
  BY <1>2
<1>12. CASE rx' = rx \o <<a, m>>
  BY <1>2, <1>5, <1>10, <1>11, <1>12, SentInv
<1>13. CASE rx' = rx \o <<e>>
  BY <1>2, <1>5, <1>10, <1>11, <1>13, SentInv
<1> QED
  BY <1>3, <1>12, <1>13

\* The bytes come, after the last of them the end that AT 2 has kept to itself.
LEMMA AnswerRecvInv ==
  ASSUME TypeInv, TableInv, Undisturbed, Undisturbed', AnswerRecv
  PROVE  TableInv'
<1>1. PICK k \in Links : k = req.link
  BY CallFields DEF AnswerRecv, Answers, TypeInv, CallsOK
<1>2. /\ conns \in Nat /\ conns' = conns /\ UNCHANGED driverVars /\ fw \in [Links -> FwLink]
      /\ req.name = "recv" /\ req' = Idle /\ call.name = "recv" /\ call.link = k /\ req.size \in 1 .. MaxData
      /\ MaxData \in Nat /\ fw[k].data \in 0 .. MaxData /\ fw[k] \in FwLink
  BY <1>1, StateFields, CallFields DEF AnswerRecv, Answers, TypeInv, CallsOK, Serves, Idle, FwLink
<1>3. PICK n \in 0 .. MaxData :
        n = Min({req.size, fw[k].data}) /\ n <= fw[k].data /\ (n = 0 => fw[k].data = 0)
  <2>1. req.size \in Nat /\ fw[k].data \in Nat
    BY <1>2
  <2>2. Min({req.size, fw[k].data}) = IF req.size <= fw[k].data THEN req.size ELSE fw[k].data
    BY <2>1, MinOf
  <2> QED
    BY <2>2, <1>2
<1> DEFINE d == [what |-> "DATA", len |-> n]
           a == Line("CLOSED", k)
           e == Answer("ERROR")
<1>4. /\ d \in Lines /\ d.what = "DATA" /\ d.len = n
      /\ a \in Lines /\ a.what = "CLOSED" /\ a.link = k
      /\ e \in Lines /\ e.what = "ERROR"
  BY SentLines
<1>5. \/ n = 0 /\ rx' = rx \o <<e>> /\ UNCHANGED fw
      \/ /\ n # 0 /\ ~ (fw[k].finished /\ n = fw[k].data) /\ rx' = rx \o <<d>>
         /\ fw' = [fw EXCEPT ![k] = [fw[k] EXCEPT !.data = fw[k].data - n]]
      \/ /\ n # 0 /\ n = fw[k].data /\ rx' = rx \o <<d, a>>
         /\ fw' = [fw EXCEPT ![k] = Ended([fw[k] EXCEPT !.data = fw[k].data - n])]
  <2>1. CASE n = 0
    <3>1. Emit(<<e>>) /\ UNCHANGED fw
      BY <2>1, <1>1, <1>3 DEF AnswerRecv
    <3> QED
      BY <3>1, <2>1, NothingLost
  <2>2. CASE n # 0 /\ ~ (fw[k].finished /\ n = fw[k].data)
    <3>1. /\ Emit(<<d>> \o <<>>)
          /\ fw' = [fw EXCEPT ![k] = [fw[k] EXCEPT !.data = fw[k].data - n]]
      BY <2>2, <1>1, <1>3 DEF AnswerRecv
    <3>2. <<d>> \o <<>> = <<d>>
      BY <1>4, Singles DEF Unasked
    <3> QED
      BY <3>1, <3>2, <2>2, NothingLost
  <2>3. CASE n # 0 /\ fw[k].finished /\ n = fw[k].data
    <3>1. /\ Emit(<<d>> \o <<a>>)
          /\ fw' = [fw EXCEPT ![k] = Ended([fw[k] EXCEPT !.data = fw[k].data - n])]
      BY <2>3, <1>1, <1>3 DEF AnswerRecv
    <3>2. a.what \in Unasked
      BY <1>4 DEF Unasked
    <3>3. <<d>> \o <<a>> = <<d, a>>
      BY <3>2, <1>4, Singles
    <3> QED
      BY <3>1, <3>3, <2>3, NothingLost
  <2> QED
    BY <2>1, <2>2, <2>3
<1> HIDE DEF d, a, e
<1>6. PICK s \in Seq(Lines) : /\ s \in {<<e>>, <<d>>, <<d, a>>} /\ rx' = rx \o s
                              /\ \A i \in 1 .. Len(s) : s[i].what # "OK"
  <2>1. /\ <<d, a>> \in Seq(Lines) /\ <<e>> \in Seq(Lines) /\ <<d>> \in Seq(Lines)
        /\ \A i \in 1 .. Len(<<d, a>>) : <<d, a>>[i].what # "OK"
        /\ \A i \in 1 .. Len(<<e>>) : <<e>>[i].what # "OK"
        /\ \A i \in 1 .. Len(<<d>>) : <<d>>[i].what # "OK"
    BY <1>4
  <2> QED
    BY <2>1, <1>5
<1>7. \A X \in View : Sound(X, conns, Promised) => Sound(X, conns', Promised')
  BY <1>2, <1>6, SentSound DEF driverVars
<1>8. ASSUME NEW l \in Links, l # k PROVE LinkOK(l)'
  <2>1. LinkOK(l) /\ \A W \in View : Step(call, a, l, W, W)
    BY <1>4, <1>8, StepElsewhere DEF TableInv, Unasked
  <2>2. \A W \in View : Step(call, d, l, W, W) /\ Step(call, e, l, W, W)
    BY <1>2, <1>4, <1>8, StepElsewhere
  <2>3. fw'[l] = fw[l] /\ req.name \notin {"start", "close"}
    BY <1>2, <1>5, <1>8
  <2>4. CASE rx' = rx \o <<e>>
    BY <2>1, <2>2, <2>3, <2>4, <1>2, <1>4, <1>7, ElsewhereOne
  <2>5. CASE rx' = rx \o <<d>>
    BY <2>1, <2>2, <2>3, <2>5, <1>2, <1>4, <1>7, ElsewhereOne
  <2>6. CASE rx' = rx \o <<d, a>>
    BY <2>1, <2>2, <2>3, <2>6, <1>2, <1>4, <1>7, ElsewhereTwo
  <2> QED
    BY <2>4, <2>5, <2>6, <1>5
<1>9. LinkOK(k)'
  <2>1. PICK V \in View, W \in View : Leads(V, W, k) /\ Agrees(W, k) /\ (~ AT1 => Agrees2(W, k))
    BY DEF TableInv, LinkOK
  <2>2. /\ Sound(W, conns, Promised) /\ Sound(W, conns', Promised') /\ W.k \in Link
        /\ W.k.available \in 0 .. MaxData
    BY <2>1, <1>7, WhatComes
  <2>3. ~ Pending(k) /\ ~ Pending(k)' /\ "CLOSING" \notin W.k.flags
    BY <2>1, <1>2 DEF Pending, Idle, Agrees
  <2>4. ASSUME NEW b \in 0 .. MaxData, NEW m \in {e, d},
               [W EXCEPT !.k = [W.k EXCEPT !.available = b]] = IF m = e THEN
                  [W EXCEPT !.k = [W.k EXCEPT !.available = 0]]
                ELSE [W EXCEPT !.k = [W.k EXCEPT !.available =
                  IF n > W.k.available THEN 0 ELSE W.k.available - n]]
        PROVE  \E U \in View : /\ Step(call, m, k, W, U) /\ Sound(U, conns', Promised')
                               /\ U.k.flags = W.k.flags /\ U.k.serial = W.k.serial
                               /\ U.k.available = b /\ U.conn = W.conn
    <3>1. [W.k EXCEPT !.available = b] \in Link
      BY <2>2, EntryTypes
    <3>2. PICK U \in View : U = [W EXCEPT !.k = [W.k EXCEPT !.available = b]]
      BY <3>1, ViewFields
    <3>3. U.k = [W.k EXCEPT !.available = b] /\ U.conn = W.conn
      BY <3>1, <3>2, ViewFields
    <3>4. U.k.flags = W.k.flags /\ U.k.serial = W.k.serial /\ U.k.available = b
      BY <3>3, <2>2, EntryFields
    <3>5. Step(call, m, k, W, U)
      <4>1. CASE m = e
        BY <4>1, <3>2, <2>4, <1>2, <1>4 DEF Step, StepAnswer, StepError
      <4>2. CASE m = d
        <5>1. m # e
          BY <4>2, <1>4
        <5> QED
          BY <5>1, <4>2, <3>2, <2>4, <1>2, <1>4 DEF Step, StepAnswer, StepData
      <4> QED
        BY <4>1, <4>2
    <3>6. Sound(U, conns', Promised')
      BY <3>3, <3>4, <2>2 DEF Sound
    <3> QED
      BY <3>3, <3>4, <3>5, <3>6
  <2>5. CASE n = 0 /\ rx' = rx \o <<e>> /\ UNCHANGED fw
    <3>1. 0 \in 0 .. MaxData
      BY <1>2
    <3>2. PICK U \in View : /\ Step(call, e, k, W, U) /\ Sound(U, conns', Promised')
                            /\ U.k.flags = W.k.flags /\ U.k.serial = W.k.serial
                            /\ U.k.available = 0 /\ U.conn = W.conn
      BY <3>1, <2>4
    <3>3. Leads(V, U, k)'
      BY <3>2, <2>1, <2>5, <1>2, <1>4, <1>7, SentOne
    <3>4. Agrees(U, k)'
      BY <3>2, <2>1, <2>3, <2>5, <1>2 DEF Agrees
    <3>5. ~ AT1 => Agrees2(U, k)'
      BY <3>2, <2>1, <2>3, <2>5, <1>3 DEF Agrees2
    <3> QED
      BY <3>3, <3>4, <3>5 DEF LinkOK
  <2>6. PICK b \in 0 .. MaxData : /\ b = IF n > W.k.available THEN 0 ELSE W.k.available - n
                                  /\ ~ AT1 => b = fw[k].data - n
    <3>1. (IF n > W.k.available THEN 0 ELSE W.k.available - n) \in 0 .. MaxData
      BY <2>2, <1>2
    <3>2. ~ AT1 => W.k.available = fw[k].data
      BY <2>1, <2>3 DEF Agrees2
    <3>3. ~ AT1 => (IF n > W.k.available THEN 0 ELSE W.k.available - n) = fw[k].data - n
      BY <3>2, <1>2, <1>3
    <3> QED
      BY <3>1, <3>3
  <2>7. PICK T \in View : /\ Step(call, d, k, W, T) /\ Sound(T, conns', Promised')
                          /\ T.k.flags = W.k.flags /\ T.k.serial = W.k.serial
                          /\ T.k.available = b /\ T.conn = W.conn
    <3>1. d # e
      BY <1>4
    <3> QED
      BY <3>1, <2>4, <2>6
  <2>8. /\ [fw[k] EXCEPT !.data = fw[k].data - n] \in FwLink
        /\ [fw[k] EXCEPT !.data = fw[k].data - n].conn = fw[k].conn
        /\ [fw[k] EXCEPT !.data = fw[k].data - n].up = fw[k].up
        /\ [fw[k] EXCEPT !.data = fw[k].data - n].data = fw[k].data - n
    <3>1. fw[k].data - n \in 0 .. MaxData /\ fw[k] \in FwLink
      BY <1>2, <1>3
    <3>2. PICK x \in 0 .. MaxData : x = fw[k].data - n
      BY <3>1
    <3>3. [fw[k] EXCEPT !.data = x] \in FwLink
      BY <3>1, EndedLink
    <3>4. [fw[k] EXCEPT !.data = x].data = x
      BY <3>1, EndedLink
    <3>5. [fw[k] EXCEPT !.data = x].up = fw[k].up /\ [fw[k] EXCEPT !.data = x].conn = fw[k].conn
      BY <3>1, EndedLink
    <3> QED
      BY <3>2, <3>3, <3>4, <3>5
  <2>9. CASE /\ rx' = rx \o <<d>>
             /\ fw' = [fw EXCEPT ![k] = [fw[k] EXCEPT !.data = fw[k].data - n]]
    <3>1. Leads(V, T, k)'
      BY <2>1, <2>7, <2>9, <1>2, <1>4, <1>7, SentOne
    <3>2. fw'[k].up = fw[k].up /\ fw'[k].conn = fw[k].conn /\ fw'[k].data = fw[k].data - n
      BY <2>8, <2>9, <1>2
    <3>3. Agrees(T, k)'
      BY <3>2, <2>1, <2>3, <2>7, <1>2 DEF Agrees
    <3>4. ~ AT1 => Agrees2(T, k)'
      <4>1. ~ AT1 /\ ~ fw[k].up => fw[k].data - n = 0
        BY <2>1, <1>2, <1>3 DEF Agrees2
      <4> QED
        BY <3>2, <4>1, <2>1, <2>3, <2>6, <2>7 DEF Agrees2
    <3> QED
      BY <3>1, <3>3, <3>4 DEF LinkOK
  <2>10. CASE /\ n = fw[k].data /\ rx' = rx \o <<d, a>>
              /\ fw' = [fw EXCEPT ![k] = Ended([fw[k] EXCEPT !.data = fw[k].data - n])]
    <3>1. T.k \in Link /\ Closed(T.k) \in Link
      BY ViewFields, EntryTypes
    <3>2. PICK U \in View : U = [T EXCEPT !.k = Closed(T.k)]
      BY <3>1, ViewFields
    <3>3. U.k = Closed(T.k) /\ U.conn = T.conn
      BY <3>1, <3>2, ViewFields
    <3>4. U.k.flags = {} /\ U.k.serial = T.k.serial /\ (~ AT1 => U.k.available = 0)
      BY <3>1, <3>3, EntryFields
    <3>5. Step(call, a, k, T, U)
      BY <3>2, <1>4 DEF Step, StepEvent, StepClosed
    <3>6. Sound(U, conns', Promised')
      BY <3>3, <3>4, <2>7 DEF Sound
    <3>7. Leads(V, U, k)'
      BY <3>5, <3>6, <2>1, <2>7, <2>10, <1>2, <1>4, <1>7, SentTwo
    <3>8. fw'[k].up = FALSE /\ fw'[k].data = 0
      <4>1. fw'[k] = Ended([fw[k] EXCEPT !.data = fw[k].data - n]) /\ fw[k].data - n = 0
        BY <2>10, <1>2
      <4> QED
        BY <4>1, <2>8, EndedLink
    <3>9. Agrees(U, k)'
      BY <3>4, <3>8, <2>3 DEF Agrees
    <3>10. ~ AT1 => Agrees2(U, k)'
      BY <3>4, <3>8, <2>3 DEF Agrees2
    <3> QED
      BY <3>7, <3>9, <3>10 DEF LinkOK
  <2> QED
    BY <2>5, <2>9, <2>10, <1>5
<1>10. \A l \in Links : LinkOK(l)'
  BY <1>8, <1>9
<1>11. call.name # "connect" /\ conns' \in {conns, conns + 1}
  BY <1>2
<1> QED
  BY <1>2, <1>6, <1>10, <1>11, SentInv

\* The firmware lists its links or their bytes: the driver will agree with it if
\* it did so before the list.
LEMMA ListInv ==
  ASSUME TypeInv, TableInv, Undisturbed, UNCHANGED <<driverVars, fw, conns>>, req' = Idle,
         req.name \in {"status", "lens"}, NEW m \in Lines, m.what # "OK", rx' = rx \o <<m>>,
         \A l \in Links, W \in View :
           Sound(W, conns, Promised) /\ Agrees(W, l) /\ (~ AT1 => Agrees2(W, l))
           => \E U \in View : /\ Step(call, m, l, W, U) /\ Sound(U, conns, Promised)
                              /\ Agrees(U, l) /\ (~ AT1 => Agrees2(U, l))
  PROVE  TableInv'
<1>1. UNCHANGED driverVars /\ conns' \in {conns, conns + 1}
  BY StateFields
<1>2. <<m>> \in Seq(Lines) /\ \A i \in 1 .. Len(<<m>>) : <<m>>[i].what # "OK"
  OBVIOUS
<1>3. \A X \in View : Sound(X, conns, Promised) => Sound(X, conns', Promised')
  BY <1>1, <1>2, SentSound DEF driverVars
<1>4. ASSUME NEW l \in Links PROVE LinkOK(l)'
  <2>1. PICK V \in View, W \in View : Leads(V, W, l) /\ Agrees(W, l) /\ (~ AT1 => Agrees2(W, l))
    BY DEF TableInv, LinkOK
  <2>2. Sound(W, conns, Promised)
    BY <2>1, WhatComes
  <2>3. PICK U \in View : /\ Step(call, m, l, W, U) /\ Sound(U, conns, Promised)
                          /\ Agrees(U, l) /\ (~ AT1 => Agrees2(U, l))
    BY <2>1, <2>2
  <2>4. Leads(V, U, l)'
    BY <2>1, <2>3, <1>1, <1>3, SentOne
  <2>5. ~ Pending(l) /\ ~ Pending(l)' /\ "CLOSING" \notin U.k.flags
    BY <2>3 DEF Pending, Idle, Agrees
  <2>6. Agrees(U, l)'
    BY <2>3, <2>5 DEF Agrees
  <2>7. ~ AT1 => Agrees2(U, l)'
    BY <2>3, <2>5 DEF Agrees2
  <2> QED
    BY <2>4, <2>6, <2>7 DEF LinkOK
<1> QED
  BY <1>1, <1>2, <1>4, SentInv

\* +CIPSTATUS, for remoteParamsQuery and for checkLinks.
LEMMA AnswerStatusInv ==
  ASSUME TypeInv, TableInv, Undisturbed, AnswerStatus
  PROVE  TableInv'
<1> DEFINE m == [what |-> "STATUS", up |-> {l \in Links : fw[l].up}]
<1>1. /\ UNCHANGED <<driverVars, fw, conns>> /\ req' = Idle /\ req.name = "status" /\ rx' = Append(rx, m)
  BY DEF AnswerStatus, Answers
<1>2. /\ m.what = "STATUS" /\ \A l \in Links : l \in m.up <=> fw[l].up
  OBVIOUS
<1>3. m \in Lines
  BY DEF Lines, AnswerLines
<1> HIDE DEF m
<1>4. rx' = rx \o <<m>>
  <2>1. rx \in Seq(Lines)
    BY DEF TypeInv
  <2> QED
    BY <2>1, <1>1, <1>3
<1>5. call.name = "remote" \/ (call.name = "checkLinks" /\ AT1)
  BY <1>1 DEF TypeInv, CallsOK, Serves, Idle
<1>6. ASSUME NEW l \in Links, NEW W \in View, Sound(W, conns, Promised), Agrees(W, l),
             ~ AT1 => Agrees2(W, l)
      PROVE  \E U \in View : /\ Step(call, m, l, W, U) /\ Sound(U, conns, Promised)
                             /\ Agrees(U, l) /\ (~ AT1 => Agrees2(U, l))
  <2>1. /\ W.k \in Link /\ W.conn \in Nat /\ W.k.serial \in Nat /\ conns \in Nat
        /\ fw[l] \in FwLink /\ fw[l].conn \in Nat /\ fw[l].conn <= conns
    BY <1>6, ViewFields, StateFields DEF TypeInv, ConnsMade, TypeOK, FwLink
  <2>2. ~ Pending(l) /\ "CLOSING" \notin W.k.flags
    BY <1>1, <1>6 DEF Pending, Agrees
  <2>3. CASE Step(call, m, l, W, W)
    BY <2>3, <1>6
  <2>4. CASE ~ fw[l].up
    <3>1. SetFlags(W.k, {}) \in Link
      BY <2>1, EntryTypes DEF Flags
    <3>2. PICK U \in View : U = [W EXCEPT !.k = SetFlags(W.k, {})]
      BY <3>1, ViewFields
    <3>3. U.k = SetFlags(W.k, {}) /\ U.conn = W.conn
      BY <3>1, <3>2, ViewFields
    <3>4. U.k.flags = {} /\ U.k.serial = W.k.serial /\ U.k.available = W.k.available
      BY <3>3, <2>1, EntryFields
    <3>5. Sound(U, conns, Promised)
      BY <3>3, <3>4, <1>6 DEF Sound
    <3>6. Agrees(U, l)
      BY <3>4, <2>2, <2>4 DEF Agrees
    <3>7. ~ AT1 => Agrees2(U, l)
      BY <3>4, <2>2, <2>4, <1>6 DEF Agrees2
    <3>8. CASE StepStatus(call, m, l, W, U)
      BY <3>8, <3>5, <3>6, <3>7 DEF Step, StepAnswer
    <3>9. CASE ~ StepStatus(call, m, l, W, U)
      <4>1. StepStatus(call, m, l, W, W)
        BY <3>2, <3>9, <2>4, <1>2, <1>5 DEF StepStatus
      <4> QED
        BY <4>1, <2>3 DEF Step, StepAnswer
    <3> QED
      BY <3>8, <3>9
  <2>5. CASE fw[l].up /\ call.name = "checkLinks" /\ Missing(W.k)
    <3>1. AT1 /\ W.k.serial < conns /\ conns < SerialMod /\ SerialMod \in Nat
      BY <2>2, <2>5, <1>5, <1>6, LinksAssumption DEF Missing, Agrees, Undisturbed
    <3>2. Incoming(W.k) \in Link
      BY <2>1, EntryTypes
    <3>3. PICK U \in View : U.k = Incoming(W.k) /\ U.conn = fw[l].conn
      BY <3>2, <2>1, ViewOf
    <3>4. W.k.serial + 1 < SerialMod
      BY <3>1, <2>1
    <3>5. U.k.flags = {"CONNECTED", "INCOMING"} /\ U.k.serial = W.k.serial + 1
      BY <3>3, <3>4, <2>1, EntryFields
    <3>6. Renewed(W, U, Incoming(W.k))
      BY <3>1, <3>3, <3>5, <2>1 DEF Renewed
    <3>7. StepStatus(call, m, l, W, U)
      BY <3>6, <2>5, <1>2 DEF StepStatus
    <3>8. Sound(U, conns, Promised)
      BY <3>1, <3>3, <3>5, <2>1 DEF Sound
    <3>9. Agrees(U, l)
      BY <3>3, <3>5, <2>2, <2>5 DEF Agrees
    <3> QED
      BY <3>1, <3>7, <3>8, <3>9 DEF Step, StepAnswer
  <2>6. CASE fw[l].up /\ ~ (call.name = "checkLinks" /\ Missing(W.k))
    <3>1. StepStatus(call, m, l, W, W)
      BY <2>6, <1>2, <1>5 DEF StepStatus
    <3> QED
      BY <3>1, <2>3 DEF Step, StepAnswer
  <2> QED
    BY <2>4, <2>5, <2>6
<1> QED
  BY <1>1, <1>2, <1>3, <1>4, <1>6, ListInv

\* +CIPRECVLEN, which in AT 2 ends what is not connected any more.
LEMMA AnswerLensInv ==
  ASSUME TypeInv, TableInv, Undisturbed, AnswerLens
  PROVE  TableInv'
<1> DEFINE m == [what |-> "LENS",
                 len |-> [l \in Links |-> IF AT1 \/ fw[l].up THEN fw[l].data ELSE -1]]
<1>1. /\ UNCHANGED <<driverVars, fw, conns>> /\ req' = Idle /\ req.name = "lens" /\ rx' = Append(rx, m)
  BY DEF AnswerLens, Answers
<1>2. /\ m.what = "LENS" /\ \A l \in Links : m.len[l] = IF AT1 \/ fw[l].up THEN fw[l].data ELSE -1
  OBVIOUS
<1>3. m \in Lines
  <2>1. \A l \in Links : fw[l].data \in 0 .. MaxData
    BY DEF TypeInv, TypeOK, FwLink
  <2>2. [l \in Links |-> IF AT1 \/ fw[l].up THEN fw[l].data ELSE -1]
          \in [Links -> (IF AT1 THEN 0 ELSE -1) .. MaxData]
    BY <2>1, BoundsAssumption
  <2> QED
    BY <2>2 DEF Lines, AnswerLines
<1> HIDE DEF m
<1>4. rx' = rx \o <<m>>
  <2>1. rx \in Seq(Lines)
    BY DEF TypeInv
  <2> QED
    BY <2>1, <1>1, <1>3
<1>5. ASSUME NEW l \in Links, NEW W \in View, Sound(W, conns, Promised), Agrees(W, l),
             ~ AT1 => Agrees2(W, l)
      PROVE  \E U \in View : /\ Step(call, m, l, W, U) /\ Sound(U, conns, Promised)
                             /\ Agrees(U, l) /\ (~ AT1 => Agrees2(U, l))
  <2>1. W.k \in Link /\ fw[l] \in FwLink /\ fw[l].data \in 0 .. MaxData /\ MaxData \in Nat
    BY ViewFields, BoundsAssumption DEF TypeInv, TypeOK, FwLink
  <2>2. ~ Pending(l) /\ "CLOSING" \notin W.k.flags
    BY <1>1, <1>5 DEF Pending, Agrees
  <2>3. CASE AT1 \/ fw[l].up
    <3>1. [W.k EXCEPT !.available = fw[l].data] \in Link
      BY <2>1, EntryTypes
    <3>2. PICK U \in View : U = [W EXCEPT !.k = [W.k EXCEPT !.available = fw[l].data]]
      BY <3>1, ViewFields
    <3>3. U.k = [W.k EXCEPT !.available = fw[l].data] /\ U.conn = W.conn
      BY <3>1, <3>2, ViewFields
    <3>4. U.k.flags = W.k.flags /\ U.k.serial = W.k.serial /\ U.k.available = fw[l].data
      BY <3>3, <2>1, EntryFields
    <3>5. ~ AT1 => ~ Missing(W.k)
      BY <2>2, <2>3, <1>5 DEF Missing, Agrees2
    <3>6. m.len[l] = fw[l].data /\ ~ (fw[l].data < 0)
      BY <2>1, <2>3, <1>2
    <3>7. StepLens(m, l, W, U)
      BY <3>2, <3>5, <3>6, <1>2 DEF StepLens
    <3>8. Sound(U, conns, Promised)
      BY <3>3, <3>4, <1>5 DEF Sound
    <3>9. Agrees(U, l)
      BY <3>3, <3>4, <1>5 DEF Agrees
    <3>10. ~ AT1 => Agrees2(U, l)
      BY <3>4, <2>2, <2>3, <1>5 DEF Agrees2
    <3> QED
      BY <3>7, <3>8, <3>9, <3>10 DEF Step, StepAnswer
  <2>4. CASE ~ (AT1 \/ fw[l].up)
    <3>1. SetFlags(W.k, {}) \in Link
      BY <2>1, EntryTypes DEF Flags
    <3>2. [SetFlags(W.k, {}) EXCEPT !.available = 0] \in Link
      BY <3>1, <2>1, EntryTypes
    <3>3. PICK U \in View : U = [W EXCEPT !.k = [SetFlags(W.k, {}) EXCEPT !.available = 0]]
      BY <3>2, ViewFields
    <3>4. U.k = [SetFlags(W.k, {}) EXCEPT !.available = 0] /\ U.conn = W.conn
      BY <3>2, <3>3, ViewFields
    <3>5. SetFlags(W.k, {}).flags = {} /\ SetFlags(W.k, {}).serial = W.k.serial
      BY <2>1, EntryFields
    <3>6. U.k.flags = {} /\ U.k.serial = W.k.serial /\ U.k.available = 0
      BY <3>1, <3>4, <3>5, EntryFields
    <3>7. m.len[l] = -1 /\ -1 < 0 /\ ~ (-1 >= 0)
      BY <2>4, <1>2
    <3>8. StepLens(m, l, W, U)
      BY <3>3, <3>7, <1>2 DEF StepLens
    <3>9. Sound(U, conns, Promised)
      BY <3>4, <3>6, <1>5 DEF Sound
    <3>10. Agrees(U, l)
      BY <3>6, <2>2, <2>4 DEF Agrees
    <3>11. ~ AT1 => Agrees2(U, l)
      BY <3>6, <2>2, <2>4, <1>5 DEF Agrees2
    <3> QED
      BY <3>8, <3>9, <3>10, <3>11 DEF Step, StepAnswer
  <2> QED
    BY <2>3, <2>4
<1> QED
  BY <1>1, <1>2, <1>3, <1>4, <1>5, ListInv

-----------------------------------------------------------------------------
(* The invariant of the table.                                             *)

\* Nothing that was lost comes back.
LEMMA UndisturbedBefore ==
  ASSUME TypeInv, [Next]_vars, Undisturbed'
  PROVE  Undisturbed
<1>1. faults \in Nat /\ conns \in Nat /\ SerialMod \in Nat
  BY StateFields, LinksAssumption
<1>2. faults' \in {faults, faults + 1} /\ conns' \in {conns, conns + 1}
  <2>1. \A s : Emit(s) => faults' \in {faults, faults + 1}
    BY DEF Emit
  <2>2. CASE Peer
    BY <2>1, <2>2 DEF Peer, PeerConnects, PeerSends, PeerCloses
  <2>3. CASE Firmware
    BY <2>1, <2>3 DEF Firmware, AnswerStart, AnswerClose, AnswerRecv, AnswerStatus, AnswerLens, AnswerReset
  <2>4. CASE Work
    BY <2>4 DEF Work, ReadIPD, ReadConnect, ReadClosed, Event, ConnectOK, ConnectError, CloseDone, RecvData,
       RecvError, RemoteDone, CheckLinks, RecvLenQuery, RecvLens, ResetDone, Got, Send
  <2>5. CASE Sketch
    BY <2>5 DEF Sketch, Connects, Accepts, Polls, Reset, Close, Forget, Remote, Recv, Connect, Accept, Poll,
       StartCall, Send
  <2>6. CASE UNCHANGED vars
    BY <2>6 DEF vars
  <2> QED
    BY <2>2, <2>3, <2>4, <2>5, <2>6 DEF Next
<1> QED
  BY <1>1, <1>2 DEF Undisturbed

LEMMA NextTable ==
  ASSUME TypeInv, TableInv, [Next]_vars
  PROVE  TableInv'
<1>1. CASE ~ Undisturbed'
  BY <1>1 DEF TableInv
<1> SUFFICES ASSUME Undisturbed' PROVE TableInv'
  BY <1>1
<1>2. Undisturbed
  BY UndisturbedBefore
<1>3. CASE Peer
  BY <1>2, <1>3, PeerConnectsInv, PeerSendsInv, PeerClosesInv, PeerFinishesInv DEF Peer
<1>4. CASE Firmware
  <2>1. ~ AnswerReset
    BY <1>2 DEF AnswerReset, Answers, TypeInv, CallsOK, Serves, Undisturbed, Idle
  <2> QED
    BY <1>2, <1>4, <2>1, AnswerStartInv, AnswerCloseInv, AnswerRecvInv, AnswerStatusInv, AnswerLensInv
    DEF Firmware
<1>5. CASE Work
  BY <1>2, <1>5, EventInv, ReturnInv, AskInv DEF Work
<1>6. CASE Sketch
  <2>1. ~ Reset
    BY StateFields DEF Reset, Undisturbed
  <2> QED
    BY <1>2, <1>6, <2>1, ConnectInv, AcceptInv, AskInv, CloseInv, ForgetInv
    DEF Sketch, Connects, Accepts, Polls
<1>7. CASE UNCHANGED vars
  <2>1. Promised' = Promised /\ UNCHANGED <<link, call, req, rx, fw, held, conns, given, faults>>
    BY <1>7 DEF vars, Promised
  <2>2. \A V, W \in View, l \in Links : Leads(V, W, l) => Leads(V, W, l)'
    BY <2>1 DEF Leads
  <2>3. \A W \in View, l \in Links : Agrees(W, l) => Agrees(W, l)'
    BY <2>1 DEF Agrees, Pending
  <2>4. \A W \in View, l \in Links : Agrees2(W, l) => Agrees2(W, l)'
    BY <2>1 DEF Agrees2, Pending
  <2>5. \A l \in Links : LinkOK(l)'
    BY <1>2, <2>2, <2>3, <2>4 DEF LinkOK, TableInv
  <2> QED
    BY <1>2, <2>1, <2>5 DEF TableInv, Fresh
<1> QED
  BY <1>3, <1>4, <1>5, <1>6, <1>7 DEF Next

LEMMA InitTable == Init => TableInv
<1> SUFFICES ASSUME Init PROVE TableInv
  OBVIOUS
<1>1. TypeInv
  BY InitTypes
<1>2. held = {} /\ given = {} /\ rx = <<>> /\ req = Idle /\ conns = 0
  BY DEF Init
<1>3. Fresh
  BY <1>2 DEF Fresh
<1>4. ASSUME NEW l \in Links PROVE LinkOK(l)
  <2>1. /\ link[l] = [flags |-> {}, serial |-> 0, available |-> 0]
        /\ fw[l].up = FALSE /\ fw[l].data = 0
    BY DEF Init
  <2>2. link[l] \in Link
    BY <1>1, StateFields
  <2>3. PICK V \in View : V.k = link[l] /\ V.conn = 0
    BY <2>2, ViewOf
  <2>4. Sound(V, conns, Promised)
    BY <1>2, <2>1, <2>3 DEF Sound
  <2>5. Agrees(V, l) /\ Agrees2(V, l)
    BY <1>2, <2>1, <2>3 DEF Agrees, Agrees2, Pending, Idle
  <2> QED
    BY <1>2, <2>3, <2>4, <2>5, AtRest
<1> QED
  BY <1>2, <1>3, <1>4 DEF TableInv

\* The inductive invariant of the link table: along the lines on their way, what the
\* driver believes of a link becomes what the firmware has, and every id is of the
\* connection it was given for.
THEOREM TableInvariance == Spec => [](TypeInv /\ TableInv)
<1>1. (TypeInv /\ TableInv) /\ [Next]_vars => (TypeInv /\ TableInv)'
  BY NextTypes, NextTable
<1> QED
  BY <1>1, InitTypes, InitTable, PTL DEF Spec

-----------------------------------------------------------------------------
(* What the invariant says when the driver has read all.                   *)

\* When the line is empty and no call waits, the entry of a link speaks of the
\* connection the firmware has, and the ids it gave out are of that life or of an
\* earlier one.
LEMMA TableAtRest ==
  ASSUME TypeInv, TableInv, Undisturbed, Quiet, NEW l \in Links
  PROVE  /\ Connected(l) => fw[l].up
         /\ \A h \in held : h.link = l /\ Active(h) => fw[l].up /\ fw[l].conn = h.conn
         /\ ~ AT1 => /\ Connected(l) <=> fw[l].up
                     /\ link[l].available = fw[l].data
                     /\ ~ fw[l].up => fw[l].data = 0
                     /\ \A h \in held : h.link = l /\ fw[l].up /\ h.conn = fw[l].conn => Active(h)
         /\ ~ Has(l, "CLOSING")
<1>1. rx = <<>> /\ req = Idle
  BY DEF Quiet, TypeInv, TypeOK
<1>2. PICK V \in View : /\ V.k = link[l] /\ \A h \in held : h.link = l => Earlier(h, V)
                        /\ Sound(V, conns, Promised) /\ Agrees(V, l) /\ (~ AT1 => Agrees2(V, l))
  BY <1>1, AtRest DEF TableInv
<1>3. ~ Pending(l) /\ ~ Has(l, "CLOSING")
  BY <1>1, <1>2 DEF Pending, Idle, Agrees, Has
<1>4. Connected(l) => fw[l].up /\ V.conn = fw[l].conn
  BY <1>2, <1>3 DEF Agrees, Connected, Has
<1>5. \A h \in held : h.link = l /\ Active(h) => fw[l].up /\ fw[l].conn = h.conn
  BY <1>2, <1>4 DEF Active, CheckLinkId, Earlier
<1>6. ASSUME ~ AT1
      PROVE  /\ Connected(l) <=> fw[l].up
             /\ link[l].available = fw[l].data
             /\ ~ fw[l].up => fw[l].data = 0
  BY <1>2, <1>3, <1>6 DEF Agrees2, Connected, Has
<1>7. ASSUME ~ AT1, NEW h \in held, h.link = l, fw[l].up, h.conn = fw[l].conn PROVE Active(h)
  <2>1. Connected(l) /\ V.conn = h.conn
    BY <1>4, <1>6, <1>7
  <2>2. h.serial = link[l].serial
    BY <2>1, <1>2, <1>7 DEF Earlier
  <2> QED
    BY <2>1, <2>2, <1>7 DEF Active, CheckLinkId
<1> QED
  BY <1>3, <1>4, <1>5, <1>6, <1>7

\* An id that checkLinkId accepts is of the connection it was given for, in both
\* versions of the firmware and for any number of links, as long as no line is lost:
\* no WiFiClient uses the connection of another.
THEOREM ClientsKeepApart == Spec => []OwnConnection
<1>1. TypeInv /\ TableInv => OwnConnection
  BY TableAtRest, StateFields DEF OwnConnection
<1> QED
  BY <1>1, TableInvariance, PTL

\* As long as no line is lost, no two connections are handed out under one id.
THEOREM IdsAreUnique == Spec => []UniqueIds
<1>1. TableInv => UniqueIds
  BY DEF TableInv, UniqueIds
<1> QED
  BY <1>1, TableInvariance, PTL

\* AT 2: what available() says of a live connection is what the firmware holds.
THEOREM AvailableIsExact == ~ AT1 => (Spec => []AvailableExact)
<1> SUFFICES ASSUME ~ AT1 PROVE Spec => []AvailableExact
  OBVIOUS
<1>1. TypeInv /\ TableInv => AvailableExact
  <2> SUFFICES ASSUME TypeInv, TableInv, Undisturbed, Quiet, NEW h \in held
               PROVE  link[h.link].available = fw[h.link].data
    BY DEF AvailableExact
  <2>1. h.link \in Links
    BY StateFields
  <2> QED
    BY <2>1, TableAtRest
<1> QED
  BY <1>1, TableInvariance, PTL

\* AT 2: as long as the firmware holds bytes of a connection, the id it was given
\* under is accepted, so that they can be read after the peer has closed.
THEOREM UnreadCanBeRead == ~ AT1 => (Spec => []UnreadReadable)
<1> SUFFICES ASSUME ~ AT1 PROVE Spec => []UnreadReadable
  OBVIOUS
<1>1. TypeInv /\ TableInv => UnreadReadable
  <2> SUFFICES ASSUME TypeInv, TableInv, Undisturbed, Quiet, NEW h \in held,
                      fw[h.link].conn = h.conn, fw[h.link].data > 0
               PROVE  Active(h)
    BY DEF UnreadReadable
  <2>1. h.link \in Links
    BY StateFields
  <2>2. fw[h.link].up
    BY <2>1, TableAtRest
  <2> QED
    BY <2>1, <2>2, TableAtRest
<1> QED
  BY <1>1, TableInvariance, PTL

\* AT 2: a link whose connection is over can be used for the next one.
THEOREM LinksAreReleased == ~ AT1 => (Spec => []LinkReleased)
<1> SUFFICES ASSUME ~ AT1 PROVE Spec => []LinkReleased
  OBVIOUS
<1>1. TypeInv /\ TableInv => LinkReleased
  <2> SUFFICES ASSUME TypeInv, TableInv, Undisturbed, Quiet, NEW l \in Links, ~ fw[l].up
               PROVE  Free(l)
    BY DEF LinkReleased
  <2>1. ~ Connected(l) /\ link[l].available = 0 /\ ~ Has(l, "CLOSING")
    BY TableAtRest
  <2> QED
    BY <2>1 DEF Free
<1> QED
  BY <1>1, TableInvariance, PTL

\* AT 2: a connection is handed to the sketch once, by connect() or by accept().
THEOREM ConnectionsAreGivenOnce == ~ AT1 => (Spec => GivenOnce)
<1> SUFFICES ASSUME ~ AT1 PROVE Spec => GivenOnce
  OBVIOUS
<1>1. TypeInv /\ TableInv /\ [Next]_vars =>
        [Undisturbed' => /\ \A l \in Links : Accept(l) => fw[l].conn \notin given
                         /\ ConnectOK => Head(rx).conn \notin given]_vars
  <2> SUFFICES ASSUME TypeInv, TableInv, [Next]_vars, Undisturbed'
               PROVE  /\ \A l \in Links : Accept(l) => fw[l].conn \notin given
                      /\ ConnectOK => Head(rx).conn \notin given
    OBVIOUS
  <2>1. Undisturbed
    BY UndisturbedBefore
  <2>2. ASSUME NEW l \in Links, Accept(l) PROVE fw[l].conn \notin given
    <3>1. Quiet /\ rx = <<>> /\ "INCOMING" \in link[l].flags
      BY <2>2 DEF Accept, Quiet, Has
    <3>2. PICK V \in View : V.k = link[l] /\ Sound(V, conns, Promised) /\ Agrees(V, l)
      BY <2>1, <3>1, AtRest DEF TableInv
    <3>3. fw[l].conn \notin Promised
      BY <2>1, <3>1, <3>2, Accepted
    <3> QED
      BY <3>3 DEF Promised
  <2>3. ASSUME ConnectOK PROVE Head(rx).conn \notin given
    <3>1. rx \in Seq(Lines) /\ rx # <<>> /\ Head(rx).what = "OK" /\ call.name = "connect"
      BY <2>3 DEF ConnectOK, Got, TypeInv
    <3>2. 1 \in 1 .. Len(rx) /\ Head(rx) = rx[1]
      BY <3>1
    <3> QED
      BY <2>1, <3>1, <3>2 DEF TableInv, Fresh
  <2> QED
    BY <2>2, <2>3
<1>2. Spec => [][Undisturbed' => /\ \A l \in Links : Accept(l) => fw[l].conn \notin given
                                 /\ ConnectOK => Head(rx).conn \notin given]_vars
  BY <1>1, TableInvariance, PTL DEF Spec
<1> QED
  BY <1>2 DEF GivenOnce
=============================================================================
