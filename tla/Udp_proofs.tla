------------------------------ MODULE Udp_proofs ------------------------------
(***************************************************************************)
(* What Udp promises, proved for every size of buffer, pool, message and   *)
(* line: the types, that the packet being read is not overwritten, that    *)
(* read() returns the bytes of the messages in order, and that the size    *)
(* availableForParse returns belongs to a message the firmware has.        *)
(*                                                                         *)
(* The last one is the hard one: link.available is one number, set from    *)
(* announcements and queries and counted down by what was read. It never   *)
(* exceeds the bytes that wait (held), because while a fetch goes on it is *)
(* either no more than what was asked for or the size of a later message.  *)
(***************************************************************************)
EXTENDS Udp, TLAPS

-----------------------------------------------------------------------------
(* The inductive invariant.                                                *)

\* h is the sum of the sizes of the messages of q: f[i] is the sum of the first i.
SumsUp(q, h, f) ==
  /\ f \in [0 .. Len(q) -> 0 .. h] /\ f[0] = 0 /\ f[Len(q)] = h
  /\ \A i \in 1 .. Len(q) : f[i] = f[i - 1] + q[i].size
  /\ \A i, j \in 0 .. Len(q) : i <= j => f[i] <= f[j]
Sums(q, h) == \E f \in [0 .. Len(q) -> 0 .. h] : SumsUp(q, h, f)

SeenOK ==
  /\ seen \in [packet : 0 .. MaxMessages, read : (0 .. MaxMessages) \X (0 .. BufferSize)]
  /\ rx.msg <= sent /\ seen.read[1] <= sent

\* Which calls and which items there are with either firmware.
Sides ==
  /\ at1 => call \in Calls /\ line \in Seq(Items) /\ avail = 0 /\ queue = <<>>
  /\ ~ at1 => line \in Seq([kind : {"ipd"}, size : 1 .. MaxSize])

\* The packet being read is the one whose byte was read last; a packet that was not begun
\* came after all that was read.
Place ==
  /\ rx.index > 0 => rx.live /\ seen.read = <<rx.msg, rx.index>>
  /\ rx.live /\ rx.index = 0 =>
       rx.msg > seen.read[1] \/ (~ at1 /\ (rx.msg = 0 \/ seen.read[1] = 0))

\* A message that is still to come, and what was taken and read before it.
Later(n) == rx.msg < n /\ seen.read[1] < n /\ n <= sent

\* AT 1: messages come in their order.
LineInOrder ==
  \A i \in 1 .. Len(line) : line[i].kind = "message" =>
    /\ Later(line[i].msg)
    /\ \A j \in 1 .. Len(line) : line[j].kind = "message" => (i < j => line[i].msg < line[j].msg)

\* AT 2: so do those that the firmware keeps.
QueueInOrder ==
  \A i \in 1 .. Len(queue) :
    Later(queue[i].msg) /\ \A j \in 1 .. Len(queue) : i < j => queue[i].msg < queue[j].msg

\* AT 2: a fetch has a stream, and a message to fetch.
HasStream  == call \in {"fetch", "info", "receive", "infoOff"} => rx.live
HasMessage == call \in {"fetch", "info", "receive"} => queue # <<>>

\* n is the size of a message, other than the one a fetch is about to get.
Size(n) == \E j \in 1 .. Len(queue) : n = queue[j].size /\ (call \in {"info", "receive"} => j > 1)
Announced == ~ at1 => \A i \in 1 .. Len(line) : Size(line[i].size)

\* What is known of the messages is never more than there is.
Held == Sums(queue, held) /\ held <= MaxSize * sent /\ avail <= held
Fetching == call \in {"info", "receive"} => avail <= asked \/ Size(avail)

UdpInv ==
  /\ UdpTypeOK /\ SeenOK /\ Sides /\ Place /\ LineInOrder /\ QueueInOrder
  /\ HasStream /\ HasMessage /\ Announced /\ Held /\ Fetching

-----------------------------------------------------------------------------
(* The operators.                                                          *)

LEMMA MinOf ==
  ASSUME NEW a \in Nat, NEW b \in Nat
  PROVE  Min({a, b}) = IF a <= b THEN a ELSE b
<1> DEFINE c == IF a <= b THEN a ELSE b
<1>1. c \in {a, b} /\ \A y \in {a, b} : c <= y
  OBVIOUS
<1>2. \A x \in {a, b} : (\A y \in {a, b} : x <= y) => x = c
  OBVIOUS
<1> QED
  BY <1>1, <1>2 DEF Min

LEMMA Multiples ==
  ASSUME NEW k \in Nat, NEW a \in Nat, NEW b \in Nat, a <= b
  PROVE  k * a <= k * b
<1> DEFINE d == b - a
<1>1. d \in Nat /\ b = a + d
  OBVIOUS
<1>2. k * (a + d) = k * a + k * d /\ k * d \in Nat /\ k * a \in Nat
  BY <1>1
<1> HIDE DEF d
<1> QED
  BY <1>1, <1>2

\* Nothing waits: the sum is 0, and no other number is a sum.
LEMMA SumsEmpty ==
  ASSUME NEW h \in Nat
  PROVE  /\ Sums(<<>>, 0)
         /\ Sums(<<>>, h) => h = 0
<1>1. SumsUp(<<>>, 0, [i \in 0 .. 0 |-> 0])
  BY DEF SumsUp
<1>2. Sums(<<>>, 0)
  BY <1>1 DEF Sums, SumsUp
<1>3. Sums(<<>>, h) => h = 0
  BY DEF Sums, SumsUp
<1> QED
  BY <1>2, <1>3

\* The sum covers every message, and every later one besides the first.
LEMMA SumsCovers ==
  ASSUME NEW q \in Seq(Message2s), NEW h \in Nat, Sums(q, h), NEW j \in 1 .. Len(q)
  PROVE  /\ q[j].size <= h
         /\ j > 1 => q[j].size <= h - q[1].size
<1>1. PICK f \in [0 .. Len(q) -> 0 .. h] : SumsUp(q, h, f)
  BY DEF Sums
<1>2. q[j].size \in Nat /\ q[1].size \in Nat /\ Len(q) \in Nat
  <2>1. Len(q) \in Nat /\ 1 \in 1 .. Len(q)
    OBVIOUS
  <2>2. q[j] \in Message2s /\ q[1] \in Message2s
    BY <2>1
  <2> QED
    BY <2>1, <2>2 DEF Message2s
<1>3. f[j] \in 0 .. h /\ f[j - 1] \in 0 .. h /\ f[1] \in 0 .. h /\ f[0] = 0
  BY SMTT(30), <1>1, <1>2 DEF SumsUp
<1>4. f[j] = f[j - 1] + q[j].size /\ f[1] = f[0] + q[1].size
  <2>1. 1 \in 1 .. Len(q) /\ 1 - 1 = 0
    BY <1>2
  <2> QED
    BY <1>1, <2>1 DEF SumsUp
<1>5. j > 1 => f[1] <= f[j - 1]
  BY <1>1, <1>2 DEF SumsUp
<1> QED
  BY <1>2, <1>3, <1>4, <1>5

\* The first message goes.
LEMMA SumsTail ==
  ASSUME NEW q \in Seq(Message2s), NEW h \in Nat, Sums(q, h), q # <<>>
  PROVE  /\ h - q[1].size \in Nat
         /\ Sums(Tail(q), h - q[1].size)
<1>1. PICK f \in [0 .. Len(q) -> 0 .. h] : SumsUp(q, h, f)
  BY DEF Sums
<1> DEFINE z == q[1].size
           n == Len(q)
           g == [i \in 0 .. n - 1 |-> f[i + 1] - z]
<1>2. z \in Nat /\ n \in Nat \ {0} /\ \A i \in 1 .. n : q[i].size \in Nat
  BY DEF Message2s
<1>3. f[1] = z /\ z <= h
  <2>1. 1 \in 1 .. n /\ 1 - 1 = 0
    BY <1>2
  <2> QED
    BY <1>1, <1>2, <2>1 DEF SumsUp
<1>4. \A i \in 0 .. n - 1 : f[i + 1] \in 0 .. h /\ z <= f[i + 1]
  <2> TAKE i \in 0 .. n - 1
  <2>1. 1 \in 0 .. n /\ i + 1 \in 0 .. n /\ 1 <= i + 1
    BY <1>2
  <2> QED
    BY <1>1, <1>3, <2>1 DEF SumsUp
<1>5. Len(Tail(q)) = n - 1 /\ \A i \in 1 .. n - 1 : Tail(q)[i] = q[i + 1]
  BY <1>2
<1>6. g \in [0 .. n - 1 -> 0 .. h - z]
  BY <1>2, <1>3, <1>4
<1>7. g[0] = 0 /\ g[n - 1] = h - z
  BY <1>1, <1>2, <1>3 DEF SumsUp
<1>8. \A i \in 1 .. n - 1 : g[i] = g[i - 1] + Tail(q)[i].size
  <2> TAKE i \in 1 .. n - 1
  <2>1. g[i] = f[i + 1] - z /\ g[i - 1] = f[i] - z
    BY <1>2
  <2>2. f[i + 1] = f[i] + q[i + 1].size
    <3>1. i + 1 \in 1 .. n /\ i + 1 - 1 = i
      BY <1>2
    <3> QED
      BY <1>1, <3>1 DEF SumsUp
  <2>3. f[i] \in Nat /\ f[i + 1] \in Nat /\ q[i + 1].size \in Nat
    BY <1>2, <1>1
  <2> HIDE DEF g, z
  <2> QED
    BY <1>2, <1>5, <2>1, <2>2, <2>3
<1>9. \A i, j \in 0 .. n - 1 : i <= j => g[i] <= g[j]
  <2> TAKE i, j \in 0 .. n - 1
  <2>1. i <= j => f[i + 1] <= f[j + 1]
    BY <1>1, <1>2 DEF SumsUp
  <2>2. f[i + 1] \in Nat /\ f[j + 1] \in Nat
    BY <1>4
  <2> QED
    BY <1>2, <2>1, <2>2
<1> HIDE DEF g, n, z
<1>10. SumsUp(Tail(q), h - z, g)
  BY <1>5, <1>6, <1>7, <1>8, <1>9 DEF SumsUp
<1>11. h - z \in Nat
  BY <1>2, <1>3
<1>12. Sums(Tail(q), h - z)
  BY <1>5, <1>6, <1>10 DEF Sums
<1> QED
  BY <1>11, <1>12 DEF z

\* A message comes.
LEMMA SumsAppend ==
  ASSUME NEW q \in Seq(Message2s), NEW h \in Nat, Sums(q, h), NEW m \in Message2s
  PROVE  Sums(Append(q, m), h + m.size)
<1>1. PICK f \in [0 .. Len(q) -> 0 .. h] : SumsUp(q, h, f)
  BY DEF Sums
<1> DEFINE z == m.size
           n == Len(q)
           g == [i \in 0 .. n + 1 |-> IF i = n + 1 THEN h + z ELSE f[i]]
<1>2. z \in Nat /\ n \in Nat
  BY DEF Message2s
<1>3. /\ Len(Append(q, m)) = n + 1 /\ Append(q, m)[n + 1] = m
      /\ \A i \in 1 .. n : Append(q, m)[i] = q[i]
  BY <1>2
<1>4. \A i \in 0 .. n : f[i] \in 0 .. h
  BY <1>1
<1>5. g \in [0 .. n + 1 -> 0 .. h + z]
  BY <1>2, <1>4
<1>6. f[0] = 0 /\ f[n] = h
  BY <1>1 DEF SumsUp
<1>7. g[0] = 0 /\ g[n + 1] = h + z /\ g[n] = h /\ \A i \in 0 .. n : g[i] = f[i]
  BY <1>2, <1>6
<1> HIDE DEF g
<1>8. \A i \in 1 .. n + 1 : g[i] = g[i - 1] + Append(q, m)[i].size
  <2> TAKE i \in 1 .. n + 1
  <2>1. CASE i = n + 1
    BY <1>2, <1>3, <1>7, <2>1
  <2>2. CASE i # n + 1
    <3>1. i \in 1 .. n /\ i \in 0 .. n /\ i - 1 \in 0 .. n
      BY <1>2, <2>2
    <3>2. f[i] = f[i - 1] + q[i].size
      BY <1>1, <3>1 DEF SumsUp
    <3> QED
      BY <1>3, <1>7, <3>1, <3>2
  <2> QED
    BY <2>1, <2>2
<1>9. \A i, j \in 0 .. n + 1 : i <= j => g[i] <= g[j]
  <2> TAKE i, j \in 0 .. n + 1
  <2>1. i \in 0 .. n /\ j \in 0 .. n /\ i <= j => f[i] <= f[j]
    BY <1>1 DEF SumsUp
  <2>2. \A k \in 0 .. n + 1 : g[k] \in 0 .. h + z
    BY <1>5
  <2> QED
    BY <1>2, <1>7, <2>1, <2>2
<1> HIDE DEF n, z
<1>10. SumsUp(Append(q, m), h + z, g)
  BY <1>3, <1>5, <1>7, <1>8, <1>9 DEF SumsUp
<1> QED
  BY <1>3, <1>5, <1>10 DEF Sums, z

\* Only the sizes count.
LEMMA SumsSame ==
  ASSUME NEW q \in Seq(Message2s), NEW r \in Seq(Message2s), NEW h \in Nat, Sums(q, h),
         Len(r) = Len(q), \A i \in 1 .. Len(q) : r[i].size = q[i].size
  PROVE  Sums(r, h)
BY DEF Sums, SumsUp

-----------------------------------------------------------------------------
(* The steps that are the same with both firmwares.                        *)

\* The messages to come stay later than a packet that is dropped or goes on to be read.
LEMMA StillLater ==
  ASSUME UdpInv, UNCHANGED <<line, queue, sent>>,
         rx'.msg \in {0, rx.msg}, seen'.read[1] \in {seen.read[1], rx.msg}
  PROVE  LineInOrder' /\ QueueInOrder'
<1>1. rx.msg \in Nat /\ rx'.msg \in Nat /\ seen.read[1] \in Nat
  BY DEF UdpInv, UdpTypeOK, Rx, SeenOK
<1>2. LineInOrder'
  <2>1. \A i \in 1 .. Len(line) : line[i].kind = "message" => line[i].msg \in Int
    BY DEF UdpInv, UdpTypeOK, Items
  <2> QED
    BY <1>1, <2>1 DEF UdpInv, LineInOrder, Later
<1>3. QueueInOrder'
  <2>1. \A i \in 1 .. Len(queue) : queue[i].msg \in Int
    <3>1. \A i \in 1 .. Len(queue) : queue[i] \in Message2s
      BY DEF UdpInv, UdpTypeOK
    <3> QED
      BY <3>1 DEF Message2s
  <2> QED
    BY <1>1, <2>1 DEF UdpInv, QueueInOrder, Later
<1> QED
  BY <1>2, <1>3

LEMMA SketchKeeps ==
  ASSUME UdpInv, Sketch, UNCHANGED <<at1, avail, asked, queue, held, faults>>
  PROVE  UdpInv'
<1>0. UNCHANGED <<line, sent>>
  BY DEF Sketch, Read, Available, Maintain, Maintained, Take, GiveBack, Begin, Begun, Stop
<1>1. rx \in Rx /\ others \in Nat /\ Streams \in Nat
  BY UdpAssumption DEF UdpInv, UdpTypeOK
<1>2. \/ Read
      \/ rx' = NoPacket /\ UNCHANGED <<others, seen>>
      \/ UNCHANGED <<rx, seen>>
  BY DEF Sketch, Read, Available, Maintain, Maintained, Take, GiveBack, Begin, Begun, Stop
<1>a. rx' \in Rx /\ SeenOK' /\ Place'
  <2> USE UdpAssumption
  <2>1. CASE Read
    <3> DEFINE n == rx.index + 1
    <3>0. n \in 0 .. BufferSize
      BY <1>1, <2>1 DEF Read, Unread, Rx
    <3>1. rx' = [live |-> rx.live, msg |-> rx.msg, len |-> rx.len, index |-> n]
      BY <1>1, <2>1 DEF Read, Rx
    <3>5. rx.live
      BY <2>1 DEF Read, Unread
    <3>2. seen' = [packet |-> seen.packet, read |-> <<rx.msg, n>>]
      BY <2>1 DEF Read, UdpInv, SeenOK
    <3>3. n > 0
      BY <1>1 DEF Rx
    <3> HIDE DEF n
    <3>4. rx' \in Rx /\ SeenOK'
      BY <1>0, <1>1, <3>0, <3>1, <3>2 DEF Rx, SeenOK, UdpInv
    <3> QED
      BY <3>1, <3>2, <3>3, <3>4, <3>5 DEF Place
  <2>2. CASE rx' = NoPacket /\ UNCHANGED <<others, seen>>
    BY <1>0, <2>2 DEF NoPacket, Rx, UdpInv, UdpTypeOK, SeenOK, Place
  <2>3. CASE UNCHANGED <<rx, seen>>
    BY <1>0, <1>1, <2>3 DEF UdpInv, SeenOK, Place
  <2> QED
    BY <1>2, <2>1, <2>2, <2>3
<1>b. UdpTypeOK'
  <2>2. call' \in Calls \cup FetchCalls /\ listening' \in BOOLEAN
    BY DEF Sketch, Read, Available, Maintain, Maintained, Take, GiveBack, Begin, Begun, Stop, Calls,
       UdpInv, UdpTypeOK
  <2>3. others' \in 0 .. Streams /\ others' + (IF rx'.live THEN 1 ELSE 0) <= Streams
    <3>1. CASE Take
      BY <1>1, <3>1 DEF Take, Free, UdpInv, UdpTypeOK
    <3>2. CASE GiveBack
      BY <1>1, <3>2 DEF GiveBack, UdpInv, UdpTypeOK
    <3>3. CASE ~ Take /\ ~ GiveBack
      <4>1. UNCHANGED others /\ (rx'.live => rx.live)
        BY <1>1, <3>3 DEF Sketch, Read, Available, Maintain, Maintained, Begin, Begun, Stop, NoPacket, Unread, Rx
      <4> QED
        BY <1>1, <4>1 DEF UdpInv, UdpTypeOK
    <3> QED
      BY <3>1, <3>2, <3>3
  <2> QED
    BY <1>0, <1>a, <2>2, <2>3 DEF UdpInv, UdpTypeOK
<1>4. Sides'
  BY <1>0 DEF Sketch, Read, Available, Maintain, Maintained, Take, GiveBack, Begin, Begun, Stop, Calls,
     UdpInv, Sides
<1>5. LineInOrder' /\ QueueInOrder'
  <2>1. rx'.msg \in {0, rx.msg} /\ seen'.read[1] \in {seen.read[1], rx.msg}
    BY <1>1 DEF Sketch, Read, Available, Maintain, Maintained, Take, GiveBack, Begin,
       Begun, Stop, Rx, NoPacket, UdpInv, SeenOK
  <2> QED
    BY <1>0, <2>1, StillLater
<1>6. call' \notin {"fetch", "info", "receive", "infoOff"}
  BY DEF Sketch, Read, Available, Maintain, Maintained, Take, GiveBack, Begin, Begun, Stop
<1>7. call \notin {"fetch", "info", "receive", "infoOff"}
  BY DEF Sketch, Read, Available, Maintain, Maintained, Take, GiveBack, Begin, Begun, Stop
<1>8. HasStream' /\ HasMessage' /\ Announced' /\ Fetching'
  BY <1>0, <1>6, <1>7 DEF HasStream, HasMessage, Announced, Fetching, Size, UdpInv
<1>9. Held'
  BY <1>0 DEF Held, UdpInv
<1> QED
  BY <1>a, <1>b, <1>4, <1>5, <1>8, <1>9 DEF UdpInv

-----------------------------------------------------------------------------
(* The steps of AT 1.                                                      *)

\* What AT 1 does not touch, or touches without a fetch going on.
LEMMA AT1Frame ==
  ASSUME UdpInv, at1, UNCHANGED <<at1, avail, asked, queue, held, faults>>,
         call' \in Calls, line' \in Seq(Items), sent' \in Nat, sent <= sent'
  PROVE  Sides' /\ HasStream' /\ HasMessage' /\ Announced' /\ Held' /\ Fetching'
<1>1. call' \notin FetchCalls
  BY DEF Calls, FetchCalls
<1>2. Sides' /\ HasStream' /\ HasMessage' /\ Announced' /\ Fetching'
  BY <1>1 DEF UdpInv, Sides, HasStream, HasMessage, Announced, Fetching, FetchCalls
<1>3. MaxSize * sent <= MaxSize * sent'
  <2>1. MaxSize \in Nat /\ sent \in Nat
    BY UdpAssumption DEF UdpInv, UdpTypeOK
  <2> QED
    BY <2>1, Multiples
<1>4. Held'
  <2>1. MaxSize * sent \in Int /\ MaxSize * sent' \in Int /\ held \in Int
    BY SMTT(30), UdpAssumption DEF UdpInv, UdpTypeOK
  <2> QED
    BY <1>3, <2>1 DEF UdpInv, Held
<1> QED
  BY <1>2, <1>4

LEMMA ReadMessageKeeps ==
  ASSUME UdpInv, at1, ReadMessage, UNCHANGED <<at1, avail, asked, queue, held, faults>>
  PROVE  UdpInv'
<1> DEFINE m == Head(line)
           text == [kind |-> "text", like |-> m.like]
<1>1. /\ line \in Seq(Items) /\ line # <<>> /\ m = line[1] /\ m \in Items /\ m.kind = "message"
      /\ UNCHANGED <<listening, others, call, sent, seen>> /\ call \in Calls
  BY DEF UdpInv, Sides, ReadMessage
<1>2. m.msg \in 1 .. MaxMessages /\ m.size \in 1 .. MaxSize /\ m.like \in BOOLEAN
  BY <1>1 DEF Items
<1>3. rx \in Rx /\ others \in Nat /\ Streams \in Nat /\ BufferSize \in Nat /\ sent \in Nat
  BY UdpAssumption DEF UdpInv, UdpTypeOK
<1>4. \/ Refused(m) /\ rx' \in {rx, NoPacket} /\ line' = <<text>> \o Tail(line)
      \/ ~ Refused(m) /\ rx' = NoPacket /\ line' = Tail(line)
      \/ /\ ~ Refused(m) /\ line' = Tail(line)
         /\ rx' = [live |-> TRUE, msg |-> m.msg, len |-> m.size, index |-> 0]
  BY DEF ReadMessage, Kept, Received
<1>5. line' \in Seq(Items)
  <2>1. text \in Items
    BY <1>2 DEF Items
  <2>2. Tail(line) \in Seq(Items)
    BY <1>1
  <2> HIDE DEF text
  <2>3. <<text>> \o Tail(line) \in Seq(Items)
    BY <2>1, <2>2
  <2> QED
    BY <1>4, <2>2, <2>3
<1>6. rx' \in Rx
  <2>1. NoPacket \in Rx
    BY <1>3, UdpAssumption DEF NoPacket, Rx
  <2>2. ~ Refused(m) => m.size \in 0 .. BufferSize
    BY <1>2, <1>3 DEF Refused
  <2>3. m.msg \in 0 .. MaxMessages
    BY <1>2
  <2>4. ~ Refused(m) => [live |-> TRUE, msg |-> m.msg, len |-> m.size, index |-> 0] \in Rx
    BY <1>3, <2>2, <2>3 DEF Rx
  <2> QED
    BY <1>3, <1>4, <2>1, <2>4
<1>7. others + (IF rx'.live THEN 1 ELSE 0) <= Streams
  BY <1>3, <1>4 DEF Refused, NoPacket, UdpInv, UdpTypeOK
<1>8. UdpTypeOK'
  BY <1>1, <1>5, <1>6, <1>7 DEF UdpInv, UdpTypeOK
<1>9. Later(m.msg)
  BY <1>1 DEF UdpInv, LineInOrder
<1>10. SeenOK'
  <2>1. rx'.msg <= sent
    BY <1>3, <1>4, <1>9 DEF NoPacket, Later, UdpInv, SeenOK
  <2> QED
    BY <1>1, <2>1 DEF UdpInv, SeenOK
<1>11. Place'
  BY <1>1, <1>4, <1>9 DEF UdpInv, Place, NoPacket, Later
<1>12. rx'.msg \in {0, rx.msg} \/ (rx'.msg = m.msg /\ line' = Tail(line))
  BY <1>4 DEF NoPacket
<1>13. \A i \in 1 .. Len(line') : line'[i].kind = "message" =>
         \E j \in 1 .. Len(line) : line'[i] = line[j] /\ j > 1 /\ (line' = Tail(line) => j = i + 1)
                                   /\ (line' # Tail(line) => j = i)
  <2>1. CASE line' = Tail(line)
    <3>1. \A i \in 1 .. Len(line') : i + 1 \in 1 .. Len(line) /\ line'[i] = line[i + 1]
      BY <1>1, <2>1
    <3> QED
      BY <2>1, <3>1
  <2>2. CASE line' = <<text>> \o Tail(line) /\ line' # Tail(line)
    <3>1. /\ Len(line') = Len(line) /\ line'[1] = text
          /\ \A i \in 1 .. Len(line) : i > 1 => line'[i] = line[i]
      BY <1>1, <2>2
    <3> QED
      BY <2>2, <3>1
  <2> QED
    BY <1>4, <2>1, <2>2
<1>14. LineInOrder'
  <2> SUFFICES ASSUME NEW i \in 1 .. Len(line'), line'[i].kind = "message"
               PROVE  /\ rx'.msg < line'[i].msg /\ seen'.read[1] < line'[i].msg /\ line'[i].msg <= sent'
                      /\ \A j \in 1 .. Len(line') : line'[j].kind = "message" =>
                           (i < j => line'[i].msg < line'[j].msg)
    BY DEF LineInOrder, Later
  <2>1. PICK a \in 1 .. Len(line) : line'[i] = line[a] /\ a > 1 /\ (line' = Tail(line) => a = i + 1)
                                    /\ (line' # Tail(line) => a = i)
    BY <1>13
  <2>2. m.msg < line[a].msg /\ Later(line[a].msg)
    BY <1>1, <2>1 DEF UdpInv, LineInOrder
  <2>3. rx'.msg < line'[i].msg /\ seen'.read[1] < line'[i].msg /\ line'[i].msg <= sent'
    <3>0. line[a] \in Items /\ line[a].kind = "message"
      BY <1>1, <2>1
    <3>1. line[a].msg \in Nat /\ rx.msg \in Nat
      BY <1>3, <3>0 DEF Items, Rx
    <3> QED
      BY <1>1, <1>12, <2>1, <2>2, <3>1 DEF Later
  <2>4. ASSUME NEW j \in 1 .. Len(line'), line'[j].kind = "message", i < j
        PROVE  line'[i].msg < line'[j].msg
    <3>1. PICK b \in 1 .. Len(line) : line'[j] = line[b] /\ b > 1 /\ (line' = Tail(line) => b = j + 1)
                                      /\ (line' # Tail(line) => b = j)
      BY <1>13, <2>4
    <3>2. a < b
      BY <2>1, <2>4, <3>1
    <3> QED
      BY <2>1, <2>4, <3>1, <3>2 DEF UdpInv, LineInOrder
  <2> QED
    BY <2>3, <2>4
<1>15. QueueInOrder'
  BY DEF UdpInv, Sides, QueueInOrder
<1>16. Sides' /\ HasStream' /\ HasMessage' /\ Announced' /\ Held' /\ Fetching'
  BY <1>1, <1>3, <1>5, AT1Frame
<1> QED
  BY <1>8, <1>10, <1>11, <1>14, <1>15, <1>16 DEF UdpInv

LEMMA ReadOtherKeeps ==
  ASSUME UdpInv, at1, ReadText \/ ReadAnswer, UNCHANGED <<at1, avail, asked, queue, held, faults>>
  PROVE  UdpInv'
<1>1. /\ line \in Seq(Items) /\ line # <<>> /\ line' = Tail(line) /\ call' \in Calls
      /\ UNCHANGED <<listening, rx, others, sent, seen>>
  BY DEF UdpInv, Sides, ReadText, ReadAnswer, Calls
<1>2. line' \in Seq(Items) /\ sent \in Nat
  BY <1>1 DEF UdpInv, UdpTypeOK
<1>3. UdpTypeOK' /\ SeenOK' /\ Place'
  BY <1>1, <1>2 DEF UdpInv, UdpTypeOK, SeenOK, Place
<1>4. LineInOrder'
  <2>1. \A i \in 1 .. Len(line') : i + 1 \in 1 .. Len(line) /\ line'[i] = line[i + 1]
    BY <1>1
  <2>2. \A i, j \in 1 .. Len(line') : i < j => i + 1 < j + 1
    OBVIOUS
  <2> QED
    BY <1>1, <2>1, <2>2 DEF UdpInv, LineInOrder, Later
<1>5. QueueInOrder'
  BY DEF UdpInv, Sides, QueueInOrder
<1> QED
  BY <1>1, <1>2, <1>3, <1>4, <1>5, AT1Frame DEF UdpInv

LEMMA CallingKeeps ==
  ASSUME UdpInv, at1, Calling, UNCHANGED <<at1, avail, asked, queue, held, faults>>
  PROVE  UdpInv'
<1>1. /\ UNCHANGED <<others, line, sent>> /\ call' \in Calls /\ listening' \in BOOLEAN
      /\ \/ UNCHANGED <<rx, seen>>
         \/ rx' = NoPacket /\ UNCHANGED seen
         \/ ParseReturns
  BY DEF UdpInv, UdpTypeOK, Calling, ParsePacket, ParseReturns, RemoteIP, AsksFirmware, Stopped, Calls
<1>2. rx \in Rx /\ NoPacket \in Rx
  BY UdpAssumption DEF UdpInv, UdpTypeOK, Rx, NoPacket
<1>3. rx' \in {rx, NoPacket} /\ seen'.read = seen.read
  BY <1>1, <1>2 DEF ParseReturns, SeenOK, UdpInv
<1>8. SeenOK'
  <2>1. rx'.msg <= sent
    BY <1>3 DEF NoPacket, UdpInv, UdpTypeOK, SeenOK
  <2>2. \E p \in 0 .. MaxMessages : seen' = [seen EXCEPT !.packet = p]
    <3>1. seen = [seen EXCEPT !.packet = seen.packet] /\ seen.packet \in 0 .. MaxMessages
      BY DEF SeenOK, UdpInv
    <3>2. ParseReturns => \E p \in {0, rx.msg} : seen' = [seen EXCEPT !.packet = p]
      BY DEF ParseReturns
    <3>3. 0 \in 0 .. MaxMessages /\ rx.msg \in 0 .. MaxMessages
      BY <1>2, UdpAssumption DEF Rx
    <3> QED
      BY <1>1, <3>1, <3>2, <3>3
  <2> QED
    BY <1>1, <2>1, <2>2 DEF UdpInv, SeenOK
<1>4. UdpTypeOK'
  <2>1. rx' \in Rx
    BY <1>2, <1>3
  <2>2. rx'.live => rx.live
    BY <1>3 DEF NoPacket
  <2> QED
    BY <1>1, <2>1, <2>2 DEF UdpInv, UdpTypeOK
<1>5. Place'
  BY <1>3 DEF UdpInv, Place, NoPacket
<1>6. LineInOrder' /\ QueueInOrder'
  BY <1>1, <1>3, StillLater DEF NoPacket
<1>7. line' \in Seq(Items) /\ sent' \in Nat /\ sent <= sent'
  BY <1>1 DEF UdpInv, UdpTypeOK, Sides
<1> QED
  BY <1>1, <1>4, <1>5, <1>6, <1>7, <1>8, AT1Frame DEF UdpInv

LEMMA FirmwareKeeps ==
  ASSUME UdpInv, at1, Firmware, UNCHANGED <<at1, avail, asked, queue, held, faults>>
  PROVE  UdpInv'
<1>1. PICK x \in Items : /\ line' = Append(line, x) /\ UNCHANGED <<listening, rx, others, call, seen>>
                         /\ sent' \in 0 .. MaxMessages /\ sent <= sent'
                         /\ (x.kind = "message" => x.msg = sent + 1 /\ sent' = sent + 1)
  <2>1. CASE Message
    <3>1. PICK size \in 1 .. MaxSize, like \in BOOLEAN :
            line' = Append(line, [kind |-> "message", msg |-> sent + 1, size |-> size, like |-> like])
      BY <2>1 DEF Message
    <3>2. sent + 1 \in 1 .. MaxMessages /\ sent' = sent + 1
      BY <2>1, UdpAssumption DEF Message, UdpInv, UdpTypeOK
    <3>3. [kind |-> "message", msg |-> sent + 1, size |-> size, like |-> like] \in Items
      BY <3>2 DEF Items
    <3> QED
      BY <2>1, <3>1, <3>2, <3>3 DEF Message, UdpInv, UdpTypeOK
  <2>2. CASE Answer
    <3>1. [kind |-> "answer"] \in Items
      BY DEF Items
    <3> QED
      BY SMTT(30), <2>2, <3>1 DEF Answer, UdpInv, UdpTypeOK
  <2> QED
    BY <2>1, <2>2 DEF Firmware
<1>2. line \in Seq(Items) /\ call \in Calls /\ sent \in Nat /\ rx \in Rx
  BY DEF UdpInv, UdpTypeOK, Sides
<1>3. line' \in Seq(Items)
  BY <1>1, <1>2
<1>4. UdpTypeOK' /\ SeenOK' /\ Place'
  <2>1. UdpTypeOK'
    BY <1>1, <1>3 DEF UdpInv, UdpTypeOK
  <2>2. rx.msg \in Int /\ seen.read[1] \in Int
    BY <1>2 DEF Rx, UdpInv, SeenOK
  <2>3. SeenOK'
    BY <1>1, <1>2, <2>2 DEF UdpInv, SeenOK
  <2>4. Place'
    BY <1>1 DEF UdpInv, Place
  <2> QED
    BY <2>1, <2>3, <2>4
<1>5. rx.msg <= sent /\ seen.read[1] <= sent
  BY DEF UdpInv, SeenOK
<1>6. LineInOrder'
  <2> DEFINE n == Len(line)
  <2>1. n \in Nat /\ Len(line') = n + 1 /\ line'[n + 1] = x /\ \A i \in 1 .. n : line'[i] = line[i]
    BY <1>1, <1>2
  <2>2. \A i \in 1 .. n : line[i].kind = "message" => line[i].msg \in Int /\ line[i].msg <= sent
    <3> SUFFICES ASSUME NEW i \in 1 .. n, line[i].kind = "message"
                 PROVE  line[i].msg \in Int /\ line[i].msg <= sent
      OBVIOUS
    <3>1. line[i] \in Items
      BY <1>2
    <3> QED
      BY <3>1 DEF Items, UdpInv, LineInOrder, Later
  <2>3. \A i \in 1 .. n : line[i].kind = "message" =>
          /\ rx'.msg < line[i].msg /\ seen'.read[1] < line[i].msg /\ line[i].msg <= sent'
          /\ \A j \in 1 .. n : line[j].kind = "message" => (i < j => line[i].msg < line[j].msg)
          /\ x.kind = "message" => line[i].msg < x.msg
    BY <1>1, <1>2, <2>2 DEF UdpInv, LineInOrder, Later
  <2>4. x.kind = "message" => rx'.msg < x.msg /\ seen'.read[1] < x.msg /\ x.msg <= sent'
    <3>1. rx.msg \in Int /\ seen.read[1] \in Int
      BY <1>2 DEF Rx, UdpInv, SeenOK
    <3> QED
      BY <1>1, <1>2, <1>5, <3>1
  <2> HIDE DEF n
  <2>5. \A i \in 1 .. n + 1 : i \in 1 .. n \/ i = n + 1
    BY <2>1
  <2>6. \A i, j \in 1 .. n + 1 : i < j => i \in 1 .. n
    BY <2>1
  <2> QED
    BY <2>1, <2>3, <2>4, <2>5, <2>6 DEF LineInOrder, Later
<1>7. QueueInOrder'
  BY DEF UdpInv, Sides, QueueInOrder
<1> QED
  BY <1>1, <1>2, <1>3, <1>4, <1>6, <1>7, AT1Frame DEF UdpInv

-----------------------------------------------------------------------------
(* The steps of AT 2.                                                      *)

Ipds == [kind : {"ipd"}, size : 1 .. MaxSize]

\* The facts about the types that the steps use.
LEMMA AT2Facts ==
  ASSUME UdpInv, ~ at1
  PROVE  /\ line \in Seq(Ipds) /\ queue \in Seq(Message2s) /\ rx \in Rx /\ NoPacket \in Rx
         /\ avail \in Nat /\ asked \in 0 .. BufferSize /\ held \in Nat /\ sent \in 0 .. MaxMessages
         /\ others \in Nat /\ Streams \in Nat /\ BufferSize \in Nat \ {0} /\ MaxSize \in Nat \ {0}
         /\ MaxMessages \in Nat /\ avail <= held /\ Sums(queue, held) /\ held <= MaxSize * sent
BY UdpAssumption DEF UdpInv, UdpTypeOK, Sides, Held, Ipds, Rx, NoPacket

\* held stays in its type.
LEMMA HeldType ==
  ASSUME NEW h \in Nat, NEW n \in 0 .. MaxMessages, h <= MaxSize * n
  PROVE  h \in 0 .. MaxSize * MaxMessages
<1>1. MaxSize \in Nat /\ MaxMessages \in Nat /\ n \in Nat /\ n <= MaxMessages
  BY UdpAssumption
<1>2. MaxSize * n <= MaxSize * MaxMessages
  BY <1>1, Multiples
<1>3. MaxSize * n \in Int /\ MaxSize * MaxMessages \in Int
  BY <1>1
<1> QED
  BY <1>2, <1>3

LEMMA ReadIpdKeeps ==
  ASSUME UdpInv, ~ at1, ReadIpd, UNCHANGED at1
  PROVE  UdpInv'
<1>1. /\ line # <<>> /\ avail' = line[1].size /\ line' = Tail(line)
      /\ UNCHANGED <<listening, rx, others, call, sent, seen, asked, queue, held, faults>>
  BY AT2Facts DEF ReadIpd
<1>2. line[1] \in Ipds /\ line' \in Seq(Ipds)
  BY <1>1, AT2Facts
<1>3. /\ Len(line') = Len(line) - 1 /\ 1 \in 1 .. Len(line)
      /\ \A i \in 1 .. Len(line') : i + 1 \in 1 .. Len(line) /\ line'[i] = line[i + 1]
  BY <1>1, AT2Facts
<1>4. PICK j \in 1 .. Len(queue) : avail' = queue[j].size /\ (call \in {"info", "receive"} => j > 1)
  <2>1. Size(line[1].size)
    BY <1>3 DEF UdpInv, Announced
  <2> QED
    BY <1>1, <2>1 DEF Size
<1>5. avail' \in Nat /\ avail' <= held
  <2>1. queue \in Seq(Message2s) /\ held \in Nat /\ Sums(queue, held)
    BY AT2Facts
  <2>2. queue[j].size <= held
    BY <2>1, SumsCovers
  <2>3. avail' \in Nat
    BY <1>1, <1>2 DEF Ipds
  <2> QED
    BY <1>4, <2>2, <2>3
<1>6. UdpTypeOK'
  <2>1. avail' \in 0 .. MaxSize * MaxMessages
    <3>1. held \in 0 .. MaxSize * MaxMessages /\ MaxSize * MaxMessages \in Int
      BY UdpAssumption DEF UdpInv, UdpTypeOK
    <3> QED
      BY <1>5, <3>1
  <2>2. line' \in Seq(Items \cup Ipds)
    BY <1>2
  <2> QED
    BY <1>1, <2>1, <2>2 DEF UdpInv, UdpTypeOK, Ipds
<1>7. SeenOK' /\ Sides' /\ Place' /\ QueueInOrder' /\ HasStream' /\ HasMessage'
  BY <1>1, <1>2 DEF UdpInv, SeenOK, Sides, Place, QueueInOrder, Later, HasStream, HasMessage, Ipds
<1>8. LineInOrder'
  <2>1. \A i \in 1 .. Len(line') : line'[i] \in Ipds
    BY <1>2
  <2> QED
    BY <2>1 DEF LineInOrder, Ipds
<1>9. Announced'
  BY SMTT(30), <1>1, <1>3 DEF UdpInv, Announced, Size
<1>10. Held'
  BY <1>1, <1>5 DEF UdpInv, Held
<1>11. Fetching'
  BY <1>1, <1>4 DEF Fetching, Size
<1> QED
  BY <1>6, <1>7, <1>8, <1>9, <1>10, <1>11 DEF UdpInv

\* The steps that only read the line to its end, ask, and take or free a stream.
LEMMA AT2Frame ==
  ASSUME UdpInv, ~ at1, UNCHANGED <<at1, queue, held, sent>>, line' = <<>>, line = <<>>,
         rx' \in Rx, rx'.msg \in {0, rx.msg}, rx'.index \in {0, rx.index},
         rx'.index > 0 => rx' = rx,
         seen'.read = seen.read, seen' \in [packet : 0 .. MaxMessages, read : (0 .. MaxMessages) \X (0 .. BufferSize)],
         rx'.live /\ rx'.index = 0 => rx' = rx \/ rx'.msg = 0
  PROVE  SeenOK' /\ Sides' /\ Place' /\ LineInOrder' /\ QueueInOrder' /\ Announced'
<1>1. rx \in Rx /\ sent \in Nat /\ queue \in Seq(Message2s)
  BY AT2Facts
<1>2. SeenOK'
  BY <1>1 DEF SeenOK, UdpInv
<1>3. Sides' /\ LineInOrder' /\ Announced'
  <2>1. line' \in Seq(Ipds)
    OBVIOUS
  <2> QED
    BY <2>1 DEF Sides, LineInOrder, Announced, Ipds
<1>4. Place'
  BY <1>1 DEF Place, UdpInv, Rx
<1>5. QueueInOrder'
  BY StillLater
<1> QED
  BY <1>2, <1>3, <1>4, <1>5

LEMMA SyncKeeps ==
  ASSUME UdpInv, ~ at1, Sync, UNCHANGED at1
  PROVE  UdpInv'
<1>1. /\ UNCHANGED <<listening, rx, others, call, line, sent, seen, asked, queue, held, faults>>
      /\ line = <<>> /\ call \in {"maintain", "size"}
  BY DEF Sync
<1>2. avail' \in Nat /\ avail' <= held
  <2>1. CASE queue = <<>>
    BY <2>1, AT2Facts DEF Sync
  <2>2. CASE queue # <<>>
    <3>1. 1 \in 1 .. Len(queue) /\ Head(queue) = queue[1] /\ queue[1] \in Message2s
      BY <2>2, AT2Facts
    <3>0. queue \in Seq(Message2s) /\ held \in Nat /\ Sums(queue, held)
      BY AT2Facts
    <3>2. queue[1].size <= held /\ queue[1].size \in Nat
      <4>1. queue[1].size <= held
        BY <3>0, <3>1, SumsCovers
      <4> QED
        BY <3>1, <4>1 DEF Message2s
    <3> QED
      BY <2>2, <3>1, <3>2, AT2Facts DEF Sync
  <2> QED
    BY <2>1, <2>2
<1>3. UdpTypeOK'
  <2>1. avail' \in 0 .. MaxSize * MaxMessages
    <3>1. held \in 0 .. MaxSize * MaxMessages /\ MaxSize * MaxMessages \in Int
      BY UdpAssumption DEF UdpInv, UdpTypeOK
    <3> QED
      BY <1>2, <3>1
  <2> QED
    BY <1>1, <2>1 DEF UdpInv, UdpTypeOK
<1>4. SeenOK' /\ Sides' /\ Place' /\ LineInOrder' /\ QueueInOrder' /\ HasStream' /\ HasMessage' /\ Announced'
  BY <1>1 DEF UdpInv, SeenOK, Sides, Place, LineInOrder, QueueInOrder, Later, HasStream, HasMessage,
     Announced, Size
<1>5. Held' /\ Fetching'
  BY <1>1, <1>2 DEF UdpInv, Held, Fetching
<1> QED
  BY <1>3, <1>4, <1>5 DEF UdpInv

LEMMA ParseKeeps ==
  ASSUME UdpInv, ~ at1, Parse, UNCHANGED at1
  PROVE  UdpInv'
<1>1. /\ call' = "size" /\ rx' = NoPacket /\ call = "none"
      /\ UNCHANGED <<listening, others, line, sent, seen, avail, asked, queue, held, faults>>
  BY DEF Parse
<1>2. rx' \in Rx /\ rx'.msg = 0 /\ ~ rx'.live /\ rx'.index = 0 /\ sent \in Nat
  BY <1>1, AT2Facts DEF NoPacket
<1>3. UdpTypeOK'
  BY <1>1, <1>2, AT2Facts DEF UdpInv, UdpTypeOK, FetchCalls
<1>4. LineInOrder' /\ QueueInOrder'
  BY <1>1, <1>2, StillLater
<1>5. SeenOK' /\ Sides' /\ Place' /\ HasStream' /\ HasMessage' /\ Announced'
  BY <1>1, <1>2 DEF UdpInv, SeenOK, Sides, Place, HasStream, HasMessage, Announced, Size
<1>6. Held' /\ Fetching'
  BY <1>1, <1>2 DEF UdpInv, Held, Fetching
<1> QED
  BY <1>3, <1>4, <1>5, <1>6 DEF UdpInv

LEMMA TakeSizeKeeps ==
  ASSUME UdpInv, ~ at1, TakeSize, UNCHANGED at1
  PROVE  UdpInv'
<1>1. /\ call = "size" /\ line = <<>>
      /\ UNCHANGED <<listening, others, line, sent, avail, queue, held, faults>>
  BY DEF TakeSize
<1>2. CASE avail > 0 /\ Free
  <2>1. call' = "fetch" /\ rx' = Fetched(0, 0) /\ asked' = Min({avail, BufferSize}) /\ UNCHANGED seen
    BY <1>2 DEF TakeSize
  <2>2. rx' \in Rx /\ rx'.live /\ rx'.msg = 0 /\ rx'.index = 0
    BY <2>1, AT2Facts DEF Fetched, Rx
  <2>3. queue # <<>>
    BY <1>2, AT2Facts, SumsEmpty
  <2>4. asked' \in 0 .. BufferSize
    <3>1. avail \in Nat /\ BufferSize \in Nat
      BY AT2Facts
    <3>2. asked' = IF avail <= BufferSize THEN avail ELSE BufferSize
      BY <2>1, <3>1, MinOf
    <3> QED
      BY <3>1, <3>2
  <2>5. others + 1 <= Streams
    BY <1>2, AT2Facts DEF Free, UdpInv, UdpTypeOK
  <2>6. UdpTypeOK'
    BY <1>1, <2>1, <2>2, <2>4, <2>5 DEF UdpInv, UdpTypeOK, FetchCalls
  <2>7. SeenOK' /\ Sides' /\ Place' /\ LineInOrder' /\ QueueInOrder' /\ Announced'
    BY <1>1, <2>1, <2>2, AT2Frame DEF UdpInv, SeenOK
  <2>8. HasStream' /\ HasMessage' /\ Held' /\ Fetching'
    BY <1>1, <2>1, <2>2, <2>3 DEF UdpInv, HasStream, HasMessage, Held, Fetching
  <2> QED
    BY <2>6, <2>7, <2>8 DEF UdpInv
<1>3. CASE ~ (avail > 0 /\ Free)
  <2>1. UNCHANGED <<rx, asked>> /\ call' = "none" /\ seen' = [seen EXCEPT !.packet = rx.msg]
    BY <1>3 DEF TakeSize, Return
  <2>2. rx \in Rx /\ rx.msg \in 0 .. MaxMessages
    BY AT2Facts DEF Rx
  <2>3. UdpTypeOK'
    BY <1>1, <2>1 DEF UdpInv, UdpTypeOK, Calls
  <2>4. /\ seen' \in [packet : 0 .. MaxMessages, read : (0 .. MaxMessages) \X (0 .. BufferSize)]
        /\ seen'.read = seen.read
    BY <2>1, <2>2 DEF UdpInv, SeenOK
  <2>5. SeenOK' /\ Sides' /\ Place' /\ LineInOrder' /\ QueueInOrder' /\ Announced'
    BY <1>1, <2>1, <2>2, <2>4, AT2Frame
  <2>6. HasStream' /\ HasMessage' /\ Held' /\ Fetching'
    BY <1>1, <2>1 DEF UdpInv, HasStream, HasMessage, Held, Fetching
  <2> QED
    BY <2>3, <2>5, <2>6 DEF UdpInv
<1> QED
  BY <1>2, <1>3

LEMMA CheckSizeKeeps ==
  ASSUME UdpInv, ~ at1, CheckSize, UNCHANGED at1
  PROVE  UdpInv'
<1>1. /\ call = "fetch" /\ line = <<>> /\ call' = "info"
      /\ asked' = Min({asked, avail}) /\ avail' = Min({asked, avail})
      /\ UNCHANGED <<listening, rx, others, line, sent, seen, queue, held, faults>>
  BY DEF CheckSize
<1>2. /\ asked' = IF asked <= avail THEN asked ELSE avail
      /\ avail' = asked'
  <2>1. asked \in Nat /\ avail \in Nat
    BY AT2Facts
  <2> QED
    BY <1>1, <2>1, MinOf
<1>3. asked' \in 0 .. BufferSize /\ avail' \in Nat /\ avail' <= held
  BY <1>2, AT2Facts
<1>4. UdpTypeOK'
  <2>1. avail' \in 0 .. MaxSize * MaxMessages
    <3>1. held \in 0 .. MaxSize * MaxMessages /\ MaxSize * MaxMessages \in Int
      BY UdpAssumption DEF UdpInv, UdpTypeOK
    <3> QED
      BY <1>3, <3>1
  <2> QED
    BY <1>1, <1>3, <2>1 DEF UdpInv, UdpTypeOK, FetchCalls
<1>5. SeenOK' /\ Sides' /\ Place' /\ LineInOrder' /\ QueueInOrder' /\ Announced'
  BY <1>1, AT2Facts, AT2Frame DEF UdpInv, SeenOK
<1>6. HasStream' /\ HasMessage'
  BY <1>1 DEF UdpInv, HasStream, HasMessage
<1>7. Held' /\ Fetching'
  BY <1>1, <1>2, <1>3 DEF UdpInv, Held, Fetching
<1> QED
  BY <1>4, <1>5, <1>6, <1>7 DEF UdpInv

\* The packet that parsePacket returns is noted.
LEMMA ReturnType ==
  ASSUME UdpInv, Return, rx' \in Rx
  PROVE  /\ seen' \in [packet : 0 .. MaxMessages, read : (0 .. MaxMessages) \X (0 .. BufferSize)]
         /\ seen'.read = seen.read /\ call' = "none"
<1>1. rx'.msg \in 0 .. MaxMessages
  BY DEF Rx
<1> QED
  BY <1>1 DEF UdpInv, SeenOK, Return

LEMMA InfoOnKeeps ==
  ASSUME UdpInv, ~ at1, InfoOn, UNCHANGED at1
  PROVE  UdpInv'
<1>1. call = "info" /\ line = <<>> /\ UNCHANGED <<listening, others, line, sent, avail, asked, queue, held>>
  BY DEF InfoOn
<1>2. CASE call' = "receive" /\ UNCHANGED <<rx, seen, faults>>
  <2>1. UdpTypeOK'
    BY <1>1, <1>2 DEF UdpInv, UdpTypeOK, FetchCalls
  <2>2. SeenOK' /\ Sides' /\ Place' /\ LineInOrder' /\ QueueInOrder' /\ Announced'
    BY <1>1, <1>2, AT2Facts, AT2Frame DEF UdpInv, SeenOK
  <2>3. HasStream' /\ HasMessage'
    BY <1>1, <1>2 DEF UdpInv, HasStream, HasMessage
  <2>4. Held' /\ Fetching'
    BY <1>1, <1>2 DEF UdpInv, Held, Fetching, Size
  <2> QED
    BY <2>1, <2>2, <2>3, <2>4 DEF UdpInv
<1>3. CASE Fails /\ rx' = NoPacket /\ Return
  <2>1. rx' \in Rx /\ ~ rx'.live /\ rx'.msg = 0 /\ rx'.index = 0
    BY <1>3, AT2Facts DEF NoPacket
  <2>2. /\ seen' \in [packet : 0 .. MaxMessages, read : (0 .. MaxMessages) \X (0 .. BufferSize)]
        /\ seen'.read = seen.read /\ call' = "none"
    BY <1>3, <2>1, ReturnType
  <2>3. faults' \in 0 .. MaxFaults
    BY <1>3, FaultsAssumption DEF Fails, UdpInv, UdpTypeOK
  <2>4. UdpTypeOK'
    BY <1>1, <2>1, <2>2, <2>3, AT2Facts DEF UdpInv, UdpTypeOK, Calls
  <2>5. SeenOK' /\ Sides' /\ Place' /\ LineInOrder' /\ QueueInOrder' /\ Announced'
    BY <1>1, <2>1, <2>2, AT2Frame
  <2>6. HasStream' /\ HasMessage' /\ Held' /\ Fetching'
    BY <1>1, <2>2 DEF UdpInv, HasStream, HasMessage, Held, Fetching
  <2> QED
    BY <2>4, <2>5, <2>6 DEF UdpInv
<1> QED
  BY <1>2, <1>3 DEF InfoOn

LEMMA InfoOffKeeps ==
  ASSUME UdpInv, ~ at1, InfoOff, UNCHANGED at1
  PROVE  UdpInv'
<1>1. /\ call = "infoOff" /\ line = <<>> /\ rx' = (IF Unread THEN rx ELSE NoPacket) /\ Return
      /\ UNCHANGED <<listening, others, line, sent, avail, asked, queue, held, faults>>
  BY DEF InfoOff
<1>2. rx' \in Rx /\ rx' \in {rx, NoPacket}
  BY <1>1, AT2Facts
<1>3. /\ seen' \in [packet : 0 .. MaxMessages, read : (0 .. MaxMessages) \X (0 .. BufferSize)]
      /\ seen'.read = seen.read /\ call' = "none"
  BY <1>1, <1>2, ReturnType
<1>4. UdpTypeOK'
  <2>1. rx'.live => rx.live
    BY <1>2 DEF NoPacket
  <2> QED
    BY <1>1, <1>2, <1>3, <2>1, AT2Facts DEF UdpInv, UdpTypeOK, Calls
<1>5. SeenOK' /\ Sides' /\ Place' /\ LineInOrder' /\ QueueInOrder' /\ Announced'
  BY <1>1, <1>2, <1>3, AT2Frame DEF NoPacket
<1>6. HasStream' /\ HasMessage' /\ Held' /\ Fetching'
  BY <1>1, <1>3 DEF UdpInv, HasStream, HasMessage, Held, Fetching
<1> QED
  BY <1>4, <1>5, <1>6 DEF UdpInv

LEMMA ReceiveRefusedKeeps ==
  ASSUME UdpInv, ~ at1, ReceiveRefused, UNCHANGED at1
  PROVE  UdpInv'
<1>1. /\ call = "receive" /\ line = <<>> /\ call' = "infoOff" /\ Fails
      /\ rx' = Fetched(0, asked) /\ avail' = 0
      /\ UNCHANGED <<listening, others, line, sent, seen, asked, queue, held>>
  BY DEF ReceiveRefused
<1>2. rx' \in Rx /\ rx'.live /\ rx'.msg = 0 /\ rx'.index = 0
  BY <1>1, AT2Facts DEF Fetched, Rx
<1>3. faults' \in 0 .. MaxFaults
  BY <1>1, FaultsAssumption DEF Fails, UdpInv, UdpTypeOK
<1>4. rx.live
  BY <1>1 DEF UdpInv, HasStream
<1>5. UdpTypeOK'
  <2>1. 0 \in 0 .. MaxSize * MaxMessages
    BY AT2Facts, HeldType
  <2> QED
    BY <1>1, <1>2, <1>3, <1>4, <2>1 DEF UdpInv, UdpTypeOK, FetchCalls
<1>6. SeenOK' /\ Sides' /\ Place' /\ LineInOrder' /\ QueueInOrder' /\ Announced'
  BY <1>1, <1>2, AT2Frame DEF UdpInv, SeenOK
<1>7. HasStream' /\ HasMessage' /\ Held' /\ Fetching'
  BY <1>1, <1>2, AT2Facts DEF UdpInv, HasStream, HasMessage, Held, Fetching
<1> QED
  BY <1>5, <1>6, <1>7 DEF UdpInv

\* The firmware gives up the oldest message and goes on with the next.
LEMMA NextKeeps ==
  ASSUME UdpInv, ~ at1, NextMessage, queue # <<>>, line = <<>>
  PROVE  /\ queue[1] \in Message2s /\ Len(queue) \in Nat \ {0}
         /\ queue' \in Seq(Message2s) /\ Len(queue') = Len(queue) - 1
         /\ \A i \in 1 .. Len(queue') : queue'[i].msg = queue[i + 1].msg /\ queue'[i].size = queue[i + 1].size
         /\ held' = held - queue[1].size /\ held' \in Nat /\ Sums(queue', held')
         /\ line' \in Seq(Ipds)
         /\ \A i \in 1 .. Len(line') : queue' # <<>> /\ line'[i].size = queue'[1].size
<1> DEFINE rest == Tail(queue)
           told == [rest EXCEPT ![1].told = TRUE]
<1>1. queue \in Seq(Message2s) /\ held \in Nat /\ Sums(queue, held)
  BY AT2Facts
<1>2. /\ queue[1] \in Message2s /\ Head(queue) = queue[1] /\ Len(queue) \in Nat \ {0}
      /\ rest \in Seq(Message2s) /\ Len(rest) = Len(queue) - 1
      /\ \A i \in 1 .. Len(rest) : rest[i] = queue[i + 1]
  BY <1>1
<1>3. held' = held - queue[1].size
  BY <1>2 DEF NextMessage
<1>4. held' \in Nat /\ Sums(rest, held')
  BY <1>1, <1>3, SumsTail
<1>5. CASE queue' = rest /\ UNCHANGED line
  <2>1. line' \in Seq(Ipds) /\ Len(line') = 0
    BY <1>5
  <2> QED
    BY <1>2, <1>3, <1>4, <1>5, <2>1
<1>6. CASE rest # <<>> /\ queue' = told /\ line' = Append(line, Ipd(Head(rest)))
  <2>1. 1 \in 1 .. Len(rest) /\ rest[1] \in Message2s /\ Head(rest) = rest[1]
    BY <1>2, <1>6
  <2>2. [rest[1] EXCEPT !.told = TRUE] \in Message2s
    BY <2>1 DEF Message2s
  <2>3. /\ told \in Seq(Message2s) /\ Len(told) = Len(rest)
        /\ told[1] = [rest[1] EXCEPT !.told = TRUE] /\ \A i \in 1 .. Len(rest) : i # 1 => told[i] = rest[i]
    <3> DEFINE x == [rest[1] EXCEPT !.told = TRUE]
    <3>1. told = [rest EXCEPT ![1] = x]
      OBVIOUS
    <3>2. x \in Message2s
      BY <2>2
    <3> HIDE DEF x, told, rest
    <3>3. told \in Seq(Message2s) /\ Len(told) = Len(rest) /\ told[1] = x
          /\ \A i \in 1 .. Len(rest) : i # 1 => told[i] = rest[i]
      BY <1>2, <2>1, <3>1, <3>2
    <3> QED
      BY <3>3 DEF x
  <2>4. told[1].msg = rest[1].msg /\ told[1].size = rest[1].size
    BY <2>1, <2>3 DEF Message2s
  <2> HIDE DEF told, rest
  <2>5. \A i \in 1 .. Len(rest) : told[i].msg = rest[i].msg /\ told[i].size = rest[i].size
    BY <2>3, <2>4
  <2>6. Sums(told, held')
    BY <1>2, <1>4, <2>3, <2>5, SumsSame
  <2>7. line' = <<Ipd(rest[1])>> /\ Ipd(rest[1]) \in Ipds /\ Ipd(rest[1]).size = rest[1].size
    BY <1>6, <2>1 DEF Ipd, Ipds, Message2s
  <2>8. line' \in Seq(Ipds) /\ Len(line') = 1 /\ line'[1].size = told[1].size
    BY <2>4, <2>7
  <2>9. told # <<>>
    BY <2>1, <2>3
  <2>10. \A i \in 1 .. Len(line') : queue' # <<>> /\ line'[i].size = queue'[1].size
    BY <1>6, <2>8, <2>9
  <2>11. \A i \in 1 .. Len(queue') : queue'[i].msg = queue[i + 1].msg /\ queue'[i].size = queue[i + 1].size
    BY <1>2, <1>6, <2>3, <2>5
  <2> QED
    BY <1>2, <1>3, <1>4, <1>6, <2>3, <2>6, <2>8, <2>10, <2>11
<1> QED
  BY <1>5, <1>6 DEF NextMessage

\* What a message that was received, whole or not, leaves.
LEMMA ReceivedKeeps ==
  ASSUME UdpInv, ~ at1, NextMessage, queue # <<>>, line = <<>>, call = "receive", call' = "infoOff",
         UNCHANGED <<listening, others, sent, seen, asked, at1>>, faults' \in 0 .. MaxFaults,
         NEW n \in 0 .. BufferSize, rx' = Fetched(queue[1].msg, n) \/ rx' = Fetched(0, n),
         avail' \in Nat, avail' <= held'
  PROVE  UdpInv'
<1>1. queue[1] \in Message2s /\ queue[1].msg \in 1 .. MaxMessages /\ queue[1].size \in Nat
  <2>1. queue[1] \in Message2s
    BY NextKeeps
  <2> QED
    BY <2>1 DEF Message2s
<1>2. rx' \in Rx /\ rx'.live /\ rx'.index = 0 /\ rx'.msg \in {0, queue[1].msg}
  <2>1. PICK k \in {0, queue[1].msg} : rx' = [live |-> TRUE, msg |-> k, len |-> n, index |-> 0]
    BY DEF Fetched
  <2>2. k \in 0 .. MaxMessages /\ 0 \in 0 .. BufferSize
    BY SMTT(30), <1>1, AT2Facts
  <2> QED
    BY <2>1, <2>2 DEF Rx
<1>3. rx.live
  BY DEF UdpInv, HasStream
<1>4. 1 \in 1 .. Len(queue) /\ sent \in Nat /\ seen.read[1] \in Nat
  <2>1. Len(queue) \in Nat \ {0}
    BY NextKeeps
  <2>2. 1 \in 1 .. Len(queue)
    BY <2>1
  <2>3. seen.read[1] \in Nat
    BY DEF UdpInv, SeenOK
  <2> QED
    BY <2>2, <2>3, AT2Facts
<1>5. rx.msg < queue[1].msg /\ seen.read[1] < queue[1].msg /\ queue[1].msg <= sent
  BY <1>4 DEF UdpInv, QueueInOrder, Later
<1>6. Held'
  <2>0. held' = held - queue[1].size /\ held' \in Nat
    BY NextKeeps
  <2>1. held' <= held /\ held <= MaxSize * sent /\ MaxSize * sent \in Int /\ held \in Nat /\ held' \in Nat
    <3>1. held <= MaxSize * sent /\ held \in Nat /\ MaxSize \in Nat /\ sent \in Nat
      BY AT2Facts
    <3> QED
      BY <1>1, <2>0, <3>1
  <2>2. held' <= MaxSize * sent
    BY <2>1
  <2> QED
    BY <2>2, NextKeeps DEF Held
<1>7. UdpTypeOK'
  <2>1. held' \in 0 .. MaxSize * MaxMessages
    BY <1>6, NextKeeps, AT2Facts, HeldType DEF Held
  <2>2. avail' \in 0 .. MaxSize * MaxMessages
    <3>1. MaxSize * MaxMessages \in Int
      BY AT2Facts
    <3> QED
      BY <2>1, <3>1
  <2>3. line' \in Seq(Items \cup Ipds)
    <3>1. line' \in Seq(Ipds)
      BY NextKeeps
    <3> QED
      BY <3>1
  <2>4. queue' \in Seq(Message2s)
    BY NextKeeps
  <2> QED
    BY <1>2, <1>3, <2>1, <2>2, <2>3, <2>4 DEF UdpInv, UdpTypeOK, FetchCalls, Ipds
<1>8. SeenOK'
  BY <1>2, <1>4, <1>5 DEF UdpInv, SeenOK
<1>9. Place'
  BY <1>2, <1>5 DEF Place
<1>10. Sides' /\ LineInOrder'
  <2>1. line' \in Seq(Ipds)
    BY NextKeeps
  <2>2. \A i \in 1 .. Len(line') : line'[i] \in Ipds
    BY <2>1
  <2> QED
    BY <2>1, <2>2 DEF Sides, LineInOrder, Ipds
<1>11. QueueInOrder'
  <2> SUFFICES ASSUME NEW i \in 1 .. Len(queue')
               PROVE  /\ rx'.msg < queue'[i].msg /\ seen'.read[1] < queue'[i].msg /\ queue'[i].msg <= sent'
                      /\ \A j \in 1 .. Len(queue') : i < j => queue'[i].msg < queue'[j].msg
    BY DEF QueueInOrder, Later
  <2>1. /\ i \in Nat /\ i + 1 \in 1 .. Len(queue) /\ queue'[i].msg = queue[i + 1].msg
        /\ \A j \in 1 .. Len(queue') : j + 1 \in 1 .. Len(queue) /\ queue'[j].msg = queue[j + 1].msg
    BY NextKeeps
  <2>2. /\ queue[1].msg < queue[i + 1].msg /\ seen.read[1] < queue[i + 1].msg /\ queue[i + 1].msg <= sent
        /\ \A j \in 1 .. Len(queue) : i + 1 < j => queue[i + 1].msg < queue[j].msg
    BY <1>4, <2>1 DEF UdpInv, QueueInOrder, Later
  <2>3. rx'.msg < queue[i + 1].msg
    <3>1. queue[i + 1] \in Message2s
      BY SMTT(30), <2>1, AT2Facts
    <3> QED
      BY <1>1, <1>2, <2>2, <3>1 DEF Message2s
  <2>4. \A j \in 1 .. Len(queue') : i < j => i + 1 < j + 1
    OBVIOUS
  <2> QED
    BY <2>1, <2>2, <2>3, <2>4
<1>12. HasStream' /\ HasMessage' /\ Fetching'
  BY <1>2 DEF HasStream, HasMessage, Fetching
<1>13. Announced'
  <2>1. \A i \in 1 .. Len(line') : 1 \in 1 .. Len(queue') /\ line'[i].size = queue'[1].size
    BY NextKeeps
  <2> QED
    BY <2>1 DEF Announced, Size
<1> QED
  BY <1>6, <1>7, <1>8, <1>9, <1>10, <1>11, <1>12, <1>13 DEF UdpInv

LEMMA ReceiveKeeps ==
  ASSUME UdpInv, ~ at1, Receive, UNCHANGED at1
  PROVE  UdpInv'
<1> DEFINE len == Min({asked, queue[1].size})
<1>1. /\ call = "receive" /\ line = <<>> /\ queue # <<>> /\ call' = "infoOff" /\ NextMessage
      /\ UNCHANGED <<listening, others, sent, seen, asked, faults>>
  BY DEF Receive
<1>2. queue \in Seq(Message2s) /\ held \in Nat /\ Sums(queue, held) /\ asked \in 0 .. BufferSize /\ avail \in Nat
      /\ avail <= held
  BY AT2Facts
<1>3. Head(queue) = queue[1] /\ queue[1] \in Message2s
  BY <1>1, <1>2
<1>4. rx' = Fetched(queue[1].msg, len) /\ avail' = IF len > avail THEN 0 ELSE avail - len
  BY <1>3 DEF Receive
<1>5. queue[1].size \in Nat /\ BufferSize \in Nat
  BY <1>3, AT2Facts DEF Message2s
<1>6. len = IF asked <= queue[1].size THEN asked ELSE queue[1].size
  BY <1>2, <1>5, MinOf
<1> HIDE DEF len
<1>7. len \in 0 .. BufferSize
  BY <1>2, <1>5, <1>6
<1>8. held' = held - queue[1].size /\ held' \in Nat
  BY <1>1, NextKeeps
<1>9. avail' \in Nat /\ avail' <= held'
  <2>1. CASE avail <= asked
    BY SMTT(30), <1>2, <1>4, <1>5, <1>6, <1>8, <2>1
  <2>2. CASE Size(avail)
    <3>1. PICK j \in 1 .. Len(queue) : avail = queue[j].size /\ j > 1
      BY <1>1, <2>2 DEF Size
    <3>2. avail <= held - queue[1].size
      BY <1>2, <3>1, SumsCovers
    <3> QED
      BY <1>2, <1>4, <1>7, <1>8, <3>2
  <2> QED
    BY <1>1, <2>1, <2>2 DEF UdpInv, Fetching
<1>10. faults' \in 0 .. MaxFaults
  BY <1>1 DEF UdpInv, UdpTypeOK
<1> QED
  BY <1>1, <1>4, <1>7, <1>9, <1>10, ReceivedKeeps

LEMMA ReceiveTimeoutKeeps ==
  ASSUME UdpInv, ~ at1, ReceiveTimeout, UNCHANGED at1
  PROVE  UdpInv'
<1>1. /\ call = "receive" /\ line = <<>> /\ queue # <<>> /\ call' = "infoOff" /\ NextMessage
      /\ UNCHANGED <<listening, others, sent, seen, asked>> /\ rx' = Fetched(0, 0) /\ avail' = 0 /\ Fails
  BY DEF ReceiveTimeout
<1>2. faults' \in 0 .. MaxFaults
  BY <1>1, FaultsAssumption DEF Fails, UdpInv, UdpTypeOK
<1>3. 0 \in 0 .. BufferSize /\ avail' \in Nat /\ avail' <= held'
  BY <1>1, NextKeeps, AT2Facts
<1> QED
  BY <1>1, <1>2, <1>3, ReceivedKeeps

LEMMA ClosedKeeps ==
  ASSUME UdpInv, ~ at1, Closed
  PROVE  UdpInv'
<1>1. /\ line = <<>> /\ call' = "none" /\ listening' = FALSE /\ avail' = 0 /\ queue' = <<>> /\ held' = 0
      /\ UNCHANGED <<rx, others, line, sent, seen, at1, asked, faults>>
  BY DEF Closed, Stopped
<1>2. rx \in Rx /\ sent \in Nat /\ MaxSize \in Nat /\ MaxMessages \in Nat
  BY AT2Facts
<1>3. 0 <= MaxSize * sent /\ 0 \in 0 .. MaxSize * MaxMessages
  <2>1. 0 \in 0 .. MaxMessages
    BY <1>2
  <2> QED
    BY <1>2, <2>1, HeldType
<1>4. UdpTypeOK'
  <2>1. queue' \in Seq(Message2s)
    BY <1>1
  <2> QED
    BY <1>1, <1>3, <2>1 DEF UdpInv, UdpTypeOK, Calls
<1>5. SeenOK' /\ Place' /\ HasStream' /\ HasMessage' /\ Fetching'
  BY <1>1 DEF UdpInv, SeenOK, Place, HasStream, HasMessage, Fetching
<1>6. Sides' /\ LineInOrder' /\ QueueInOrder' /\ Announced'
  BY <1>1 DEF UdpInv, Sides, LineInOrder, QueueInOrder, Announced
<1>7. Sums(queue', held')
  BY <1>1, SumsEmpty
<1>8. Held'
  BY <1>1, <1>3, <1>7 DEF Held
<1> QED
  BY <1>4, <1>5, <1>6, <1>8 DEF UdpInv

LEMMA ArrivesKeeps ==
  ASSUME UdpInv, ~ at1, Arrives, UNCHANGED at1
  PROVE  UdpInv'
<1>1. PICK m \in Message2s :
        /\ m.msg = sent + 1 /\ queue' = Append(queue, m) /\ held' = held + m.size
        /\ line' = IF m.told THEN Append(line, Ipd(m)) ELSE line
  <2>1. PICK size \in 1 .. MaxSize, told \in {TRUE, queue = <<>>} :
          /\ queue' = Append(queue, [msg |-> sent + 1, size |-> size, told |-> told])
          /\ held' = held + size
          /\ line' = IF told THEN Append(line, Ipd([msg |-> sent + 1, size |-> size, told |-> told])) ELSE line
    BY DEF Arrives
  <2>2. sent + 1 \in 1 .. MaxMessages /\ told \in BOOLEAN
    <3>1. sent \in 0 .. MaxMessages /\ MaxMessages \in Nat
      BY AT2Facts
    <3>2. sent + 1 \in 1 .. MaxMessages
      BY <3>1 DEF Arrives
    <3>3. told \in BOOLEAN
      <4>1. (queue = <<>>) \in BOOLEAN
        OBVIOUS
      <4> QED
        BY <4>1
    <3> QED
      BY <3>2, <3>3
  <2> DEFINE m == [msg |-> sent + 1, size |-> size, told |-> told]
  <2>3. m \in Message2s
    BY <2>2 DEF Message2s
  <2> QED
    BY <2>1, <2>3
<1>2. /\ sent' = sent + 1 /\ sent' \in 0 .. MaxMessages
      /\ UNCHANGED <<listening, rx, others, call, seen, avail, asked, faults>>
  <2>1. sent \in 0 .. MaxMessages /\ MaxMessages \in Nat
    BY AT2Facts
  <2> QED
    BY <2>1 DEF Arrives
<1>3. m.size \in 1 .. MaxSize /\ Ipd(m) \in Ipds /\ Ipd(m).size = m.size
  BY DEF Message2s, Ipd, Ipds
<1>4. /\ queue \in Seq(Message2s) /\ line \in Seq(Ipds) /\ held \in Nat /\ Sums(queue, held)
      /\ sent \in Nat /\ MaxSize \in Nat /\ held <= MaxSize * sent /\ avail \in Nat /\ avail <= held
  BY AT2Facts
<1> DEFINE n == Len(queue)
<1>5. /\ n \in Nat /\ Len(queue') = n + 1 /\ queue'[n + 1] = m /\ queue' \in Seq(Message2s) /\ queue' # <<>>
      /\ \A i \in 1 .. n : queue'[i] = queue[i]
  BY <1>1, <1>4
<1>6. line' \in Seq(Ipds)
  BY <1>1, <1>3, <1>4
<1>7. Held'
  <2>1. Sums(queue', held')
    BY <1>1, <1>4, SumsAppend
  <2>2. MaxSize * (sent + 1) = MaxSize * sent + MaxSize /\ MaxSize * sent \in Int
    BY <1>4
  <2>3. held' <= MaxSize * sent'
    BY <1>1, <1>2, <1>3, <1>4, <2>2
  <2>4. avail' <= held'
    BY <1>1, <1>2, <1>3, <1>4
  <2> QED
    BY <2>1, <2>3, <2>4 DEF Held
<1>8. UdpTypeOK'
  <2>1. held' \in Nat
    BY <1>1, <1>3, <1>4
  <2>2. held' \in 0 .. MaxSize * MaxMessages
    BY <1>2, <1>7, <2>1, HeldType DEF Held
  <2>3. line' \in Seq(Items \cup Ipds)
    BY <1>6
  <2> QED
    BY <1>2, <1>5, <2>2, <2>3 DEF UdpInv, UdpTypeOK, Ipds
<1>9. rx.msg \in Nat /\ rx.msg <= sent /\ seen.read[1] \in Nat /\ seen.read[1] <= sent
  <2>1. rx \in Rx
    BY AT2Facts
  <2> QED
    BY <2>1 DEF Rx, UdpInv, SeenOK
<1>10. SeenOK'
  BY <1>2, <1>4, <1>9 DEF UdpInv, SeenOK
<1>11. Place' /\ HasStream'
  BY <1>2 DEF UdpInv, Place, HasStream
<1>12. Sides' /\ LineInOrder'
  <2>1. \A i \in 1 .. Len(line') : line'[i] \in Ipds
    BY <1>6
  <2> QED
    BY <1>6, <2>1 DEF Sides, LineInOrder, Ipds
<1>13. HasMessage'
  BY <1>5 DEF HasMessage
<1> HIDE DEF n
<1>14. QueueInOrder'
  <2>1. \A i \in 1 .. n :
          /\ rx.msg < queue[i].msg /\ seen.read[1] < queue[i].msg /\ queue[i].msg <= sent
          /\ queue[i].msg \in Nat
          /\ \A j \in 1 .. n : i < j => queue[i].msg < queue[j].msg
    <3>1. \A i \in 1 .. n : queue[i] \in Message2s
      BY <1>4 DEF n
    <3> QED
      BY <3>1 DEF n, UdpInv, QueueInOrder, Later, Message2s
  <2>2. \A i \in 1 .. n + 1 : i \in 1 .. n \/ i = n + 1
    BY <1>5
  <2>3. \A i, j \in 1 .. n + 1 : i < j => i \in 1 .. n
    BY <1>5
  <2>4. \A i \in 1 .. n : queue'[i].msg < m.msg
    BY <1>1, <1>4, <1>5, <2>1
  <2>5. \A i \in 1 .. n + 1 :
          rx'.msg < queue'[i].msg /\ seen'.read[1] < queue'[i].msg /\ queue'[i].msg <= sent'
    BY SMTT(30), <1>1, <1>2, <1>4, <1>5, <1>9, <2>1, <2>2
  <2>6. \A i, j \in 1 .. n + 1 : i < j => queue'[i].msg < queue'[j].msg
    BY <1>5, <2>1, <2>2, <2>3, <2>4
  <2> QED
    BY <1>5, <2>5, <2>6 DEF QueueInOrder, Later
<1> DEFINE SizeNow(k) == \E j \in 1 .. Len(queue') : k = queue'[j].size /\ (call' \in {"info", "receive"} => j > 1)
<1>15. \A k : Size(k) => SizeNow(k)
  <2> SUFFICES ASSUME NEW k, Size(k) PROVE SizeNow(k)
    OBVIOUS
  <2>1. PICK j \in 1 .. n : k = queue[j].size /\ (call \in {"info", "receive"} => j > 1)
    BY DEF Size, n
  <2>2. j \in 1 .. Len(queue') /\ k = queue'[j].size
    BY <1>5, <2>1
  <2> QED
    BY <1>2, <2>1, <2>2
<1>16. Fetching'
  BY <1>2, <1>15 DEF UdpInv, Fetching, Size
<1>17. Announced'
  <2> DEFINE l == Len(line)
  <2>1. SizeNow(m.size)
    <3>1. n + 1 \in 1 .. Len(queue') /\ m.size = queue'[n + 1].size
      BY <1>5
    <3>2. call \in {"info", "receive"} => n + 1 > 1
      BY <1>4, <1>5 DEF UdpInv, HasMessage, n
    <3> QED
      BY <1>2, <3>1, <3>2
  <2>2. \A i \in 1 .. l : Size(line[i].size)
    BY DEF UdpInv, Announced
  <2>3. \A i \in 1 .. Len(line') : line'[i].size = m.size \/ (i \in 1 .. l /\ line'[i] = line[i])
    <3>1. CASE line' = line
      BY <3>1
    <3>2. CASE line' = Append(line, Ipd(m))
      <4>1. /\ l \in Nat /\ Len(line') = l + 1 /\ line'[l + 1] = Ipd(m)
            /\ \A i \in 1 .. l : line'[i] = line[i]
        BY <1>4, <3>2
      <4> HIDE DEF l
      <4>2. \A i \in 1 .. l + 1 : i \in 1 .. l \/ i = l + 1
        BY <4>1
      <4> QED
        BY <1>3, <4>1, <4>2
    <3> QED
      BY <1>1, <3>1, <3>2
  <2> HIDE DEF l, SizeNow
  <2>4. \A i \in 1 .. Len(line') : SizeNow(line'[i].size)
    BY <1>15, <2>1, <2>2, <2>3
  <2> QED
    BY <2>4 DEF Announced, Size, SizeNow
<1> QED
  BY <1>7, <1>8, <1>10, <1>11, <1>12, <1>13, <1>14, <1>16, <1>17 DEF UdpInv

-----------------------------------------------------------------------------
(* The theorems.                                                           *)

LEMMA UdpInitInv == UdpInit => UdpInv
<1> SUFFICES ASSUME UdpInit PROVE UdpInv
  OBVIOUS
<1>1. /\ listening = FALSE /\ rx = NoPacket /\ others = 0 /\ call = "none" /\ line = <<>> /\ sent = 0
      /\ seen = [packet |-> 0, read |-> <<0, 0>>]
      /\ at1 \in BOOLEAN /\ avail = 0 /\ asked = 0 /\ queue = <<>> /\ held = 0 /\ faults = 0
  BY DEF UdpInit, Init
<1>2. /\ BufferSize \in Nat /\ Streams \in Nat /\ MaxSize \in Nat /\ MaxMessages \in Nat /\ MaxFaults \in Nat
  BY UdpAssumption, FaultsAssumption
<1>3. 0 <= MaxSize * sent /\ 0 \in 0 .. MaxSize * MaxMessages
  <2>1. 0 \in 0 .. MaxMessages /\ MaxSize * 0 = 0
    BY <1>2
  <2> QED
    BY <1>1, <1>2, <2>1, HeldType
<1>4. UdpTypeOK
  <2>1. rx \in Rx /\ ~ rx.live
    BY <1>1, <1>2 DEF NoPacket, Rx
  <2> QED
    <3>1. line \in Seq(Items \cup Ipds) /\ queue \in Seq(Message2s) /\ 0 \in 0 .. Streams /\ 0 \in 0 .. MaxMessages
          /\ 0 \in 0 .. BufferSize /\ 0 \in 0 .. MaxFaults
      BY <1>1, <1>2
    <3> QED
      <4>1. others + (IF rx.live THEN 1 ELSE 0) <= Streams
        BY <1>1, <2>1, <3>1
      <4>2. listening \in BOOLEAN /\ call \in Calls \cup FetchCalls /\ at1 \in BOOLEAN
        BY <1>1 DEF Calls
      <4>3. avail \in 0 .. MaxSize * MaxMessages /\ held \in 0 .. MaxSize * MaxMessages
        BY <1>1, <1>3
      <4>4. others \in 0 .. Streams /\ sent \in 0 .. MaxMessages /\ asked \in 0 .. BufferSize /\ faults \in 0 .. MaxFaults
        BY <1>1, <3>1
      <4> QED
        BY <2>1, <3>1, <4>1, <4>2, <4>3, <4>4 DEF UdpTypeOK, Ipds
<1>5. SeenOK /\ Place
  BY <1>1, <1>2 DEF SeenOK, Place, NoPacket
<1>6. Sides /\ LineInOrder /\ QueueInOrder /\ HasStream /\ HasMessage /\ Announced /\ Fetching
  BY <1>1 DEF Sides, LineInOrder, QueueInOrder, HasStream, HasMessage, Announced, Fetching, Calls
<1>7. Held
  BY <1>1, <1>3, SumsEmpty DEF Held
<1> QED
  BY <1>4, <1>5, <1>6, <1>7 DEF UdpInv

LEMMA UdpStep == UdpInv /\ [UdpNext]_udpVars => UdpInv'
<1> SUFFICES ASSUME UdpInv, [UdpNext]_udpVars PROVE UdpInv'
  OBVIOUS
<1>1. CASE Sketch /\ UNCHANGED <<at1, avail, asked, queue, held, faults>>
  BY <1>1, SketchKeeps
<1>2. CASE at1 /\ (ReadsLine \/ Calling \/ Firmware) /\ UNCHANGED <<at1, avail, asked, queue, held, faults>>
  BY <1>2, ReadMessageKeeps, ReadOtherKeeps, CallingKeeps, FirmwareKeeps DEF ReadsLine
<1>3. CASE ~ at1 /\ Closed
  BY <1>3, ClosedKeeps
<1>4. CASE ~ at1 /\ (ReadIpd \/ Sync \/ Parse \/ Fetch \/ Arrives) /\ UNCHANGED at1
  BY <1>4, ReadIpdKeeps, SyncKeeps, ParseKeeps, TakeSizeKeeps, CheckSizeKeeps, InfoOnKeeps, ReceiveKeeps,
     ReceiveTimeoutKeeps, ReceiveRefusedKeeps, InfoOffKeeps, ArrivesKeeps DEF Fetch
<1>5. CASE UNCHANGED udpVars
  <2>1. UNCHANGED <<listening, rx, others, call, line, sent, seen, at1, avail, asked, queue, held, faults>>
    BY <1>5 DEF udpVars, vars
  <2> QED
    BY <2>1 DEF UdpInv, UdpTypeOK, SeenOK, Sides, Place, LineInOrder, QueueInOrder, Later, HasStream,
       HasMessage, Announced, Size, Held, Fetching
<1> QED
  BY <1>1, <1>2, <1>3, <1>4, <1>5 DEF UdpNext

\* The inductive invariant holds in every state the listener reaches.
THEOREM UdpInvariance == UdpSpec => []UdpInv
<1>1. UdpInit => UdpInv
  BY UdpInitInv
<1>2. UdpInv /\ [UdpNext]_udpVars => UdpInv'
  BY UdpStep
<1> QED
  BY <1>1, <1>2, PTL DEF UdpSpec

\* The types hold, and the callback of AT 1 and parsePacket of AT 2 never take more streams
\* than the pool has.
THEOREM TypesCorrect == UdpSpec => []UdpTypeOK
<1>1. UdpInv => UdpTypeOK
  BY DEF UdpInv
<1> QED
  BY <1>1, UdpInvariance, PTL

\* AT 2: the size that availableForParse returns when the line was read to its end belongs
\* to a message the firmware has, whatever was refused, lost or announced in between.
THEOREM SizeIsOfAMessage == UdpSpec => []NoPhantom
<1>1. UdpInv => NoPhantom
  <2> SUFFICES ASSUME UdpInv, ~ at1, avail > 0, queue = <<>> PROVE FALSE
    BY DEF NoPhantom
  <2>1. held \in Nat /\ Sums(<<>>, held) /\ avail \in Nat /\ avail <= held
    BY AT2Facts
  <2>2. held = 0
    BY <2>1, SumsEmpty
  <2> QED
    BY <2>1, <2>2
<1> QED
  BY <1>1, UdpInvariance, PTL

\* AT 1: no message that arrives in the middle of any call disturbs the packet the sketch
\* is reading.
THEOREM PacketKept == UdpSpec => NotOverwritten
<1>1. UdpInv /\ [UdpNext]_udpVars =>
        [at1 /\ Unread /\ rx.msg # rx'.msg => call = "none" /\ (rx.index > 0 \/ call' = "stop")]_udpVars
  <2> SUFFICES ASSUME UdpInv, UdpNext, at1, Unread, rx.msg # rx'.msg
               PROVE  call = "none" /\ (rx.index > 0 \/ call' = "stop")
    OBVIOUS
  <2>1. rx \in Rx
    BY DEF UdpInv, UdpTypeOK
  <2>2. CASE Sketch
    BY <2>1, <2>2 DEF Sketch, Read, Available, Maintain, Maintained, Take, GiveBack, Begin, Begun, Stop, Rx
  <2>3. CASE ReadsLine
    BY <2>3 DEF ReadsLine, ReadMessage, ReadText, ReadAnswer, Refused, Kept
  <2>4. CASE Calling
    BY <2>4 DEF Calling, ParsePacket, ParseReturns, RemoteIP, AsksFirmware, Stopped
  <2>5. CASE Firmware
    BY <2>5 DEF Firmware, Message, Answer
  <2> QED
    BY <2>2, <2>3, <2>4, <2>5 DEF UdpNext
<1>2. UdpSpec =>
        [][at1 /\ Unread /\ rx.msg # rx'.msg => call = "none" /\ (rx.index > 0 \/ call' = "stop")]_udpVars
  BY <1>1, UdpInvariance, PTL DEF UdpSpec
<1> QED
  BY <1>2 DEF NotOverwritten

\* read() returns the bytes of the messages in order, each from its beginning.
THEOREM BytesReadInOrder == UdpSpec => ReadInOrder
<1>1. UdpInv /\ [UdpNext]_udpVars =>
   [LET a == seen.read  b == seen'.read IN
     a # b => \/ b[1] = a[1] /\ b[2] = a[2] + 1
              \/ (b[1] > a[1] \/ (~ at1 /\ 0 \in {a[1], b[1]})) /\ b[2] = 1]_udpVars
  <2> SUFFICES ASSUME UdpInv, UdpNext, seen.read # seen'.read
               PROVE  LET a == seen.read  b == seen'.read IN
                      a # b => \/ b[1] = a[1] /\ b[2] = a[2] + 1
                               \/ (b[1] > a[1] \/ (~ at1 /\ 0 \in {a[1], b[1]})) /\ b[2] = 1
    OBVIOUS
  <2>1. Read
    BY DEF UdpNext, Sketch, Available, Maintain, Maintained, Take, GiveBack, Begin, Begun, Stop,
       ReadsLine, ReadMessage, ReadText, ReadAnswer, Calling, ParsePacket, ParseReturns, RemoteIP,
       AsksFirmware, Stopped, Firmware, Message, Answer, Closed, ReadIpd, Sync, Parse, Fetch, TakeSize,
       CheckSize, InfoOn, InfoOff, Receive, ReceiveTimeout, ReceiveRefused, Arrives, Return, UdpInv, SeenOK
  <2>2. seen'.read = <<rx.msg, rx.index + 1>> /\ Unread
    BY <2>1 DEF Read, UdpInv, SeenOK
  <2>3. rx \in Rx
    BY DEF UdpInv, UdpTypeOK
  <2>4. CASE rx.index > 0
    BY <2>2, <2>3, <2>4 DEF UdpInv, Place
  <2>5. CASE rx.index = 0
    BY <2>2, <2>3, <2>5 DEF UdpInv, Place, Unread, SeenOK
  <2> QED
    BY <2>3, <2>4, <2>5 DEF Rx
<1>2. UdpSpec =>
   [][LET a == seen.read  b == seen'.read IN
     a # b => \/ b[1] = a[1] /\ b[2] = a[2] + 1
              \/ (b[1] > a[1] \/ (~ at1 /\ 0 \in {a[1], b[1]})) /\ b[2] = 1]_udpVars
  BY <1>1, UdpInvariance, PTL DEF UdpSpec
<1> QED
  BY <1>2 DEF ReadInOrder
===============================================================================
