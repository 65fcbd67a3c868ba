-------------------------- MODULE BuffStream_proofs --------------------------
(***************************************************************************)
(* Proofs about the bytes of a stream.  A call is a composition of         *)
(* operators from worlds to worlds.  The bytes on their way to the peer    *)
(* are in three sequences, one after the other: those the firmware took,   *)
(* those in the buffer and those the call still has; the bytes on their    *)
(* way to the sketch likewise.  The invariants speak of these sequences    *)
(* and of the sets of their members, and every operator has a lemma that   *)
(* says it keeps them.                                                     *)
(***************************************************************************)
EXTENDS BuffStream, SequenceTheorems, TLAPS

-----------------------------------------------------------------------------
(* Increasing sequences of numbers.                                        *)

Below(A, B) == \A x \in A, y \in B : x < y

\* A concatenation is increasing when its parts are, one below the other.
LEMMA IncreasingConcat ==
  ASSUME NEW p \in Seq(Nat), NEW q \in Seq(Nat)
  PROVE  /\ p \o q \in Seq(Nat) /\ Len(p \o q) = Len(p) + Len(q)
         /\ ToSet(p \o q) = ToSet(p) \cup ToSet(q)
         /\ Increasing(p) /\ Increasing(q) /\ Below(ToSet(p), ToSet(q)) => Increasing(p \o q)
<1> DEFINE c == p \o q
<1>1. /\ c \in Seq(Nat) /\ Len(c) = Len(p) + Len(q)
      /\ \A i \in 1 .. Len(p) + Len(q) : c[i] = IF i <= Len(p) THEN p[i] ELSE q[i - Len(p)]
  BY ConcatProperties
<1>2. /\ DOMAIN c = 1 .. Len(p) + Len(q) /\ DOMAIN p = 1 .. Len(p) /\ DOMAIN q = 1 .. Len(q)
      /\ Len(p) \in Nat /\ Len(q) \in Nat
  BY <1>1, LenProperties
<1> HIDE DEF c
<1>3. \A i \in DOMAIN p : i \in DOMAIN c /\ c[i] = p[i]
  BY <1>1, <1>2
<1>4. \A i \in DOMAIN q : Len(p) + i \in DOMAIN c /\ c[Len(p) + i] = q[i]
  <2> SUFFICES ASSUME NEW i \in DOMAIN q
               PROVE  Len(p) + i \in DOMAIN c /\ c[Len(p) + i] = q[i]
    OBVIOUS
  <2>1. i \in Nat /\ 1 <= i /\ i <= Len(q)
    BY <1>2
  <2>2. Len(p) + i \in 1 .. Len(p) + Len(q) /\ ~ (Len(p) + i <= Len(p)) /\ (Len(p) + i) - Len(p) = i
    BY <1>2, <2>1
  <2> QED BY <1>1, <1>2, <2>2
<1> DEFINE Left(i) == i \in DOMAIN p /\ c[i] = p[i]
           Right(i) == i - Len(p) \in DOMAIN q /\ c[i] = q[i - Len(p)] /\ i > Len(p)
<1>5. ASSUME NEW i \in DOMAIN c PROVE Left(i) \/ Right(i)
  <2>1. i \in 1 .. Len(p) + Len(q) /\ i \in Nat
    BY <1>2
  <2>2. CASE i <= Len(p)
    <3>1. i \in DOMAIN p
      BY <1>2, <2>1, <2>2
    <3> QED BY <1>1, <2>1, <2>2, <3>1
  <2>3. CASE ~ (i <= Len(p))
    <3>1. i - Len(p) \in DOMAIN q /\ i > Len(p)
      BY <1>2, <2>1, <2>3
    <3> QED BY <1>1, <2>1, <2>3, <3>1
  <2> QED BY <2>2, <2>3
<1>6. ToSet(c) = ToSet(p) \cup ToSet(q)
  BY <1>3, <1>4, <1>5 DEF ToSet
<1>7. ASSUME Increasing(p), Increasing(q), Below(ToSet(p), ToSet(q)) PROVE Increasing(c)
  <2> SUFFICES ASSUME NEW i \in DOMAIN c, NEW j \in DOMAIN c, i < j PROVE c[i] < c[j]
    BY DEF Increasing
  <2>1. CASE i \in DOMAIN p /\ c[i] = p[i] /\ j \in DOMAIN p /\ c[j] = p[j]
    BY <1>7, <2>1 DEF Increasing
  <2>2. CASE i \in DOMAIN p /\ c[i] = p[i] /\ j - Len(p) \in DOMAIN q /\ c[j] = q[j - Len(p)]
    BY <1>7, <2>2 DEF Below, ToSet
  <2>3. CASE /\ i - Len(p) \in DOMAIN q /\ c[i] = q[i - Len(p)]
             /\ j - Len(p) \in DOMAIN q /\ c[j] = q[j - Len(p)]
    BY <1>2, <1>7, <2>3 DEF Increasing
  <2>4. ~ (i > Len(p) /\ j \in DOMAIN p)
    BY <1>2
  <2> QED
    BY <1>5, <2>1, <2>2, <2>3, <2>4
<1> QED
  BY <1>1, <1>6, <1>7 DEF c

LEMMA IncreasingAppend ==
  ASSUME NEW p \in Seq(Nat), NEW n \in Nat, \A x \in ToSet(p) : x < n, Increasing(p)
  PROVE  /\ Append(p, n) \in Seq(Nat) /\ Len(Append(p, n)) = Len(p) + 1
         /\ ToSet(Append(p, n)) = ToSet(p) \cup {n}
         /\ Increasing(Append(p, n))
<1> DEFINE q == <<n>>
<1>1. q \in Seq(Nat) /\ Len(q) = 1 /\ ToSet(q) = {n} /\ Increasing(q)
  BY DEF ToSet, Increasing
<1>2. Append(p, n) = p \o q
  BY AppendIsConcat
<1> HIDE DEF q
<1>3. Below(ToSet(p), ToSet(q))
  BY <1>1 DEF Below
<1> QED
  BY <1>1, <1>2, <1>3, IncreasingConcat

\* What First and Rest make of a sequence are its two parts.
LEMMA FirstRest ==
  ASSUME NEW q \in Seq(Nat), NEW k \in Nat
  PROVE  /\ First(q, k) \in Seq(Nat) /\ Rest(q, k) \in Seq(Nat)
         /\ Len(First(q, k)) = IF k < Len(q) THEN k ELSE Len(q)
         /\ Len(Rest(q, k)) = IF k < Len(q) THEN Len(q) - k ELSE 0
         /\ ToSet(First(q, k)) \subseteq ToSet(q) /\ ToSet(Rest(q, k)) \subseteq ToSet(q)
         /\ Increasing(q) =>
              /\ Increasing(First(q, k)) /\ Increasing(Rest(q, k))
              /\ Below(ToSet(First(q, k)), ToSet(Rest(q, k)))
<1> DEFINE m == IF k < Len(q) THEN k ELSE Len(q)
           f == First(q, k)
           r == Rest(q, k)
<1>1. Len(q) \in Nat /\ DOMAIN q = 1 .. Len(q) /\ \A i \in 1 .. Len(q) : q[i] \in Nat
  BY LenProperties, ElementOfSeq
<1>2. m \in Nat /\ m <= Len(q) /\ m <= k
  BY <1>1
<1>3. f \in Seq(Nat) /\ Len(f) = m /\ \A i \in 1 .. m : f[i] = q[i]
  <2>1. f = SubSeq(q, 1, m)
    BY DEF First
  <2> HIDE DEF m, f
  <2> QED BY <1>1, <1>2, <2>1, SubSeqProperties
<1>4. /\ r \in Seq(Nat) /\ Len(r) = IF k < Len(q) THEN Len(q) - k ELSE 0
      /\ \A i \in 1 .. Len(q) - k : r[i] = q[k + i]
  <2>1. r = SubSeq(q, k + 1, Len(q))
    BY DEF Rest
  <2>2. \A i \in k + 1 .. Len(q) : q[i] \in Nat
    BY <1>1
  <2>3. /\ r \in Seq(Nat) /\ Len(r) = IF k + 1 <= Len(q) THEN Len(q) - (k + 1) + 1 ELSE 0
        /\ \A i \in 1 .. Len(q) - (k + 1) + 1 : r[i] = q[k + 1 + i - 1]
    <3> HIDE DEF r
    <3> QED BY <1>1, <2>1, <2>2, SubSeqProperties
  <2> HIDE DEF r
  <2>4. \A i \in 1 .. Len(q) - k : r[i] = q[k + i]
    <3> SUFFICES ASSUME NEW i \in 1 .. Len(q) - k PROVE r[i] = q[k + i]
      OBVIOUS
    <3>1. i \in 1 .. Len(q) - (k + 1) + 1 /\ k + 1 + i - 1 = k + i
      BY <1>1
    <3> QED BY <2>3, <3>1
  <2>5. Len(r) = IF k < Len(q) THEN Len(q) - k ELSE 0
    <3>1. CASE k < Len(q)
      <4>1. k + 1 <= Len(q) /\ Len(q) - (k + 1) + 1 = Len(q) - k
        BY <1>1, <3>1
      <4> QED BY <2>3, <3>1, <4>1
    <3>2. CASE ~ (k < Len(q))
      <4>1. ~ (k + 1 <= Len(q))
        BY <1>1, <3>2
      <4> QED BY <2>3, <3>2, <4>1
    <3> QED BY <3>1, <3>2
  <2> QED BY <2>3, <2>4, <2>5
<1> HIDE DEF m, f, r
<1>5. DOMAIN f = 1 .. m /\ DOMAIN r = 1 .. Len(r)
  BY <1>3, <1>4, LenProperties
<1>6. \A i \in DOMAIN r : k + i \in DOMAIN q /\ r[i] = q[k + i]
  <2> SUFFICES ASSUME NEW i \in DOMAIN r PROVE k + i \in DOMAIN q /\ r[i] = q[k + i]
    OBVIOUS
  <2>1. i \in 1 .. Len(q) - k /\ k + i \in 1 .. Len(q)
    <3>1. i \in 1 .. Len(r)
      BY <1>5
    <3>2. CASE ~ (k < Len(q))
      <4>1. Len(r) = 0 /\ 1 .. 0 = {}
        BY <1>4, <3>2
      <4> QED BY <3>1, <4>1
    <3>3. CASE k < Len(q)
      <4>1. Len(r) = Len(q) - k
        BY <1>4, <3>3
      <4>2. i \in 1 .. Len(q) - k
        BY <3>1, <4>1
      <4> QED BY <1>1, <4>2
    <3> QED BY <3>2, <3>3
  <2> QED BY <1>1, <1>4, <2>1
<1>7. \A i \in DOMAIN f : i \in DOMAIN q /\ i <= k /\ f[i] = q[i]
  BY <1>1, <1>2, <1>3, <1>5
<1>8. ToSet(f) \subseteq ToSet(q) /\ ToSet(r) \subseteq ToSet(q)
  BY <1>6, <1>7 DEF ToSet
<1>9. ASSUME Increasing(q)
      PROVE  Increasing(f) /\ Increasing(r) /\ Below(ToSet(f), ToSet(r))
  <2>1. Increasing(f)
    BY <1>7, <1>9 DEF Increasing
  <2>2. Increasing(r)
    <3> SUFFICES ASSUME NEW i \in DOMAIN r, NEW j \in DOMAIN r, i < j PROVE r[i] < r[j]
      BY DEF Increasing
    <3>1. k + i < k + j
      BY <1>5, <1>4
    <3> QED BY <1>6, <1>9, <3>1 DEF Increasing
  <2>3. Below(ToSet(f), ToSet(r))
    <3> SUFFICES ASSUME NEW i \in DOMAIN f, NEW j \in DOMAIN r PROVE f[i] < r[j]
      BY DEF Below, ToSet
    <3>1. i < k + j
      BY <1>4, <1>5, <1>7, <1>3, <1>2
    <3> QED BY <1>6, <1>7, <1>9, <3>1 DEF Increasing
  <2> QED BY <2>1, <2>2, <2>3
<1> QED
  BY <1>3, <1>4, <1>8, <1>9 DEF f, r, m

-----------------------------------------------------------------------------
(* The invariant.                                                          *)

\* The length of a sequence, as a number that the provers need not look into.
Size(q) == Len(q)

\* Three sequences that follow one another, of numbers up to n.
InOrder(a, b, c, n) ==
  /\ Increasing(a) /\ Increasing(b) /\ Increasing(c)
  /\ Below(ToSet(a), ToSet(b)) /\ Below(ToSet(a), ToSet(c)) /\ Below(ToSet(b), ToSet(c))
  /\ \A x \in ToSet(a) \cup ToSet(b) \cup ToSet(c) : x <= n

Worlds == [s : Stream, net : Net]

\* A freed stream has no link and no bytes.
Cleared(W) == W.s.freed => ~ W.s.bound /\ W.s.tx = <<>> /\ W.s.rx = <<>>

\* Nothing was lost on the way to the peer.
Lossless(W) == ~ W.s.freed /\ ~ W.s.err

\* The bytes that left the sketch.
Handed(W) == Size(W.net.sent) + Size(W.s.tx)

\* The bytes sent, in the buffer, and the rest r of a call, which has sent t bytes it
\* did not report yet.
Up(W, r, t) ==
  /\ InOrder(W.net.sent, W.s.tx, r, W.net.offered)
  /\ Lossless(W) => W.net.reported + t <= Handed(W)

\* The bytes read, in the buffer, and in the firmware.
Down(W) ==
  /\ InOrder(W.net.got, W.s.rx, W.s.fw, W.net.arrived)
  /\ ~ W.s.freed /\ ~ W.net.gap => Size(W.net.got) + Size(W.s.rx) + Size(W.s.fw) = W.net.arrived
  /\ Size(W.s.rx) <= RxSize

Good(W, r, t) == W \in Worlds /\ Cleared(W) /\ Up(W, r, t) /\ Down(W)

CallOK ==
  call \in {Idle} \cup [name : {"write"}, rest : Seq(Nat)] \cup [name : {"read"}, size : Nat \ {0}]
             \cup [name : {"send"}, taken : Nat, rest : Seq(Nat)]

Pending == IF call.name \in {"write", "send"} THEN call.rest ELSE <<>>
Taken   == IF call.name = "send" THEN call.taken ELSE 0

Room(q) == Len(q) < TxSize

\* Between two steps the buffer has room, and it is empty while a file is sent.
StreamInv ==
  /\ CallOK /\ Good(World, Pending, Taken)
  /\ Room(s.tx) /\ (call.name = "send" => s.tx = <<>>)

-----------------------------------------------------------------------------
(* Moving members along the three sequences.                               *)

LEMMA SizeNat ==
  ASSUME NEW q \in Seq(Nat)
  PROVE  Size(q) \in Nat
BY LenProperties DEF Size

LEMMA EmptySequence ==
  /\ <<>> \in Seq(Nat) /\ Size(<<>>) = 0 /\ ToSet(<<>>) = {} /\ Increasing(<<>>)
  /\ \A q \in Seq(Nat) : q = <<>> <=> Size(q) = 0
<1>1. <<>> \in Seq(Nat) /\ Len(<<>>) = 0 /\ \A q \in Seq(Nat) : q = <<>> <=> Len(q) = 0
  BY EmptySeq
<1>2. DOMAIN <<>> = {}
  OBVIOUS
<1> QED
  BY <1>1, <1>2 DEF ToSet, Increasing, Size

\* A part of a sequence can be dropped.
LEMMA DropOrder ==
  ASSUME NEW a \in Seq(Nat), NEW b \in Seq(Nat), NEW c \in Seq(Nat), NEW n \in Nat,
         InOrder(a, b, c, n)
  PROVE  InOrder(a, <<>>, c, n) /\ InOrder(a, b, <<>>, n)
BY EmptySequence DEF InOrder, Below

\* When the middle is empty the last part may be taken for it.
LEMMA SwapOrder ==
  ASSUME NEW a \in Seq(Nat), NEW b \in Seq(Nat), NEW n \in Nat
  PROVE  InOrder(a, <<>>, b, n) <=> InOrder(a, b, <<>>, n)
BY EmptySequence DEF InOrder, Below

\* The middle part joins the first.
LEMMA JoinOrder ==
  ASSUME NEW a \in Seq(Nat), NEW b \in Seq(Nat), NEW c \in Seq(Nat), NEW n \in Nat,
         InOrder(a, b, c, n)
  PROVE  InOrder(a \o b, <<>>, c, n) /\ a \o b \in Seq(Nat) /\ Size(a \o b) = Size(a) + Size(b)
<1> DEFINE p == a \o b
<1>1. /\ p \in Seq(Nat) /\ Size(p) = Size(a) + Size(b) /\ ToSet(p) = ToSet(a) \cup ToSet(b)
      /\ Increasing(p)
  BY IncreasingConcat DEF InOrder, Size
<1> HIDE DEF p
<1>2. InOrder(p, <<>>, c, n)
  BY <1>1, EmptySequence DEF InOrder, Below
<1> QED BY <1>1, <1>2 DEF p

\* The first members of the middle part join the first part, or are dropped.
LEMMA TakeOrder ==
  ASSUME NEW a \in Seq(Nat), NEW b \in Seq(Nat), NEW c \in Seq(Nat), NEW n \in Nat, NEW k \in Nat,
         InOrder(a, b, c, n)
  PROVE  /\ InOrder(a \o First(b, k), Rest(b, k), c, n) /\ InOrder(a, Rest(b, k), c, n)
         /\ a \o First(b, k) \in Seq(Nat) /\ Size(a \o First(b, k)) = Size(a) + Size(First(b, k))
<1> DEFINE f == First(b, k)
           r == Rest(b, k)
           p == a \o f
<1>1. /\ f \in Seq(Nat) /\ r \in Seq(Nat) /\ ToSet(f) \subseteq ToSet(b) /\ ToSet(r) \subseteq ToSet(b)
      /\ Increasing(f) /\ Increasing(r) /\ Below(ToSet(f), ToSet(r))
  BY FirstRest DEF InOrder
<1> HIDE DEF f, r
<1>2. Increasing(a) /\ Below(ToSet(a), ToSet(f))
  BY <1>1 DEF InOrder, Below
<1>3. p \in Seq(Nat) /\ Size(p) = Size(a) + Size(f) /\ ToSet(p) = ToSet(a) \cup ToSet(f) /\ Increasing(p)
  BY <1>1, <1>2, IncreasingConcat DEF Size
<1> HIDE DEF p
<1>4. InOrder(p, r, c, n) /\ InOrder(a, r, c, n)
  BY <1>1, <1>3 DEF InOrder, Below
<1> QED BY <1>3, <1>4 DEF p, f, r

\* The first members of the last part go past an empty middle.
LEMMA SendOrder ==
  ASSUME NEW a \in Seq(Nat), NEW c \in Seq(Nat), NEW n \in Nat, NEW k \in Nat,
         InOrder(a, <<>>, c, n)
  PROVE  /\ InOrder(a \o First(c, k), <<>>, Rest(c, k), n) /\ InOrder(a, <<>>, Rest(c, k), n)
         /\ a \o First(c, k) \in Seq(Nat) /\ Size(a \o First(c, k)) = Size(a) + Size(First(c, k))
<1> DEFINE e == <<>>
           f == First(c, k)
           r == Rest(c, k)
           p == a \o f
<1>1. InOrder(a, c, e, n) /\ e \in Seq(Nat) /\ r \in Seq(Nat)
  BY SwapOrder, EmptySequence, FirstRest
<1> HIDE DEF e
<1>2. /\ InOrder(p, r, e, n) /\ InOrder(a, r, e, n)
      /\ p \in Seq(Nat) /\ Size(p) = Size(a) + Size(f)
  BY <1>1, TakeOrder
<1> HIDE DEF f, r, p
<1>3. InOrder(p, <<>>, r, n) /\ InOrder(a, <<>>, r, n)
  BY <1>1, <1>2, SwapOrder DEF e
<1> QED BY <1>2, <1>3 DEF f, r, p

\* The first members of the last part join the middle, or are dropped.
LEMMA FillOrder ==
  ASSUME NEW a \in Seq(Nat), NEW b \in Seq(Nat), NEW c \in Seq(Nat), NEW n \in Nat, NEW k \in Nat,
         InOrder(a, b, c, n)
  PROVE  /\ InOrder(a, b \o First(c, k), Rest(c, k), n) /\ InOrder(a, b, Rest(c, k), n)
         /\ b \o First(c, k) \in Seq(Nat) /\ Size(b \o First(c, k)) = Size(b) + Size(First(c, k))
<1> DEFINE f == First(c, k)
           r == Rest(c, k)
           p == b \o f
<1>1. /\ f \in Seq(Nat) /\ r \in Seq(Nat) /\ ToSet(f) \subseteq ToSet(c) /\ ToSet(r) \subseteq ToSet(c)
      /\ Increasing(f) /\ Increasing(r) /\ Below(ToSet(f), ToSet(r))
  BY FirstRest DEF InOrder
<1> HIDE DEF f, r
<1>2. Increasing(b) /\ Below(ToSet(b), ToSet(f))
  BY <1>1 DEF InOrder, Below
<1>3. p \in Seq(Nat) /\ Size(p) = Size(b) + Size(f) /\ ToSet(p) = ToSet(b) \cup ToSet(f) /\ Increasing(p)
  BY <1>1, <1>2, IncreasingConcat DEF Size
<1> HIDE DEF p
<1>4. InOrder(a, p, r, n) /\ InOrder(a, b, r, n)
  BY <1>1, <1>3 DEF InOrder, Below
<1> QED BY <1>3, <1>4 DEF p, f, r

\* A new number at the end of the middle part, or of the last.
LEMMA AppendOrder ==
  ASSUME NEW a \in Seq(Nat), NEW b \in Seq(Nat), NEW c \in Seq(Nat), NEW n \in Nat,
         InOrder(a, b, c, n)
  PROVE  /\ InOrder(a, b, Append(c, n + 1), n + 1) /\ InOrder(a, b, c, n + 1)
         /\ Append(c, n + 1) \in Seq(Nat) /\ Size(Append(c, n + 1)) = Size(c) + 1
<1> DEFINE d == Append(c, n + 1)
<1>1. \A x \in ToSet(a) \cup ToSet(b) \cup ToSet(c) : x \in Nat /\ x < n + 1
  <2>1. \A q \in Seq(Nat) : \A x \in ToSet(q) : x \in Nat
    BY LenProperties, ElementOfSeq DEF ToSet
  <2>2. \A x \in ToSet(a) \cup ToSet(b) \cup ToSet(c) : x \in Nat /\ x <= n
    BY <2>1 DEF InOrder
  <2> QED BY <2>2
<1>2. d \in Seq(Nat) /\ Size(d) = Size(c) + 1 /\ ToSet(d) = ToSet(c) \cup {n + 1} /\ Increasing(d)
  BY <1>1, IncreasingAppend DEF InOrder, Size
<1> HIDE DEF d
<1>3. InOrder(a, b, d, n + 1) /\ InOrder(a, b, c, n + 1)
  BY <1>1, <1>2 DEF InOrder, Below
<1> QED BY <1>2, <1>3 DEF d

\* The bytes of a new call follow all the others.
LEMMA CallOrder ==
  ASSUME NEW a \in Seq(Nat), NEW b \in Seq(Nat), NEW n \in Nat, NEW m \in Nat,
         InOrder(a, b, <<>>, n)
  PROVE  /\ [i \in 1 .. m |-> n + i] \in Seq(Nat)
         /\ InOrder(a, b, [i \in 1 .. m |-> n + i], n + m)
<1> DEFINE d == [i \in 1 .. m |-> n + i]
<1>1. d \in Seq(Nat) /\ DOMAIN d = 1 .. m
  <2>1. \A i \in 1 .. m : n + i \in Nat
    OBVIOUS
  <2> QED BY <2>1, IsASeq
<1>2. \A i \in 1 .. m : d[i] = n + i
  OBVIOUS
<1> HIDE DEF d
<1>3. Increasing(d)
  BY <1>1, <1>2 DEF Increasing
<1>4. \A x \in ToSet(d) : x > n /\ x <= n + m /\ x \in Nat
  BY <1>1, <1>2 DEF ToSet
<1>5. \A x \in ToSet(a) \cup ToSet(b) : x \in Nat /\ x <= n
  <2>1. \A q \in Seq(Nat) : \A x \in ToSet(q) : x \in Nat
    BY LenProperties, ElementOfSeq DEF ToSet
  <2> QED BY <2>1 DEF InOrder
<1>6. InOrder(a, b, d, n + m)
  BY <1>3, <1>4, <1>5 DEF InOrder, Below
<1> QED BY <1>1, <1>6 DEF d

-----------------------------------------------------------------------------
(* The operators keep a good world good.                                   *)

LEMMA WorldFields ==
  ASSUME NEW W \in Worlds
  PROVE  /\ W.s \in Stream /\ W.net \in Net /\ W = [s |-> W.s, net |-> W.net]
         /\ W.s.freed \in BOOLEAN /\ W.s.bound \in BOOLEAN /\ W.s.active \in BOOLEAN
         /\ W.s.err \in BOOLEAN /\ W.s.avail \in Nat /\ W.net.gap \in BOOLEAN
         /\ W.s.tx \in Seq(Nat) /\ W.s.rx \in Seq(Nat) /\ W.s.fw \in Seq(Nat)
         /\ W.net.sent \in Seq(Nat) /\ W.net.got \in Seq(Nat)
         /\ W.net.offered \in Nat /\ W.net.reported \in Nat /\ W.net.arrived \in Nat
BY DEF Worlds, Stream, Net

LEMMA Sizes ==
  TxSize \in Nat /\ RxSize \in Nat /\ MaxSend \in Nat /\ RxSize > 0 /\ MaxSend > 0 /\ MaxBytes \in Nat
BY SizesAssumption

LEMMA HandedNat ==
  ASSUME NEW W \in Worlds
  PROVE  Handed(W) \in Nat
<1>1. Size(W.net.sent) \in Nat /\ Size(W.s.tx) \in Nat
  BY WorldFields, SizeNat
<1> QED BY <1>1 DEF Handed

LEMMA HandedSum ==
  ASSUME NEW W, NEW a \in Nat, NEW b \in Nat, Size(W.net.sent) = a, Size(W.s.tx) = b
  PROVE  Handed(W) = a + b
BY DEF Handed

LEMMA FreedGood ==
  ASSUME NEW W, NEW r \in Seq(Nat), NEW t \in Nat, Good(W, r, t)
  PROVE  Good(Freed(W), r, t) /\ Freed(W).s.tx = <<>>
<1> DEFINE V == Freed(W)
<1>1. W \in Worlds
  BY DEF Good
<1>2. /\ V \in Worlds /\ V.net = W.net /\ V.s.fw = W.s.fw
      /\ V.s.freed = TRUE /\ V.s.bound = FALSE /\ V.s.tx = <<>> /\ V.s.rx = <<>>
  BY <1>1, EmptySequence DEF Freed, Worlds, Stream
<1> HIDE DEF V
<1>3. InOrder(W.net.sent, <<>>, r, W.net.offered) /\ InOrder(W.net.got, <<>>, W.s.fw, W.net.arrived)
  <2>1. /\ InOrder(W.net.sent, W.s.tx, r, W.net.offered)
        /\ InOrder(W.net.got, W.s.rx, W.s.fw, W.net.arrived)
    BY DEF Good, Up, Lossless, Handed, Down
  <2>2. /\ W.net.sent \in Seq(Nat) /\ W.s.tx \in Seq(Nat) /\ W.net.offered \in Nat
        /\ W.net.got \in Seq(Nat) /\ W.s.rx \in Seq(Nat) /\ W.s.fw \in Seq(Nat) /\ W.net.arrived \in Nat
    BY <1>1, WorldFields
  <2>3. InOrder(W.net.sent, <<>>, r, W.net.offered)
    BY <2>1, <2>2, DropOrder
  <2>4. InOrder(W.net.got, <<>>, W.s.fw, W.net.arrived)
    BY <2>1, <2>2, DropOrder
  <2> QED BY <2>3, <2>4
<1>4. Up(V, r, t)
  BY <1>2, <1>3 DEF Up, Lossless, Handed
<1>5. Down(V)
  <2>1. Size(V.s.rx) = 0 /\ 0 <= RxSize
    BY <1>2, EmptySequence, Sizes
  <2> QED BY <1>2, <1>3, <2>1 DEF Down
<1> QED
  BY <1>2, <1>4, <1>5 DEF Good, Cleared, V

LEMMA FailedGood ==
  ASSUME NEW W, NEW r \in Seq(Nat), NEW t \in Nat, Good(W, r, t)
  PROVE  /\ Good(Failed(W), r, t) /\ Failed(W).s.tx = W.s.tx
         /\ Failed(W).s.err = TRUE
<1> DEFINE V == Failed(W)
<1>1. W \in Worlds
  BY DEF Good
<1>2. /\ V \in Worlds /\ V.net = W.net /\ V.s.fw = W.s.fw
      /\ V.s.freed = W.s.freed /\ V.s.bound = W.s.bound /\ V.s.tx = W.s.tx /\ V.s.rx = W.s.rx
      /\ V.s.err = TRUE
  BY <1>1 DEF Failed, Worlds, Stream
<1> HIDE DEF V
<1> QED
  BY <1>1, <1>2 DEF Good, Cleared, Up, Lossless, Handed, Down, V

\* Only a stream with a link can lose it, and then it keeps its unsent bytes or is freed.
LEMMA LoseLinkGood ==
  ASSUME NEW W, NEW r \in Seq(Nat), NEW t \in Nat, Good(W, r, t)
  PROVE  /\ Good(LoseLink(W), r, t) /\ LoseLink(W).s.tx \in {W.s.tx, <<>>}
<1> DEFINE V == [W EXCEPT !.s.bound = FALSE]
<1>1. W \in Worlds
  BY DEF Good
<1>2. /\ V \in Worlds /\ V.net = W.net /\ V.s.fw = W.s.fw /\ V.s.freed = W.s.freed
      /\ V.s.bound = FALSE /\ V.s.tx = W.s.tx /\ V.s.rx = W.s.rx /\ V.s.err = W.s.err
  BY <1>1 DEF Worlds, Stream
<1>3. LoseLink(W) = IF W.s.rx = <<>> THEN Freed(V) ELSE V
  BY DEF LoseLink
<1> HIDE DEF V
<1>4. Good(V, r, t)
  BY <1>1, <1>2 DEF Good, Cleared, Up, Lossless, Handed, Down
<1> QED
  BY <1>2, <1>3, <1>4, FreedGood

LEMMA CheckLinkGood ==
  ASSUME NEW W, NEW r \in Seq(Nat), NEW t \in Nat, Good(W, r, t)
  PROVE  /\ Good(CheckLink(W), r, t) /\ CheckLink(W).s.tx \in {W.s.tx, <<>>}
BY LoseLinkGood DEF CheckLink

LEMMA CheckLinkFields ==
  ASSUME NEW W \in Worlds
  PROVE  LET C == CheckLink(W) IN
         /\ C \in Worlds /\ C.net = W.net /\ C.s.err = W.s.err /\ C.s.fw = W.s.fw /\ C.s.rx = W.s.rx
         /\ W.s.freed => C.s.freed
         /\ C.s.freed => W.s.freed \/ (~ C.s.bound /\ C.s.rx = <<>>)
         /\ C.s.bound => W.s.bound
<1> DEFINE V == [W EXCEPT !.s.bound = FALSE]
           F == Freed(V)
<1>1. /\ V \in Worlds /\ V.net = W.net /\ V.s.fw = W.s.fw /\ V.s.freed = W.s.freed
      /\ V.s.bound = FALSE /\ V.s.rx = W.s.rx /\ V.s.err = W.s.err
  BY DEF Worlds, Stream
<1>2. CheckLink(W) = IF W.s.bound /\ ~ W.s.active THEN IF W.s.rx = <<>> THEN F ELSE V ELSE W
  BY DEF CheckLink, LoseLink
<1> HIDE DEF V
<1>3. /\ F \in Worlds /\ F.net = V.net /\ F.s.fw = V.s.fw /\ F.s.freed = TRUE
      /\ F.s.bound = FALSE /\ F.s.rx = <<>> /\ F.s.err = V.s.err
  BY <1>1, EmptySequence DEF Freed, Worlds, Stream
<1> HIDE DEF F
<1> QED BY <1>1, <1>2, <1>3

\* The bytes of the buffer leave it in their order, taken by the firmware or with a
\* write error.
LEMMA FlushGood ==
  ASSUME NEW W, NEW r \in Seq(Nat), NEW t \in Nat, NEW o, Good(W, r, t)
  PROVE  Good(Flush(W, o), r, t) /\ Flush(W, o).s.tx = <<>>
<1>1. W \in Worlds
  BY DEF Good
<1>2. CASE W.s.tx = <<>>
  BY <1>2 DEF Flush
<1>3. CASE W.s.tx # <<>>
  <2> DEFINE V == SendData(W, W.s.tx, o)
             A == [V EXCEPT !.s.tx = <<>>]
             E == [V EXCEPT !.s.err = TRUE]
             C == CheckLink(E)
             D == [C EXCEPT !.s.tx = <<>>]
  <2>1. Flush(W, o) = IF Sent(W, o) THEN A ELSE D
    BY <1>3 DEF Flush
  <2>2. /\ V \in Worlds /\ V.s = W.s /\ V.net.sent \in {W.net.sent, W.net.sent \o W.s.tx}
        /\ Sent(W, o) => V.net.sent = W.net.sent \o W.s.tx
        /\ V.net.offered = W.net.offered /\ V.net.reported = W.net.reported
        /\ V.net.got = W.net.got /\ V.net.arrived = W.net.arrived /\ V.net.gap = W.net.gap
    <3>1. W.net.sent \o W.s.tx \in Seq(Nat)
      BY <1>1, WorldFields, ConcatProperties
    <3> QED
      BY <1>1, <3>1 DEF SendData, Sent, Worlds, Net
  <2> HIDE DEF V
  <2>3. /\ A \in Worlds /\ A.net = V.net /\ A.s.fw = W.s.fw /\ A.s.freed = W.s.freed
        /\ A.s.bound = W.s.bound /\ A.s.tx = <<>> /\ A.s.rx = W.s.rx /\ A.s.err = W.s.err
    BY <2>2, EmptySequence DEF Worlds, Stream
  <2>4. /\ InOrder(W.net.sent \o W.s.tx, <<>>, r, W.net.offered)
        /\ Size(W.net.sent \o W.s.tx) = Size(W.net.sent) + Size(W.s.tx)
        /\ InOrder(W.net.sent, <<>>, r, W.net.offered)
    BY <1>1, WorldFields, JoinOrder, DropOrder DEF Good, Up, Lossless, Handed
  <2>5. Down(A) /\ Cleared(A)
    BY <2>2, <2>3, <1>1 DEF Good, Down, Cleared
  <2> HIDE DEF A
  <2>6. ASSUME Sent(W, o) PROVE Good(A, r, t)
    <3>1. InOrder(A.net.sent, A.s.tx, r, A.net.offered)
      BY <2>2, <2>3, <2>4, <2>6
    <3>2. Handed(A) = Handed(W) /\ Lossless(A) = Lossless(W) /\ A.net.reported = W.net.reported
      <4>1. /\ A.net.sent = W.net.sent \o W.s.tx /\ A.s.tx = <<>>
            /\ A.s.freed = W.s.freed /\ A.s.err = W.s.err /\ A.net.reported = W.net.reported
        BY <2>2, <2>3, <2>6
      <4>2. /\ Size(A.net.sent) = Handed(W) /\ Size(A.s.tx) = 0
        BY <2>4, <4>1, EmptySequence DEF Handed
      <4>3. Handed(A) = Handed(W) + 0 /\ Handed(W) \in Nat
        BY <1>1, <4>2, HandedNat, HandedSum
      <4> QED BY <4>1, <4>3 DEF Lossless
    <3>3. Lossless(A) => A.net.reported + t <= Handed(A)
      BY <3>2 DEF Good, Up
    <3>4. Up(A, r, t)
      BY <3>1, <3>3 DEF Up, Lossless, Handed
    <3> QED BY <2>3, <2>5, <3>4 DEF Good
  <2>7. Good(D, r, t) /\ D.s.tx = <<>>
    <3>1. /\ E \in Worlds /\ E.net = V.net /\ E.s.err = TRUE
          /\ E.s.fw = W.s.fw /\ E.s.freed = W.s.freed /\ E.s.bound = W.s.bound /\ E.s.rx = W.s.rx
      BY <2>2 DEF Worlds, Stream
    <3> HIDE DEF E
    <3>2. /\ C \in Worlds /\ C.net = V.net /\ C.s.err = TRUE /\ C.s.fw = W.s.fw /\ C.s.rx = W.s.rx
          /\ W.s.freed => C.s.freed
          /\ C.s.freed => W.s.freed \/ (~ C.s.bound /\ C.s.rx = <<>>)
          /\ C.s.bound => W.s.bound
      BY <3>1, CheckLinkFields
    <3> HIDE DEF C
    <3>3. /\ D \in Worlds /\ D.net = V.net /\ D.s.err = TRUE /\ D.s.fw = W.s.fw /\ D.s.rx = W.s.rx
          /\ D.s.tx = <<>> /\ D.s.freed = C.s.freed /\ D.s.bound = C.s.bound
      BY <3>2, EmptySequence DEF Worlds, Stream
    <3> HIDE DEF D
    <3>4. Down(D) /\ Cleared(D)
      <4>1. Down(W) /\ Cleared(W) /\ W.s.freed \in BOOLEAN
        BY <1>1, WorldFields DEF Good
      <4>2. /\ D.net.got = W.net.got /\ D.net.arrived = W.net.arrived /\ D.net.gap = W.net.gap
            /\ D.s.rx = W.s.rx /\ D.s.fw = W.s.fw /\ (W.s.freed => D.s.freed)
        BY <2>2, <3>2, <3>3
      <4>3. Down(D)
        BY <4>1, <4>2 DEF Down
      <4>4. Cleared(D)
        BY <3>2, <3>3, <4>1 DEF Cleared
      <4> QED BY <4>3, <4>4
    <3>5. Up(D, r, t)
      BY <2>2, <3>3, <2>4 DEF Up, Lossless, Handed
    <3> QED BY <3>3, <3>4, <3>5 DEF Good
  <2> QED BY <2>1, <2>3, <2>6, <2>7
<1> QED BY <1>2, <1>3

LEMMA SyncedGood ==
  ASSUME NEW W, NEW r \in Seq(Nat), NEW t \in Nat, NEW sync, Good(W, r, t)
  PROVE  Good(Synced(W, sync), r, t) /\ Synced(W, sync).s.tx = W.s.tx
<1> DEFINE V == [W EXCEPT !.s.avail = Len(W.s.fw)]
<1>1. W \in Worlds /\ Len(W.s.fw) \in Nat
  BY WorldFields, LenProperties DEF Good
<1>2. /\ V \in Worlds /\ V.net = W.net /\ V.s.fw = W.s.fw /\ V.s.freed = W.s.freed
      /\ V.s.bound = W.s.bound /\ V.s.tx = W.s.tx /\ V.s.rx = W.s.rx /\ V.s.err = W.s.err
  BY <1>1 DEF Worlds, Stream
<1>3. Synced(W, sync) \in {V, W}
  BY DEF Synced
<1> HIDE DEF V
<1>4. Good(V, r, t)
  BY <1>2 DEF Good, Cleared, Up, Lossless, Handed, Down
<1> QED BY <1>2, <1>3, <1>4

LEMMA AvailableGood ==
  ASSUME NEW W, NEW r \in Seq(Nat), NEW t \in Nat, NEW sync, NEW o, Good(W, r, t)
  PROVE  /\ Good(Available(W, sync, o), r, t)
         /\ Available(W, sync, o).s.tx \in {W.s.tx, <<>>}
<1> DEFINE V == IF W.s.rx = <<>> THEN Synced(W, sync) ELSE W
           A == Available(W, sync, o)
<1>1. Good(V, r, t) /\ V.s.tx = W.s.tx
  BY SyncedGood
<1>2. A \in {V, Freed(V), Flush(V, o), LoseLink(V)}
  BY DEF Available
<1> HIDE DEF V, A
<1>3. Good(A, r, t) /\ A.s.tx \in {W.s.tx, <<>>}
  BY <1>1, <1>2, FreedGood, FlushGood, LoseLinkGood
<1> QED BY <1>3 DEF A

\* A fetch takes the first bytes the firmware holds.
LEMMA FetchedParts ==
  ASSUME NEW q \in Seq(Nat), NEW n \in Nat
  PROVE  LET k == Len(First(q, n)) IN
         /\ k \in Nat /\ First(q, n) = First(q, k) /\ k <= n
         /\ k = IF n < Size(q) THEN n ELSE Size(q)
         /\ First(q, k) \in Seq(Nat) /\ Rest(q, k) \in Seq(Nat)
         /\ Size(First(q, k)) = k /\ Size(Rest(q, k)) = Size(q) - k
<1> DEFINE k == Len(First(q, n))
<1>1. k = (IF n < Len(q) THEN n ELSE Len(q)) /\ Len(q) \in Nat
  BY FirstRest, LenProperties
<1> HIDE DEF k
<1>2. k \in Nat /\ k <= n /\ (IF k < Len(q) THEN k ELSE Len(q)) = k
  BY <1>1
<1>3. First(q, n) = First(q, k)
  BY <1>1, <1>2 DEF First
<1>4. First(q, k) \in Seq(Nat) /\ Rest(q, k) \in Seq(Nat) /\ Len(First(q, k)) = k
  BY <1>2, FirstRest
<1>5. Len(Rest(q, k)) = Len(q) - k
  <2>1. Len(Rest(q, k)) = IF k < Len(q) THEN Len(q) - k ELSE 0
    BY <1>2, FirstRest
  <2>2. ~ (k < Len(q)) => Len(q) - k = 0
    BY <1>1
  <2> QED BY <2>1, <2>2
<1> QED BY <1>1, <1>2, <1>3, <1>4, <1>5 DEF k, Size

\* recvData changes what the firmware holds and what the driver knows of it.
LEMMA RecvFields ==
  ASSUME NEW W \in Worlds, NEW n \in Nat \ {0}, NEW o \in Outcomes
  PROVE  LET V == RecvData(W, n, o)
             k == Len(Fetch(W, n))
         IN
         /\ V \in Worlds
         /\ V.s.freed = W.s.freed /\ V.s.bound = W.s.bound /\ V.s.err = W.s.err
         /\ V.s.tx = W.s.tx /\ V.s.rx = W.s.rx
         /\ V.net.offered = W.net.offered /\ V.net.reported = W.net.reported
         /\ V.net.sent = W.net.sent /\ V.net.got = W.net.got /\ V.net.arrived = W.net.arrived
         /\ Fetches(W, o) => V.s.fw = Rest(W.s.fw, k) /\ V.net.gap = W.net.gap
         /\ ~ Fetches(W, o) => \/ V.s.fw = W.s.fw /\ V.net.gap = W.net.gap
                               \/ V.s.fw = Rest(W.s.fw, k) /\ V.net.gap = TRUE
<1> DEFINE k == Len(Fetch(W, n))
           rest == Rest(W.s.fw, k)
           A == [W EXCEPT !.s.avail = 0]
           B == [W EXCEPT !.s.fw = rest, !.s.avail = 0, !.net.gap = TRUE]
           C == [W EXCEPT !.s.fw = rest, !.s.avail = IF k > @ THEN 0 ELSE @ - k]
           V == RecvData(W, n, o)
<1>1. /\ W.s.avail \in Nat /\ W.s.fw \in Seq(Nat) /\ k \in Nat /\ rest \in Seq(Nat)
      /\ k = IF n < Size(W.s.fw) THEN n ELSE Size(W.s.fw)
  BY WorldFields, FetchedParts DEF Fetch
<1>2. V = IF ~ Reaches(W) \/ W.s.avail = 0 THEN W
          ELSE IF o = "refused" \/ k = 0 THEN A
          ELSE IF o = "unanswered" THEN B ELSE C
  BY DEF RecvData
<1>3. Fetches(W, o) => V = C
  <2>1. W.s.fw # <<>> => k # 0
    BY <1>1, EmptySequence, SizeNat
  <2> QED
    BY <1>2, <2>1 DEF Fetches
<1>4. ~ Fetches(W, o) => V \in {W, A, B}
  <2>1. ~ Fetches(W, o) => ~ Reaches(W) \/ W.s.avail = 0 \/ k = 0 \/ o \in {"refused", "unanswered"}
    <3>1. W.s.fw = <<>> => k = 0
      BY <1>1, EmptySequence
    <3> QED BY <1>1, <3>1 DEF Fetches, Outcomes
  <2> QED BY <1>2, <2>1
<1> HIDE DEF k
<1>5. /\ A \in Worlds /\ A.net = W.net /\ A.s.fw = W.s.fw
      /\ A.s.freed = W.s.freed /\ A.s.bound = W.s.bound /\ A.s.err = W.s.err
      /\ A.s.tx = W.s.tx /\ A.s.rx = W.s.rx
  BY <1>1 DEF Worlds, Stream
<1>6. /\ B \in Worlds /\ B.s.fw = rest /\ B.net.gap = TRUE
      /\ B.s.freed = W.s.freed /\ B.s.bound = W.s.bound /\ B.s.err = W.s.err
      /\ B.s.tx = W.s.tx /\ B.s.rx = W.s.rx
      /\ B.net.offered = W.net.offered /\ B.net.reported = W.net.reported
      /\ B.net.sent = W.net.sent /\ B.net.got = W.net.got /\ B.net.arrived = W.net.arrived
  BY <1>1 DEF Worlds, Stream, Net
<1>7. (IF k > W.s.avail THEN 0 ELSE W.s.avail - k) \in Nat
  BY <1>1
<1>8. /\ C \in Worlds /\ C.net = W.net /\ C.s.fw = rest
      /\ C.s.freed = W.s.freed /\ C.s.bound = W.s.bound /\ C.s.err = W.s.err
      /\ C.s.tx = W.s.tx /\ C.s.rx = W.s.rx
  BY <1>1, <1>7 DEF Worlds, Stream
<1> HIDE DEF A, B, C, V, rest
<1>9. /\ V \in Worlds
      /\ V.s.freed = W.s.freed /\ V.s.bound = W.s.bound /\ V.s.err = W.s.err
      /\ V.s.tx = W.s.tx /\ V.s.rx = W.s.rx
      /\ V.net.offered = W.net.offered /\ V.net.reported = W.net.reported
      /\ V.net.sent = W.net.sent /\ V.net.got = W.net.got /\ V.net.arrived = W.net.arrived
      /\ Fetches(W, o) => V.s.fw = rest /\ V.net.gap = W.net.gap
      /\ ~ Fetches(W, o) => \/ V.s.fw = W.s.fw /\ V.net.gap = W.net.gap
                            \/ V.s.fw = rest /\ V.net.gap = TRUE
  BY <1>3, <1>4, <1>5, <1>6, <1>8
<1> QED BY <1>9 DEF V, k, rest

LEMMA Moved ==
  ASSUME NEW x \in Nat, NEW y \in Nat, NEW k \in Nat
  PROVE  x + k + (y - k) = x + 0 + y /\ x + k + 0 + (y - k) = x + 0 + y
OBVIOUS

\* What is fetched into the empty buffer is the continuation of what was read.
LEMMA FillGood ==
  ASSUME NEW W, NEW r \in Seq(Nat), NEW t \in Nat, NEW o \in Outcomes, Good(W, r, t)
  PROVE  /\ Good(Fill(W, o), r, t) /\ Fill(W, o).s.tx = W.s.tx
         /\ W.s.rx # <<>> => Fill(W, o).s.rx = W.s.rx
<1>1. CASE W.s.rx # <<>>
  BY <1>1 DEF Fill
<1>2. CASE W.s.rx = <<>>
  <2> DEFINE V == RecvData(W, RxSize, o)
             f == Fetch(W, RxSize)
             k == Len(f)
             q == IF Fetches(W, o) THEN f ELSE <<>>
             U == [V EXCEPT !.s.rx = q]
  <2>1. W \in Worlds /\ W.s.fw \in Seq(Nat) /\ W.s.fw \in Seq(Nat) /\ W.net.got \in Seq(Nat)
        /\ W.net.arrived \in Nat
    BY WorldFields DEF Good
  <2>2. /\ k \in Nat /\ f = First(W.s.fw, k) /\ k <= RxSize /\ f \in Seq(Nat) /\ Size(f) = k
        /\ Size(Rest(W.s.fw, k)) = Size(W.s.fw) - k
    BY ZenonT(60), <2>1, Sizes, FetchedParts DEF Fetch
  <2>3. /\ V \in Worlds
        /\ V.s.freed = W.s.freed /\ V.s.bound = W.s.bound /\ V.s.err = W.s.err
        /\ V.s.tx = W.s.tx /\ V.s.rx = W.s.rx
        /\ V.net.offered = W.net.offered /\ V.net.reported = W.net.reported
        /\ V.net.sent = W.net.sent /\ V.net.got = W.net.got /\ V.net.arrived = W.net.arrived
        /\ Fetches(W, o) => V.s.fw = Rest(W.s.fw, k) /\ V.net.gap = W.net.gap
        /\ ~ Fetches(W, o) => \/ V.s.fw = W.s.fw /\ V.net.gap = W.net.gap
                              \/ V.s.fw = Rest(W.s.fw, k) /\ V.net.gap = TRUE
    <3>1. RxSize \in Nat \ {0}
      BY Sizes
    <3> QED BY <2>1, <3>1, RecvFields
  <2>4. Fill(W, o) = U
    BY <1>2 DEF Fill
  <2> HIDE DEF V
  <2>5. q \in Seq(Nat)
    BY <2>2, EmptySequence
  <2>6. /\ U \in Worlds /\ U.net = V.net /\ U.s.rx = q /\ U.s.freed = V.s.freed
        /\ U.s.bound = V.s.bound /\ U.s.err = V.s.err /\ U.s.tx = V.s.tx /\ U.s.fw = V.s.fw
    BY <2>3, <2>5 DEF Worlds, Stream
  <2> HIDE DEF U
  <2>7. Up(U, r, t)
    BY <2>3, <2>6 DEF Good, Up, Lossless, Handed
  <2>8. Cleared(U)
    <3>1. Fetches(W, o) => ~ W.s.freed
      BY DEF Fetches, Reaches, Good, Cleared
    <3> QED BY <1>2, <2>3, <2>6, <3>1 DEF Good, Cleared
  <2>9. Down(U)
    <3>1. InOrder(W.net.got, <<>>, W.s.fw, W.net.arrived)
      BY <1>2 DEF Good, Down
    <3>2. /\ InOrder(W.net.got, <<>> \o f, Rest(W.s.fw, k), W.net.arrived)
          /\ InOrder(W.net.got, <<>>, Rest(W.s.fw, k), W.net.arrived)
      <4>1. /\ InOrder(W.net.got, <<>> \o First(W.s.fw, k), Rest(W.s.fw, k), W.net.arrived)
            /\ InOrder(W.net.got, <<>>, Rest(W.s.fw, k), W.net.arrived)
        <5> HIDE DEF k
        <5> QED BY <2>1, <2>2, <3>1, EmptySequence, FillOrder
      <4> QED BY <2>2, <4>1
    <3>3. <<>> \o f = f
      BY <2>2, ConcatEmptySeq
    <3>4. InOrder(U.net.got, U.s.rx, U.s.fw, U.net.arrived)
      BY <2>3, <2>6, <3>1, <3>2, <3>3
    <3>5. Size(U.s.rx) <= RxSize
      BY <2>2, <2>6, EmptySequence, Sizes
    <3>6. ASSUME ~ U.s.freed, ~ U.net.gap
          PROVE  Size(U.net.got) + Size(U.s.rx) + Size(U.s.fw) = U.net.arrived
      <4>1. Size(W.net.got) + 0 + Size(W.s.fw) = W.net.arrived
        <5>1. ~ W.s.freed /\ ~ W.net.gap
          BY <2>3, <2>6, <3>6
        <5> QED BY <1>2, <5>1, EmptySequence DEF Good, Down
      <4>2. Size(W.net.got) \in Nat /\ Size(W.s.fw) \in Nat
        BY <2>1, SizeNat
      <4>3. CASE Fetches(W, o)
        <5>1. Size(U.s.rx) = k /\ Size(U.s.fw) = Size(W.s.fw) - k /\ Size(U.net.got) = Size(W.net.got)
          BY <2>2, <2>3, <2>6, <4>3
        <5>2. U.net.arrived = W.net.arrived
          BY <2>3, <2>6
        <5>3. Size(W.net.got) + k + (Size(W.s.fw) - k) = Size(W.net.got) + 0 + Size(W.s.fw)
          BY <2>2, <4>2, Moved
        <5> QED BY <4>1, <5>1, <5>2, <5>3
      <4>4. CASE ~ Fetches(W, o)
        <5>1. U.s.rx = <<>> /\ U.s.fw = W.s.fw /\ U.net.got = W.net.got
          BY <2>3, <2>6, <3>6, <4>4
        <5> QED BY <2>3, <2>6, <4>1, <5>1, EmptySequence
      <4> QED BY <4>3, <4>4
    <3> QED BY <3>4, <3>5, <3>6 DEF Down
  <2>10. Good(U, r, t)
    BY <2>6, <2>7, <2>8, <2>9 DEF Good
  <2> QED BY <1>2, <2>3, <2>4, <2>6, <2>10
<1> QED BY <1>1, <1>2

\* What is fetched straight into a larger buffer of the sketch, the receive buffer
\* being empty, is the continuation of what was read.
LEMMA DirectGood ==
  ASSUME NEW W, NEW r \in Seq(Nat), NEW t \in Nat, NEW n \in Nat \ {0}, NEW o \in Outcomes,
         Good(W, r, t), W.s.rx = <<>>
  PROVE  LET D == RecvData(W, n, o)
             U == IF Fetches(W, o) THEN [D EXCEPT !.net.got = @ \o Fetch(W, n)] ELSE D
         IN  Good(U, r, t) /\ U.s.tx = W.s.tx
<1> DEFINE V == RecvData(W, n, o)
           f == Fetch(W, n)
           k == Len(f)
           U == IF Fetches(W, o) THEN [V EXCEPT !.net.got = @ \o f] ELSE V
<1>1. W \in Worlds /\ W.s.fw \in Seq(Nat) /\ W.s.rx \in Seq(Nat) /\ W.net.got \in Seq(Nat)
      /\ W.net.arrived \in Nat
  BY WorldFields DEF Good
<1>2. /\ k \in Nat /\ f = First(W.s.fw, k) /\ f \in Seq(Nat) /\ Size(f) = k
      /\ Size(Rest(W.s.fw, k)) = Size(W.s.fw) - k
  BY <1>1, FetchedParts DEF Fetch
<1>3. /\ V \in Worlds
      /\ V.s.freed = W.s.freed /\ V.s.bound = W.s.bound /\ V.s.err = W.s.err
      /\ V.s.tx = W.s.tx /\ V.s.rx = W.s.rx
      /\ V.net.offered = W.net.offered /\ V.net.reported = W.net.reported
      /\ V.net.sent = W.net.sent /\ V.net.got = W.net.got /\ V.net.arrived = W.net.arrived
      /\ Fetches(W, o) => V.s.fw = Rest(W.s.fw, k) /\ V.net.gap = W.net.gap
      /\ ~ Fetches(W, o) => \/ V.s.fw = W.s.fw /\ V.net.gap = W.net.gap
                            \/ V.s.fw = Rest(W.s.fw, k) /\ V.net.gap = TRUE
  BY <1>1, RecvFields
<1> DEFINE q == IF Fetches(W, o) THEN W.net.got \o f ELSE W.net.got
<1>4. InOrder(W.net.got, W.s.rx, W.s.fw, W.net.arrived)
  BY DEF Good, Down
<1>5. /\ InOrder(W.net.got, f, Rest(W.s.fw, k), W.net.arrived)
      /\ InOrder(W.net.got, <<>>, Rest(W.s.fw, k), W.net.arrived)
      /\ InOrder(W.net.got, <<>>, W.s.fw, W.net.arrived)
  <2>1. <<>> \o f = f
    BY <1>2, ConcatEmptySeq
  <2>2. InOrder(W.net.got, <<>>, W.s.fw, W.net.arrived)
    BY <1>4
  <2>3. /\ InOrder(W.net.got, <<>> \o First(W.s.fw, k), Rest(W.s.fw, k), W.net.arrived)
        /\ InOrder(W.net.got, <<>>, Rest(W.s.fw, k), W.net.arrived)
    <3> HIDE DEF k
    <3> QED BY <1>1, <1>2, <2>2, EmptySequence, FillOrder
  <2> QED BY <1>2, <2>1, <2>2, <2>3
<1>6. /\ InOrder(W.net.got \o f, <<>>, Rest(W.s.fw, k), W.net.arrived)
      /\ W.net.got \o f \in Seq(Nat) /\ Size(W.net.got \o f) = Size(W.net.got) + k
  BY SMTT(30), <1>1, <1>2, <1>5, JoinOrder, FirstRest
<1>7. U.s = V.s /\ U \in Worlds /\ U.net.got = q /\ U.net.gap = V.net.gap
      /\ U.net.offered = V.net.offered /\ U.net.reported = V.net.reported
      /\ U.net.sent = V.net.sent /\ U.net.arrived = V.net.arrived
  <2> HIDE DEF V, f
  <2> QED BY <1>3, <1>6 DEF Worlds, Net
<1> HIDE DEF U, V
<1>8. Up(U, r, t) /\ Cleared(U)
  BY <1>3, <1>7 DEF Good, Up, Lossless, Handed, Cleared
<1>9. Down(U)
  <2>1. InOrder(U.net.got, U.s.rx, U.s.fw, U.net.arrived)
    BY <1>3, <1>5, <1>6, <1>7
  <2>2. Size(U.s.rx) <= RxSize
    BY <1>3, <1>7, EmptySequence, Sizes
  <2>3. ASSUME ~ U.s.freed, ~ U.net.gap
        PROVE  Size(U.net.got) + Size(U.s.rx) + Size(U.s.fw) = U.net.arrived
    <3>1. Size(W.net.got) + 0 + Size(W.s.fw) = W.net.arrived
      <4>1. ~ W.s.freed /\ ~ W.net.gap
        BY <1>3, <1>7, <2>3
      <4> QED BY <4>1, EmptySequence DEF Good, Down
    <3>2. Size(W.net.got) \in Nat /\ Size(W.s.fw) \in Nat
      BY <1>1, SizeNat
    <3>3. CASE Fetches(W, o)
      <4>1. Size(U.s.rx) = 0 /\ Size(U.s.fw) = Size(W.s.fw) - k /\ Size(U.net.got) = Size(W.net.got) + k
        BY <1>2, <1>3, <1>6, <1>7, <3>3, EmptySequence
      <4>2. U.net.arrived = W.net.arrived
        BY <1>3, <1>7
      <4>3. Size(W.net.got) + k + 0 + (Size(W.s.fw) - k) = Size(W.net.got) + 0 + Size(W.s.fw)
        BY <1>2, <3>2, Moved
      <4> QED BY <3>1, <4>1, <4>2, <4>3
    <3>4. CASE ~ Fetches(W, o)
      <4>1. U.s.rx = <<>> /\ U.s.fw = W.s.fw /\ U.net.got = W.net.got
        BY <1>3, <1>7, <2>3, <3>4
      <4> QED BY <1>3, <1>7, <3>1, <4>1, EmptySequence
    <3> QED BY <3>3, <3>4
  <2> QED BY <2>1, <2>2, <2>3 DEF Down
<1>10. Good(U, r, t) /\ U.s.tx = W.s.tx
  BY <1>3, <1>7, <1>8, <1>9 DEF Good
<1> QED BY <1>10 DEF U, V

\* A call that is over, or fails, leaves its bytes and reports no more of them.
LEMMA EndGood ==
  ASSUME NEW W, NEW r \in Seq(Nat), NEW t \in Nat, Good(W, r, t)
  PROVE  Good(W, <<>>, 0) /\ Good(W, r, 0)
<1>1. W \in Worlds
  BY DEF Good
<1>2. /\ W.net.sent \in Seq(Nat) /\ W.s.tx \in Seq(Nat) /\ W.net.offered \in Nat
      /\ W.net.reported \in Nat /\ Handed(W) \in Nat
  BY <1>1, WorldFields, HandedNat
<1>3. InOrder(W.net.sent, W.s.tx, r, W.net.offered)
  BY DEF Good, Up, Lossless, Handed
<1>4. InOrder(W.net.sent, W.s.tx, <<>>, W.net.offered)
  BY <1>2, <1>3, DropOrder
<1>5. Lossless(W) => W.net.reported + t <= Handed(W)
  BY DEF Good, Up, Lossless, Handed
<1>6. Lossless(W) => W.net.reported + 0 <= Handed(W)
  BY <1>2, <1>5
<1>7. Up(W, <<>>, 0) /\ Up(W, r, 0)
  BY <1>3, <1>4, <1>6 DEF Up, Lossless, Handed
<1> QED BY <1>7 DEF Good

\* What was taken is reported.
LEMMA ReportedGood ==
  ASSUME NEW W, NEW r \in Seq(Nat), NEW n \in Nat, Good(W, r, n)
  PROVE  Good(Reported(W, n), r, 0) /\ Reported(W, n).s = W.s
<1> DEFINE V == Reported(W, n)
<1>1. W \in Worlds
  BY DEF Good
<1>2. W.net.reported \in Nat /\ W.net.reported + n \in Nat
  BY <1>1, WorldFields
<1>3. /\ V \in Worlds /\ V.s = W.s /\ V.net.reported = W.net.reported + n
      /\ V.net.offered = W.net.offered /\ V.net.sent = W.net.sent /\ V.net.got = W.net.got
      /\ V.net.arrived = W.net.arrived /\ V.net.gap = W.net.gap
  BY <1>1, <1>2 DEF Reported, Worlds, Net
<1> HIDE DEF V
<1>4. V.net.reported + 0 = W.net.reported + n
  BY <1>2, <1>3
<1>5. Up(V, r, 0)
  BY <1>3, <1>4 DEF Good, Up, Lossless, Handed
<1> QED
  BY <1>3, <1>5 DEF Good, Cleared, Down, V

\* More bytes are offered; they are the rest of the new call.
LEMMA OfferGood ==
  ASSUME NEW W, NEW n \in Nat, Good(W, <<>>, 0)
  PROVE  LET V == [W EXCEPT !.net.offered = @ + n]
             d == [i \in 1 .. n |-> W.net.offered + i]
         IN  d \in Seq(Nat) /\ Good(V, d, 0) /\ V.s = W.s
<1> DEFINE V == [W EXCEPT !.net.offered = @ + n]
           d == [i \in 1 .. n |-> W.net.offered + i]
<1>1. W \in Worlds
  BY DEF Good
<1>2. /\ W.net.offered \in Nat /\ W.net.offered + n \in Nat
      /\ W.net.sent \in Seq(Nat) /\ W.s.tx \in Seq(Nat)
  BY <1>1, WorldFields
<1>3. InOrder(W.net.sent, W.s.tx, <<>>, W.net.offered)
  BY DEF Good, Up, Lossless, Handed
<1>4. d \in Seq(Nat) /\ InOrder(W.net.sent, W.s.tx, d, W.net.offered + n)
  BY <1>2, <1>3, CallOrder
<1>5. /\ V \in Worlds /\ V.s = W.s /\ V.net.offered = W.net.offered + n
      /\ V.net.reported = W.net.reported /\ V.net.sent = W.net.sent /\ V.net.got = W.net.got
      /\ V.net.arrived = W.net.arrived /\ V.net.gap = W.net.gap
  BY <1>1, <1>2 DEF Worlds, Net
<1> HIDE DEF V, d
<1>6. Up(V, d, 0)
  BY <1>4, <1>5 DEF Good, Up, Lossless, Handed
<1>7. d \in Seq(Nat) /\ Good(V, d, 0) /\ V.s = W.s
  BY <1>4, <1>5, <1>6 DEF Good, Cleared, Down
<1> QED BY <1>7 DEF V, d

\* Bytes of the call enter the buffer, behind those it holds.
LEMMA BufferedGood ==
  ASSUME NEW W, NEW r \in Seq(Nat), NEW k \in Nat, Good(W, r, 0), ~ W.s.freed
  PROVE  LET V == [W EXCEPT !.s.tx = @ \o First(r, k)] IN
         /\ Good(V, Rest(r, k), Size(First(r, k))) /\ V.s.bound = W.s.bound
         /\ Size(V.s.tx) = Size(W.s.tx) + Size(First(r, k))
<1> DEFINE f == First(r, k)
           V == [W EXCEPT !.s.tx = @ \o f]
<1>1. W \in Worlds
  BY DEF Good
<1>2. /\ W.net.offered \in Nat /\ W.net.sent \in Seq(Nat) /\ W.s.tx \in Seq(Nat)
      /\ W.net.reported \in Nat /\ Size(W.net.sent) \in Nat /\ Size(W.s.tx) \in Nat
      /\ Handed(W) \in Nat /\ Handed(W) = Size(W.net.sent) + Size(W.s.tx)
      /\ f \in Seq(Nat) /\ Rest(r, k) \in Seq(Nat) /\ Size(f) \in Nat
  BY <1>1, WorldFields, SizeNat, HandedNat, SizeNat, FirstRest DEF Handed
<1>3. InOrder(W.net.sent, W.s.tx, r, W.net.offered)
  BY DEF Good, Up, Lossless, Handed
<1>4. /\ InOrder(W.net.sent, W.s.tx \o f, Rest(r, k), W.net.offered)
      /\ W.s.tx \o f \in Seq(Nat) /\ Size(W.s.tx \o f) = Size(W.s.tx) + Size(f)
  <2>1. W.net.offered \in Nat /\ W.net.sent \in Seq(Nat) /\ W.s.tx \in Seq(Nat)
    BY <1>2
  <2> QED BY SMTT(30), <1>3, <2>1, FillOrder
<1>5. /\ V \in Worlds /\ V.net = W.net /\ V.s.fw = W.s.fw /\ V.s.freed = W.s.freed
      /\ V.s.bound = W.s.bound /\ V.s.tx = W.s.tx \o f /\ V.s.rx = W.s.rx /\ V.s.err = W.s.err
  <2> HIDE DEF f
  <2> QED BY <1>1, <1>4 DEF Worlds, Stream
<1> HIDE DEF V, f
<1>6. Lossless(V) => V.net.reported + Size(f) <= Handed(V)
  <2>1. Lossless(W) => W.net.reported + 0 <= Handed(W)
    BY DEF Good, Up
  <2>2. Lossless(W) => W.net.reported + Size(f) <= Handed(W) + Size(f)
    BY SMTT(30), <1>2, <2>1
  <2>3. Handed(V) = Handed(W) + Size(f)
    <3>1. Handed(V) = Size(W.net.sent) + (Size(W.s.tx) + Size(f))
      BY <1>2, <1>4, <1>5 DEF Handed
    <3> QED BY <1>2, <3>1
  <2>4. Lossless(V) = Lossless(W) /\ V.net.reported = W.net.reported
    BY <1>5 DEF Lossless
  <2> QED BY <2>2, <2>3, <2>4
<1>7. Up(V, Rest(r, k), Size(f))
  BY <1>4, <1>5, <1>6 DEF Up, Lossless, Handed
<1>8. Down(V) /\ Cleared(V)
  BY <1>5 DEF Good, Down, Cleared
<1>9. /\ Good(V, Rest(r, k), Size(f)) /\ V.s.bound = W.s.bound
      /\ Size(V.s.tx) = Size(W.s.tx) + Size(f)
  BY <1>4, <1>5, <1>7, <1>8 DEF Good
<1> QED BY <1>9 DEF V, f

\* Bytes of the call go to the firmware past the empty buffer.
LEMMA SendDataGood ==
  ASSUME NEW W, NEW r \in Seq(Nat), NEW t \in Nat, NEW k \in Nat, NEW o, Good(W, r, t),
         W.s.tx = <<>>
  PROVE  LET V == SendData(W, First(r, k), o) IN
         /\ Good(V, Rest(r, k), t) /\ V.s = W.s
         /\ Sent(W, o) => Good(V, Rest(r, k), t + Size(First(r, k)))
<1> DEFINE f == First(r, k)
           V == SendData(W, f, o)
<1>1. W \in Worlds
  BY DEF Good
<1>2. /\ W.net.offered \in Nat /\ W.net.sent \in Seq(Nat) /\ W.s.tx \in Seq(Nat)
      /\ W.net.reported \in Nat /\ Size(W.net.sent) \in Nat /\ Size(W.s.tx) \in Nat
      /\ Handed(W) \in Nat /\ Handed(W) = Size(W.net.sent) + Size(W.s.tx)
      /\ f \in Seq(Nat) /\ Rest(r, k) \in Seq(Nat) /\ Size(f) \in Nat
  BY <1>1, WorldFields, SizeNat, HandedNat, SizeNat, FirstRest DEF Handed
<1>3. InOrder(W.net.sent, <<>>, r, W.net.offered)
  BY DEF Good, Up, Lossless, Handed
<1>4. /\ InOrder(W.net.sent \o f, <<>>, Rest(r, k), W.net.offered)
      /\ InOrder(W.net.sent, <<>>, Rest(r, k), W.net.offered)
      /\ W.net.sent \o f \in Seq(Nat) /\ Size(W.net.sent \o f) = Size(W.net.sent) + Size(f)
  <2>1. W.net.offered \in Nat /\ W.net.sent \in Seq(Nat)
    BY <1>2
  <2> QED BY <1>3, <2>1, SendOrder
<1>5. /\ V \in Worlds /\ V.s = W.s /\ V.net.offered = W.net.offered
      /\ V.net.reported = W.net.reported /\ V.net.got = W.net.got
      /\ V.net.arrived = W.net.arrived /\ V.net.gap = W.net.gap
      /\ V.net.sent \in {W.net.sent, W.net.sent \o f}
      /\ Sent(W, o) => V.net.sent = W.net.sent \o f
  <2> HIDE DEF f
  <2> QED BY <1>1, <1>4 DEF SendData, Sent, Worlds, Net
<1> HIDE DEF V, f
<1>6. Down(V) /\ Cleared(V)
  BY <1>5 DEF Good, Down, Cleared
<1>7. Lossless(W) => W.net.reported + t <= Handed(W)
  BY DEF Good, Up, Lossless, Handed
<1>8. /\ InOrder(V.net.sent, V.s.tx, Rest(r, k), V.net.offered)
      /\ V.net.reported = W.net.reported /\ Lossless(V) = Lossless(W)
  <2>1. V.s.tx = <<>> /\ V.net.sent \in {W.net.sent, W.net.sent \o f} /\ V.net.offered = W.net.offered
    BY <1>5
  <2>2. InOrder(V.net.sent, V.s.tx, Rest(r, k), V.net.offered)
    <3>1. /\ InOrder(W.net.sent \o f, <<>>, Rest(r, k), W.net.offered)
          /\ InOrder(W.net.sent, <<>>, Rest(r, k), W.net.offered)
      BY <1>4
    <3> QED BY <2>1, <3>1
  <2> QED BY <1>5, <2>2 DEF Lossless
<1>9. Size(W.net.sent \o f) = Size(W.net.sent) + Size(f) /\ V.s.tx = W.s.tx
  BY <1>4, <1>5
<1>10. V.net.sent = W.net.sent \o f => Handed(V) = Handed(W) + Size(f)
  <2> DEFINE x == Size(W.net.sent)
             y == Size(W.s.tx)
             z == Size(f)
  <2>1. x \in Nat /\ y \in Nat /\ z \in Nat
    BY <1>2
  <2>2. Handed(W) = x + y /\ (V.net.sent = W.net.sent \o f => Handed(V) = x + z + y)
    BY <1>9 DEF Handed
  <2> HIDE DEF x, y, z
  <2>3. V.net.sent = W.net.sent \o f => Handed(V) = Handed(W) + z
    BY <2>1, <2>2
  <2> QED BY <2>3 DEF z
<1>11. Handed(V) \in {Handed(W), Handed(W) + Size(f)} /\ (Sent(W, o) => Handed(V) = Handed(W) + Size(f))
  <2>1. V.net.sent = W.net.sent => Handed(V) = Handed(W)
    BY <1>9 DEF Handed
  <2> QED BY <1>5, <1>10, <2>1
<1>12. Up(V, Rest(r, k), t)
  <2>1. Lossless(W) => W.net.reported + t <= Handed(V)
    BY SMTT(30), <1>2, <1>7, <1>11
  <2> QED BY <1>8, <2>1 DEF Up
<1>13. ASSUME Sent(W, o) PROVE Up(V, Rest(r, k), t + Size(f))
  <2>1. Lossless(W) => W.net.reported + (t + Size(f)) <= Handed(V)
    BY SMTT(30), <1>2, <1>7, <1>11, <1>13
  <2> QED BY <1>8, <2>1 DEF Up
<1>14. /\ Good(V, Rest(r, k), t) /\ V.s = W.s
       /\ Sent(W, o) => Good(V, Rest(r, k), t + Size(f))
  BY <1>5, <1>6, <1>12, <1>13 DEF Good
<1> QED BY <1>14 DEF V, f

\* The rest of a call can be dropped when its bytes are gone.
LEMMA WholeSequence ==
  ASSUME NEW q \in Seq(Nat)
  PROVE  First(q, Len(q)) = q /\ Len(q) \in Nat
BY SubSeqFull, LenProperties DEF First

-----------------------------------------------------------------------------
(* Every step keeps the invariant.                                         *)

\* Between the calls nothing is pending.
LEMMA Between ==
  ASSUME StreamInv, call = Idle
  PROVE  Good(World, <<>>, 0) /\ World.s = s /\ World.net = net /\ World \in Worlds
<1>1. Pending = <<>> /\ Taken = 0
  BY DEF Pending, Taken, Idle
<1> QED BY <1>1 DEF StreamInv, World, Good

\* A step to a good world, after which the call c is going on.
LEMMA GoesOn ==
  ASSUME NEW W, NEW c, NEW r, NEW t, Good(W, r, t), Become(W), call' = c,
         \/ c = Idle /\ r = <<>> /\ t = 0
         \/ c \in [name : {"write"}, rest : Seq(Nat)] /\ r = c.rest /\ t = 0
         \/ c \in [name : {"read"}, size : Nat \ {0}] /\ r = <<>> /\ t = 0
         \/ c \in [name : {"send"}, taken : Nat, rest : Seq(Nat)] /\ r = c.rest /\ t = c.taken
            /\ W.s.tx = <<>>,
         Room(W.s.tx)
  PROVE  StreamInv'
<1>1. World' = W
  <2>1. W = [s |-> W.s, net |-> W.net]
    BY WorldFields DEF Good
  <2> QED BY <2>1 DEF World, Become
<1>2. Pending' = r /\ Taken' = t
  BY DEF Pending, Taken, Idle
<1>3. CallOK'
  BY DEF CallOK
<1>4. (call.name = "send" => s.tx = <<>>)'
  BY DEF Become, Idle
<1>5. Good(World, Pending, Taken)'
  BY <1>1, <1>2 DEF Good, Worlds, Cleared, Up, Down, Lossless, Handed
<1>6. Room(s.tx)'
  BY DEF Become
<1> QED BY <1>3, <1>4, <1>5, <1>6 DEF StreamInv

LEMMA Ends ==
  ASSUME NEW W, Good(W, <<>>, 0), Become(W), call' = Idle, Room(W.s.tx)
  PROVE  StreamInv'
BY GoesOn

LEMMA NoBytes ==
  ASSUME TxSize > 0
  PROVE  Room(<<>>)
BY EmptySequence, Sizes DEF Size, Room

LEMMA ReadStep ==
  ASSUME StreamInv, NEW n \in 1 .. MaxBytes, Read(n)
  PROVE  StreamInv'
<1>1. Good(World, <<>>, 0) /\ World.s = s /\ World.net = net
  BY Between DEF Read, Calls
<1>2. Become(World) /\ call' = [name |-> "read", size |-> n] /\ n \in Nat \ {0}
  BY <1>1, Sizes DEF Read, Calls, Become
<1>3. Room(World.s.tx)
  BY <1>1 DEF StreamInv
<1> QED BY <1>1, <1>2, <1>3, GoesOn

LEMMA WriteStep ==
  ASSUME StreamInv, NEW n \in 1 .. MaxBytes, Write(n)
  PROVE  StreamInv'
<1> DEFINE W == [World EXCEPT !.net.offered = @ + n]
           d == [i \in 1 .. n |-> World.net.offered + i]
<1>1. Good(World, <<>>, 0) /\ World.s = s /\ World.net = net /\ World \in Worlds
  BY Between DEF Write, Calls
<1>2. d \in Seq(Nat) /\ Good(W, d, 0) /\ W.s = World.s
  <2>1. n \in Nat
    BY Sizes
  <2> QED BY <1>1, <2>1, OfferGood
<1>3. Become(W) /\ call' = [name |-> "write", rest |-> d]
  BY <1>1 DEF Write, Calls, Become, World
<1>4. Room(W.s.tx)
  BY <1>1, <1>2 DEF StreamInv
<1> HIDE DEF W, d
<1> QED BY <1>2, <1>3, <1>4, GoesOn

LEMMA WriteRefusedStep ==
  ASSUME StreamInv, WriteRefused
  PROVE  StreamInv'
<1>1. call.name = "write" /\ call \in [name : {"write"}, rest : Seq(Nat)] /\ Pending = call.rest /\ Taken = 0
  BY DEF WriteRefused, StreamInv, CallOK, Idle, Pending, Taken
<1> DEFINE W == Failed(World)
<1>2. Good(World, call.rest, 0) /\ call.rest \in Seq(Nat) /\ World.s = s
  BY <1>1 DEF StreamInv, World
<1>3. Good(W, <<>>, 0) /\ W.s.tx = s.tx
  BY <1>2, FailedGood, EndGood
<1>4. Become(W) /\ call' = Idle
  BY DEF WriteRefused, Round
<1>5. Room(W.s.tx)
  BY <1>3 DEF StreamInv
<1> HIDE DEF W
<1> QED BY <1>3, <1>4, <1>5, Ends

\* The buffer is empty, and the bytes go past it.
LEMMA SendDirectlyStep ==
  ASSUME StreamInv, TxSize > 0, NEW o \in Outcomes, SendDirectly(o)
  PROVE  StreamInv'
<1>1. call.name = "write" /\ call \in [name : {"write"}, rest : Seq(Nat)] /\ Pending = call.rest /\ Taken = 0
  BY DEF SendDirectly, StreamInv, CallOK, Idle, Pending, Taken
<1> DEFINE r == call.rest
           k == Len(r)
           W == SendData(World, r, o)
           V == CheckLink(W)
           D == IF Sent(World, o) THEN Reported(W, k) ELSE IF V.s.bound THEN V ELSE Failed(V)
<1>2. Good(World, r, 0) /\ r \in Seq(Nat) /\ World.s = s /\ s.tx = <<>>
  BY <1>1 DEF StreamInv, World, SendDirectly
<1>3. Become(D) /\ call' = Idle
  BY DEF SendDirectly, Round
<1>4. First(r, k) = r /\ k \in Nat /\ Rest(r, k) \in Seq(Nat) /\ Size(r) = k
  BY <1>2, WholeSequence, FirstRest DEF Size
<1> HIDE DEF r
<1>5. /\ Good(W, Rest(r, k), 0) /\ W.s = s
      /\ Sent(World, o) => Good(W, Rest(r, k), 0 + k)
  <2> DEFINE f == First(r, k)
             U == SendData(World, f, o)
  <2>1. /\ Good(U, Rest(r, k), 0) /\ U.s = World.s
        /\ Sent(World, o) => Good(U, Rest(r, k), 0 + Size(f))
    <3> HIDE DEF k, W, V, D
    <3> DEFINE t == 0
    <3>1. World.s.tx = <<>> /\ t \in Nat /\ Good(World, r, t) /\ r \in Seq(Nat) /\ k \in Nat
      BY <1>2, <1>4
    <3> HIDE DEF t
    <3>2. /\ Good(U, Rest(r, k), t) /\ U.s = World.s
          /\ Sent(World, o) => Good(U, Rest(r, k), t + Size(f))
      BY <3>1, SendDataGood
    <3> QED BY <3>2 DEF t
  <2>2. f = r /\ Size(f) = k
    BY <1>4
  <2> HIDE DEF f, k
  <2> QED BY <1>2, <2>1, <2>2
<1> HIDE DEF k, W
<1>6. Good(V, Rest(r, k), 0) /\ V.s.tx = <<>>
  BY <1>2, <1>4, <1>5, CheckLinkGood
<1> HIDE DEF V
<1>7. Good(Failed(V), Rest(r, k), 0) /\ Failed(V).s.tx = <<>>
  BY <1>4, <1>6, FailedGood
<1>8. Sent(World, o) => Good(Reported(W, k), Rest(r, k), 0) /\ Reported(W, k).s.tx = <<>>
  <2>1. 0 + k = k
    BY <1>4
  <2> QED BY <1>2, <1>4, <1>5, <2>1, ReportedGood
<1>9. Good(D, Rest(r, k), 0) /\ D.s.tx = <<>>
  BY <1>6, <1>7, <1>8
<1> HIDE DEF D
<1>10. Good(D, <<>>, 0)
  BY <1>4, <1>9, EndGood
<1> QED BY <1>3, <1>9, <1>10, NoBytes, Ends

\* A write that is going on.
LEMMA Writing ==
  ASSUME StreamInv, call.name = "write"
  PROVE  /\ call \in [name : {"write"}, rest : Seq(Nat)] /\ call.rest \in Seq(Nat)
         /\ Good(World, call.rest, 0) /\ World.s = s /\ World.net = net
<1>1. call \in [name : {"write"}, rest : Seq(Nat)]
  BY DEF StreamInv, CallOK, Idle
<1>2. Pending = call.rest /\ Taken = 0
  BY DEF Pending, Taken
<1> QED BY <1>1, <1>2 DEF StreamInv, World

\* The buffer takes what fits, and is sent when it is full.
LEMMA WriteBufferedStep ==
  ASSUME StreamInv, TxSize > 0, NEW o \in Outcomes, WriteBuffered(o)
  PROVE  StreamInv'
<1> DEFINE r == call.rest
           k == TxSize - Len(s.tx)
           f == First(r, k)
           n == Len(f)
           B == [World EXCEPT !.s.tx = @ \o f]
           W == Reported(B, n)
           D == IF Len(r) >= k THEN Flush(W, o) ELSE W
           c == IF Len(r) > k THEN [call EXCEPT !.rest = Rest(@, k)] ELSE Idle
<1>1. call.name = "write" /\ s.bound /\ Become(D) /\ call' = c
  BY DEF WriteBuffered, Round
<1>2. /\ call \in [name : {"write"}, rest : Seq(Nat)] /\ r \in Seq(Nat)
      /\ Good(World, r, 0) /\ World.s = s
  BY <1>1, Writing
<1>3. World \in Worlds /\ s.tx \in Seq(Nat) /\ Len(s.tx) \in Nat /\ Len(s.tx) < TxSize
  <2>1. World \in Worlds /\ Room(s.tx)
    BY <1>2 DEF Good, StreamInv
  <2>2. s.tx \in Seq(Nat)
    BY <1>2, <2>1, WorldFields
  <2> QED BY <2>1, <2>2, LenProperties DEF Room
<1>4. k \in Nat /\ Len(s.tx) + k = TxSize
  BY <1>3, Sizes
<1>5. /\ f \in Seq(Nat) /\ Rest(r, k) \in Seq(Nat) /\ Size(f) = n /\ n \in Nat
      /\ n = IF k < Len(r) THEN k ELSE Len(r)
  <2> HIDE DEF k, r
  <2> QED BY <1>2, <1>4, FirstRest, LenProperties DEF Size
<1>6. ~ World.s.freed
  BY <1>1, <1>2 DEF Good, Cleared
<1>7. /\ Good(B, Rest(r, k), Size(f)) /\ Size(B.s.tx) = Size(World.s.tx) + Size(f)
  <2>1. r \in Seq(Nat) /\ k \in Nat /\ Good(World, r, 0) /\ ~ World.s.freed
    BY <1>2, <1>4, <1>6
  <2> HIDE DEF k, r
  <2> QED BY <2>1, BufferedGood
<1> HIDE DEF B
<1>8. /\ Good(W, Rest(r, k), 0) /\ W.s = B.s
  <2> HIDE DEF k, r, f, n
  <2> QED BY <1>5, <1>7, ReportedGood
<1>9. Len(W.s.tx) = Len(s.tx) + n
  BY <1>2, <1>5, <1>7, <1>8 DEF Size
<1> HIDE DEF W
<1>10. Good(D, Rest(r, k), 0)
  <2> HIDE DEF k, r
  <2> QED BY <1>5, <1>8, FlushGood
<1>11. Room(D.s.tx)
  <2>1. CASE Len(r) >= k
    <3>1. D.s.tx = <<>>
      <4> HIDE DEF k, r
      <4> QED BY <1>5, <1>8, <2>1, FlushGood
    <3> HIDE DEF D
    <3> QED BY <3>1, NoBytes
  <2>2. CASE ~ (Len(r) >= k)
    <3>1. D = W
      BY <2>2
    <3>2. n < k
      <4>1. Len(r) \in Nat
        BY <1>2, LenProperties
      <4> HIDE DEF k, n, r
      <4> QED BY <1>4, <1>5, <2>2, <4>1
    <3>3. Len(s.tx) + n < TxSize
      <4>1. n \in Nat
        BY <1>5
      <4> HIDE DEF k, n
      <4> QED BY <1>3, <1>4, <3>2, <4>1
    <3> HIDE DEF D, n
    <3> QED BY <1>9, <3>1, <3>3 DEF Room
  <2> QED BY <2>1, <2>2
<1>12. CASE c = Idle
  <2>1. Good(D, <<>>, 0)
    <3> HIDE DEF D, k, r
    <3> QED BY <1>5, <1>10, EndGood
  <2> HIDE DEF D
  <2> QED BY <1>1, <1>11, <1>12, <2>1, Ends
<1>13. CASE c # Idle
  <2>1. c \in [name : {"write"}, rest : Seq(Nat)] /\ c.rest = Rest(r, k)
    <3> HIDE DEF k
    <3> QED BY <1>2, <1>5, <1>13
  <2> HIDE DEF D, c, k, r
  <2> QED BY <1>1, <1>10, <1>11, <2>1, GoesOn
<1> QED BY <1>12, <1>13

\* A byte enters the buffer.
LEMMA AppendedGood ==
  ASSUME NEW W, Good(W, <<>>, 0), ~ W.s.freed
  PROVE  LET V == [[W EXCEPT !.net.offered = @ + 1]
                     EXCEPT !.s.tx = Append(@, W.net.offered + 1)]
         IN  /\ Good(V, <<>>, 1) /\ V.s.err = W.s.err
             /\ Size(V.s.tx) = Size(W.s.tx) + 1
<1> DEFINE n == W.net.offered
           q == Append(W.s.tx, n + 1)
           V == [[W EXCEPT !.net.offered = @ + 1] EXCEPT !.s.tx = Append(@, W.net.offered + 1)]
<1>1. /\ W \in Worlds /\ W.net.sent \in Seq(Nat) /\ W.s.tx \in Seq(Nat) /\ n \in Nat
      /\ W.net.reported \in Nat
  BY WorldFields DEF Good
<1>2. InOrder(W.net.sent, W.s.tx, <<>>, n)
  BY DEF Good, Up
<1>3. /\ InOrder(W.net.sent, q, <<>>, n + 1)
      /\ q \in Seq(Nat) /\ Size(q) = Size(W.s.tx) + 1
  <2> DEFINE e == <<>>
  <2>1. InOrder(W.net.sent, e, W.s.tx, n) /\ e \in Seq(Nat)
    BY <1>1, <1>2, SwapOrder, EmptySequence
  <2> HIDE DEF e
  <2>2. InOrder(W.net.sent, e, q, n + 1) /\ q \in Seq(Nat) /\ Size(q) = Size(W.s.tx) + 1
    BY <1>1, <2>1, AppendOrder
  <2>3. n + 1 \in Nat
    BY <1>1
  <2> HIDE DEF q
  <2> QED BY <1>1, <2>2, <2>3, SwapOrder DEF e
<1>4. /\ V \in Worlds /\ V.s.fw = W.s.fw /\ V.s.freed = W.s.freed
      /\ V.s.bound = W.s.bound /\ V.s.tx = q /\ V.s.rx = W.s.rx /\ V.s.err = W.s.err
      /\ V.net.offered = n + 1 /\ V.net.reported = W.net.reported /\ V.net.sent = W.net.sent
      /\ V.net.got = W.net.got /\ V.net.arrived = W.net.arrived /\ V.net.gap = W.net.gap
  <2>1. n + 1 \in Nat
    BY <1>1
  <2> QED BY <1>1, <1>3, <2>1 DEF Worlds, Stream, Net
<1> HIDE DEF V, q
<1>5. Down(V) /\ Cleared(V) /\ Lossless(V) = Lossless(W)
  BY <1>4 DEF Good, Down, Cleared, Lossless
<1>6. Handed(V) = Handed(W) + 1
  <2> DEFINE x == Size(W.net.sent)
             y == Size(W.s.tx)
  <2>1. x \in Nat /\ y \in Nat
    BY <1>1, SizeNat
  <2>2. Handed(W) = x + y /\ Handed(V) = x + (y + 1)
    BY <1>3, <1>4 DEF Handed
  <2> HIDE DEF x, y
  <2> QED BY <2>1, <2>2
<1>7. Lossless(W) => W.net.reported + 0 <= Handed(W)
  BY DEF Good, Up
<1>8. Lossless(V) => V.net.reported + 1 <= Handed(V)
  <2>1. Handed(W) \in Nat
    BY <1>1, HandedNat
  <2>2. Lossless(W) => W.net.reported + 1 <= Handed(W) + 1
    BY <1>1, <1>7, <2>1
  <2> QED BY <1>4, <1>5, <1>6, <2>2
<1>9. Up(V, <<>>, 1)
  BY <1>3, <1>4, <1>8 DEF Up
<1>10. /\ Good(V, <<>>, 1) /\ V.s.err = W.s.err /\ Size(V.s.tx) = Size(W.s.tx) + 1
  BY <1>3, <1>4, <1>5, <1>9 DEF Good
<1> QED BY <1>10 DEF V

LEMMA WriteByteStep ==
  ASSUME StreamInv, TxSize > 0, NEW o \in Outcomes, WriteByte(o)
  PROVE  StreamInv'
<1> DEFINE U == [World EXCEPT !.net.offered = @ + 1]
           W == [U EXCEPT !.s.tx = Append(@, net.offered + 1)]
           V == IF Len(W.s.tx) = TxSize THEN Flush(W, o) ELSE W
           D == IF ~ s.bound THEN Failed(U)
                ELSE IF Len(W.s.tx) = TxSize /\ V.s.err THEN V ELSE Reported(V, 1)
<1>1. call = Idle /\ call' = Idle /\ Become(D) /\ ~ s.freed
  BY DEF WriteByte, Calls
<1>2. Good(World, <<>>, 0) /\ World.s = s /\ World.net = net /\ World \in Worlds
  BY <1>1, Between
<1>3. Good(U, <<>>, 0) /\ U.s = s
  <2> DEFINE d == [i \in 1 .. 1 |-> World.net.offered + i]
  <2>1. d \in Seq(Nat) /\ Good(U, d, 0) /\ U.s = World.s
    BY <1>2, OfferGood
  <2> HIDE DEF d, U
  <2> QED BY <1>2, <2>1, EndGood
<1>4. Good(W, <<>>, 1) /\ Size(W.s.tx) = Size(s.tx) + 1
  <2>1. W = [[World EXCEPT !.net.offered = @ + 1] EXCEPT !.s.tx = Append(@, World.net.offered + 1)]
    BY <1>2
  <2>2. ~ World.s.freed
    BY <1>1, <1>2
  <2> HIDE DEF W
  <2> QED BY <1>2, <2>1, <2>2, AppendedGood
<1>5. Len(s.tx) \in Nat /\ Len(s.tx) < TxSize
  <2>1. s.tx \in Seq(Nat) /\ Room(s.tx)
    BY <1>2, WorldFields DEF StreamInv
  <2> QED BY <2>1, LenProperties DEF Room
<1>6. Room(Failed(U).s.tx) /\ Good(Failed(U), <<>>, 0)
  <2>1. Good(Failed(U), <<>>, 0) /\ Failed(U).s.tx = U.s.tx
    <3>1. <<>> \in Seq(Nat)
      BY EmptySequence
    <3> HIDE DEF U, W, V, D
    <3> QED BY <1>3, <3>1, FailedGood
  <2>2. Room(s.tx)
    BY DEF StreamInv
  <2> HIDE DEF U
  <2> QED BY <1>3, <2>1, <2>2
<1> HIDE DEF U, W
<1>7. Good(V, <<>>, 1) /\ Room(V.s.tx)
  <2>1. CASE Len(W.s.tx) = TxSize
    <3>1. V = Flush(W, o)
      BY <2>1
    <3>2. Good(V, <<>>, 1) /\ V.s.tx = <<>>
      BY ZenonT(60), <1>4, <3>1, EmptySequence, FlushGood
    <3> HIDE DEF V
    <3> QED BY <3>2, NoBytes
  <2>2. CASE Len(W.s.tx) # TxSize
    <3>1. V = W
      BY <2>2
    <3>2. Len(W.s.tx) = Len(s.tx) + 1
      BY <1>4 DEF Size
    <3>3. Len(s.tx) + 1 < TxSize
      BY <1>5, <2>2, <3>2, Sizes
    <3> HIDE DEF V
    <3> QED BY <1>4, <3>1, <3>2, <3>3 DEF Room
  <2> QED BY <2>1, <2>2
<1> HIDE DEF V
<1>8. Good(V, <<>>, 0) /\ Good(Reported(V, 1), <<>>, 0) /\ Reported(V, 1).s = V.s
  BY <1>7, EmptySequence, EndGood, ReportedGood
<1>9. Good(D, <<>>, 0) /\ Room(D.s.tx)
  BY <1>6, <1>7, <1>8
<1> HIDE DEF D
<1> QED BY <1>1, <1>9, Ends

\* A file is offered, and the buffer flushed before it.
LEMMA SendFileStep ==
  ASSUME StreamInv, TxSize > 0, NEW n \in 1 .. MaxBytes, NEW o \in Outcomes, SendFile(n, o)
  PROVE  StreamInv'
<1> DEFINE U == [World EXCEPT !.net.offered = @ + n]
           d == [i \in 1 .. n |-> World.net.offered + i]
           V == Flush(U, o)
           c == [name |-> "send", taken |-> 0, rest |-> d]
<1>1. Good(World, <<>>, 0) /\ World.s = s /\ World.net = net /\ World \in Worlds
  BY Between DEF SendFile, Calls
<1>2. call' = c /\ Become(V)
  BY <1>1 DEF SendFile, Calls
<1>3. d \in Seq(Nat) /\ Good(U, d, 0)
  <2>1. n \in Nat
    BY Sizes
  <2> QED BY <1>1, <2>1, OfferGood
<1> HIDE DEF U, d
<1>4. Good(V, d, 0) /\ V.s.tx = <<>>
  BY <1>3, FlushGood
<1>5. /\ c \in [name : {"send"}, taken : Nat, rest : Seq(Nat)]
      /\ c.rest = d /\ c.taken = 0
  BY <1>3
<1> HIDE DEF V, c
<1>6. Room(V.s.tx)
  BY <1>4, NoBytes
<1> QED BY <1>2, <1>4, <1>5, <1>6, GoesOn

\* The next part of the file is sent.
LEMMA SendPartStep ==
  ASSUME StreamInv, TxSize > 0, NEW o \in Outcomes, SendPart(o)
  PROVE  StreamInv'
<1> DEFINE r == call.rest
           t == call.taken
           f == First(r, MaxSend)
           W == SendData(World, f, o)
           n == t + Len(f)
           X == IF Sent(World, o) THEN Reported(W, n) ELSE W
           D == CheckLink(X)
           c == [call EXCEPT !.rest = Rest(@, MaxSend), !.taken = n]
           e == Rest(r, MaxSend)
<1>1. /\ call.name = "send"
      /\ \/ Sent(World, o) /\ Become(W) /\ call' = c
         \/ Become(D) /\ call' = Idle
  BY DEF SendPart, Round
<1>2. /\ call \in [name : {"send"}, taken : Nat, rest : Seq(Nat)]
      /\ r \in Seq(Nat) /\ t \in Nat /\ Pending = r /\ Taken = t /\ s.tx = <<>>
  BY <1>1 DEF StreamInv, CallOK, Idle, Pending, Taken
<1>3. Good(World, r, t) /\ World.s.tx = <<>>
  BY <1>2 DEF StreamInv, World
<1>4. /\ MaxSend \in Nat /\ e \in Seq(Nat) /\ Size(f) = Len(f) /\ n \in Nat
  <2>1. MaxSend \in Nat
    BY Sizes
  <2>2. f \in Seq(Nat) /\ e \in Seq(Nat)
    BY <1>2, <2>1, FirstRest
  <2>3. Len(f) \in Nat
    BY <2>2, LenProperties
  <2> HIDE DEF f, t
  <2> QED BY <1>2, <2>1, <2>2, <2>3 DEF Size
<1>5. /\ Good(W, e, t) /\ W.s = World.s
      /\ Sent(World, o) => Good(W, e, t + Size(f))
  <2> HIDE DEF r, t
  <2> QED BY <1>2, <1>3, <1>4, SendDataGood
<1>6. Sent(World, o) => Good(W, e, n)
  BY <1>4, <1>5
<1>7. W.s.tx = <<>>
  BY <1>3, <1>5
<1> HIDE DEF W, e
<1>8. ASSUME Sent(World, o), Become(W), call' = c PROVE StreamInv'
  <2>1. c \in [name : {"send"}, taken : Nat, rest : Seq(Nat)] /\ c.rest = e /\ c.taken = n
    <3> HIDE DEF n
    <3> QED BY <1>2, <1>4 DEF e
  <2> HIDE DEF c, n
  <2> QED BY <1>6, <1>7, <1>8, <2>1, NoBytes, GoesOn
<1>9. ASSUME Become(D), call' = Idle PROVE StreamInv'
  <2> HIDE DEF n, t
  <2>1. Good(W, e, 0)
    BY <1>2, <1>4, <1>5, EndGood
  <2>2. Sent(World, o) => Good(Reported(W, n), e, 0) /\ Reported(W, n).s = W.s
    BY <1>4, <1>6, ReportedGood
  <2>3. Good(X, e, 0) /\ X.s.tx = <<>>
    BY <1>7, <2>1, <2>2
  <2> HIDE DEF X
  <2>4. Good(D, e, 0) /\ D.s.tx = <<>>
    BY <1>4, <2>3, CheckLinkGood
  <2> HIDE DEF D
  <2>5. Good(D, <<>>, 0)
    BY <1>4, <2>4, EndGood
  <2> QED BY <1>9, <2>4, <2>5, NoBytes, Ends
<1> QED BY <1>1, <1>8, <1>9

\* A call of one step, that goes to a world good after the calls, with an empty
\* buffer or the one there was.
LEMMA QuickStep ==
  ASSUME StreamInv, TxSize > 0, NEW D, call = Idle, call' = Idle, Become(D),
         Good(D, <<>>, 0), D.s.tx \in {s.tx, <<>>}
  PROVE  StreamInv'
<1>1. Room(s.tx) /\ Room(<<>>)
  BY NoBytes DEF StreamInv
<1> QED BY <1>1, Ends

LEMMA QuickSteps ==
  ASSUME StreamInv, TxSize > 0, NEW o \in Outcomes, NEW sync \in BOOLEAN,
         \/ AvailableForWrite \/ FlushCall(o) \/ AvailableCall(sync, o) \/ ConnectedCall
         \/ Peek(sync, o) \/ Stop(o) \/ Abort
  PROVE  StreamInv'
<1>1. call = Idle /\ call' = Idle
  BY DEF AvailableForWrite, FlushCall, AvailableCall, ConnectedCall, Peek, Stop, Abort, Calls
<1>2. Good(World, <<>>, 0) /\ World.s = s /\ <<>> \in Seq(Nat)
  BY <1>1, Between, EmptySequence
<1> DEFINE V == Available(World, sync, o)
<1>3. Good(V, <<>>, 0) /\ V.s.tx \in {s.tx, <<>>}
  BY <1>2, AvailableGood
<1>4. CASE AvailableForWrite
  BY <1>1, <1>2, <1>4, FailedGood, QuickStep DEF AvailableForWrite
<1>5. CASE FlushCall(o)
  BY <1>1, <1>2, <1>5, FlushGood, QuickStep DEF FlushCall
<1>6. CASE AvailableCall(sync, o)
  BY <1>1, <1>3, <1>6, QuickStep DEF AvailableCall
<1>7. CASE ConnectedCall
  BY <1>1, <1>2, <1>7, LoseLinkGood, QuickStep DEF ConnectedCall
<1>8. CASE Peek(sync, o)
  <2> DEFINE D == IF Readable(V) = 0 THEN V ELSE Fill(V, o)
  <2>1. Become(D)
    BY <1>8 DEF Peek
  <2>2. Good(D, <<>>, 0) /\ D.s.tx = V.s.tx
    <3> HIDE DEF V
    <3> QED BY <1>2, <1>3, FillGood
  <2> HIDE DEF D, V
  <2> QED BY <1>1, <1>3, <2>1, <2>2, QuickStep
<1>9. CASE Stop(o)
  <2> DEFINE F == Flush(World, o)
  <2>1. Good(F, <<>>, 0)
    BY <1>2, FlushGood
  <2>2. Become(Freed(F))
    BY <1>9 DEF Stop
  <2> HIDE DEF F
  <2>3. Good(Freed(F), <<>>, 0) /\ Freed(F).s.tx = <<>>
    BY <1>2, <2>1, FreedGood
  <2> QED BY <1>1, <2>2, <2>3, QuickStep
<1>10. CASE Abort
  BY <1>1, <1>2, <1>10, FreedGood, QuickStep DEF Abort
<1> QED BY <1>4, <1>5, <1>6, <1>7, <1>8, <1>9, <1>10

\* A round of a read.
LEMMA ReadRoundStep ==
  ASSUME StreamInv, TxSize > 0, NEW o \in Outcomes, NEW sync \in BOOLEAN, ReadRound(sync, o)
  PROVE  StreamInv'
<1> DEFINE V == Available(World, sync, o)
           n == call.size
           l == Len(V.s.rx)
           U == Fill(V, o)
           k == IF n < l THEN n ELSE l
           R == RecvData(V, n, o)
           D == IF Fetches(V, o) THEN [R EXCEPT !.net.got = @ \o Fetch(V, n)] ELSE R
           T == [U EXCEPT !.net.got = @ \o SubSeq(U.s.rx, 1, k), !.s.rx = Rest(@, k)]
           c == IF n <= l THEN Idle ELSE [call EXCEPT !.size = n - l]
<1>1. /\ call.name = "read"
      /\ \/ Become(V) /\ call' = Idle
         \/ l = 0 /\ Become(D) /\ call' = Idle
         \/ Become(T) /\ call' = c
  BY DEF ReadRound, Round
<1>2. /\ call \in [name : {"read"}, size : Nat \ {0}] /\ n \in Nat \ {0}
      /\ Pending = <<>> /\ Taken = 0
  BY <1>1 DEF StreamInv, CallOK, Idle, Pending, Taken
<1>3. Good(World, <<>>, 0) /\ World.s = s /\ <<>> \in Seq(Nat)
  BY <1>2, EmptySequence DEF StreamInv, World
<1>4. Good(V, <<>>, 0) /\ V.s.tx \in {s.tx, <<>>}
  BY <1>3, AvailableGood
<1> HIDE DEF V
<1>5. V.s.rx \in Seq(Nat) /\ l \in Nat
  BY <1>4, WorldFields, LenProperties DEF Good
<1>6. \A q : q \in {s.tx, <<>>} => Room(q)
  BY NoBytes DEF StreamInv
<1>7. ASSUME Become(V), call' = Idle PROVE StreamInv'
  BY <1>4, <1>6, <1>7, Ends
<1>8. ASSUME l = 0, Become(D), call' = Idle PROVE StreamInv'
  <2>1. V.s.rx = <<>>
    BY <1>5, <1>8, EmptySequence DEF Size
  <2>2. Good(D, <<>>, 0) /\ D.s.tx = V.s.tx
    <3> DEFINE z == 0
               e == <<>>
    <3>1. n \in Nat \ {0} /\ e \in Seq(Nat) /\ z \in Nat /\ Good(V, e, z)
      BY <1>2, <1>3, <1>4
    <3> HIDE DEF n, z, e
    <3>2. Good(D, e, z) /\ D.s.tx = V.s.tx
      BY ZenonT(60), <2>1, <3>1, DirectGood
    <3> HIDE DEF D
    <3> QED BY <3>2 DEF e, z
  <2> HIDE DEF D
  <2> QED BY <1>4, <1>6, <1>8, <2>2, Ends
<1>9. ASSUME Become(T), call' = c PROVE StreamInv'
  <2>1. Good(U, <<>>, 0) /\ U.s.tx = V.s.tx /\ (V.s.rx # <<>> => U.s.rx = V.s.rx)
    BY <1>3, <1>4, FillGood
  <2> HIDE DEF U
  <2>2. /\ U \in Worlds /\ U.s.rx \in Seq(Nat) /\ U.s.fw \in Seq(Nat) /\ U.net.got \in Seq(Nat)
        /\ U.net.arrived \in Nat
    BY <2>1, WorldFields DEF Good
  <2>3. k \in Nat /\ k <= Len(U.s.rx) /\ Len(U.s.rx) \in Nat
    <3>1. Len(U.s.rx) \in Nat
      BY <2>2, LenProperties
    <3>2. k \in Nat /\ k <= l
      <4> HIDE DEF n, l
      <4> QED BY <1>2, <1>5
    <3>3. l <= Len(U.s.rx)
      <4>1. CASE V.s.rx # <<>>
        BY <1>5, <2>1, <4>1
      <4>2. CASE V.s.rx = <<>>
        <5>1. l = 0
          BY <4>2, EmptySequence DEF Size
        <5> HIDE DEF l
        <5> QED BY <3>1, <5>1
      <4> QED BY <4>1, <4>2
    <3> HIDE DEF k, l
    <3> QED BY <1>5, <3>1, <3>2, <3>3
  <2> HIDE DEF k
  <2>4. SubSeq(U.s.rx, 1, k) = First(U.s.rx, k)
    BY <2>3 DEF First
  <2> DEFINE f == First(U.s.rx, k)
             e == Rest(U.s.rx, k)
             g == U.net.got \o f
  <2>5. InOrder(U.net.got, U.s.rx, U.s.fw, U.net.arrived)
    BY <2>1 DEF Good, Down
  <2>6. /\ f \in Seq(Nat) /\ e \in Seq(Nat) /\ Len(f) = k
        /\ Len(e) = IF k < Len(U.s.rx) THEN Len(U.s.rx) - k ELSE 0
    BY <2>2, <2>3, FirstRest
  <2>7. InOrder(g, e, U.s.fw, U.net.arrived) /\ g \in Seq(Nat) /\ Size(g) = Size(U.net.got) + Size(f)
    BY <2>2, <2>3, <2>5, TakeOrder
  <2>8. T = [U EXCEPT !.net.got = g, !.s.rx = e]
    BY <2>4
  <2>9. /\ T \in Worlds /\ T.s.fw = U.s.fw /\ T.s.freed = U.s.freed
        /\ T.s.bound = U.s.bound /\ T.s.tx = U.s.tx /\ T.s.rx = e /\ T.s.err = U.s.err
        /\ T.net.offered = U.net.offered /\ T.net.reported = U.net.reported
        /\ T.net.sent = U.net.sent /\ T.net.got = g
        /\ T.net.arrived = U.net.arrived /\ T.net.gap = U.net.gap
    <3> HIDE DEF T, g, e
    <3> QED BY <2>2, <2>6, <2>7, <2>8 DEF Worlds, Stream, Net
  <2> HIDE DEF T, g
  <2>10. Up(T, <<>>, 0)
    BY <2>1, <2>9 DEF Good, Up, Lossless, Handed
  <2>11. /\ Size(e) \in Nat /\ Size(e) <= Size(U.s.rx) /\ Size(f) + Size(e) = Size(U.s.rx)
         /\ Size(U.s.rx) = 0 => Size(e) = 0
    <3> DEFINE x == Len(U.s.rx)
    <3>1. Len(f) = k /\ Len(e) = x - k /\ x \in Nat /\ k \in Nat /\ k <= x
      <4>1. k < x \/ x - k = 0
        BY <2>3
      <4> QED BY <2>3, <2>6, <4>1
    <3>2. Size(f) = k /\ Size(e) = x - k /\ Size(U.s.rx) = x
      BY <3>1 DEF Size
    <3> HIDE DEF f, e, x
    <3> QED BY <3>1, <3>2
  <2> HIDE DEF e, f
  <2>12. Cleared(T)
    <3>1. U.s.rx = <<>> => e = <<>>
      BY <2>2, <2>6, <2>11, EmptySequence
    <3> QED BY <2>1, <2>9, <3>1 DEF Good, Cleared
  <2>13. Down(T)
    <3>1. Size(T.s.rx) <= RxSize
      <4>1. Size(U.s.rx) <= RxSize /\ Size(U.s.rx) \in Nat
        BY <2>1, <2>2, SizeNat DEF Good, Down
      <4> QED BY <2>9, <2>11, <4>1, Sizes
    <3>2. Size(g) + Size(e) + Size(U.s.fw) = Size(U.net.got) + Size(U.s.rx) + Size(U.s.fw)
      <4> DEFINE x == Size(U.net.got)
                 y == Size(f)
                 z == Size(e)
      <4>1. x \in Nat /\ y \in Nat /\ z \in Nat /\ Size(U.s.fw) \in Nat
        BY <2>2, <2>6, SizeNat
      <4>2. Size(g) = x + y /\ Size(U.s.rx) = y + z
        BY <2>7, <2>11
      <4> HIDE DEF x, y
      <4> QED BY <4>1, <4>2 DEF x
    <3>3. InOrder(T.net.got, T.s.rx, T.s.fw, T.net.arrived)
      BY <2>7, <2>9
    <3> QED BY <2>1, <2>9, <3>1, <3>2, <3>3 DEF Good, Down
  <2>14. Good(T, <<>>, 0) /\ Room(T.s.tx)
    <3>1. Room(T.s.tx)
      BY <1>4, <1>6, <2>1, <2>9
    <3> QED BY <2>9, <2>10, <2>12, <2>13, <3>1 DEF Good
  <2>15. c = Idle \/ c \in [name : {"read"}, size : Nat \ {0}]
    <3>1. n > l => n - l \in Nat \ {0}
      <4> HIDE DEF n, l
      <4> QED BY <1>2, <1>5
    <3>2. ~ (n <= l) => n > l
      <4> HIDE DEF n, l
      <4> QED BY <1>2, <1>5
    <3> QED BY <1>2, <3>1, <3>2
  <2> HIDE DEF c
  <2> QED BY <1>9, <2>14, <2>15, GoesOn
<1> QED BY <1>1, <1>7, <1>8, <1>9

\* The stream is handed out for the next connection: it was cleared when it was freed.
LEMMA NextConnectionStep ==
  ASSUME StreamInv, TxSize > 0, NextConnection
  PROVE  StreamInv'
<1> DEFINE W == [s |-> [s EXCEPT !.freed = FALSE, !.bound = TRUE, !.active = TRUE, !.fw = <<>>, !.avail = 0],
                 net |-> NewNet]
<1>1. call = Idle /\ call' = Idle /\ s.freed /\ Become(W)
  BY DEF NextConnection, Become
<1>2. Good(World, <<>>, 0) /\ World.s = s /\ World.net = net /\ World \in Worlds
  BY <1>1, Between
<1>3. s \in Stream /\ s.tx = <<>> /\ s.rx = <<>>
  BY <1>1, <1>2, WorldFields DEF Good, Cleared
<1>4. <<>> \in Seq(Nat) /\ Size(<<>>) = 0 /\ InOrder(<<>>, <<>>, <<>>, 0)
  BY EmptySequence DEF InOrder, Below
<1>5. /\ W \in Worlds /\ W.s.freed = FALSE /\ W.s.tx = <<>> /\ W.s.rx = <<>> /\ W.s.fw = <<>>
      /\ W.net.offered = 0 /\ W.net.reported = 0 /\ W.net.sent = <<>> /\ W.net.got = <<>>
      /\ W.net.arrived = 0
  BY <1>3, <1>4 DEF Worlds, Stream, Net, NewNet
<1> HIDE DEF W
<1>6. Up(W, <<>>, 0)
  BY <1>4, <1>5 DEF Up, Handed
<1>7. Down(W) /\ Cleared(W)
  <2>1. Size(W.s.rx) <= RxSize
    BY <1>4, <1>5, Sizes
  <2> QED BY <1>4, <1>5, <2>1 DEF Down, Cleared
<1> QED BY <1>1, <1>5, <1>6, <1>7, QuickStep DEF Good

\* The steps of the peer leave the call alone.
LEMMA PeerStep ==
  ASSUME StreamInv, NEW W, Become(W), call' = call, W \in Worlds, Cleared(W), Down(W),
         W.s.tx = s.tx, Up(W, Pending, Taken)
  PROVE  StreamInv'
<1>1. World' = W
  <2>1. W = [s |-> W.s, net |-> W.net]
    BY WorldFields
  <2> QED BY <2>1 DEF World, Become
<1>2. Pending' = Pending /\ Taken' = Taken
  BY DEF Pending, Taken
<1>3. CallOK'
  BY DEF StreamInv, CallOK
<1>4. Good(World, Pending, Taken)'
  BY <1>1, <1>2 DEF Good, Worlds, Cleared, Up, Down, Lossless, Handed
<1>5. s'.tx = s.tx
  BY DEF Become
<1>6. Room(s.tx)' /\ (call.name = "send" => s.tx = <<>>)'
  BY <1>5 DEF StreamInv
<1> QED BY <1>3, <1>4, <1>6 DEF StreamInv

LEMMA PeerClosesStep ==
  ASSUME StreamInv, PeerCloses
  PROVE  StreamInv'
<1> DEFINE W == [World EXCEPT !.s.active = FALSE]
<1>1. World \in Worlds /\ World.s = s /\ World.net = net /\ Good(World, Pending, Taken)
  BY DEF StreamInv, Good, World
<1>2. /\ W \in Worlds /\ W.net = World.net /\ W.s.fw = World.s.fw /\ W.s.freed = World.s.freed
      /\ W.s.bound = World.s.bound /\ W.s.tx = World.s.tx /\ W.s.rx = World.s.rx
      /\ W.s.err = World.s.err
  BY <1>1 DEF Worlds, Stream
<1>3. Become(W) /\ call' = call
  BY <1>1, <1>2 DEF PeerCloses, Become
<1> HIDE DEF W
<1>4. Cleared(W) /\ Down(W) /\ Up(W, Pending, Taken)
  BY <1>1, <1>2 DEF Good, Cleared, Up, Down, Lossless, Handed
<1> QED BY <1>1, <1>2, <1>3, <1>4, PeerStep

LEMMA PeerSendsStep ==
  ASSUME StreamInv, PeerSends
  PROVE  StreamInv'
<1>1. /\ World \in Worlds /\ World.s = s /\ World.net = net /\ Good(World, Pending, Taken)
      /\ s \in Stream /\ net \in Net
  BY WorldFields DEF StreamInv, Good, World
<1>2. /\ s.fw \in Seq(Nat) /\ s.avail \in Nat /\ net.arrived \in Nat /\ net.got \in Seq(Nat)
      /\ s.rx \in Seq(Nat) /\ Len(s.fw) + 1 \in Nat
  <2>1. s.fw \in Seq(Nat) /\ s.avail \in Nat /\ net.arrived \in Nat /\ net.got \in Seq(Nat) /\ s.rx \in Seq(Nat)
    BY <1>1, WorldFields
  <2> QED BY <2>1, LenProperties
<1> DEFINE a == net.arrived + 1
           q == Append(s.fw, a)
<1>3. PICK n \in {s.avail, Len(s.fw) + 1} : s' = [s EXCEPT !.fw = q, !.avail = n]
  BY DEF PeerSends
<1> DEFINE W == [s |-> [s EXCEPT !.fw = q, !.avail = n], net |-> [net EXCEPT !.arrived = a]]
<1>4. Become(W) /\ call' = call
  BY <1>3 DEF PeerSends, Become
<1>5. /\ InOrder(net.got, s.rx, q, a)
      /\ q \in Seq(Nat) /\ Size(q) = Size(s.fw) + 1 /\ a \in Nat
  <2>1. InOrder(net.got, s.rx, s.fw, net.arrived)
    BY <1>1 DEF Good, Down
  <2> QED BY <1>2, <2>1, AppendOrder
<1> HIDE DEF q
<1>6. /\ W \in Worlds /\ W.s.fw = q /\ W.s.freed = s.freed
      /\ W.s.bound = s.bound /\ W.s.tx = s.tx /\ W.s.rx = s.rx /\ W.s.err = s.err
      /\ W.net.arrived = a /\ W.net.offered = net.offered /\ W.net.reported = net.reported
      /\ W.net.sent = net.sent /\ W.net.got = net.got /\ W.net.gap = net.gap
  BY <1>1, <1>2, <1>5 DEF Worlds, Stream, Net
<1> HIDE DEF W, a
<1>7. Cleared(W) /\ Up(W, Pending, Taken)
  BY <1>1, <1>6 DEF Good, Cleared, Up, Lossless, Handed
<1>8. Down(W)
  <2> DEFINE x == Size(net.got)
             y == Size(s.rx)
             z == Size(s.fw)
  <2>1. x \in Nat /\ y \in Nat /\ z \in Nat
    BY <1>2, SizeNat
  <2>2. /\ Size(W.net.got) = x /\ Size(W.s.rx) = y /\ Size(W.s.fw) = z + 1
    BY <1>5, <1>6
  <2>3. ~ s.freed /\ ~ net.gap => x + y + z = net.arrived
    BY <1>1 DEF Good, Down
  <2>4. y <= RxSize
    BY <1>1 DEF Good, Down
  <2> HIDE DEF x, y, z
  <2>5. x + y + z = net.arrived => x + y + (z + 1) = a
    BY <1>2, <2>1 DEF a
  <2> QED BY <1>5, <1>6, <2>2, <2>3, <2>4, <2>5 DEF Down
<1> QED BY <1>1, <1>4, <1>6, <1>7, <1>8, PeerStep

LEMMA StreamStarts ==
  ASSUME TxSize > 0, Init
  PROVE  StreamInv
<1>1. <<>> \in Seq(Nat) /\ Size(<<>>) = 0 /\ InOrder(<<>>, <<>>, <<>>, 0)
  BY EmptySequence DEF InOrder, Below
<1> DEFINE W == World
<1>2. /\ W \in Worlds /\ W.s.freed = FALSE /\ W.s.tx = <<>> /\ W.s.rx = <<>> /\ W.s.fw = <<>>
      /\ W.net.offered = 0 /\ W.net.reported = 0 /\ W.net.sent = <<>> /\ W.net.got = <<>>
      /\ W.net.arrived = 0
  BY <1>1 DEF Init, NewNet, Worlds, Stream, Net, World
<1>3. call = Idle /\ Pending = <<>> /\ Taken = 0 /\ s.tx = <<>>
  BY DEF Init, Idle, Pending, Taken
<1> HIDE DEF W
<1>4. Up(W, <<>>, 0)
  BY <1>1, <1>2 DEF Up, Handed
<1>5. Down(W) /\ Cleared(W)
  <2>1. Size(W.s.rx) <= RxSize
    BY <1>1, <1>2, Sizes
  <2> QED BY <1>1, <1>2, <2>1 DEF Down, Cleared
<1>6. Good(World, Pending, Taken)
  BY <1>2, <1>3, <1>4, <1>5 DEF Good, W
<1> QED BY <1>3, <1>6, NoBytes DEF StreamInv, CallOK

LEMMA StreamKept ==
  ASSUME TxSize > 0, StreamInv, [Next]_vars
  PROVE  StreamInv'
<1>1. CASE UNCHANGED vars
  <2>1. Become(World) /\ call' = call
    BY <1>1 DEF vars, Become, World
  <2>2. Good(World, Pending, Taken) /\ World.s = s
    BY DEF StreamInv, World
  <2> QED BY <2>1, <2>2, PeerStep DEF Good
<1>2. CASE Rounds
  BY <1>2, WriteRefusedStep, SendDirectlyStep, WriteBufferedStep, SendPartStep, ReadRoundStep
     DEF Rounds
<1>3. CASE Asks
  BY <1>3, QuickSteps DEF Asks
<1>4. CASE Reads
  BY <1>4, ReadStep DEF Reads
<1>5. CASE ConnectedCall \/ AvailableForWrite \/ Abort
  <2>1. "done" \in Outcomes /\ TRUE \in BOOLEAN
    BY DEF Outcomes
  <2> QED BY <1>5, <2>1, QuickSteps
<1>6. CASE NextConnection \/ PeerSends \/ PeerCloses
  BY <1>6, NextConnectionStep, PeerSendsStep, PeerClosesStep
<1>7. CASE \E n \in 1 .. MaxBytes : Write(n) \/ \E o \in Outcomes : SendFile(n, o)
  BY <1>7, WriteStep, SendFileStep
<1>8. CASE \E o \in Outcomes : \/ WriteByte(o) \/ FlushCall(o) \/ Stop(o)
                              \/ \E sync \in BOOLEAN : Peek(sync, o)
  <2>1. TRUE \in BOOLEAN
    OBVIOUS
  <2> QED BY <1>8, <2>1, WriteByteStep, QuickSteps
<1> QED BY <1>1, <1>2, <1>3, <1>4, <1>5, <1>6, <1>7, <1>8 DEF Next

LEMMA StreamInvariant ==
  ASSUME TxSize > 0
  PROVE  Spec => []StreamInv
<1>1. Init => StreamInv
  BY StreamStarts
<1>2. StreamInv /\ [Next]_vars => StreamInv'
  BY StreamKept
<1> QED BY <1>1, <1>2, PTL DEF Spec

-----------------------------------------------------------------------------
(* The theorems.                                                           *)

\* The fields keep their types, and whatever part of it was sent, read or fetched, the
\* transmit buffer is sent before it overflows and the receive buffer is filled only
\* when it is empty (WiFiEspAtBuffStream::write, fillRXbuffer). A stream without a
\* transmit buffer is excluded: its write(b) has no place for the byte.
THEOREM TypesCorrect ==
  ASSUME TxSize > 0
  PROVE  Spec => []TypeOK
<1>1. StreamInv => TypeOK
  <2> SUFFICES ASSUME StreamInv PROVE TypeOK
    OBVIOUS
  <2>1. /\ World \in Worlds /\ World.s = s /\ World.net = net /\ Size(World.s.rx) <= RxSize
        /\ CallOK /\ Room(s.tx)
    BY DEF StreamInv, Good, Down, World
  <2>2. s \in Stream /\ net \in Net /\ s.tx \in Seq(Nat)
    BY <2>1, WorldFields
  <2>3. call.name \in {"none", "write", "send", "read"}
    BY <2>1 DEF CallOK, Idle
  <2>4. Len(s.tx) <= TxSize
    <3>1. Len(s.tx) \in Nat /\ Len(s.tx) < TxSize
      BY <2>1, <2>2, LenProperties DEF Room
    <3> QED BY <3>1, Sizes
  <2>5. Len(s.rx) <= RxSize
    BY <2>1 DEF Size
  <2> QED BY <2>2, <2>3, <2>4, <2>5 DEF TypeOK, BuffersFit
<1> QED BY <1>1, StreamInvariant, PTL

\* No byte is sent twice or before an earlier one, whatever failed in between: an
\* unsuccessful flush drops the bytes and never leaves them to be sent again.
THEOREM BytesSentInOrder ==
  ASSUME TxSize > 0
  PROVE  Spec => []SentInOrder
<1>1. StreamInv => SentInOrder
  <2> SUFFICES ASSUME StreamInv PROVE SentInOrder
    OBVIOUS
  <2>1. /\ World \in Worlds /\ World.s = s /\ World.net = net
        /\ InOrder(World.net.sent, World.s.tx, Pending, World.net.offered)
    BY DEF StreamInv, Good, Up, World
  <2>2. net.sent \in Seq(Nat) /\ s.tx \in Seq(Nat) /\ InOrder(net.sent, s.tx, Pending, net.offered)
    BY <2>1, WorldFields
  <2> QED BY <2>2, IncreasingConcat DEF InOrder, SentInOrder
<1> QED BY <1>1, StreamInvariant, PTL

\* What write reported as written was taken by the firmware or is still in the buffer,
\* or the loss has left a write error.
THEOREM LossLeavesAnError ==
  ASSUME TxSize > 0
  PROVE  Spec => []NoSilentLoss
<1>1. StreamInv => NoSilentLoss
  <2> SUFFICES ASSUME StreamInv, call = Idle, ~ s.freed, ~ s.err
               PROVE  net.reported <= Len(net.sent) + Len(s.tx)
    BY DEF NoSilentLoss
  <2>1. Good(World, <<>>, 0) /\ World.s = s /\ World.net = net /\ World \in Worlds
    BY Between
  <2>2. net.reported + 0 <= Size(net.sent) + Size(s.tx)
    BY <2>1 DEF Good, Up, Lossless, Handed
  <2>3. net.reported \in Nat
    BY <2>1, WorldFields
  <2>4. net.reported <= Size(net.sent) + Size(s.tx)
    <3> DEFINE x == Size(net.sent) + Size(s.tx)
    <3>1. net.reported + 0 <= x
      BY <2>2
    <3> HIDE DEF x
    <3>2. net.reported <= x
      BY <2>3, <3>1
    <3> QED BY <3>2 DEF x
  <2> QED BY <2>4 DEF Size
<1> QED BY <1>1, StreamInvariant, PTL

\* The sketch reads what the peer sent in order and without a gap, but for a fetch
\* whose bytes did not arrive.
THEOREM BytesReadInOrder ==
  ASSUME TxSize > 0
  PROVE  Spec => []ReadInOrder
<1>1. StreamInv => ReadInOrder
  <2> SUFFICES ASSUME StreamInv PROVE ReadInOrder
    OBVIOUS
  <2>1. World \in Worlds /\ World.s = s /\ World.net = net /\ Down(World)
    BY DEF StreamInv, Good, World
  <2>2. /\ net.got \in Seq(Nat) /\ s.rx \in Seq(Nat) /\ s.fw \in Seq(Nat)
    BY <2>1, WorldFields
  <2>3. InOrder(net.got, s.rx, s.fw, net.arrived)
    BY <2>1 DEF Down
  <2> DEFINE p == net.got \o s.rx
             q == p \o s.fw
  <2>4. /\ p \in Seq(Nat) /\ Increasing(p) /\ ToSet(p) = ToSet(net.got) \cup ToSet(s.rx)
        /\ Size(p) = Size(net.got) + Size(s.rx)
    BY <2>2, <2>3, IncreasingConcat DEF InOrder, Size
  <2>5. Increasing(s.fw) /\ Below(ToSet(p), ToSet(s.fw))
    BY <2>3, <2>4 DEF InOrder, Below
  <2> HIDE DEF p
  <2>6. Increasing(q) /\ Size(q) = Size(p) + Size(s.fw)
    BY <2>2, <2>4, <2>5, IncreasingConcat DEF Size
  <2>7. ~ s.freed /\ ~ net.gap => Size(net.got) + Size(s.rx) + Size(s.fw) = net.arrived
    BY <2>1 DEF Down
  <2>8. ~ s.freed /\ ~ net.gap => Size(q) = net.arrived
    BY <2>4, <2>6, <2>7
  <2> HIDE DEF q
  <2>9. q = net.got \o s.rx \o s.fw
    BY DEF q, p
  <2> QED BY <2>6, <2>8, <2>9 DEF ReadInOrder, Size
<1> QED BY <1>1, StreamInvariant, PTL
=============================================================================
