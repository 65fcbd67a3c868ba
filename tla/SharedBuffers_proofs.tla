------------------------ MODULE SharedBuffers_proofs ------------------------
(***************************************************************************)
(* Proofs about the buffer pool.  An operation is a composition of         *)
(* operators from worlds to worlds, so the inductive invariant is a        *)
(* predicate of a world, WF, and every operator has a lemma that says it   *)
(* keeps WF.  The theorems at the end only compose these lemmas.           *)
(***************************************************************************)
EXTENDS SharedBuffers, FiniteSetTheorems, TLAPS

-----------------------------------------------------------------------------
(* The inductive invariant.  P is the set of connections that are opened   *)
(* and wait for a stream in the middle of an operation.                    *)

\* No serial id was given twice: all are at most the counter, and the streams
\* in use have different ones.
SerialsOK(W) ==
  /\ W.serialId <= W.requests
  /\ \A h \in AllHandles : W.sid[h] <= W.serialId
  /\ \A p \in Slots : W.pool[p].serialId <= W.serialId
  /\ \A p, q \in Slots :
       W.pool[p].serialId = W.pool[q].serialId => p = q \/ W.pool[p].serialId = 0

SlotsOK(W) == \A p \in Slots :
  IF W.pool[p].serialId = 0 THEN W.pool[p] = Blank(W.pool[p].kind) ELSE W.pool[p].kind # NoKind

\* With it a handle on a freed stream, whose serial id is 0, is not valid.
PointersOK(W) == \A h \in AllHandles : W.ptr[h] # Null => W.sid[h] # 0

CountsOK(W) == \A p \in Slots :
  /\ W.pool[p].refCount = Cardinality(Owners(W, p))
  /\ W.pool[p].serialId # 0 => W.pool[p].refCount > 0

LinksOK(W, P) ==
  /\ NoLink \notin W.open \cup P
  /\ \A p \in Slots : W.pool[p].linkId <= W.requests /\ W.pool[p].linkId \notin P
  /\ \A p, q \in Slots :
       W.pool[p].linkId = W.pool[q].linkId => p = q \/ W.pool[p].linkId = NoLink
  /\ \A c \in W.open : c \in P \/ \E p \in Slots : W.pool[p].linkId = c

WF(W, P) ==
  /\ W \in Worlds
  /\ SerialsOK(W) /\ SlotsOK(W) /\ PointersOK(W) /\ CountsOK(W) /\ LinksOK(W, P)

-----------------------------------------------------------------------------
(* A world with one field of a stream, or one handle, replaced.            *)

\* Replacing a stream changes that place of the pool alone.
LEMMA SetStreamFields ==
  ASSUME NEW W \in Worlds, NEW p \in Slots, NEW s \in Stream
  PROVE  LET V == SetStream(W, p, s) IN
         /\ V \in Worlds /\ V.ptr = W.ptr /\ V.sid = W.sid /\ V.serialId = W.serialId
         /\ V.open = W.open /\ V.requests = W.requests
         /\ V.pool[p] = s /\ \A q \in Slots : q # p => V.pool[q] = W.pool[q]
<1> DEFINE f == [W.pool EXCEPT ![p] = s]
<1>1. W.pool \in [Slots -> Stream]
  BY DEF Worlds
<1>2. f \in [Slots -> Stream] /\ f[p] = s /\ \A q \in Slots : q # p => f[q] = W.pool[q]
  BY <1>1
<1>3. SetStream(W, p, s) = [W EXCEPT !.pool = f]
  BY DEF Worlds, SetStream
<1> HIDE DEF f
<1> QED
  BY <1>2, <1>3 DEF Worlds

\* Replacing a reference count changes that field of that stream alone.
LEMMA SetRefCountFields ==
  ASSUME NEW W \in Worlds, NEW p \in Slots, NEW x \in Counts
  PROVE  LET V == SetRefCount(W, p, x) IN
         /\ V \in Worlds /\ V.ptr = W.ptr /\ V.sid = W.sid /\ V.serialId = W.serialId
         /\ V.open = W.open /\ V.requests = W.requests
         /\ \A q \in Slots : q # p => V.pool[q] = W.pool[q]
         /\ V.pool[p].refCount = x
         /\ V.pool[p].serialId = W.pool[p].serialId
         /\ V.pool[p].kind = W.pool[p].kind
         /\ V.pool[p].linkId = W.pool[p].linkId
         /\ V.pool[p].unread = W.pool[p].unread
<1> DEFINE s == [W.pool[p] EXCEPT !.refCount = x]
           V == SetRefCount(W, p, x)
<1>1. W.pool[p] \in Stream
  BY DEF Worlds
<1>2. /\ s \in Stream /\ s.refCount = x
      /\ s.serialId = W.pool[p].serialId
      /\ s.kind = W.pool[p].kind
      /\ s.linkId = W.pool[p].linkId
      /\ s.unread = W.pool[p].unread
  BY <1>1 DEF Stream
<1>3. V = SetStream(W, p, s)
  BY DEF Worlds, SetRefCount, SetStream
<1> HIDE DEF s, V
<1> QED
  BY <1>2, <1>3, SetStreamFields DEF V

\* Replacing a link number changes that field of that stream alone.
LEMMA SetLinkFields ==
  ASSUME NEW W \in Worlds, NEW p \in Slots, NEW x \in Nat
  PROVE  LET V == SetLink(W, p, x) IN
         /\ V \in Worlds /\ V.ptr = W.ptr /\ V.sid = W.sid /\ V.serialId = W.serialId
         /\ V.open = W.open /\ V.requests = W.requests
         /\ \A q \in Slots : q # p => V.pool[q] = W.pool[q]
         /\ V.pool[p].linkId = x
         /\ V.pool[p].serialId = W.pool[p].serialId
         /\ V.pool[p].kind = W.pool[p].kind
         /\ V.pool[p].refCount = W.pool[p].refCount
         /\ V.pool[p].unread = W.pool[p].unread
<1> DEFINE s == [W.pool[p] EXCEPT !.linkId = x]
           V == SetLink(W, p, x)
<1>1. W.pool[p] \in Stream
  BY DEF Worlds
<1>2. /\ s \in Stream /\ s.linkId = x
      /\ s.serialId = W.pool[p].serialId
      /\ s.kind = W.pool[p].kind
      /\ s.refCount = W.pool[p].refCount
      /\ s.unread = W.pool[p].unread
  BY <1>1 DEF Stream
<1>3. V = SetStream(W, p, s)
  BY DEF Worlds, SetLink, SetStream
<1> HIDE DEF s, V
<1> QED
  BY <1>2, <1>3, SetStreamFields DEF V

\* Replacing the unread mark changes that field of that stream alone.
LEMMA SetUnreadFields ==
  ASSUME NEW W \in Worlds, NEW p \in Slots, NEW x \in BOOLEAN
  PROVE  LET V == SetUnread(W, p, x) IN
         /\ V \in Worlds /\ V.ptr = W.ptr /\ V.sid = W.sid /\ V.serialId = W.serialId
         /\ V.open = W.open /\ V.requests = W.requests
         /\ \A q \in Slots : q # p => V.pool[q] = W.pool[q]
         /\ V.pool[p].unread = x
         /\ V.pool[p].serialId = W.pool[p].serialId
         /\ V.pool[p].kind = W.pool[p].kind
         /\ V.pool[p].refCount = W.pool[p].refCount
         /\ V.pool[p].linkId = W.pool[p].linkId
<1> DEFINE s == [W.pool[p] EXCEPT !.unread = x]
           V == SetUnread(W, p, x)
<1>1. W.pool[p] \in Stream
  BY DEF Worlds
<1>2. /\ s \in Stream /\ s.unread = x
      /\ s.serialId = W.pool[p].serialId
      /\ s.kind = W.pool[p].kind
      /\ s.refCount = W.pool[p].refCount
      /\ s.linkId = W.pool[p].linkId
  BY <1>1 DEF Stream
<1>3. V = SetStream(W, p, s)
  BY DEF Worlds, SetUnread, SetStream
<1> HIDE DEF s, V
<1> QED
  BY <1>2, <1>3, SetStreamFields DEF V

\* Replacing a pointer changes that handle alone.
LEMMA SetPtrFields ==
  ASSUME NEW W \in Worlds, NEW h \in AllHandles, NEW x \in 0 .. PoolSize
  PROVE  LET V == SetPtr(W, h, x) IN
         /\ V \in Worlds /\ V.ptr[h] = x
         /\ \A g \in AllHandles : g # h => V.ptr[g] = W.ptr[g]
         /\ V.pool = W.pool /\ V.sid = W.sid /\ V.serialId = W.serialId
         /\ V.open = W.open /\ V.requests = W.requests
<1> DEFINE f == [W.ptr EXCEPT ![h] = x]
<1>1. f \in [AllHandles -> 0 .. PoolSize] /\ f[h] = x
      /\ \A g \in AllHandles : g # h => f[g] = W.ptr[g]
  BY DEF Worlds
<1>2. SetPtr(W, h, x) = [W EXCEPT !.ptr = f]
  BY DEF SetPtr, Worlds
<1> HIDE DEF f
<1> QED
  BY <1>1, <1>2 DEF Worlds

\* Replacing the serial id of a handle changes that handle alone.
LEMMA SetSidFields ==
  ASSUME NEW W \in Worlds, NEW h \in AllHandles, NEW x \in Serials
  PROVE  LET V == SetSid(W, h, x) IN
         /\ V \in Worlds /\ V.sid[h] = x
         /\ \A g \in AllHandles : g # h => V.sid[g] = W.sid[g]
         /\ V.pool = W.pool /\ V.ptr = W.ptr /\ V.serialId = W.serialId
         /\ V.open = W.open /\ V.requests = W.requests
<1> DEFINE f == [W.sid EXCEPT ![h] = x]
<1>1. f \in [AllHandles -> Serials] /\ f[h] = x
      /\ \A g \in AllHandles : g # h => f[g] = W.sid[g]
  BY DEF Worlds
<1>2. SetSid(W, h, x) = [W EXCEPT !.sid = f]
  BY DEF SetSid, Worlds
<1> HIDE DEF f
<1> QED
  BY <1>1, <1>2 DEF Worlds

\* EspAtDrv.close takes one connection from the open ones and touches no stream.
LEMMA CloseLinkFields ==
  ASSUME NEW W \in Worlds, NEW l
  PROVE  LET V == CloseLink(W, l) IN
         /\ V.ptr = W.ptr /\ V.sid = W.sid /\ V.serialId = W.serialId /\ V.pool = W.pool
         /\ V.open = W.open \ {l} /\ V.requests = W.requests /\ V \in Worlds
BY DEF CloseLink, Worlds

-----------------------------------------------------------------------------
(* Facts about the valid handles on a stream.                              *)

\* The valid handles on a stream are fewer than a uint8_t can count.
LEMMA OwnersFinite ==
  ASSUME NEW W, NEW p
  PROVE  /\ IsFiniteSet(Owners(W, p))
         /\ Cardinality(Owners(W, p)) \in Nat
         /\ Cardinality(Owners(W, p)) < 256
<1>1. Owners(W, p) \in SUBSET AllHandles
  BY DEF Owners
<1>2. IsFiniteSet(AllHandles) /\ Cardinality(AllHandles) < 256
  BY HandlesAssumption
<1>3. IsFiniteSet(Owners(W, p)) /\ Cardinality(Owners(W, p)) <= Cardinality(AllHandles)
  BY <1>1, <1>2, FS_Subset
<1>4. Cardinality(Owners(W, p)) \in Nat /\ Cardinality(AllHandles) \in Nat
  BY <1>2, <1>3, FS_CardinalityType
<1>5. QED
  BY <1>2, <1>3, <1>4

\* A freed stream has no valid handle.
LEMMA NoOwners ==
  ASSUME NEW W, NEW p \in Slots, PointersOK(W), W.pool[p].serialId = 0
  PROVE  Owners(W, p) = {} /\ Cardinality(Owners(W, p)) = 0
<1>1. Owners(W, p) = {}
  BY DEF Owners, PointersOK, Null, Slots
<1>2. QED
  BY <1>1, FS_EmptySet

\* A handle is valid exactly when it is an owner of the stream it points to.
LEMMA ValidOwner ==
  ASSUME NEW W \in Worlds, NEW h \in AllHandles
  PROVE  /\ Valid(W, h) => W.ptr[h] \in Slots /\ h \in Owners(W, W.ptr[h])
         /\ \A p \in Slots : h \in Owners(W, p) => Valid(W, h) /\ p = W.ptr[h]
BY DEF Valid, Owners, Worlds, Slots, Null

-----------------------------------------------------------------------------
(* The stream.                                                             *)

\* What free() leaves of a stream in use, field by field.
LEMMA FreeFields ==
  ASSUME NEW W \in Worlds, NEW p \in Slots, W.pool[p].serialId # 0
  PROVE  LET V == Free(W, p) IN
         /\ V \in Worlds /\ V.ptr = W.ptr /\ V.sid = W.sid /\ V.serialId = W.serialId
         /\ V.open = W.open /\ V.requests = W.requests
         /\ V.pool[p] = Blank(W.pool[p].kind)
         /\ \A q \in Slots : q # p => V.pool[q] = W.pool[q]
<1>1. W.pool[p].kind \in Kinds \cup {NoKind}
  BY DEF Worlds, Stream
<1>2. Blank(W.pool[p].kind) \in Stream
  BY <1>1, PoolAssumption DEF Blank, Stream, Serials, NoLink, Counts
<1>3. Free(W, p) = SetStream(W, p, Blank(W.pool[p].kind))
  BY DEF Free
<1> QED
  BY <1>2, <1>3, SetStreamFields

\* Any world in which the stream at p of W is freed, its handles are left as
\* they are but for h, which has let go, and its connection is closed.
LEMMA FreedWF ==
  ASSUME NEW P, NEW W, WF(W, P), NEW p \in Slots, NEW V \in Worlds,
         V.sid = W.sid, V.serialId = W.serialId, V.requests = W.requests,
         \A h \in AllHandles : V.ptr[h] = W.ptr[h] \/ (V.ptr[h] = Null /\ W.ptr[h] = p),
         V.open = W.open \ {W.pool[p].linkId},
         V.pool[p] = Blank(W.pool[p].kind),
         \A q \in Slots : q # p => V.pool[q] = W.pool[q]
  PROVE  WF(V, P)
<1>1. /\ V.pool[p].serialId = 0 /\ V.pool[p].kind = W.pool[p].kind
      /\ V.pool[p].refCount = 0 /\ V.pool[p].linkId = NoLink
  BY DEF Blank
<1>2. SerialsOK(V)
  BY <1>1 DEF WF, SerialsOK, Worlds, Serials
<1>3. SlotsOK(V)
  <2>1. V.pool[p] = Blank(V.pool[p].kind)
    BY <1>1
  <2> QED
    BY <1>1, <2>1 DEF WF, SlotsOK
<1>4. PointersOK(V)
  BY DEF WF, PointersOK
<1>5. CountsOK(V)
  <2>1. Cardinality(Owners(V, p)) = 0
    BY <1>1, <1>4, NoOwners
  <2>2. ASSUME NEW q \in Slots, q # p
        PROVE  Owners(V, q) = Owners(W, q)
    BY <2>2 DEF Owners, Slots, Null
  <2> QED
    BY <1>1, <2>1, <2>2 DEF WF, CountsOK
<1>6. LinksOK(V, P)
  BY <1>1 DEF WF, LinksOK, NoLink, Worlds
<1> QED
  BY <1>2, <1>3, <1>4, <1>5, <1>6 DEF WF

\* free() is safe on a stream whose connection is no longer open.
LEMMA FreeWF ==
  ASSUME NEW P, NEW W, WF(W, P), NEW p \in Slots, W.pool[p].linkId \notin W.open
  PROVE  WF(Free(W, p), P)
<1> DEFINE V == Free(W, p)
<1>1. CASE W.pool[p].serialId = 0
  BY <1>1 DEF Free
<1>2. CASE W.pool[p].serialId # 0
  <2>1. /\ V \in Worlds /\ V.ptr = W.ptr /\ V.sid = W.sid /\ V.serialId = W.serialId
        /\ V.open = W.open /\ V.requests = W.requests
        /\ V.pool[p] = Blank(W.pool[p].kind)
        /\ \A q \in Slots : q # p => V.pool[q] = W.pool[q]
    BY <1>2, FreeFields DEF WF
  <2>2. V.open = W.open \ {W.pool[p].linkId}
    BY <2>1
  <2> HIDE DEF V
  <2>3. WF(V, P)
    BY <2>1, <2>2, FreedWF
  <2> QED
    BY <2>3 DEF V
<1> QED
  BY <1>1, <1>2

\* A connection that is closed need not wait for a stream any more.
LEMMA CloseLinkWF ==
  ASSUME NEW P, NEW W, WF(W, P), NEW l
  PROVE  WF(CloseLink(W, l), P \ {l})
<1> DEFINE V == CloseLink(W, l)
<1>1. /\ V.ptr = W.ptr /\ V.sid = W.sid /\ V.serialId = W.serialId /\ V.pool = W.pool
      /\ V.open = W.open \ {l} /\ V.requests = W.requests /\ V \in Worlds
  BY CloseLinkFields DEF WF
<1> HIDE DEF V
<1>2. SerialsOK(V) /\ SlotsOK(V) /\ PointersOK(V)
  BY <1>1 DEF WF, SerialsOK, SlotsOK, PointersOK
<1>3. CountsOK(V)
  BY <1>1 DEF WF, CountsOK, Owners
<1>4. LinksOK(V, P \ {l})
  BY <1>1 DEF WF, LinksOK
<1> QED
  BY <1>1, <1>2, <1>3, <1>4 DEF WF, V

\* What close() leaves of a stream in use.
LEMMA CloseFields ==
  ASSUME NEW W \in Worlds, NEW p \in Slots, W.pool[p].serialId # 0
  PROVE  LET V == Close(W, p) IN
         /\ V \in Worlds /\ V.ptr = W.ptr /\ V.sid = W.sid /\ V.serialId = W.serialId
         /\ V.open = W.open \ {W.pool[p].linkId} /\ V.requests = W.requests
         /\ V.pool[p] = Blank(W.pool[p].kind)
         /\ \A q \in Slots : q # p => V.pool[q] = W.pool[q]
<1> DEFINE U == CloseLink(W, W.pool[p].linkId)
<1>1. /\ U \in Worlds /\ U.ptr = W.ptr /\ U.sid = W.sid /\ U.serialId = W.serialId
      /\ U.pool = W.pool /\ U.open = W.open \ {W.pool[p].linkId} /\ U.requests = W.requests
  BY CloseLinkFields
<1>2. Close(W, p) = Free(U, p)
  BY DEF Close
<1> HIDE DEF U
<1> QED
  BY <1>1, <1>2, FreeFields

\* close() is safe on any stream in use.
LEMMA CloseWF ==
  ASSUME NEW P, NEW W, WF(W, P), NEW p \in Slots, W.pool[p].serialId # 0
  PROVE  WF(Close(W, p), P)
<1> DEFINE V == Close(W, p)
<1>1. /\ V \in Worlds /\ V.ptr = W.ptr /\ V.sid = W.sid /\ V.serialId = W.serialId
      /\ V.open = W.open \ {W.pool[p].linkId} /\ V.requests = W.requests
      /\ V.pool[p] = Blank(W.pool[p].kind)
      /\ \A q \in Slots : q # p => V.pool[q] = W.pool[q]
  BY CloseFields DEF WF
<1> HIDE DEF V
<1>2. WF(V, P)
  BY <1>1, FreedWF
<1> QED
  BY <1>2 DEF V

\* A stream that has lost its connection.
LEMMA LoseLinkWF ==
  ASSUME NEW P, NEW W, WF(W, P), NEW p \in Slots, W.pool[p].linkId \notin W.open,
         W.pool[p].serialId # 0
  PROVE  LET V == LoseLink(W, p) IN
         /\ WF(V, P) /\ V.requests = W.requests /\ V.ptr = W.ptr /\ V.sid = W.sid
         /\ V.open = W.open /\ V.pool[p].linkId = NoLink
<1> DEFINE V == SetLink(W, p, NoLink)
<1>1. /\ V.ptr = W.ptr /\ V.sid = W.sid /\ V.serialId = W.serialId
      /\ V.open = W.open /\ V.requests = W.requests /\ V \in Worlds
      /\ \A q \in Slots : q # p => V.pool[q] = W.pool[q]
      /\ V.pool[p].serialId = W.pool[p].serialId /\ V.pool[p].kind = W.pool[p].kind
      /\ V.pool[p].refCount = W.pool[p].refCount /\ V.pool[p].linkId = NoLink
  BY SetLinkFields DEF WF, NoLink
<1>2. LoseLink(W, p) = IF V.pool[p].unread THEN V ELSE Free(V, p)
  BY DEF LoseLink
<1> HIDE DEF V
<1>3. SerialsOK(V) /\ SlotsOK(V) /\ PointersOK(V)
  BY <1>1 DEF WF, SerialsOK, SlotsOK, PointersOK
<1>4. CountsOK(V)
  <2>1. \A q \in Slots : Owners(V, q) = Owners(W, q)
    BY <1>1 DEF Owners
  <2> QED
    BY <1>1, <2>1 DEF WF, CountsOK
<1>5. LinksOK(V, P)
  BY <1>1 DEF WF, LinksOK, NoLink, Worlds
<1>6. WF(V, P)
  BY <1>1, <1>3, <1>4, <1>5 DEF WF
<1>7. V.pool[p].linkId \notin V.open
  BY <1>1, <1>6 DEF WF, LinksOK
<1>8. CASE V.pool[p].unread
  BY <1>1, <1>2, <1>6, <1>8
<1>9. CASE ~ V.pool[p].unread
  <2>1. WF(Free(V, p), P)
    BY <1>6, <1>7, FreeWF
  <2>2. /\ Free(V, p).ptr = V.ptr /\ Free(V, p).sid = V.sid
        /\ Free(V, p).open = V.open /\ Free(V, p).requests = V.requests
        /\ Free(V, p).pool[p] = Blank(V.pool[p].kind)
    BY <1>1, FreeFields
  <2>3. Free(V, p).pool[p].linkId = NoLink
    BY <2>2 DEF Blank
  <2> QED
    BY <1>1, <1>2, <1>9, <2>1, <2>2, <2>3
<1> QED
  BY <1>8, <1>9

-----------------------------------------------------------------------------
(* The handle.                                                             *)

\* decreaseRefCount: the handle lets go, and the last one closes the stream.
LEMMA DecreaseWF ==
  ASSUME NEW P, NEW W, WF(W, P), NEW h \in AllHandles
  PROVE  LET D == DecreaseRefCount(W, h) IN
         /\ WF(D, P) /\ D.ptr[h] = Null
         /\ \A g \in AllHandles : g # h => D.ptr[g] = W.ptr[g]
         /\ D.sid = W.sid /\ D.requests = W.requests /\ D.serialId = W.serialId
         /\ \A q \in Slots : q # W.ptr[h] => D.pool[q] = W.pool[q]
<1> DEFINE p == W.ptr[h]
           V == SetPtr(W, h, Null)
           D == DecreaseRefCount(W, h)
<1>1. /\ V \in Worlds /\ V.ptr[h] = Null
      /\ \A g \in AllHandles : g # h => V.ptr[g] = W.ptr[g]
      /\ V.pool = W.pool /\ V.sid = W.sid /\ V.serialId = W.serialId
      /\ V.open = W.open /\ V.requests = W.requests
  <2>1. Null \in 0 .. PoolSize
    BY PoolAssumption DEF Null
  <2> QED
    BY <2>1, SetPtrFields DEF WF
<1>2. PointersOK(V)
  BY <1>1 DEF WF, PointersOK
<1>3. CASE ~ Valid(W, h)
  <2>1. D = V
    BY <1>3 DEF DecreaseRefCount
  <2> HIDE DEF V, D
  <2>2. ASSUME NEW q \in Slots PROVE Owners(V, q) = Owners(W, q)
    BY <1>1, <1>3 DEF Owners, Valid, Slots, Null
  <2>3. CountsOK(V)
    BY <1>1, <2>2 DEF WF, CountsOK
  <2>4. SerialsOK(V) /\ SlotsOK(V) /\ LinksOK(V, P)
    BY <1>1 DEF WF, SerialsOK, SlotsOK, LinksOK
  <2> QED
    BY <1>1, <1>2, <2>1, <2>3, <2>4 DEF WF, D
<1>4. CASE Valid(W, h)
  <2>1. p \in Slots /\ W.pool[p].serialId = W.sid[h] /\ W.sid[h] # 0
    BY <1>4 DEF Valid, WF, PointersOK, Worlds, Slots, Null
  <2>2. h \in Owners(W, p)
    BY <2>1 DEF Owners
  <2>3. W.pool[p].refCount = Cardinality(Owners(W, p)) /\ W.pool[p].refCount > 0
        /\ W.pool[p].refCount \in 0 .. 255
    BY <2>1 DEF WF, CountsOK, Worlds, Stream, Counts
  <2>4. CASE W.pool[p].refCount = 1
    <3> DEFINE U == SetRefCount(V, p, 0)
    <3>1. D = Close(U, p)
      BY <1>4, <2>4 DEF DecreaseRefCount
    <3> HIDE DEF V, D, p
    <3>2. /\ U.ptr = V.ptr /\ U.sid = V.sid /\ U.serialId = V.serialId
          /\ U.open = V.open /\ U.requests = V.requests /\ U \in Worlds
          /\ \A q \in Slots : q # p => U.pool[q] = V.pool[q]
          /\ U.pool[p].serialId = V.pool[p].serialId /\ U.pool[p].kind = V.pool[p].kind
          /\ U.pool[p].linkId = V.pool[p].linkId
      <4>1. V \in Worlds /\ p \in Slots /\ 0 \in Counts
        BY <1>1, <2>1 DEF Counts
      <4> QED
        BY <4>1, SetRefCountFields
    <3> HIDE DEF U
    <3>3. U.pool[p].serialId # 0 /\ U.pool[p].linkId = W.pool[p].linkId
          /\ U.pool[p].kind = W.pool[p].kind
      BY <1>1, <2>1, <3>2
    <3>4. /\ D \in Worlds /\ D.ptr = U.ptr /\ D.sid = U.sid /\ D.serialId = U.serialId
          /\ D.open = U.open \ {U.pool[p].linkId} /\ D.requests = U.requests
          /\ D.pool[p] = Blank(U.pool[p].kind)
          /\ \A q \in Slots : q # p => D.pool[q] = U.pool[q]
      BY <2>1, <3>1, <3>2, <3>3, CloseFields
    <3>5. /\ D.sid = W.sid /\ D.serialId = W.serialId /\ D.requests = W.requests
          /\ D.ptr[h] = Null /\ \A g \in AllHandles : g # h => D.ptr[g] = W.ptr[g]
          /\ D.open = W.open \ {W.pool[p].linkId}
          /\ D.pool[p] = Blank(W.pool[p].kind)
          /\ \A q \in Slots : q # p => D.pool[q] = W.pool[q]
      BY <1>1, <3>2, <3>3, <3>4
    <3>6. \A g \in AllHandles : D.ptr[g] = W.ptr[g] \/ (D.ptr[g] = Null /\ W.ptr[g] = p)
      BY <3>5 DEF p
    <3>7. WF(D, P)
      BY <2>1, <3>4, <3>5, <3>6, FreedWF
    <3> QED
      BY <3>5, <3>7 DEF D, p
  <2>5. CASE W.pool[p].refCount # 1
    <3> DEFINE n == W.pool[p].refCount - 1
    <3>1. (W.pool[p].refCount + 255) % 256 = n
      BY <2>3
    <3>2. D = SetRefCount(V, p, n)
      BY <1>4, <2>5, <3>1 DEF DecreaseRefCount
    <3>3. n \in 0 .. 255 /\ n > 0
      BY <2>3, <2>5
    <3> HIDE DEF V, D, p, n
    <3>4. /\ D.ptr = V.ptr /\ D.sid = V.sid /\ D.serialId = V.serialId
          /\ D.open = V.open /\ D.requests = V.requests /\ D \in Worlds
          /\ \A q \in Slots : q # p => D.pool[q] = V.pool[q]
          /\ D.pool[p].serialId = V.pool[p].serialId /\ D.pool[p].kind = V.pool[p].kind
          /\ D.pool[p].linkId = V.pool[p].linkId /\ D.pool[p].refCount = n
      <4>1. V \in Worlds /\ p \in Slots /\ n \in Counts
        BY <1>1, <2>1, <3>3 DEF Counts
      <4> QED
        BY <3>2, <4>1, SetRefCountFields
    <3>5. CountsOK(D)
      <4>1. Owners(D, p) = Owners(W, p) \ {h}
        BY <1>1, <2>1, <3>4 DEF Owners, Slots, Null
      <4>2. Cardinality(Owners(W, p) \ {h}) = Cardinality(Owners(W, p)) - 1
        <5>1. IsFiniteSet(Owners(W, p))
          BY OwnersFinite
        <5> QED
          BY <2>2, <5>1, FS_RemoveElement
      <4>3. D.pool[p].refCount = Cardinality(Owners(D, p)) /\ D.pool[p].refCount > 0
        BY <2>3, <3>3, <3>4, <4>1, <4>2 DEF n
      <4>4. ASSUME NEW q \in Slots, q # p
            PROVE  Owners(D, q) = Owners(W, q)
        BY <1>1, <3>4, <4>4 DEF Owners, Slots, Null, p
      <4>5. \A q \in Slots : q # p => D.pool[q] = W.pool[q]
        BY <1>1, <3>4
      <4> QED
        BY <4>3, <4>4, <4>5 DEF WF, CountsOK
    <3>6. SerialsOK(D)
      BY <1>1, <3>4 DEF WF, SerialsOK
    <3>7. PointersOK(D)
      BY <1>2, <3>4 DEF PointersOK
    <3>8. LinksOK(D, P)
      BY <1>1, <3>4 DEF WF, LinksOK
    <3>9. SlotsOK(D)
      BY <1>1, <2>1, <3>4 DEF WF, SlotsOK
    <3> QED
      BY <1>1, <3>4, <3>5, <3>6, <3>7, <3>8, <3>9 DEF WF, D, p
  <2> QED
    BY <2>4, <2>5
<1> QED
  BY <1>3, <1>4

\* checkValid resets a pointer that is not valid.
LEMMA CheckValidWF ==
  ASSUME NEW P, NEW W, WF(W, P), NEW h \in AllHandles
  PROVE  LET V == CheckValid(W, h) IN
         /\ WF(V, P) /\ \A g \in AllHandles : g # h => V.ptr[g] = W.ptr[g]
         /\ V.sid = W.sid /\ V.requests = W.requests
         /\ V.ptr[h] # Null => V.ptr[h] = W.ptr[h] /\ Valid(W, h)
<1>1. CASE Valid(W, h)
  BY <1>1 DEF CheckValid
<1>2. CASE ~ Valid(W, h)
  <2>1. CheckValid(W, h) = DecreaseRefCount(W, h)
    BY <1>2 DEF CheckValid, DecreaseRefCount
  <2> QED
    BY <2>1, DecreaseWF
<1> QED
  BY <1>1, <1>2

\* The destructor.
LEMMA DestroyWF ==
  ASSUME NEW P, NEW W, WF(W, P), NEW h \in AllHandles
  PROVE  LET V == Destroy(W, h) IN
         /\ WF(V, P) /\ V.ptr[h] = Null /\ V.sid[h] = 0
         /\ \A g \in AllHandles : g # h => V.ptr[g] = W.ptr[g] /\ V.sid[g] = W.sid[g]
         /\ V.requests = W.requests
         /\ \A q \in Slots : q # W.ptr[h] => V.pool[q] = W.pool[q]
<1> DEFINE D == DecreaseRefCount(W, h)
           V == Destroy(W, h)
<1>1. /\ WF(D, P) /\ D.ptr[h] = Null
      /\ \A g \in AllHandles : g # h => D.ptr[g] = W.ptr[g]
      /\ D.sid = W.sid /\ D.requests = W.requests /\ D.serialId = W.serialId
      /\ \A q \in Slots : q # W.ptr[h] => D.pool[q] = W.pool[q]
  BY DecreaseWF
<1>2. V = SetSid(D, h, 0)
  BY DEF Destroy
<1>3. 0 \in Serials
  BY PoolAssumption DEF Serials
<1> HIDE DEF D, V
<1>4. /\ V \in Worlds /\ V.sid[h] = 0
      /\ \A g \in AllHandles : g # h => V.sid[g] = D.sid[g]
      /\ V.pool = D.pool /\ V.ptr = D.ptr /\ V.serialId = D.serialId
      /\ V.open = D.open /\ V.requests = D.requests
  BY <1>1, <1>2, <1>3, SetSidFields DEF WF
<1>5. SerialsOK(V)
  BY <1>1, <1>4 DEF WF, SerialsOK, Worlds, Serials
<1>6. SlotsOK(V) /\ PointersOK(V) /\ LinksOK(V, P)
  BY <1>1, <1>4 DEF WF, SlotsOK, PointersOK, LinksOK
<1>7. CountsOK(V)
  <2>1. ASSUME NEW q \in Slots PROVE Owners(V, q) = Owners(D, q)
    BY <1>1, <1>4 DEF Owners, Slots, Null
  <2> QED
    BY <1>1, <1>4, <2>1 DEF WF, CountsOK
<1> QED
  BY <1>1, <1>4, <1>5, <1>6, <1>7 DEF WF, V

\* The handle h, which refers to nothing, is made to refer to what g does.
LEMMA PointTo ==
  ASSUME NEW W \in Worlds, NEW h \in AllHandles, NEW g \in AllHandles
  PROVE  LET V == SetSid(SetPtr(W, h, W.ptr[g]), h, W.sid[g]) IN
         /\ V \in Worlds /\ V.ptr[h] = W.ptr[g] /\ V.sid[h] = W.sid[g]
         /\ \A f \in AllHandles : f # h => V.ptr[f] = W.ptr[f] /\ V.sid[f] = W.sid[f]
         /\ V.pool = W.pool /\ V.serialId = W.serialId
         /\ V.open = W.open /\ V.requests = W.requests
<1> DEFINE U == SetPtr(W, h, W.ptr[g])
<1>1. W.ptr[g] \in 0 .. PoolSize /\ W.sid[g] \in Serials
  BY DEF Worlds
<1>2. /\ U \in Worlds /\ U.ptr[h] = W.ptr[g]
      /\ \A f \in AllHandles : f # h => U.ptr[f] = W.ptr[f]
      /\ U.pool = W.pool /\ U.sid = W.sid /\ U.serialId = W.serialId
      /\ U.open = W.open /\ U.requests = W.requests
  BY <1>1, SetPtrFields
<1> HIDE DEF U
<1>3. LET V == SetSid(U, h, W.sid[g]) IN
      /\ V \in Worlds /\ V.sid[h] = W.sid[g]
      /\ \A f \in AllHandles : f # h => V.sid[f] = U.sid[f]
      /\ V.pool = U.pool /\ V.ptr = U.ptr /\ V.serialId = U.serialId
      /\ V.open = U.open /\ V.requests = U.requests
  BY <1>1, <1>2, SetSidFields
<1> QED
  BY <1>2, <1>3 DEF U

\* The copy constructor counts the new handle when what it copies is valid.
LEMMA CopyConstructWF ==
  ASSUME NEW P, NEW W, WF(W, P), NEW h \in AllHandles, NEW g \in AllHandles, h # g,
         W.ptr[h] = Null
  PROVE  LET C == CopyConstruct(W, h, g) IN
         /\ WF(C, P) /\ C.requests = W.requests
         /\ \A f \in AllHandles : f # h => C.ptr[f] = W.ptr[f] /\ C.sid[f] = W.sid[f]
<1> DEFINE V == SetSid(SetPtr(W, h, W.ptr[g]), h, W.sid[g])
           C == CopyConstruct(W, h, g)
           p == W.ptr[g]
<1>1. /\ V \in Worlds /\ V.ptr[h] = p /\ V.sid[h] = W.sid[g]
      /\ \A f \in AllHandles : f # h => V.ptr[f] = W.ptr[f] /\ V.sid[f] = W.sid[f]
      /\ V.pool = W.pool /\ V.serialId = W.serialId
      /\ V.open = W.open /\ V.requests = W.requests
  BY PointTo DEF WF
<1>2. C = IncreaseRefCount(V, h)
  BY DEF CopyConstruct
<1> HIDE DEF V, C
<1>3. PointersOK(V)
  BY <1>1 DEF WF, PointersOK
<1>4. SerialsOK(V)
  BY <1>1 DEF WF, SerialsOK
<1>5. CASE Valid(V, h)
  <2>1. p \in Slots /\ W.pool[p].serialId = W.sid[g] /\ W.pool[p].serialId # 0
    BY <1>1, <1>3, <1>5 DEF Valid, WF, Worlds, Slots, Null, PointersOK
  <2>2. W.pool[p].refCount = Cardinality(Owners(W, p)) /\ W.pool[p].refCount \in 0 .. 255
    BY <2>1 DEF WF, CountsOK, Worlds, Stream, Counts
  <2>3. /\ Owners(V, p) = Owners(W, p) \cup {h} /\ h \notin Owners(W, p)
        /\ \A q \in Slots : q # p => Owners(V, q) = Owners(W, q)
    BY <1>1, <2>1 DEF Owners, Slots, Null
  <2>4. Cardinality(Owners(V, p)) = Cardinality(Owners(W, p)) + 1
        /\ Cardinality(Owners(V, p)) < 256
    <3>1. IsFiniteSet(Owners(W, p)) /\ Cardinality(Owners(V, p)) < 256
      BY OwnersFinite
    <3>2. Cardinality(Owners(W, p) \cup {h}) = Cardinality(Owners(W, p)) + 1
      BY <2>3, <3>1, FS_AddElement
    <3> QED
      BY <2>3, <3>1, <3>2
  <2> DEFINE n == W.pool[p].refCount + 1
  <2>5. (W.pool[p].refCount + 1) % 256 = n /\ n \in Counts /\ n > 0
        /\ n = Cardinality(Owners(V, p))
    BY <2>2, <2>4 DEF Counts
  <2>6. C = SetRefCount(V, p, n)
    BY <1>1, <1>2, <1>5, <2>5 DEF IncreaseRefCount
  <2> HIDE DEF p, n
  <2>7. /\ C.ptr = V.ptr /\ C.sid = V.sid /\ C.serialId = V.serialId
        /\ C.open = V.open /\ C.requests = V.requests /\ C \in Worlds
        /\ \A q \in Slots : q # p => C.pool[q] = V.pool[q]
        /\ C.pool[p].serialId = V.pool[p].serialId /\ C.pool[p].kind = V.pool[p].kind
        /\ C.pool[p].linkId = V.pool[p].linkId /\ C.pool[p].refCount = n
    BY <1>1, <2>1, <2>5, <2>6, SetRefCountFields
  <2>8. CountsOK(C)
    <3>1. ASSUME NEW q \in Slots PROVE Owners(C, q) = Owners(V, q)
      BY <2>7 DEF Owners
    <3>2. C.pool[p].refCount = Cardinality(Owners(C, p)) /\ C.pool[p].refCount > 0
      BY <2>1, <2>5, <2>7, <3>1
    <3>3. ASSUME NEW q \in Slots, q # p
          PROVE  /\ C.pool[q].refCount = Cardinality(Owners(C, q))
                 /\ C.pool[q].serialId # 0 => C.pool[q].refCount > 0
      <4>1. Owners(C, q) = Owners(W, q) /\ C.pool[q] = W.pool[q]
        BY <1>1, <2>3, <2>7, <3>1, <3>3
      <4> QED
        BY <4>1 DEF WF, CountsOK
    <3> QED
      BY <3>2, <3>3 DEF CountsOK
  <2>9. SerialsOK(C) /\ PointersOK(C)
    BY <1>3, <1>4, <2>7 DEF SerialsOK, PointersOK
  <2>10. LinksOK(C, P)
    BY <1>1, <2>7 DEF WF, LinksOK
  <2>11. SlotsOK(C)
    BY <1>1, <2>1, <2>7 DEF WF, SlotsOK
  <2> QED
    BY <1>1, <2>7, <2>8, <2>9, <2>10, <2>11 DEF WF, C
<1>6. CASE ~ Valid(V, h)
  <2>1. C = SetPtr(V, h, Null)
    BY <1>2, <1>6 DEF IncreaseRefCount
  <2>2. Null \in 0 .. PoolSize
    BY PoolAssumption DEF Null
  <2>3. /\ C \in Worlds /\ C.ptr[h] = Null
        /\ \A f \in AllHandles : f # h => C.ptr[f] = V.ptr[f]
        /\ C.pool = V.pool /\ C.sid = V.sid /\ C.serialId = V.serialId
        /\ C.open = V.open /\ C.requests = V.requests
    BY <1>1, <2>1, <2>2, SetPtrFields
  <2>4. ASSUME NEW q \in Slots PROVE Owners(C, q) = Owners(W, q)
    BY <1>1, <2>3 DEF Owners, Slots, Null
  <2>5. CountsOK(C)
    BY <1>1, <2>3, <2>4 DEF WF, CountsOK
  <2>6. SerialsOK(C) /\ PointersOK(C) /\ SlotsOK(C) /\ LinksOK(C, P)
    BY <1>1, <1>3, <1>4, <2>3 DEF WF, SerialsOK, PointersOK, SlotsOK, LinksOK
  <2> QED
    BY <1>1, <2>3, <2>5, <2>6 DEF WF, C
<1> QED
  BY <1>5, <1>6

\* The move constructor replaces one valid handle by another.
LEMMA MoveConstructWF ==
  ASSUME NEW P, NEW W, WF(W, P), NEW h \in AllHandles, NEW g \in AllHandles, h # g,
         W.ptr[h] = Null
  PROVE  LET M == MoveConstruct(W, h, g) IN
         /\ WF(M, P) /\ M.requests = W.requests /\ M.pool = W.pool /\ M.open = W.open
         /\ M.ptr[h] = W.ptr[g] /\ M.sid[h] = W.sid[g] /\ M.ptr[g] = Null
         /\ \A f \in AllHandles : f # h /\ f # g => M.ptr[f] = W.ptr[f]
         /\ \A f \in AllHandles : f # h => M.sid[f] = W.sid[f]
<1> DEFINE V == SetSid(SetPtr(W, h, W.ptr[g]), h, W.sid[g])
           M == MoveConstruct(W, h, g)
<1>1. /\ V \in Worlds /\ V.ptr[h] = W.ptr[g] /\ V.sid[h] = W.sid[g]
      /\ \A f \in AllHandles : f # h => V.ptr[f] = W.ptr[f] /\ V.sid[f] = W.sid[f]
      /\ V.pool = W.pool /\ V.serialId = W.serialId
      /\ V.open = W.open /\ V.requests = W.requests
  BY PointTo DEF WF
<1>2. M = SetPtr(V, g, Null)
  BY DEF MoveConstruct
<1>3. Null \in 0 .. PoolSize
  BY PoolAssumption DEF Null
<1> HIDE DEF V, M
<1>4. /\ M \in Worlds /\ M.ptr[g] = Null
      /\ \A f \in AllHandles : f # g => M.ptr[f] = V.ptr[f]
      /\ M.pool = V.pool /\ M.sid = V.sid /\ M.serialId = V.serialId
      /\ M.open = V.open /\ M.requests = V.requests
  BY <1>1, <1>2, <1>3, SetPtrFields
<1>5. /\ SerialsOK(M) /\ SlotsOK(M) /\ LinksOK(M, P)
  BY <1>1, <1>4 DEF WF, SerialsOK, SlotsOK, LinksOK
<1>6. PointersOK(M)
  BY <1>1, <1>4 DEF WF, PointersOK
<1>7. ASSUME NEW q \in Slots PROVE Cardinality(Owners(M, q)) = Cardinality(Owners(W, q))
  <2>1. CASE g \in Owners(W, q)
    <3>1. /\ Owners(M, q) = (Owners(W, q) \ {g}) \cup {h}
          /\ h \notin Owners(W, q) \ {g}
      BY <1>1, <1>4, <2>1 DEF Owners, Slots, Null
    <3>2. IsFiniteSet(Owners(W, q)) /\ Cardinality(Owners(W, q)) \in Nat
      BY OwnersFinite
    <3>3. /\ IsFiniteSet(Owners(W, q) \ {g})
          /\ Cardinality(Owners(W, q) \ {g}) = Cardinality(Owners(W, q)) - 1
      BY <2>1, <3>2, FS_RemoveElement
    <3>4. Cardinality((Owners(W, q) \ {g}) \cup {h}) = Cardinality(Owners(W, q) \ {g}) + 1
      BY <3>1, <3>3, FS_AddElement
    <3> QED
      BY <3>1, <3>2, <3>3, <3>4
  <2>2. CASE g \notin Owners(W, q)
    <3>1. Owners(M, q) = Owners(W, q)
      BY <1>1, <1>4, <2>2 DEF Owners, Slots, Null
    <3> QED
      BY <3>1
  <2> QED
    BY <2>1, <2>2
<1>8. CountsOK(M)
  BY <1>1, <1>4, <1>7 DEF WF, CountsOK
<1> QED
  BY <1>1, <1>4, <1>5, <1>6, <1>8 DEF WF, M

\* Both assignment operators.
LEMMA CopyAssignWF ==
  ASSUME NEW P, NEW W, WF(W, P), NEW h \in AllHandles, NEW g \in AllHandles, h # g
  PROVE  LET V == CopyAssign(W, h, g) IN
         /\ WF(V, P) /\ V.requests = W.requests
         /\ \A f \in AllHandles : f # h => V.ptr[f] = W.ptr[f] /\ V.sid[f] = W.sid[f]
<1>1. CASE Differ(W, h, g)
  <2> DEFINE D == DecreaseRefCount(W, h)
  <2>1. /\ WF(D, P) /\ D.ptr[h] = Null /\ D.requests = W.requests /\ D.sid = W.sid
        /\ \A f \in AllHandles : f # h => D.ptr[f] = W.ptr[f]
    BY DecreaseWF
  <2>2. CopyAssign(W, h, g) = CopyConstruct(D, h, g)
    BY <1>1 DEF CopyAssign
  <2> HIDE DEF D
  <2> QED
    BY <2>1, <2>2, CopyConstructWF
<1>2. CASE ~ Differ(W, h, g)
  <2>1. CopyAssign(W, h, g) = CheckValid(W, h)
    BY <1>2 DEF CopyAssign
  <2> QED
    BY <2>1, CheckValidWF
<1> QED
  BY <1>1, <1>2

\* Move assignment: what the target, the source and the pool are left with.
LEMMA MoveAssignWF ==
  ASSUME NEW P, NEW W, WF(W, P), NEW h \in AllHandles, NEW g \in AllHandles, h # g
  PROVE  LET V == MoveAssign(W, h, g) IN
         /\ WF(V, P) /\ V.requests = W.requests
         /\ \A f \in AllHandles : f # h => V.sid[f] = W.sid[f]
         /\ \A f \in AllHandles : f # h /\ f # g => V.ptr[f] = W.ptr[f]
         /\ V.ptr[g] \in {W.ptr[g], Null}
         /\ Differ(W, h, g) =>
              /\ V.ptr[h] = W.ptr[g] /\ V.sid[h] = W.sid[g] /\ V.ptr[g] = Null
              /\ \A q \in Slots : q # W.ptr[h] => V.pool[q] = W.pool[q]
         /\ ~ Differ(W, h, g) => V = CheckValid(W, h)
<1>1. CASE Differ(W, h, g)
  <2> DEFINE D == DecreaseRefCount(W, h)
  <2>1. /\ WF(D, P) /\ D.ptr[h] = Null /\ D.requests = W.requests /\ D.sid = W.sid
        /\ \A f \in AllHandles : f # h => D.ptr[f] = W.ptr[f]
        /\ \A q \in Slots : q # W.ptr[h] => D.pool[q] = W.pool[q]
    BY DecreaseWF
  <2>2. MoveAssign(W, h, g) = MoveConstruct(D, h, g)
    BY <1>1 DEF MoveAssign
  <2> HIDE DEF D
  <2>3. LET M == MoveConstruct(D, h, g) IN
        /\ WF(M, P) /\ M.requests = D.requests /\ M.pool = D.pool
        /\ M.ptr[h] = D.ptr[g] /\ M.sid[h] = D.sid[g] /\ M.ptr[g] = Null
        /\ \A f \in AllHandles : f # h /\ f # g => M.ptr[f] = D.ptr[f]
        /\ \A f \in AllHandles : f # h => M.sid[f] = D.sid[f]
    BY <2>1, MoveConstructWF
  <2> QED
    BY <1>1, <2>1, <2>2, <2>3
<1>2. CASE ~ Differ(W, h, g)
  <2>1. MoveAssign(W, h, g) = CheckValid(W, h)
    BY <1>2 DEF MoveAssign
  <2>2. LET V == CheckValid(W, h) IN
        /\ WF(V, P) /\ \A f \in AllHandles : f # h => V.ptr[f] = W.ptr[f]
        /\ V.sid = W.sid /\ V.requests = W.requests
    BY CheckValidWF
  <2> QED
    BY <1>2, <2>1, <2>2
<1> QED
  BY <1>1, <1>2

-----------------------------------------------------------------------------
(* The manager.                                                            *)

\* Min of the community modules, on natural numbers.
LEMMA MinInSet ==
  ASSUME NEW S \in SUBSET Nat, S # {}
  PROVE  Min(S) \in S /\ \A y \in S : Min(S) <= y
<1>1. \E x \in S : \A y \in S : ~ (<<y, x>> \in OpToRel(<, Nat))
  BY NatLessThanWellFounded, WFMin
<1>2. PICK x \in S : \A y \in S : ~ (<<y, x>> \in OpToRel(<, Nat))
  BY <1>1
<1>3. ASSUME NEW y \in S PROVE x <= y
  <2>1. ~ (<<y, x>> \in {ss \in Nat \X Nat : ss[1] < ss[2]})
    BY <1>2 DEF OpToRel
  <2>2. <<y, x>> \in Nat \X Nat
    OBVIOUS
  <2>3. ~ (y < x)
    BY <2>1, <2>2
  <2> QED
    BY <2>3
<1> QED
  BY <1>2, <1>3 DEF Min

\* While no serial id was given twice nextSerialId only increments.
LEMMA NextSerialFresh ==
  ASSUME NEW P, NEW W, WF(W, P), W.requests + 1 < SerialMod
  PROVE  /\ NextSerial(W) = W.serialId + 1
         /\ NextSerial(W) \in Serials
<1> DEFINE taken == {W.pool[i].serialId : i \in {j \in Slots : W.pool[j].kind # NoKind}}
           c == W.serialId
           first == c + 1
<1>1. c \in Nat /\ W.requests \in Nat /\ c <= W.requests /\ SerialMod \in Nat
  BY PoolAssumption DEF WF, Worlds, SerialsOK, Serials
<1>2. first \in Serials
  BY <1>1 DEF Serials
<1>3. first \notin taken
  BY <1>1 DEF WF, SerialsOK, Worlds, Stream, Serials
<1>4. \A t \in Serials : Ahead(c, t) >= 1 /\ (Ahead(c, t) <= 1 => t = first)
  BY <1>1 DEF Ahead, Serials
<1>5. Ahead(c, first) = 1
  BY <1>1 DEF Ahead
<1>6. \A t \in Serials : Ahead(c, first) <= Ahead(c, t)
  BY <1>4, <1>5
<1>7. NextSerial(W) = CHOOSE s \in Serials \ taken :
                        \A t \in Serials \ taken : Ahead(c, s) <= Ahead(c, t)
  BY DEF NextSerial
<1> HIDE DEF taken, c, first
<1>8. /\ NextSerial(W) \in Serials \ taken
      /\ Ahead(c, NextSerial(W)) <= Ahead(c, first)
  BY <1>2, <1>3, <1>6, <1>7
<1>9. NextSerial(W) = first
  BY <1>4, <1>5, <1>8
<1> QED
  BY <1>2, <1>9 DEF first, c

\* getBuffStream takes a stream that is not in use.
LEMMA SlotForFree ==
  ASSUME NEW P, NEW W, WF(W, P), NEW k, SlotFor(W, k) # Null
  PROVE  SlotFor(W, k) \in Slots /\ W.pool[SlotFor(W, k)].serialId = 0
<1>1. Reusable(W, k) \in SUBSET Nat /\ Unallocated(W) \in SUBSET Nat
  BY DEF Reusable, Unallocated, Slots
<1>2. CASE Reusable(W, k) # {}
  <2>1. SlotFor(W, k) = Min(Reusable(W, k))
    BY <1>2 DEF SlotFor
  <2>2. SlotFor(W, k) \in Reusable(W, k)
    BY <1>1, <1>2, <2>1, MinInSet
  <2> QED
    BY <2>2 DEF Reusable
<1>3. CASE Reusable(W, k) = {}
  <2>1. Unallocated(W) # {} /\ SlotFor(W, k) = Min(Unallocated(W))
    BY <1>3 DEF SlotFor
  <2>2. SlotFor(W, k) \in Unallocated(W)
    BY <1>1, <2>1, MinInSet
  <2> QED
    BY <2>2 DEF Unallocated, WF, SlotsOK
<1> QED
  BY <1>2, <1>3

\* When getBuffStream is called for the link l: a connection that waits for its
\* stream or NO_LINK, with serial ids left and no temporary around.
MayTake(W, P, l) ==
  /\ l \in P \cup {NoLink} /\ l \in Nat /\ l <= W.requests + 1
  /\ W.requests + 1 < SerialMod /\ W.ptr[Tmp] = Null /\ W.sid[Tmp] = 0

\* What it returns in Tmp: the only handle on a stream with a fresh serial id, or
\* an empty one.
Got(W, V, P, l, p) ==
  /\ V.requests = W.requests + 1 /\ V.open = W.open
  /\ \A h \in AllHandles : h # Tmp => V.ptr[h] = W.ptr[h] /\ V.sid[h] = W.sid[h]
  /\ p = Null =>
       /\ WF(V, P) /\ V.ptr[Tmp] = Null /\ V.sid[Tmp] = 0
       /\ V.pool = W.pool /\ V.serialId = W.serialId
  /\ p # Null =>
       /\ V.pool[p].linkId = l /\ V.serialId = W.serialId + 1
       /\ \A q \in Slots : q # p => V.pool[q] = W.pool[q]
       /\ WF(V, P \ {l}) /\ p \in Slots /\ V.ptr[Tmp] = p
       /\ V.sid[Tmp] = W.serialId + 1 /\ V.pool[p].serialId = W.serialId + 1
       /\ W.pool[p].serialId = 0

\* getBuffStream gives the stream of SlotFor, which had none of the handles.
LEMMA GetBuffStreamWF ==
  ASSUME NEW P, NEW W, WF(W, P), NEW k \in Kinds, NEW l, MayTake(W, P, l)
  PROVE  Got(W, GetBuffStream(W, l, k), P, l, SlotFor(W, k))
<1> DEFINE p == SlotFor(W, k)
           s == NextSerial(W)
           R == [W EXCEPT !.requests = @ + 1]
           S == [R EXCEPT !.serialId = s]
           b == [W.pool[p] EXCEPT !.serialId = s, !.linkId = l, !.kind = k]
           U == SetStream(S, p, b)
           T == SetPtr(U, Tmp, p)
           Y == SetSid(T, Tmp, s)
           V == GetBuffStream(W, l, k)
<1>0. /\ Tmp \in AllHandles /\ W \in Worlds /\ W.requests \in Nat
      /\ l \in P \cup {NoLink} /\ l \in Nat /\ l <= W.requests + 1
      /\ W.requests + 1 < SerialMod /\ W.ptr[Tmp] = Null /\ W.sid[Tmp] = 0
  BY DEF AllHandles, WF, Worlds, MayTake
<1>1. /\ R \in Worlds /\ R.pool = W.pool /\ R.ptr = W.ptr /\ R.sid = W.sid
      /\ R.serialId = W.serialId /\ R.open = W.open /\ R.requests = W.requests + 1
  BY <1>0 DEF Worlds
<1>2. CASE p = Null
  <2>1. V = R
    BY <1>2 DEF GetBuffStream
  <2> HIDE DEF R, V
  <2>2. SerialsOK(R) /\ SlotsOK(R) /\ PointersOK(R)
    BY <1>0, <1>1 DEF WF, SerialsOK, SlotsOK, PointersOK, Worlds, Serials
  <2>3. CountsOK(R)
    BY <1>1 DEF WF, CountsOK, Owners
  <2>4. LinksOK(R, P)
    BY <1>0, <1>1 DEF WF, LinksOK, Worlds, Stream
  <2> QED
    BY <1>1, <1>2, <2>1, <2>2, <2>3, <2>4, <1>0 DEF WF, V, Got
<1>3. CASE p # Null
  <2>1. p \in Slots /\ W.pool[p].serialId = 0
    BY <1>3, SlotForFree
  <2>2. s = W.serialId + 1 /\ s \in Serials
    BY <1>0, NextSerialFresh
  <2>3. W.serialId \in Nat /\ s \in Nat /\ s # 0
    BY <1>0, <2>2, PoolAssumption DEF Worlds, Serials
  <2>4. W.pool[p] = Blank(W.pool[p].kind)
    BY <2>1 DEF WF, SlotsOK
  <2>5. /\ b \in Stream /\ b.serialId = s /\ b.linkId = l /\ b.kind = k /\ b.refCount = 0
        /\ b.unread = FALSE
    <3>1. W.pool[p] \in Stream
      BY <1>0, <2>1 DEF Worlds
    <3>2. W.pool[p].refCount = 0 /\ W.pool[p].unread = FALSE
      BY <2>4 DEF Blank
    <3> QED
      BY <1>0, <2>2, <3>1, <3>2 DEF Stream
  <2>6. /\ S \in Worlds /\ S.pool = W.pool /\ S.ptr = W.ptr /\ S.sid = W.sid
        /\ S.serialId = s /\ S.open = W.open /\ S.requests = W.requests + 1
    <3> HIDE DEF R, s
    <3> QED
      BY <1>1, <2>2 DEF Worlds
  <2>7. V = IncreaseRefCount(Y, Tmp)
    BY <1>3 DEF GetBuffStream
  <2> HIDE DEF p, s, R, S, b, U, T, Y, V
  <2>8. /\ U \in Worlds /\ U.ptr = W.ptr /\ U.sid = W.sid /\ U.serialId = s
        /\ U.open = W.open /\ U.requests = W.requests + 1
        /\ U.pool[p] = b /\ \A q \in Slots : q # p => U.pool[q] = W.pool[q]
    <3>1. LET Z == SetStream(S, p, b) IN
          /\ Z \in Worlds /\ Z.ptr = S.ptr /\ Z.sid = S.sid /\ Z.serialId = S.serialId
          /\ Z.open = S.open /\ Z.requests = S.requests
          /\ Z.pool[p] = b /\ \A q \in Slots : q # p => Z.pool[q] = S.pool[q]
      BY <2>1, <2>5, <2>6, SetStreamFields
    <3> QED
      BY <2>6, <3>1 DEF U
  <2>9. /\ T \in Worlds /\ T.ptr[Tmp] = p
        /\ \A h \in AllHandles : h # Tmp => T.ptr[h] = U.ptr[h]
        /\ T.pool = U.pool /\ T.sid = U.sid /\ T.serialId = U.serialId
        /\ T.open = U.open /\ T.requests = U.requests
    <3>1. p \in 0 .. PoolSize
      BY <2>1, PoolAssumption DEF Slots
    <3> QED
      BY <1>0, <2>8, <3>1, SetPtrFields DEF T
  <2>10. /\ Y \in Worlds /\ Y.sid[Tmp] = s
         /\ \A h \in AllHandles : h # Tmp => Y.sid[h] = T.sid[h]
         /\ Y.pool = T.pool /\ Y.ptr = T.ptr /\ Y.serialId = T.serialId
         /\ Y.open = T.open /\ Y.requests = T.requests
    BY <1>0, <2>2, <2>9, SetSidFields DEF Y
  <2>11. /\ Y.ptr[Tmp] = p /\ Y.sid[Tmp] = s /\ Y.serialId = s
         /\ \A h \in AllHandles : h # Tmp => Y.ptr[h] = W.ptr[h] /\ Y.sid[h] = W.sid[h]
         /\ Y.open = W.open /\ Y.requests = W.requests + 1
         /\ Y.pool[p] = b /\ \A q \in Slots : q # p => Y.pool[q] = W.pool[q]
    BY <2>8, <2>9, <2>10
  <2>12. Valid(Y, Tmp)
    BY <1>3, <2>5, <2>11 DEF Valid
  <2>13. V = SetRefCount(Y, p, 1)
    <3>1. (Y.pool[p].refCount + 1) % 256 = 1
      BY <2>5, <2>11
    <3> QED
      BY <2>7, <2>11, <2>12, <3>1 DEF IncreaseRefCount
  <2>14. /\ V.ptr = Y.ptr /\ V.sid = Y.sid /\ V.serialId = Y.serialId
         /\ V.open = Y.open /\ V.requests = Y.requests /\ V \in Worlds
         /\ \A q \in Slots : q # p => V.pool[q] = Y.pool[q]
         /\ V.pool[p].serialId = Y.pool[p].serialId /\ V.pool[p].kind = Y.pool[p].kind
         /\ V.pool[p].linkId = Y.pool[p].linkId /\ V.pool[p].refCount = 1
    <3>1. 1 \in Counts
      BY DEF Counts
    <3> QED
      BY <2>1, <2>10, <2>13, <3>1, SetRefCountFields
  <2>15. /\ V.ptr[Tmp] = p /\ V.sid[Tmp] = s /\ V.serialId = s
         /\ \A h \in AllHandles : h # Tmp => V.ptr[h] = W.ptr[h] /\ V.sid[h] = W.sid[h]
         /\ V.open = W.open /\ V.requests = W.requests + 1
         /\ \A q \in Slots : q # p => V.pool[q] = W.pool[q]
         /\ V.pool[p].serialId = s /\ V.pool[p].linkId = l /\ V.pool[p].kind = k
         /\ V.pool[p].refCount = 1
    BY <2>5, <2>11, <2>14
  <2>16. SerialsOK(V)
    BY <1>0, <2>2, <2>3, <2>15 DEF WF, SerialsOK, Worlds, Serials, Stream
  <2>17. SlotsOK(V)
    <3>1. k # NoKind
      BY KindsAssumption
    <3> QED
      BY <2>3, <2>15, <3>1 DEF WF, SlotsOK
  <2>18. PointersOK(V)
    BY <2>3, <2>15 DEF WF, PointersOK
  <2>19. CountsOK(V)
    <3>1. Owners(V, p) = {Tmp}
      <4>1. \A h \in AllHandles : W.sid[h] # s
        BY <1>0, <2>2 DEF WF, SerialsOK, Worlds, Serials
      <4> QED
        BY <1>0, <2>15, <4>1 DEF Owners
    <3>2. Cardinality({Tmp}) = 1
      BY FS_Singleton
    <3>3. ASSUME NEW q \in Slots, q # p
          PROVE  Owners(V, q) = Owners(W, q)
      BY <1>0, <2>15, <3>3 DEF Owners, Slots, Null
    <3> QED
      BY <2>15, <3>1, <3>2, <3>3 DEF WF, CountsOK
  <2>20. LinksOK(V, P \ {l})
    <3>1. W.pool[p].linkId = NoLink
      BY <2>4 DEF Blank
    <3>2. \A c \in W.open : c = l \/ c \in P \ {l} \/ \E q \in Slots : q # p /\ W.pool[q].linkId = c
      BY <3>1 DEF WF, LinksOK
    <3>3. \A q \in Slots : W.pool[q].linkId \in Nat /\ W.pool[q].linkId <= W.requests
      BY <1>0 DEF WF, LinksOK, Worlds, Stream
    <3> QED
      BY <1>0, <2>1, <2>15, <3>2, <3>3 DEF WF, LinksOK
  <2> QED
    BY <1>3, <2>1, <2>2, <2>14, <2>15, <2>16, <2>17, <2>18, <2>19, <2>20 DEF WF, V, p, Got
<1> QED
  BY <1>2, <1>3

\* x = getBuffStream(...): x ends up valid exactly when there was a stream, and
\* nothing of the temporary is left.
LEMMA TakeStreamWF ==
  ASSUME NEW P, NEW W, WF(W, P), NEW k \in Kinds, NEW l, MayTake(W, P, l),
         NEW x \in AllHandles, x # Tmp
  PROVE  LET V == TakeStream(W, x, l, k) IN
         /\ V.requests = W.requests + 1 /\ V.ptr[Tmp] = Null /\ V.sid[Tmp] = 0
         /\ \A h \in AllHandles : h # x /\ h # Tmp => V.ptr[h] = W.ptr[h] /\ V.sid[h] = W.sid[h]
         /\ Valid(V, x) => WF(V, P \ {l})
         /\ ~ Valid(V, x) => WF(V, P)
<1> DEFINE G == GetBuffStream(W, l, k)
           p == SlotFor(W, k)
           M == MoveAssign(G, x, Tmp)
           V == TakeStream(W, x, l, k)
<1>0. Tmp \in AllHandles /\ W \in Worlds
  BY DEF AllHandles, WF
<1>7. Got(W, G, P, l, p)
  BY GetBuffStreamWF
<1>1. /\ G.requests = W.requests + 1
      /\ \A h \in AllHandles : h # Tmp => G.ptr[h] = W.ptr[h] /\ G.sid[h] = W.sid[h]
      /\ p = Null => WF(G, P) /\ G.ptr[Tmp] = Null /\ G.sid[Tmp] = 0
      /\ p # Null =>
           /\ WF(G, P \ {l}) /\ p \in Slots /\ G.ptr[Tmp] = p
           /\ G.sid[Tmp] = W.serialId + 1 /\ G.pool[p].serialId = W.serialId + 1
           /\ W.pool[p].serialId = 0
  BY <1>7 DEF Got
<1>2. V = Destroy(M, Tmp)
  BY DEF TakeStream
<1> HIDE DEF G, p, M, V
<1>3. ASSUME NEW Q, WF(G, Q)
      PROVE  /\ WF(M, Q) /\ M.requests = G.requests
             /\ \A f \in AllHandles : f # x => M.sid[f] = G.sid[f]
             /\ \A f \in AllHandles : f # x /\ f # Tmp => M.ptr[f] = G.ptr[f]
             /\ Differ(G, x, Tmp) =>
                  /\ M.ptr[x] = G.ptr[Tmp] /\ M.sid[x] = G.sid[Tmp] /\ M.ptr[Tmp] = Null
                  /\ \A q \in Slots : q # G.ptr[x] => M.pool[q] = G.pool[q]
             /\ ~ Differ(G, x, Tmp) => M = CheckValid(G, x)
  BY <1>0, <1>3, MoveAssignWF DEF M
<1>4. ASSUME NEW Q, WF(M, Q)
      PROVE  /\ WF(V, Q) /\ V.ptr[Tmp] = Null /\ V.sid[Tmp] = 0
             /\ \A g \in AllHandles : g # Tmp => V.ptr[g] = M.ptr[g] /\ V.sid[g] = M.sid[g]
             /\ V.requests = M.requests
             /\ \A q \in Slots : q # M.ptr[Tmp] => V.pool[q] = M.pool[q]
  <2>1. LET Z == Destroy(M, Tmp) IN
        /\ WF(Z, Q) /\ Z.ptr[Tmp] = Null /\ Z.sid[Tmp] = 0
        /\ \A g \in AllHandles : g # Tmp => Z.ptr[g] = M.ptr[g] /\ Z.sid[g] = M.sid[g]
        /\ Z.requests = M.requests
        /\ \A q \in Slots : q # M.ptr[Tmp] => Z.pool[q] = M.pool[q]
    BY <1>0, <1>4, DestroyWF
  <2> QED
    BY <1>2, <2>1
<1>5. CASE p = Null
  <2>1. WF(G, P) /\ G.ptr[Tmp] = Null /\ G.sid[Tmp] = 0
    BY <1>1, <1>5
  <2>2. M.ptr[x] = Null
    <3>1. CASE Differ(G, x, Tmp)
      BY <1>3, <2>1, <3>1
    <3>2. CASE ~ Differ(G, x, Tmp)
      <4>1. M = CheckValid(G, x)
        BY <1>3, <2>1, <3>2
      <4>2. CheckValid(G, x).ptr[x] = Null \/ G.sid[x] = 0
        BY <2>1, <3>2 DEF Differ
      <4>3. CheckValid(G, x).ptr[x] # Null => CheckValid(G, x).ptr[x] = G.ptr[x]
        BY <2>1, CheckValidWF
      <4>4. G.sid[x] = 0 => G.ptr[x] = Null
        BY <2>1 DEF WF, PointersOK
      <4> QED
        BY <4>1, <4>2, <4>3, <4>4
    <3> QED
      BY <3>1, <3>2
  <2>3. WF(V, P) /\ V.ptr[x] = Null
    BY <1>3, <1>4, <2>1, <2>2
  <2>4. ~ Valid(V, x)
    BY <2>3 DEF Valid
  <2> QED
    BY <1>1, <1>3, <1>4, <2>1, <2>3, <2>4 DEF V
<1>6. CASE p # Null
  <2>1. /\ WF(G, P \ {l}) /\ p \in Slots /\ G.ptr[Tmp] = p
        /\ G.sid[Tmp] = W.serialId + 1 /\ G.pool[p].serialId = W.serialId + 1
    BY <1>1, <1>6
  <2>2. W.sid[x] <= W.serialId /\ W.sid[x] \in Nat /\ W.serialId \in Nat
    BY <1>0 DEF WF, SerialsOK, Worlds, Serials
  <2>3. G.sid[x] # G.sid[Tmp]
    BY <1>1, <2>1, <2>2
  <2>4. ~ (G.ptr[x] = p /\ Valid(G, x))
    BY <2>1, <2>3 DEF Valid
  <2>5. CheckValid(G, x).ptr[x] # Null => CheckValid(G, x).ptr[x] = G.ptr[x] /\ Valid(G, x)
    BY <2>1, CheckValidWF
  <2>6. Differ(G, x, Tmp)
    BY <1>6, <2>1, <2>3, <2>4, <2>5 DEF Differ
  <2>7. /\ WF(M, P \ {l}) /\ M.ptr[x] = p /\ M.sid[x] = W.serialId + 1 /\ M.ptr[Tmp] = Null
        /\ M.requests = G.requests
        /\ \A f \in AllHandles : f # x => M.sid[f] = G.sid[f]
        /\ \A f \in AllHandles : f # x /\ f # Tmp => M.ptr[f] = G.ptr[f]
    BY <1>3, <2>1, <2>6
  <2>8. WF(V, P \ {l}) /\ V.ptr[x] = p
    BY <1>4, <2>7
  <2>9. M.pool[p].serialId = W.serialId + 1
    <3>1. CASE G.ptr[x] = p
      <4>1. MoveAssign(G, x, Tmp) = MoveConstruct(DecreaseRefCount(G, x), x, Tmp)
        BY <2>6 DEF MoveAssign
      <4>2. DecreaseRefCount(G, x) = SetPtr(G, x, Null)
        BY <2>4, <3>1 DEF DecreaseRefCount
      <4>3. DecreaseRefCount(G, x).pool = G.pool
        BY <2>1, <4>2, SetPtrFields, PoolAssumption DEF WF, Null
      <4>4. LET D == DecreaseRefCount(G, x) IN WF(D, P \ {l}) /\ D.ptr[x] = Null
        BY <2>1, DecreaseWF
      <4>5. M.pool = DecreaseRefCount(G, x).pool
        BY <1>0, <4>1, <4>4, MoveConstructWF DEF M
      <4> QED
        BY <2>1, <4>3, <4>5
    <3>2. CASE G.ptr[x] # p
      BY <1>3, <2>1, <2>6, <3>2
    <3> QED
      BY <3>1, <3>2
  <2>10. V.pool[p].serialId = W.serialId + 1 /\ V.sid[x] = W.serialId + 1
    BY <1>4, <1>6, <2>1, <2>7, <2>9
  <2>11. Valid(V, x)
    BY <1>6, <2>8, <2>10 DEF Valid
  <2> QED
    BY <1>1, <1>4, <2>7, <2>8, <2>11 DEF V
<1> QED
  BY <1>5, <1>6

-----------------------------------------------------------------------------
(* Types, whatever the serial ids: every operator leads from a world to a  *)
(* world, and disturbs only the handles H it works on.                     *)

Frame(W, V, H) ==
  /\ V \in Worlds /\ V.requests = W.requests
  /\ \A f \in AllHandles : f \notin H => V.ptr[f] = W.ptr[f] /\ V.sid[f] = W.sid[f]

\* What a stream in use may become without being handed out again.
Aged(W, V) == \A p \in Slots :
  \/ V.pool[p].serialId = 0
  \/ /\ V.pool[p].serialId = W.pool[p].serialId
     /\ V.pool[p].linkId \in {W.pool[p].linkId, NoLink}

Steady(W, V, H) == Frame(W, V, H) /\ V.serialId = W.serialId /\ Aged(W, V)

\* h refers to nothing, to what it did, or to what g did.
Carried(W, V, h, g) ==
  \/ V.ptr[h] = Null
  \/ V.ptr[h] = W.ptr[h] /\ V.sid[h] = W.sid[h]
  \/ V.ptr[h] = W.ptr[g] /\ V.sid[h] = W.sid[g]

\* Two operations one after the other disturb the handles that either does.
LEMMA SteadyTrans ==
  ASSUME NEW W, NEW V, NEW U, NEW H, NEW K, Steady(W, V, H), Steady(V, U, K)
  PROVE  Steady(W, U, H \cup K)
BY DEF Steady, Aged, Frame

\* free and close disturb no handle.
LEMMA FreeFrame ==
  ASSUME NEW W \in Worlds, NEW p \in Slots
  PROVE  Steady(W, Free(W, p), {})
<1>1. CASE W.pool[p].serialId = 0
  BY <1>1 DEF Free, Steady, Aged, Frame
<1>2. CASE W.pool[p].serialId # 0
  <2> DEFINE V == Free(W, p)
  <2>1. /\ V \in Worlds /\ V.ptr = W.ptr /\ V.sid = W.sid /\ V.serialId = W.serialId
        /\ V.requests = W.requests
        /\ V.pool[p] = Blank(W.pool[p].kind)
        /\ \A q \in Slots : q # p => V.pool[q] = W.pool[q]
    BY <1>2, FreeFields
  <2>2. V.pool[p].serialId = 0
    BY <2>1 DEF Blank
  <2> HIDE DEF V
  <2>3. Aged(W, V)
    BY <2>1, <2>2 DEF Aged
  <2> QED
    BY <2>1, <2>3 DEF Steady, Frame, V
<1> QED
  BY <1>1, <1>2

\* close() disturbs no handle.
LEMMA CloseFrame ==
  ASSUME NEW W \in Worlds, NEW p \in Slots
  PROVE  Steady(W, Close(W, p), {})
<1> DEFINE U == CloseLink(W, W.pool[p].linkId)
<1>1. Steady(W, U, {}) /\ U \in Worlds
  BY CloseLinkFields DEF Steady, Aged, Frame
<1>2. Close(W, p) = Free(U, p)
  BY DEF Close
<1> HIDE DEF U
<1>3. Steady(U, Free(U, p), {})
  BY <1>1, FreeFrame
<1> QED
  BY <1>1, <1>2, <1>3 DEF Steady, Aged, Frame

\* Noticing that the link is gone disturbs no handle.
LEMMA LoseLinkFrame ==
  ASSUME NEW W \in Worlds, NEW p \in Slots
  PROVE  Steady(W, LoseLink(W, p), {})
<1> DEFINE U == SetLink(W, p, NoLink)
<1>1. Steady(W, U, {}) /\ U \in Worlds
  BY SetLinkFields DEF Steady, Aged, Frame, NoLink
<1>2. LoseLink(W, p) \in {U, Free(U, p)}
  BY DEF LoseLink
<1> HIDE DEF U
<1>3. Steady(U, Free(U, p), {})
  BY <1>1, FreeFrame
<1> QED
  BY <1>1, <1>2, <1>3 DEF Steady, Aged, Frame

\* The members of the handle disturb the handles they are given.
LEMMA DecreaseFrame ==
  ASSUME NEW W \in Worlds, NEW h \in AllHandles
  PROVE  LET D == DecreaseRefCount(W, h) IN
         Steady(W, D, {h}) /\ D.ptr[h] = Null /\ D.sid = W.sid
<1> DEFINE p == W.ptr[h]
           V == SetPtr(W, h, Null)
           n == (W.pool[p].refCount + 255) % 256
           U == SetRefCount(V, p, 0)
           X == SetRefCount(V, p, n)
           D == DecreaseRefCount(W, h)
<1>1. /\ V \in Worlds /\ V.ptr[h] = Null /\ V.pool = W.pool /\ V.sid = W.sid
      /\ V.requests = W.requests /\ V.serialId = W.serialId
      /\ \A f \in AllHandles : f # h => V.ptr[f] = W.ptr[f]
  BY SetPtrFields, PoolAssumption DEF Null
<1>2. CASE ~ Valid(W, h)
  BY <1>1, <1>2 DEF DecreaseRefCount, Steady, Aged, Frame
<1>3. CASE Valid(W, h)
  <2>1. p \in Slots
    BY <1>3, ValidOwner
  <2>2. W.pool[p].refCount \in Counts
    BY <2>1 DEF Worlds, Stream
  <2>3. n \in Counts /\ 0 \in Counts
    <3>1. W.pool[p].refCount \in 0 .. 255
      BY <2>2 DEF Counts
    <3>2. \A r \in 0 .. 255 : (r + 255) % 256 \in 0 .. 255
      OBVIOUS
    <3> HIDE DEF p
    <3>3. n \in 0 .. 255
      BY <3>1, <3>2
    <3> HIDE DEF n
    <3> QED
      BY <3>3 DEF Counts
  <2>4. D \in {Close(U, p), X}
    BY <1>3 DEF DecreaseRefCount
  <2> HIDE DEF p, V, n, D
  <2>5. ASSUME NEW m \in Counts
        PROVE  LET Z == SetRefCount(V, p, m) IN
               Z \in Worlds /\ Z.ptr = V.ptr /\ Z.sid = V.sid /\ Steady(V, Z, {})
    <3>1. V \in Worlds
      BY <1>1
    <3>2. LET Z == SetRefCount(V, p, m) IN
          /\ Z \in Worlds /\ Z.ptr = V.ptr /\ Z.sid = V.sid /\ Z.serialId = V.serialId
          /\ Z.requests = V.requests
          /\ \A q \in Slots : q # p => Z.pool[q] = V.pool[q]
          /\ Z.pool[p].serialId = V.pool[p].serialId
          /\ Z.pool[p].linkId = V.pool[p].linkId
      BY <2>1, <3>1, SetRefCountFields
    <3> QED
      BY <2>1, <3>2 DEF Steady, Aged, Frame
  <2>8. /\ U \in Worlds /\ U.ptr = V.ptr /\ U.sid = V.sid /\ Steady(V, U, {})
        /\ X \in Worlds /\ X.ptr = V.ptr /\ X.sid = V.sid /\ Steady(V, X, {})
    BY <2>3, <2>5
  <2> HIDE DEF U, X
  <2>6. Steady(U, Close(U, p), {})
    BY <2>1, <2>8, CloseFrame
  <2>7. Close(U, p).ptr = U.ptr /\ Close(U, p).sid = U.sid
    BY <2>6, <2>8 DEF Steady, Frame, Worlds
  <2>9. Steady(W, V, {h})
    BY <1>1 DEF Steady, Aged, Frame
  <2>10. Steady(V, D, {}) /\ D.ptr = V.ptr /\ D.sid = V.sid
    BY <2>4, <2>6, <2>7, <2>8 DEF Steady, Aged, Frame
  <2> QED
    BY <1>1, <2>9, <2>10 DEF Steady, Aged, Frame, D
<1> QED
  BY <1>2, <1>3

\* checkValid disturbs its handle alone.
LEMMA CheckValidFrame ==
  ASSUME NEW W \in Worlds, NEW h \in AllHandles
  PROVE  Steady(W, CheckValid(W, h), {h})
<1>1. CASE Valid(W, h)
  BY <1>1 DEF CheckValid, Steady, Aged, Frame
<1>2. CASE ~ Valid(W, h)
  <2>1. CheckValid(W, h) = DecreaseRefCount(W, h)
    BY <1>2 DEF CheckValid, DecreaseRefCount
  <2> QED
    BY <2>1, DecreaseFrame
<1> QED
  BY <1>1, <1>2

\* The destructor clears its handle and disturbs no other.
LEMMA DestroyFrame ==
  ASSUME NEW W \in Worlds, NEW h \in AllHandles
  PROVE  LET V == Destroy(W, h) IN Steady(W, V, {h}) /\ V.ptr[h] = Null /\ V.sid[h] = 0
<1> DEFINE D == DecreaseRefCount(W, h)
<1>1. Steady(W, D, {h}) /\ D.ptr[h] = Null /\ D.sid = W.sid
  BY DecreaseFrame
<1>2. Destroy(W, h) = SetSid(D, h, 0) /\ 0 \in Serials
  BY PoolAssumption DEF Destroy, Serials
<1> HIDE DEF D
<1>3. D \in Worlds
  BY <1>1 DEF Steady, Aged, Frame
<1>4. LET V == SetSid(D, h, 0) IN
      /\ V \in Worlds /\ V.sid[h] = 0
      /\ \A g \in AllHandles : g # h => V.sid[g] = D.sid[g]
      /\ V.ptr = D.ptr /\ V.requests = D.requests
      /\ V.serialId = D.serialId /\ V.pool = D.pool
  BY <1>2, <1>3, SetSidFields
<1> QED
  BY <1>1, <1>2, <1>4 DEF Steady, Aged, Frame

\* The constructors disturb the handle they build, and a move its source.
LEMMA ConstructFrame ==
  ASSUME NEW W \in Worlds, NEW h \in AllHandles, NEW g \in AllHandles
  PROVE  Steady(W, CopyConstruct(W, h, g), {h}) /\ Steady(W, MoveConstruct(W, h, g), {h, g})
<1> DEFINE V == SetSid(SetPtr(W, h, W.ptr[g]), h, W.sid[g])
           C == CopyConstruct(W, h, g)
           p == V.ptr[h]
           n == (V.pool[p].refCount + 1) % 256
<1>1. V \in Worlds /\ V.requests = W.requests /\ V.pool = W.pool /\ V.serialId = W.serialId
      /\ \A f \in AllHandles : f # h => V.ptr[f] = W.ptr[f] /\ V.sid[f] = W.sid[f]
  BY PointTo
<1>2. Null \in 0 .. PoolSize
  BY PoolAssumption DEF Null
<1>3. MoveConstruct(W, h, g) = SetPtr(V, g, Null)
  BY DEF MoveConstruct
<1>4. C = IF Valid(V, h) THEN SetRefCount(V, p, n) ELSE SetPtr(V, h, Null)
  BY DEF CopyConstruct, IncreaseRefCount
<1> HIDE DEF V, C, n
<1>5. Steady(W, SetPtr(V, g, Null), {h, g}) /\ Steady(W, SetPtr(V, h, Null), {h})
  <2>1. ASSUME NEW f \in AllHandles
        PROVE  LET U == SetPtr(V, f, Null) IN
               /\ U \in Worlds /\ \A e \in AllHandles : e # f => U.ptr[e] = V.ptr[e]
               /\ U.pool = V.pool /\ U.sid = V.sid /\ U.serialId = V.serialId
               /\ U.requests = V.requests
    BY <1>1, <1>2, SetPtrFields
  <2> QED
    BY <1>1, <2>1 DEF Steady, Aged, Frame
<1>6. ASSUME Valid(V, h)
      PROVE  Steady(W, SetRefCount(V, p, n), {h})
  <2>1. p \in Slots
    BY <1>1, <1>6, ValidOwner
  <2>2. n \in Counts
    <3>1. V.pool[p].refCount \in 0 .. 255
      BY SMTT(30), <1>1, <2>1 DEF Worlds, Stream, Counts
    <3>2. \A r \in 0 .. 255 : (r + 1) % 256 \in 0 .. 255
      OBVIOUS
    <3> QED
      BY <3>1, <3>2 DEF Counts, n
  <2> HIDE DEF p
  <2>3. LET U == SetRefCount(V, p, n) IN
        /\ U \in Worlds /\ U.ptr = V.ptr /\ U.sid = V.sid /\ U.requests = V.requests
        /\ U.serialId = V.serialId /\ \A q \in Slots : q # p => U.pool[q] = V.pool[q]
        /\ U.pool[p].serialId = V.pool[p].serialId /\ U.pool[p].linkId = V.pool[p].linkId
    BY <1>1, <2>1, <2>2, SetRefCountFields
  <2> QED
    BY <1>1, <2>1, <2>3 DEF Steady, Aged, Frame
<1> QED
  BY <1>3, <1>4, <1>5, <1>6 DEF C

\* The assignments disturb their target, and a move its source.
LEMMA AssignFrame ==
  ASSUME NEW W \in Worlds, NEW h \in AllHandles, NEW g \in AllHandles
  PROVE  Steady(W, CopyAssign(W, h, g), {h}) /\ Steady(W, MoveAssign(W, h, g), {h, g})
<1> DEFINE D == DecreaseRefCount(W, h)
<1>1. Steady(W, D, {h}) /\ D \in Worlds
  BY DecreaseFrame DEF Steady, Aged, Frame
<1>2. /\ CopyAssign(W, h, g) \in {CopyConstruct(D, h, g), CheckValid(W, h)}
      /\ MoveAssign(W, h, g) \in {MoveConstruct(D, h, g), CheckValid(W, h)}
  BY DEF CopyAssign, MoveAssign
<1> HIDE DEF D
<1>3. Steady(D, CopyConstruct(D, h, g), {h}) /\ Steady(D, MoveConstruct(D, h, g), {h, g})
  BY <1>1, ConstructFrame
<1>4. Steady(W, CheckValid(W, h), {h})
  BY CheckValidFrame
<1>5. Steady(W, CopyConstruct(D, h, g), {h}) /\ Steady(W, MoveConstruct(D, h, g), {h, g})
  BY <1>1, <1>3 DEF Steady, Aged, Frame
<1>6. Steady(W, CheckValid(W, h), {h, g})
  BY <1>4 DEF Steady, Aged, Frame
<1> QED
  BY <1>2, <1>4, <1>5, <1>6

\* stream = nullptr leaves nothing of the temporary.
LEMMA AssignNullFrame ==
  ASSUME NEW W \in Worlds, NEW h \in AllHandles
  PROVE  LET V == AssignNull(W, h) IN
         Steady(W, V, {h, Tmp}) /\ V.ptr[Tmp] = Null /\ V.sid[Tmp] = 0
<1> DEFINE M == MoveAssign(W, h, Tmp)
<1>1. Tmp \in AllHandles
  BY DEF AllHandles
<1>2. Steady(W, M, {h, Tmp}) /\ M \in Worlds
  BY ZenonT(60), <1>1, AssignFrame DEF Steady, Aged, Frame
<1>3. AssignNull(W, h) = Destroy(M, Tmp)
  BY DEF AssignNull
<1> HIDE DEF M
<1>4. LET V == Destroy(M, Tmp) IN Steady(M, V, {Tmp}) /\ V.ptr[Tmp] = Null /\ V.sid[Tmp] = 0
  BY <1>1, <1>2, DestroyFrame
<1> QED
  BY <1>2, <1>3, <1>4 DEF Steady, Aged, Frame

\* A free serial id exists because the pool is smaller than the range of ids.
LEMMA NextSerialType ==
  ASSUME NEW W \in Worlds
  PROVE  NextSerial(W) \in Serials
<1> DEFINE used == {j \in Slots : W.pool[j].kind # NoKind}
           taken == {W.pool[i].serialId : i \in used}
           S == Serials \ taken
           c == W.serialId
           D == {Ahead(c, s) : s \in S}
<1>1. IsFiniteSet(Slots) /\ Cardinality(Slots) = PoolSize
  BY PoolAssumption, FS_Interval DEF Slots
<1>2. IsFiniteSet(Serials) /\ Cardinality(Serials) = SerialMod
  BY PoolAssumption, FS_Interval DEF Serials
<1>3. used \in SUBSET Slots
  OBVIOUS
<1>4. IsFiniteSet(used) /\ Cardinality(used) <= PoolSize
  <2> HIDE DEF used
  <2> QED
    BY <1>1, <1>3, FS_Subset
<1>5. IsFiniteSet(taken) /\ Cardinality(taken) <= Cardinality(used)
  <2> DEFINE f == [i \in used |-> W.pool[i].serialId]
  <2> HIDE DEF used
  <2>1. f \in Surjection(used, taken)
    BY DEF Surjection
  <2> HIDE DEF f, taken
  <2> QED
    BY <1>4, <2>1, FS_Surjection
<1> HIDE DEF taken, used
<1>6. S # {}
  <2>1. SUFFICES ASSUME Serials \subseteq taken PROVE FALSE
    OBVIOUS
  <2>2. Cardinality(Serials) <= Cardinality(taken)
    BY <1>5, <2>1, FS_Subset
  <2>3. Cardinality(taken) \in Nat /\ Cardinality(used) \in Nat
    BY <1>4, <1>5, FS_CardinalityType
  <2> QED
    BY <1>2, <1>4, <1>5, <2>2, <2>3, PoolAssumption
<1>7. c \in Nat /\ c < SerialMod /\ SerialMod \in Nat
  BY PoolAssumption DEF Worlds, Serials
<1>8. \A s \in S : Ahead(c, s) \in Nat
  BY <1>7 DEF Ahead, Serials
<1>9. D \in SUBSET Nat /\ D # {}
  BY <1>6, <1>8
<1>10. \E s \in S : \A t \in S : Ahead(c, s) <= Ahead(c, t)
  <2>1. Min(D) \in D /\ \A y \in D : Min(D) <= y
    BY <1>9, MinInSet
  <2> QED
    BY <2>1
<1>11. NextSerial(W) = CHOOSE s \in S : \A t \in S : Ahead(c, s) <= Ahead(c, t)
  BY DEF NextSerial, taken, used
<1> HIDE DEF c
<1> QED
  BY <1>10, <1>11

\* getBuffStream takes a place of the pool or none.
LEMMA SlotForType ==
  ASSUME NEW W, NEW k
  PROVE  SlotFor(W, k) \in Slots \cup {Null}
<1>1. Reusable(W, k) \in SUBSET Nat /\ Unallocated(W) \in SUBSET Nat
  BY DEF Reusable, Unallocated, Slots
<1>2. Reusable(W, k) # {} => Min(Reusable(W, k)) \in Slots
  BY <1>1, MinInSet DEF Reusable
<1>3. Unallocated(W) # {} => Min(Unallocated(W)) \in Slots
  BY <1>1, MinInSet DEF Unallocated
<1> QED
  BY <1>2, <1>3 DEF SlotFor

\* The same world after one more call of getBuffStream.
Counted(W) == [W EXCEPT !.requests = @ + 1]

\* Counting a call of getBuffStream changes nothing else.
LEMMA CountedFields ==
  ASSUME NEW W \in Worlds
  PROVE  LET V == Counted(W) IN
         /\ V \in Worlds /\ V.requests = W.requests + 1 /\ V.ptr = W.ptr /\ V.sid = W.sid
         /\ V.pool = W.pool /\ V.serialId = W.serialId /\ V.open = W.open
BY DEF Counted, Worlds

\* getBuffStream disturbs only the temporary, TakeStream only its target.
LEMMA GetBuffStreamFrame ==
  ASSUME NEW W \in Worlds, NEW l \in Nat, NEW k \in Kinds
  PROVE  Frame(Counted(W), GetBuffStream(W, l, k), {Tmp})
<1> DEFINE p == SlotFor(W, k)
           s == NextSerial(W)
           R == Counted(W)
           S == [R EXCEPT !.serialId = s]
           b == [W.pool[p] EXCEPT !.serialId = s, !.linkId = l, !.kind = k]
           U == SetStream(S, p, b)
           T == SetPtr(U, Tmp, p)
           Y == SetSid(T, Tmp, s)
           n == (Y.pool[Y.ptr[Tmp]].refCount + 1) % 256
           V == GetBuffStream(W, l, k)
<1>1. s \in Serials /\ Tmp \in AllHandles
  BY NextSerialType DEF AllHandles
<1>2. R \in Worlds /\ R.requests = W.requests + 1 /\ R.ptr = W.ptr /\ R.sid = W.sid
  BY CountedFields
<1>3. CASE p = Null
  <2>1. V = R
    BY <1>3 DEF GetBuffStream, Counted
  <2> HIDE DEF R, V
  <2> QED
    BY <1>2, <2>1 DEF Frame, R, V
<1>4. CASE p # Null
  <2>1. p \in Slots /\ p \in 0 .. PoolSize
    BY <1>4, SlotForType, PoolAssumption DEF Slots
  <2>2. b \in Stream
    <3>1. W.pool[p] \in Stream
      BY <2>1 DEF Worlds
    <3> HIDE DEF s, p
    <3> QED
      BY <1>1, <3>1 DEF Stream
  <2>3. V = IncreaseRefCount(Y, Tmp)
    BY <1>4 DEF GetBuffStream, Counted
  <2>4. IncreaseRefCount(Y, Tmp) =
          IF Valid(Y, Tmp) THEN SetRefCount(Y, Y.ptr[Tmp], n) ELSE SetPtr(Y, Tmp, Null)
    BY DEF IncreaseRefCount
  <2> HIDE DEF p, s, R, V, b
  <2>5. S \in Worlds /\ S.requests = R.requests /\ S.ptr = R.ptr /\ S.sid = R.sid
    BY <1>1, <1>2 DEF Worlds
  <2> HIDE DEF S
  <2>6. U \in Worlds /\ U.requests = R.requests /\ U.ptr = R.ptr /\ U.sid = R.sid
    BY <2>1, <2>2, <2>5, SetStreamFields
  <2> HIDE DEF U
  <2>7. Frame(U, T, {Tmp}) /\ T \in Worlds
    BY <1>1, <2>1, <2>6, SetPtrFields DEF Frame
  <2> HIDE DEF T
  <2>8. Frame(T, Y, {Tmp}) /\ Y \in Worlds
    BY <1>1, <2>7, SetSidFields DEF Frame
  <2> HIDE DEF Y
  <2>9. Frame(R, Y, {Tmp})
    BY <2>6, <2>7, <2>8 DEF Frame
  <2>10. CASE Valid(Y, Tmp)
    <3> DEFINE q == Y.ptr[Tmp]
    <3>1. q \in Slots
      BY <1>1, <2>8, <2>10, ValidOwner
    <3>2. n \in Counts
      <4>1. Y.pool[q].refCount \in 0 .. 255
        BY ZenonT(60), <2>8, <3>1 DEF Worlds, Stream, Counts
      <4>2. \A r \in 0 .. 255 : (r + 1) % 256 \in 0 .. 255
        OBVIOUS
      <4> QED
        BY <4>1, <4>2 DEF Counts
    <3> HIDE DEF q, n
    <3>3. LET Z == SetRefCount(Y, q, n) IN
          Z \in Worlds /\ Z.ptr = Y.ptr /\ Z.sid = Y.sid /\ Z.requests = Y.requests
      BY <2>8, <3>1, <3>2, SetRefCountFields
    <3>4. V = SetRefCount(Y, q, n)
      BY <2>3, <2>4, <2>10 DEF q
    <3> QED
      BY <2>9, <3>3, <3>4 DEF Frame, V, R
  <2>11. CASE ~ Valid(Y, Tmp)
    <3>1. Null \in 0 .. PoolSize
      BY PoolAssumption DEF Null
    <3>2. Frame(Y, SetPtr(Y, Tmp, Null), {Tmp})
      BY <1>1, <2>8, <3>1, SetPtrFields DEF Frame
    <3>3. V = SetPtr(Y, Tmp, Null)
      BY <2>3, <2>4, <2>11
    <3> QED
      BY <2>9, <3>2, <3>3 DEF Frame, V, R
  <2> QED
    BY <2>10, <2>11
<1> QED
  BY <1>3, <1>4

\* x = getBuffStream(...) disturbs x and leaves nothing of the temporary.
LEMMA TakeStreamFrame ==
  ASSUME NEW W \in Worlds, NEW x \in AllHandles, NEW l \in Nat, NEW k \in Kinds
  PROVE  LET V == TakeStream(W, x, l, k) IN
         Frame(Counted(W), V, {x, Tmp}) /\ V.ptr[Tmp] = Null /\ V.sid[Tmp] = 0
<1> DEFINE G == GetBuffStream(W, l, k)
           M == MoveAssign(G, x, Tmp)
<1>1. Frame(Counted(W), G, {Tmp}) /\ G \in Worlds
  BY GetBuffStreamFrame DEF Frame
<1>2. Tmp \in AllHandles
  BY DEF AllHandles
<1>3. TakeStream(W, x, l, k) = Destroy(M, Tmp)
  BY DEF TakeStream
<1> HIDE DEF G
<1>4. Steady(G, M, {x, Tmp}) /\ M \in Worlds
  BY <1>1, <1>2, AssignFrame DEF Steady, Frame
<1> HIDE DEF M
<1>5. LET V == Destroy(M, Tmp) IN Steady(M, V, {Tmp}) /\ V.ptr[Tmp] = Null /\ V.sid[Tmp] = 0
  BY <1>2, <1>4, DestroyFrame
<1> QED
  BY <1>1, <1>3, <1>4, <1>5 DEF Steady, Frame

\* The same with the link closed when there was no stream.
LEMMA TakeStreamOrCloseFrame ==
  ASSUME NEW W \in Worlds, NEW x \in AllHandles, NEW l \in Nat, NEW k \in Kinds
  PROVE  LET V == TakeStreamOrClose(W, x, l, k) IN
         Frame(Counted(W), V, {x, Tmp}) /\ V.ptr[Tmp] = Null /\ V.sid[Tmp] = 0
<1> DEFINE V == TakeStream(W, x, l, k)
<1>1. Frame(Counted(W), V, {x, Tmp}) /\ V.ptr[Tmp] = Null /\ V.sid[Tmp] = 0 /\ V \in Worlds
  BY TakeStreamFrame DEF Frame
<1>2. TakeStreamOrClose(W, x, l, k) \in {V, CloseLink(V, l)}
  BY DEF TakeStreamOrClose
<1> HIDE DEF V
<1>3. /\ CloseLink(V, l).ptr = V.ptr /\ CloseLink(V, l).sid = V.sid
      /\ CloseLink(V, l).requests = V.requests /\ CloseLink(V, l) \in Worlds
  BY <1>1, CloseLinkFields
<1> QED
  BY <1>1, <1>2, <1>3 DEF Frame

\* stop() disturbs its handle and leaves nothing of the temporary.
LEMMA StopWorldFrame ==
  ASSUME NEW W \in Worlds, NEW h \in AllHandles, W.ptr[Tmp] = Null, W.sid[Tmp] = 0
  PROVE  LET V == StopWorld(W, h) IN
         Steady(W, V, {h, Tmp}) /\ V.ptr[Tmp] = Null /\ V.sid[Tmp] = 0
<1> DEFINE U == Close(W, W.ptr[h])
<1>1. CASE ~ Valid(W, h)
  BY <1>1 DEF StopWorld, Steady, Aged, Frame
<1>2. CASE Valid(W, h)
  <2>1. W.ptr[h] \in Slots
    BY <1>2, ValidOwner
  <2>2. Steady(W, U, {}) /\ U \in Worlds
    BY <2>1, CloseFrame DEF Steady, Aged, Frame
  <2>3. StopWorld(W, h) = AssignNull(U, h)
    BY <1>2 DEF StopWorld
  <2> HIDE DEF U
  <2>4. LET V == AssignNull(U, h) IN
        Steady(U, V, {h, Tmp}) /\ V.ptr[Tmp] = Null /\ V.sid[Tmp] = 0
    BY <2>2, AssignNullFrame
  <2> QED
    BY <2>2, <2>3, <2>4 DEF Steady, Aged, Frame
<1> QED
  BY <1>1, <1>2

-----------------------------------------------------------------------------
(* What becomes of the streams and the handles over an operation, while no *)
(* serial id is given twice.                                               *)

\* Aged, or handed out with a serial id that was not given before.
Later(W, V) ==
  /\ V.serialId >= W.serialId
  /\ \A p \in Slots :
       \/ V.pool[p].serialId = 0
       \/ V.pool[p].serialId > W.serialId
       \/ /\ V.pool[p].serialId = W.pool[p].serialId
          /\ V.pool[p].linkId \in {W.pool[p].linkId, NoLink}

\* Later is transitive.
LEMMA LaterTrans ==
  ASSUME NEW W \in Worlds, NEW V \in Worlds, NEW U \in Worlds, Later(W, V), Later(V, U)
  PROVE  Later(W, U)
<1>1. /\ W.serialId \in Int /\ V.serialId \in Int /\ U.serialId \in Int
      /\ \A p \in Slots : U.pool[p].serialId \in Int
  BY PoolAssumption DEF Worlds, Serials, Stream
<1> QED
  BY <1>1 DEF Later

\* An operation that hands out no stream only ages them.
LEMMA SteadyLater ==
  ASSUME NEW W \in Worlds, NEW V, NEW H, Steady(W, V, H)
  PROVE  Later(W, V)
<1>1. W.serialId \in Int
  BY PoolAssumption DEF Worlds, Serials
<1> QED
  BY <1>1 DEF Steady, Aged, Later

\* What an assignment or a construction leaves in its target.
LEMMA ConstructCarried ==
  ASSUME NEW W \in Worlds, NEW h \in AllHandles, NEW g \in AllHandles, h # g
  PROVE  /\ Carried(W, CopyConstruct(W, h, g), h, g)
         /\ Carried(W, MoveConstruct(W, h, g), h, g)
         /\ MoveConstruct(W, h, g).ptr[g] = Null
<1> DEFINE V == SetSid(SetPtr(W, h, W.ptr[g]), h, W.sid[g])
           C == CopyConstruct(W, h, g)
           p == V.ptr[h]
           n == (V.pool[p].refCount + 1) % 256
<1>1. V \in Worlds /\ V.ptr[h] = W.ptr[g] /\ V.sid[h] = W.sid[g]
  BY PointTo
<1>2. Null \in 0 .. PoolSize
  BY PoolAssumption DEF Null
<1>3. MoveConstruct(W, h, g) = SetPtr(V, g, Null)
  BY DEF MoveConstruct
<1>4. C = IF Valid(V, h) THEN SetRefCount(V, p, n) ELSE SetPtr(V, h, Null)
  BY DEF CopyConstruct, IncreaseRefCount
<1> HIDE DEF V, C, n, p
<1>5. ASSUME NEW f \in AllHandles
      PROVE  LET U == SetPtr(V, f, Null) IN
             U.ptr[f] = Null /\ U.sid = V.sid /\ \A e \in AllHandles : e # f => U.ptr[e] = V.ptr[e]
  BY <1>1, <1>2, SetPtrFields
<1>6. SetRefCount(V, p, n).ptr = V.ptr /\ SetRefCount(V, p, n).sid = V.sid
  BY <1>1 DEF SetRefCount, Worlds
<1>7. Carried(W, C, h, g)
  BY <1>1, <1>4, <1>5, <1>6 DEF Carried
<1> QED
  BY <1>1, <1>3, <1>5, <1>7 DEF Carried, C

\* The same for the assignments, and for the source of a move.
LEMMA AssignCarried ==
  ASSUME NEW W \in Worlds, NEW h \in AllHandles, NEW g \in AllHandles, h # g
  PROVE  /\ Carried(W, CopyAssign(W, h, g), h, g)
         /\ Carried(W, MoveAssign(W, h, g), h, g)
         /\ Carried(W, MoveAssign(W, h, g), g, g)
<1> DEFINE D == DecreaseRefCount(W, h)
           C == CheckValid(W, h)
<1>1. Steady(W, D, {h}) /\ D.sid = W.sid /\ D.ptr[h] = Null
  BY DecreaseFrame
<1>2. D \in Worlds /\ D.ptr[g] = W.ptr[g]
  BY <1>1 DEF Steady, Frame
<1>3. C = W \/ C = D
  BY DEF CheckValid, DecreaseRefCount
<1>4. /\ CopyAssign(W, h, g) \in {CopyConstruct(D, h, g), C}
      /\ MoveAssign(W, h, g) \in {MoveConstruct(D, h, g), C}
  BY DEF CopyAssign, MoveAssign
<1> HIDE DEF D, C
<1>5. /\ Carried(D, CopyConstruct(D, h, g), h, g)
      /\ Carried(D, MoveConstruct(D, h, g), h, g)
      /\ MoveConstruct(D, h, g).ptr[g] = Null
  BY <1>2, ConstructCarried
<1>6. /\ Carried(W, CopyConstruct(D, h, g), h, g)
      /\ Carried(W, MoveConstruct(D, h, g), h, g)
      /\ Carried(W, MoveConstruct(D, h, g), g, g)
  BY <1>1, <1>2, <1>5 DEF Carried
<1>7. Carried(W, C, h, g) /\ Carried(W, C, g, g)
  BY <1>1, <1>2, <1>3 DEF Carried
<1> QED
  BY <1>4, <1>6, <1>7

\* stream = nullptr leaves no reference, or the one there was.
LEMMA AssignNullCarried ==
  ASSUME NEW W \in Worlds, NEW h \in AllHandles, h # Tmp, W.ptr[Tmp] = Null
  PROVE  Carried(W, AssignNull(W, h), h, h)
<1> DEFINE M == MoveAssign(W, h, Tmp)
<1>1. Tmp \in AllHandles
  BY DEF AllHandles
<1>2. Carried(W, M, h, Tmp) /\ M \in Worlds
  BY <1>1, AssignCarried, AssignFrame DEF Steady, Frame
<1>3. AssignNull(W, h) = Destroy(M, Tmp)
  BY DEF AssignNull
<1> HIDE DEF M
<1>4. Steady(M, Destroy(M, Tmp), {Tmp})
  BY <1>1, <1>2, DestroyFrame
<1> QED
  BY <1>2, <1>3, <1>4 DEF Steady, Frame, Carried

\* The target of getBuffStream refers to nothing, to what it did, or to a stream
\* with the link that was asked for.
LEMMA TakeStreamLater ==
  ASSUME NEW P, NEW W, WF(W, P), NEW k \in Kinds, NEW l, MayTake(W, P, l),
         NEW x \in AllHandles, x # Tmp
  PROVE  LET V == TakeStream(W, x, l, k) IN
         /\ Later(W, V)
         /\ Valid(V, x) => \/ V.ptr[x] = W.ptr[x] /\ V.sid[x] = W.sid[x]
                           \/ V.pool[V.ptr[x]].linkId \in {l, NoLink}
<1> DEFINE G == GetBuffStream(W, l, k)
           p == SlotFor(W, k)
           M == MoveAssign(G, x, Tmp)
           V == TakeStream(W, x, l, k)
<1>1. Tmp \in AllHandles /\ W \in Worlds
  BY DEF AllHandles, WF
<1>2. Got(W, G, P, l, p)
  BY GetBuffStreamWF
<1>3. V = Destroy(M, Tmp)
  BY DEF TakeStream
<1>4. WF(V, P) \/ WF(V, P \ {l})
  BY TakeStreamWF
<1> HIDE DEF G, p, V
<1>5. G \in Worlds
  BY <1>2 DEF Got, WF
<1>6. W.serialId \in Nat
  BY <1>1 DEF Worlds, Serials
<1>7. Later(W, G)
  BY <1>2, <1>6 DEF Got, Later
<1>8. Steady(G, M, {x, Tmp}) /\ Carried(G, M, x, Tmp) /\ M \in Worlds
  BY <1>1, <1>5, AssignFrame, AssignCarried DEF Steady, Frame
<1> HIDE DEF M
<1>9. Steady(M, V, {Tmp})
  BY <1>1, <1>3, <1>8, DestroyFrame
<1>10. Steady(G, V, {x, Tmp}) /\ Carried(G, V, x, Tmp) /\ V \in Worlds
  BY <1>8, <1>9 DEF Steady, Aged, Frame, Carried
<1>11. Later(W, V)
  BY <1>1, <1>5, <1>7, <1>10, LaterTrans, SteadyLater
<1>12. ASSUME Valid(V, x)
       PROVE  \/ V.ptr[x] = W.ptr[x] /\ V.sid[x] = W.sid[x]
              \/ V.pool[V.ptr[x]].linkId \in {l, NoLink}
  <2>1. V.ptr[x] # Null /\ V.ptr[x] \in Slots
    BY <1>10, <1>12, ValidOwner DEF Valid
  <2>2. V.pool[V.ptr[x]].serialId # 0
    BY <1>4, <1>12, <2>1 DEF Valid, WF, PointersOK
  <2>3. CASE V.ptr[x] = G.ptr[x] /\ V.sid[x] = G.sid[x]
    BY <1>2, <2>3 DEF Got
  <2>4. CASE V.ptr[x] = G.ptr[Tmp] /\ V.sid[x] = G.sid[Tmp]
    <3>1. p # Null /\ V.ptr[x] = p /\ G.pool[p].linkId = l
      BY <1>2, <2>1, <2>4 DEF Got
    <3> QED
      BY <1>10, <2>1, <2>2, <3>1 DEF Steady, Aged
  <2> QED
    BY <1>10, <2>1, <2>3, <2>4 DEF Carried
<1> QED
  BY <1>11, <1>12 DEF V

\* The connection that waits for a stream gets it or is closed.
LEMMA TakeStreamOrCloseWF ==
  ASSUME NEW W, NEW l, WF(W, {l}), MayTake(W, {l}, l), NEW k \in Kinds,
         NEW x \in AllHandles, x # Tmp
  PROVE  LET V == TakeStreamOrClose(W, x, l, k) IN WF(V, {}) /\ Later(W, V)
<1> DEFINE V == TakeStream(W, x, l, k)
           U == CloseLink(V, l)
<1>1. (Valid(V, x) => WF(V, {l} \ {l})) /\ (~ Valid(V, x) => WF(V, {l}))
  BY TakeStreamWF
<1>2. Later(W, V)
  BY TakeStreamLater
<1>3. {l} \ {l} = {}
  OBVIOUS
<1>4. TakeStreamOrClose(W, x, l, k) = IF Valid(V, x) THEN V ELSE U
  BY DEF TakeStreamOrClose
<1> HIDE DEF V
<1>5. ASSUME WF(V, {l}) PROVE WF(U, {}) /\ Later(W, U)
  <2>1. WF(U, {l} \ {l})
    BY <1>5, CloseLinkWF
  <2>2. U.pool = V.pool /\ U.serialId = V.serialId
    BY <1>5, CloseLinkFields DEF WF
  <2> HIDE DEF U
  <2>3. Later(W, U)
    BY <1>2, <2>2 DEF Later
  <2> QED
    BY <1>3, <2>1, <2>3
<1> QED
  BY <1>1, <1>2, <1>3, <1>4, <1>5

\* A connection is opened under a number that no stream has.
LEMMA OpenLinkWF ==
  ASSUME NEW W, WF(W, {}), W.requests = requests, requests + 1 < SerialMod,
         W.ptr[Tmp] = Null, W.sid[Tmp] = 0
  PROVE  LET V == OpenLink(W) IN
         /\ WF(V, {NewConnection}) /\ MayTake(V, {NewConnection}, NewConnection)
         /\ V.pool = W.pool /\ V.ptr = W.ptr /\ V.sid = W.sid /\ V.serialId = W.serialId
         /\ V.requests = W.requests
<1> DEFINE c == NewConnection
           V == OpenLink(W)
<1>1. W.requests \in Nat /\ c = W.requests + 1 /\ c \in Nat
  BY DEF WF, Worlds, NewConnection
<1>2. /\ V \in Worlds /\ V.open = W.open \cup {c}
      /\ V.pool = W.pool /\ V.ptr = W.ptr /\ V.sid = W.sid /\ V.serialId = W.serialId
      /\ V.requests = W.requests
  BY <1>1 DEF OpenLink, WF, Worlds
<1> HIDE DEF c, V
<1>3. SerialsOK(V) /\ SlotsOK(V) /\ PointersOK(V)
  BY <1>2 DEF WF, SerialsOK, SlotsOK, PointersOK
<1>4. CountsOK(V)
  BY <1>2 DEF WF, CountsOK, Owners
<1>5. LinksOK(V, {c})
  <2>1. \A p \in Slots : W.pool[p].linkId \in Nat /\ W.pool[p].linkId <= W.requests
    BY DEF WF, LinksOK, Worlds, Stream
  <2> QED
    BY <1>1, <1>2, <2>1 DEF WF, LinksOK, NoLink
<1>6. MayTake(V, {c}, c)
  BY <1>1, <1>2 DEF MayTake
<1> QED
  BY <1>2, <1>3, <1>4, <1>5, <1>6 DEF WF, V, c

\* stream = nullptr keeps the invariant.
LEMMA AssignNullWF ==
  ASSUME NEW P, NEW W, WF(W, P), NEW h \in AllHandles, h # Tmp
  PROVE  WF(AssignNull(W, h), P) /\ Later(W, AssignNull(W, h))
<1> DEFINE M == MoveAssign(W, h, Tmp)
<1>1. Tmp \in AllHandles /\ W \in Worlds
  BY DEF AllHandles, WF
<1>2. WF(M, P)
  BY <1>1, MoveAssignWF
<1>3. AssignNull(W, h) = Destroy(M, Tmp)
  BY DEF AssignNull
<1> HIDE DEF M
<1>4. WF(Destroy(M, Tmp), P)
  BY <1>1, <1>2, DestroyWF
<1>5. Steady(W, AssignNull(W, h), {h, Tmp})
  BY <1>1, AssignNullFrame
<1> QED
  BY <1>1, <1>3, <1>4, <1>5, SteadyLater

\* stop() keeps the invariant.
LEMMA StopWorldWF ==
  ASSUME NEW W, WF(W, {}), NEW h \in AllHandles, h # Tmp, W.ptr[Tmp] = Null, W.sid[Tmp] = 0
  PROVE  WF(StopWorld(W, h), {}) /\ Later(W, StopWorld(W, h))
<1> DEFINE U == Close(W, W.ptr[h])
<1>1. W \in Worlds
  BY DEF WF
<1>2. WF(StopWorld(W, h), {})
  <2>1. CASE ~ Valid(W, h)
    BY <2>1 DEF StopWorld
  <2>2. CASE Valid(W, h)
    <3>1. W.ptr[h] \in Slots /\ W.pool[W.ptr[h]].serialId # 0
      BY <1>1, <2>2, ValidOwner DEF Valid, WF, PointersOK
    <3>2. WF(U, {})
      BY <3>1, CloseWF
    <3>3. StopWorld(W, h) = AssignNull(U, h)
      BY <2>2 DEF StopWorld
    <3> HIDE DEF U
    <3>4. WF(AssignNull(U, h), {})
      BY <3>2, AssignNullWF
    <3> QED
      BY <3>3, <3>4
  <2> QED
    BY <2>1, <2>2
<1>3. Steady(W, StopWorld(W, h), {h, Tmp})
  BY <1>1, StopWorldFrame
<1> QED
  BY <1>1, <1>2, <1>3, SteadyLater

\* Bytes come into the buffer or are read out of it.
LEMMA SetUnreadWF ==
  ASSUME NEW P, NEW W, WF(W, P), NEW p \in Slots, W.pool[p].serialId # 0, NEW b \in BOOLEAN
  PROVE  LET V == SetUnread(W, p, b) IN WF(V, P) /\ Steady(W, V, {})
<1> DEFINE V == SetUnread(W, p, b)
<1>1. /\ V.ptr = W.ptr /\ V.sid = W.sid /\ V.serialId = W.serialId
      /\ V.open = W.open /\ V.requests = W.requests /\ V \in Worlds
      /\ \A q \in Slots : q # p => V.pool[q] = W.pool[q]
      /\ V.pool[p].serialId = W.pool[p].serialId /\ V.pool[p].kind = W.pool[p].kind
      /\ V.pool[p].refCount = W.pool[p].refCount /\ V.pool[p].linkId = W.pool[p].linkId
  BY SetUnreadFields DEF WF
<1> HIDE DEF V
<1>2. SerialsOK(V) /\ SlotsOK(V) /\ PointersOK(V)
  BY <1>1 DEF WF, SerialsOK, SlotsOK, PointersOK
<1>3. CountsOK(V)
  <2>1. \A q \in Slots : Owners(V, q) = Owners(W, q)
    BY <1>1 DEF Owners
  <2> QED
    BY <1>1, <2>1 DEF WF, CountsOK
<1>4. LinksOK(V, P)
  BY <1>1 DEF WF, LinksOK
<1>5. Steady(W, V, {})
  BY <1>1 DEF Steady, Aged, Frame
<1> QED
  BY <1>1, <1>2, <1>3, <1>4, <1>5 DEF WF, V

-----------------------------------------------------------------------------
(* The steps.                                                              *)

\* No temporary survives.
Idle(W) == \A t \in {Tmp, Ret} : W.ptr[t] = Null /\ W.sid[t] = 0

\* A stream that a WiFiUDP receives into has no link.
RxOK(W) == \A h \in Handles :
  KindOf[h] = UdpRxKind /\ Valid(W, h) => W.pool[W.ptr[h]].linkId = NoLink

\* What every operation owes for the world V it leaves.
Sound(V) ==
  /\ V \in Worlds /\ Idle(V) /\ V.requests >= requests
  /\ WF(World, {}) /\ RxOK(World) /\ V.requests < SerialMod
       => WF(V, {}) /\ RxOK(V) /\ Later(World, V)

\* The inductive invariant.
IInv == TypeOK /\ (NoWrap => WF(World, {}) /\ RxOK(World))

\* The handles of the sketch are no temporaries.
LEMMA HandleNames ==
  ASSUME NEW h \in Handles
  PROVE  h \in AllHandles /\ h # Tmp /\ h # Ret
BY HandlesAssumption DEF AllHandles

\* The two temporaries are handles of their own.
LEMMA TemporaryNames == Tmp \in AllHandles /\ Ret \in AllHandles /\ Tmp # Ret
BY HandlesAssumption DEF AllHandles

\* The fields of the current world are the variables.
LEMMA WorldFields ==
  /\ World.pool = pool /\ World.ptr = ptr /\ World.sid = sid /\ World.serialId = serialId
  /\ World.open = open /\ World.requests = requests
BY DEF World

\* The world after a step is the one the step computed.
LEMMA BecomeWorld ==
  ASSUME NEW V \in Worlds, Become(V)
  PROVE  World' = V
BY DEF Become, World, Worlds

\* A step to a sound world keeps the inductive invariant.
LEMMA SoundStep ==
  ASSUME IInv, NEW V, Become(V), Sound(V)
  PROVE  IInv' /\ (NoWrap' => NoWrap /\ Later(World, World'))
<1>1. V \in Worlds /\ Idle(V) /\ V.requests >= requests
  BY DEF Sound
<1>2. World' = V
  BY <1>1, BecomeWorld
<1>3. requests' = V.requests /\ ptr' = V.ptr /\ sid' = V.sid
  BY DEF Become
<1>4. TypeOK'
  BY <1>1, <1>2, <1>3 DEF TypeOK, Idle
<1>5. requests \in Nat /\ requests' \in Nat /\ SerialMod \in Nat
  BY <1>1, <1>3, PoolAssumption, WorldFields DEF IInv, TypeOK, Worlds
<1>6. NoWrap' => NoWrap /\ V.requests < SerialMod
  BY <1>1, <1>3, <1>5 DEF NoWrap
<1>7. NoWrap' => WF(V, {}) /\ RxOK(V) /\ Later(World, V)
  BY <1>6 DEF Sound, IInv
<1>8. WF(V, {}) = WF(World, {})' /\ RxOK(V) = RxOK(World)'
  BY <1>2 DEF WF, SerialsOK, SlotsOK, PointersOK, CountsOK, LinksOK, Owners, RxOK, Valid
<1> QED
  BY <1>2, <1>4, <1>6, <1>7, <1>8 DEF IInv

\* The handles of a receiving WiFiUDP refer to streams without a link when they
\* carry what such handles had.
LEMMA RxKept ==
  ASSUME NEW W, WF(W, {}), RxOK(W), NEW V \in Worlds, Later(W, V),
         \A f \in Handles : KindOf[f] = UdpRxKind =>
           \/ V.ptr[f] = Null
           \/ \E g \in Handles : /\ KindOf[g] = UdpRxKind
                                 /\ V.ptr[f] = W.ptr[g] /\ V.sid[f] = W.sid[g]
           \/ V.pool[V.ptr[f]].linkId = NoLink
  PROVE  RxOK(V)
<1> SUFFICES ASSUME NEW f \in Handles, KindOf[f] = UdpRxKind, Valid(V, f)
             PROVE  V.pool[V.ptr[f]].linkId = NoLink
  BY DEF RxOK
<1>1. f \in AllHandles
  BY HandleNames
<1>2. V.ptr[f] # Null /\ V.ptr[f] \in Slots /\ V.pool[V.ptr[f]].serialId = V.sid[f]
  BY <1>1, ValidOwner DEF Valid
<1>3. ASSUME NEW g \in Handles, KindOf[g] = UdpRxKind,
             V.ptr[f] = W.ptr[g], V.sid[f] = W.sid[g]
      PROVE  V.pool[V.ptr[f]].linkId = NoLink
  <2> DEFINE p == V.ptr[f]
  <2>1. g \in AllHandles
    BY HandleNames
  <2>2. W.sid[g] # 0 /\ W.sid[g] <= W.serialId /\ W.sid[g] \in Nat /\ W.serialId \in Nat
    BY <1>2, <1>3, <2>1 DEF WF, PointersOK, SerialsOK, Worlds, Serials
  <2>3. V.pool[p].serialId = W.pool[p].serialId /\ V.pool[p].linkId \in {W.pool[p].linkId, NoLink}
    BY <1>2, <1>3, <2>2 DEF Later
  <2>4. Valid(W, g)
    BY <1>2, <1>3, <2>3 DEF Valid
  <2> QED
    BY <1>3, <2>3, <2>4 DEF RxOK
<1> QED
  BY <1>2, <1>3

\* An operation that disturbs no handle of a receiving WiFiUDP.
LEMMA RxSteady ==
  ASSUME NEW W, WF(W, {}), RxOK(W), NEW V \in Worlds, Later(W, V),
         \A f \in Handles : KindOf[f] = UdpRxKind =>
           V.ptr[f] = Null \/ (V.ptr[f] = W.ptr[f] /\ V.sid[f] = W.sid[f])
  PROVE  RxOK(V)
BY RxKept

\* How a steady operation meets what it owes.
LEMMA SteadySound ==
  ASSUME TypeOK, NEW V, NEW H, Steady(World, V, H), Idle(V),
         WF(World, {}) => WF(V, {}),
         WF(World, {}) /\ RxOK(World) => RxOK(V)
  PROVE  Sound(V)
<1>1. World \in Worlds
  BY DEF TypeOK
<1>2. V \in Worlds /\ V.requests = requests /\ requests \in Nat
  BY <1>1, WorldFields DEF Steady, Frame, Worlds
<1>3. Later(World, V)
  BY <1>1, SteadyLater
<1> QED
  BY <1>2, <1>3 DEF Sound

\* stop, abort, endPacket.
LEMMA StopSound ==
  ASSUME TypeOK, NEW h \in Handles, Stop(h)
  PROVE  Sound(StopWorld(World, h))
<1> DEFINE V == StopWorld(World, h)
<1>1. World \in Worlds /\ Idle(World) /\ h \in AllHandles /\ h # Tmp /\ h # Ret
  BY HandleNames, WorldFields DEF TypeOK, Idle
<1>2. Steady(World, V, {h, Tmp}) /\ V.ptr[Tmp] = Null /\ V.sid[Tmp] = 0
  BY <1>1, StopWorldFrame DEF Idle
<1>3. WF(World, {}) => WF(V, {}) /\ Later(World, V)
  BY <1>1, StopWorldWF DEF Idle
<1>4. KindOf[h] # UdpRxKind
  BY DEF Stop
<1> HIDE DEF V
<1>5. Idle(V)
  BY <1>1, <1>2, TemporaryNames DEF Steady, Frame, Idle
<1>6. WF(World, {}) /\ RxOK(World) => RxOK(V)
  <2>1. \A f \in Handles : KindOf[f] = UdpRxKind =>
          V.ptr[f] = World.ptr[f] /\ V.sid[f] = World.sid[f]
    BY <1>2, <1>4, HandleNames DEF Steady, Frame
  <2>2. V \in Worlds
    BY <1>2 DEF Steady, Frame
  <2> QED
    BY <1>3, <2>1, <2>2, RxSteady
<1>7. Sound(V)
  BY <1>2, <1>3, <1>5, <1>6, SteadySound
<1> QED
  BY <1>7 DEF V

\* The part that connect and accept share: the world X before the connection is
\* opened, and the handle x that takes the stream.
LEMMA RequestSound ==
  ASSUME NEW X \in Worlds, NEW x \in AllHandles, x # Tmp, NEW k \in Kinds,
         X.requests = requests, X.ptr[Tmp] = Null, X.sid[Tmp] = 0
  PROVE  LET V == TakeStreamOrClose(OpenLink(X), x, NewConnection, k) IN
         /\ V \in Worlds /\ V.requests = requests + 1 /\ requests \in Nat
         /\ V.ptr[Tmp] = Null /\ V.sid[Tmp] = 0
         /\ \A f \in AllHandles : f # x /\ f # Tmp =>
              V.ptr[f] = X.ptr[f] /\ V.sid[f] = X.sid[f]
         /\ WF(X, {}) /\ V.requests < SerialMod => WF(V, {}) /\ Later(X, V)
<1> DEFINE O == OpenLink(X)
           c == NewConnection
           V == TakeStreamOrClose(O, x, c, k)
<1>1. requests \in Nat /\ c \in Nat
  BY DEF Worlds, NewConnection
<1>2. /\ O \in Worlds /\ O.pool = X.pool /\ O.ptr = X.ptr /\ O.sid = X.sid
      /\ O.serialId = X.serialId /\ O.requests = X.requests
  BY <1>1 DEF OpenLink, Worlds
<1>3. WF(X, {}) /\ requests + 1 < SerialMod => WF(O, {c}) /\ MayTake(O, {c}, c)
  BY OpenLinkWF
<1> HIDE DEF O, c
<1>4. Frame(Counted(O), V, {x, Tmp}) /\ V.ptr[Tmp] = Null /\ V.sid[Tmp] = 0
  BY <1>1, <1>2, TakeStreamOrCloseFrame
<1>5. WF(X, {}) /\ requests + 1 < SerialMod => WF(V, {}) /\ Later(O, V)
  BY <1>3, TakeStreamOrCloseWF
<1> HIDE DEF V
<1>6. /\ Counted(O).requests = requests + 1 /\ Counted(O).ptr = X.ptr
      /\ Counted(O).sid = X.sid
  BY <1>2, CountedFields
<1>7. V \in Worlds /\ V.requests = requests + 1
  BY <1>4, <1>6 DEF Frame
<1>8. Later(O, V) => Later(X, V)
  BY <1>2 DEF Later
<1>9. \A f \in AllHandles : f # x /\ f # Tmp => V.ptr[f] = X.ptr[f] /\ V.sid[f] = X.sid[f]
  BY <1>4, <1>6 DEF Frame
<1> QED
  BY <1>1, <1>4, <1>5, <1>7, <1>8, <1>9 DEF V, O, c

\* connect and beginPacket: what the object had is stopped first.
LEMMA ConnectSound ==
  ASSUME TypeOK, NEW h \in Handles, Connect(h)
  PROVE  Sound(TakeStreamOrClose(OpenLink(StopWorld(World, h)), h, NewConnection, KindOf[h]))
<1> DEFINE X == StopWorld(World, h)
           V == TakeStreamOrClose(OpenLink(X), h, NewConnection, KindOf[h])
<1>1. World \in Worlds /\ Idle(World) /\ h \in AllHandles /\ h # Tmp /\ h # Ret
  BY HandleNames, WorldFields DEF TypeOK, Idle
<1>2. KindOf[h] # UdpRxKind /\ KindOf[h] \in Kinds
  BY HandlesAssumption DEF Connect
<1>3. Steady(World, X, {h, Tmp}) /\ X.ptr[Tmp] = Null /\ X.sid[Tmp] = 0
  BY <1>1, StopWorldFrame DEF Idle
<1>4. WF(World, {}) => WF(X, {}) /\ Later(World, X)
  BY <1>1, StopWorldWF DEF Idle
<1> HIDE DEF X
<1>5. X \in Worlds /\ X.requests = requests
  BY <1>3, WorldFields DEF Steady, Frame
<1>6. /\ V \in Worlds /\ V.requests = requests + 1 /\ requests \in Nat
      /\ V.ptr[Tmp] = Null /\ V.sid[Tmp] = 0
      /\ \A f \in AllHandles : f # h /\ f # Tmp =>
           V.ptr[f] = X.ptr[f] /\ V.sid[f] = X.sid[f]
      /\ WF(X, {}) /\ V.requests < SerialMod => WF(V, {}) /\ Later(X, V)
  BY <1>1, <1>2, <1>3, <1>5, RequestSound
<1> HIDE DEF V
<1>7. \A f \in AllHandles : f # h /\ f # Tmp =>
        V.ptr[f] = World.ptr[f] /\ V.sid[f] = World.sid[f]
  BY <1>3, <1>6 DEF Steady, Frame
<1>8. Idle(V)
  BY <1>1, <1>6, <1>7, TemporaryNames DEF Idle
<1>9. WF(World, {}) /\ V.requests < SerialMod => WF(V, {}) /\ Later(World, V)
  BY <1>1, <1>4, <1>5, <1>6, LaterTrans
<1>10. WF(World, {}) /\ RxOK(World) /\ V.requests < SerialMod => RxOK(V)
  <2>1. \A f \in Handles : KindOf[f] = UdpRxKind =>
          V.ptr[f] = World.ptr[f] /\ V.sid[f] = World.sid[f]
    BY <1>2, <1>7, HandleNames
  <2> QED
    BY <1>6, <1>9, <2>1, RxSteady
<1>11. V.requests >= requests
  BY <1>6
<1>12. Sound(V)
  BY <1>6, <1>8, <1>9, <1>10, <1>11 DEF Sound
<1> QED
  BY <1>12 DEF V, X

\* accept: the WiFiClient it returns is moved into h and destroyed.
LEMMA AcceptSound ==
  ASSUME TypeOK, NEW h \in Handles, Accept(h)
  PROVE  LET W == TakeStreamOrClose(OpenLink(World), Ret, NewConnection, ClientKind) IN
         Sound(Destroy(MoveAssign(W, h, Ret), Ret))
<1> DEFINE W == TakeStreamOrClose(OpenLink(World), Ret, NewConnection, ClientKind)
           M == MoveAssign(W, h, Ret)
           V == Destroy(M, Ret)
<1>1. World \in Worlds /\ Idle(World) /\ h \in AllHandles /\ h # Tmp /\ h # Ret
  BY HandleNames, WorldFields DEF TypeOK, Idle
<1>2. KindOf[h] = ClientKind /\ ClientKind # UdpRxKind /\ ClientKind \in Kinds
  BY KindsAssumption DEF Accept, Kinds
<1>3. Ret \in AllHandles /\ Ret # Tmp /\ Tmp \in AllHandles
  BY TemporaryNames
<1>4. /\ W \in Worlds /\ W.requests = requests + 1 /\ requests \in Nat
      /\ W.ptr[Tmp] = Null /\ W.sid[Tmp] = 0
      /\ \A f \in AllHandles : f # Ret /\ f # Tmp =>
           W.ptr[f] = World.ptr[f] /\ W.sid[f] = World.sid[f]
      /\ WF(World, {}) /\ W.requests < SerialMod => WF(W, {}) /\ Later(World, W)
  BY <1>1, <1>2, <1>3, WorldFields, RequestSound DEF Idle
<1> HIDE DEF W
<1>5. Steady(W, M, {h, Ret}) /\ M \in Worlds
  BY <1>1, <1>3, <1>4, AssignFrame DEF Steady, Frame
<1>6. WF(W, {}) => WF(M, {})
  BY <1>1, <1>3, MoveAssignWF
<1> HIDE DEF M
<1>7. Steady(M, V, {Ret}) /\ V.ptr[Ret] = Null /\ V.sid[Ret] = 0
  BY <1>3, <1>5, DestroyFrame
<1>8. WF(M, {}) => WF(V, {})
  BY <1>3, DestroyWF
<1> HIDE DEF V
<1>9. Steady(W, V, {h, Ret}) /\ V \in Worlds /\ V.requests = W.requests
  BY <1>5, <1>7 DEF Steady, Aged, Frame
<1>10. Idle(V)
  BY <1>1, <1>3, <1>4, <1>7, <1>9 DEF Idle, Steady, Frame
<1>11. WF(World, {}) /\ V.requests < SerialMod => WF(V, {}) /\ Later(World, V)
  BY <1>1, <1>4, <1>6, <1>8, <1>9, LaterTrans, SteadyLater
<1>12. WF(World, {}) /\ RxOK(World) /\ V.requests < SerialMod => RxOK(V)
  <2>1. \A f \in Handles : KindOf[f] = UdpRxKind =>
          V.ptr[f] = World.ptr[f] /\ V.sid[f] = World.sid[f]
    BY <1>2, <1>4, <1>9, HandleNames DEF Steady, Frame
  <2> QED
    BY <1>9, <1>11, <2>1, RxSteady
<1>13. V.requests >= requests
  BY <1>4, <1>9
<1>14. Sound(V)
  BY <1>9, <1>10, <1>11, <1>12, <1>13 DEF Sound
<1> QED
  BY <1>14 DEF V, M, W

\* h = WiFiClient(), from any world X in which no temporary is left.
LEMMA AssignNullSound ==
  ASSUME NEW X \in Worlds, Idle(X), NEW h \in Handles
  PROVE  LET V == AssignNull(X, h) IN
         /\ Steady(X, V, {h, Tmp}) /\ Idle(V)
         /\ WF(X, {}) => WF(V, {})
         /\ WF(X, {}) /\ RxOK(X) => RxOK(V)
<1> DEFINE V == AssignNull(X, h)
<1>1. h \in AllHandles /\ h # Tmp /\ h # Ret
  BY HandleNames
<1>2. Steady(X, V, {h, Tmp}) /\ V.ptr[Tmp] = Null /\ V.sid[Tmp] = 0
  BY <1>1, AssignNullFrame
<1>3. WF(X, {}) => WF(V, {}) /\ Later(X, V)
  BY <1>1, AssignNullWF
<1>4. Carried(X, V, h, h)
  BY <1>1, AssignNullCarried DEF Idle
<1> HIDE DEF V
<1>5. Idle(V)
  BY <1>1, <1>2, TemporaryNames DEF Steady, Frame, Idle
<1>6. WF(X, {}) /\ RxOK(X) => RxOK(V)
  <2>1. \A f \in Handles : V.ptr[f] = Null \/ (V.ptr[f] = X.ptr[f] /\ V.sid[f] = X.sid[f])
    BY <1>2, <1>4, HandleNames DEF Steady, Frame, Carried
  <2>2. V \in Worlds
    BY <1>2 DEF Steady, Frame
  <2> QED
    BY <1>3, <2>1, <2>2, RxSteady
<1> QED
  BY <1>2, <1>3, <1>5, <1>6 DEF V

\* h = WiFiClient().
LEMMA ClearSound ==
  ASSUME TypeOK, NEW h \in Handles
  PROVE  Sound(AssignNull(World, h))
<1> DEFINE V == AssignNull(World, h)
<1>1. World \in Worlds /\ Idle(World)
  BY WorldFields DEF TypeOK, Idle
<1>2. /\ Steady(World, V, {h, Tmp}) /\ Idle(V)
      /\ WF(World, {}) => WF(V, {})
      /\ WF(World, {}) /\ RxOK(World) => RxOK(V)
  BY <1>1, AssignNullSound
<1> HIDE DEF V
<1>3. Sound(V)
  BY <1>2, SteadySound
<1> QED
  BY <1>3 DEF V

\* An operation on h alone, or on h and g of the same kind, that carries what
\* the handles refer to.
LEMMA CarrySound ==
  ASSUME TypeOK, NEW h \in Handles, NEW g \in Handles, KindOf[h] = KindOf[g], NEW V,
         Steady(World, V, {h, g}), Carried(World, V, h, g), Carried(World, V, g, g),
         WF(World, {}) => WF(V, {})
  PROVE  Sound(V)
<1>1. World \in Worlds /\ Idle(World) /\ V \in Worlds
  BY WorldFields DEF TypeOK, Idle, Steady, Frame
<1>2. Idle(V)
  <2>1. Tmp \notin {h, g} /\ Ret \notin {h, g}
    BY HandleNames
  <2> QED
    BY <1>1, <2>1, TemporaryNames DEF Steady, Frame, Idle
<1>3. WF(World, {}) /\ RxOK(World) => RxOK(V)
  <2>1. ASSUME NEW f \in Handles, KindOf[f] = UdpRxKind
        PROVE  \/ V.ptr[f] = Null
               \/ \E e \in Handles : /\ KindOf[e] = UdpRxKind
                                     /\ V.ptr[f] = World.ptr[e] /\ V.sid[f] = World.sid[e]
    <3>1. CASE f = h
      BY <2>1, <3>1 DEF Carried
    <3>2. CASE f = g
      BY <2>1, <3>2 DEF Carried
    <3>3. CASE f # h /\ f # g
      BY <2>1, <3>3, HandleNames DEF Steady, Frame
    <3> QED
      BY <3>1, <3>2, <3>3
  <2>2. Later(World, V)
    BY <1>1, SteadyLater
  <2> QED
    BY <1>1, <2>1, <2>2, RxKept
<1> QED
  BY <1>2, <1>3, SteadySound

\* An object goes out of scope.
LEMMA DropSound ==
  ASSUME TypeOK, NEW h \in Handles
  PROVE  Sound(Destroy(World, h))
<1> DEFINE V == Destroy(World, h)
<1>1. World \in Worlds /\ h \in AllHandles
  BY HandleNames DEF TypeOK
<1>2. Steady(World, V, {h}) /\ V.ptr[h] = Null
  BY <1>1, DestroyFrame
<1>3. WF(World, {}) => WF(V, {})
  BY <1>1, DestroyWF
<1> HIDE DEF V
<1>4. Steady(World, V, {h, h}) /\ Carried(World, V, h, h)
  BY <1>2 DEF Steady, Frame, Carried
<1>5. Sound(V)
  BY <1>3, <1>4, CarrySound
<1> QED
  BY <1>5 DEF V

\* The assignments and constructions between the sketch's objects.
LEMMA CopySound ==
  ASSUME TypeOK, NEW h \in Handles, NEW g \in Handles, h # g, KindOf[h] = KindOf[g]
  PROVE  Sound(CopyAssign(World, h, g)) /\ Sound(MoveAssign(World, h, g))
<1> DEFINE C == CopyAssign(World, h, g)
           M == MoveAssign(World, h, g)
<1>1. World \in Worlds /\ h \in AllHandles /\ g \in AllHandles
  BY HandleNames DEF TypeOK
<1>2. Steady(World, C, {h}) /\ Steady(World, M, {h, g})
  BY <1>1, AssignFrame
<1>3. Carried(World, C, h, g) /\ Carried(World, M, h, g) /\ Carried(World, M, g, g)
  BY <1>1, AssignCarried
<1>4. WF(World, {}) => WF(C, {})
  BY <1>1, CopyAssignWF
<1>5. WF(World, {}) => WF(M, {})
  BY <1>1, MoveAssignWF
<1> HIDE DEF C, M
<1>6. Steady(World, C, {h, g}) /\ Carried(World, C, g, g)
  BY <1>1, <1>2 DEF Steady, Frame, Carried
<1>7. Sound(C)
  BY <1>3, <1>4, <1>6, CarrySound
<1>8. Sound(M)
  BY <1>2, <1>3, <1>5, CarrySound
<1> QED
  BY <1>7, <1>8 DEF C, M

\* A new object is initialized with another one.
LEMMA NewObjectSound ==
  ASSUME TypeOK, NEW h \in Handles, NEW g \in Handles, h # g, KindOf[h] = KindOf[g],
         ptr[h] = Null
  PROVE  Sound(CopyConstruct(World, h, g)) /\ Sound(MoveConstruct(World, h, g))
<1> DEFINE C == CopyConstruct(World, h, g)
           M == MoveConstruct(World, h, g)
<1>1. World \in Worlds /\ h \in AllHandles /\ g \in AllHandles /\ World.ptr[h] = Null
  BY HandleNames, WorldFields DEF TypeOK
<1>2. Steady(World, C, {h}) /\ Steady(World, M, {h, g})
  BY <1>1, ConstructFrame
<1>3. Carried(World, C, h, g) /\ Carried(World, M, h, g) /\ M.ptr[g] = Null
  BY <1>1, ConstructCarried
<1>4. WF(World, {}) => WF(C, {})
  BY <1>1, CopyConstructWF
<1>5. WF(World, {}) => WF(M, {})
  BY <1>1, MoveConstructWF
<1> HIDE DEF C, M
<1>6. Steady(World, C, {h, g}) /\ Carried(World, C, g, g) /\ Carried(World, M, g, g)
  BY <1>1, <1>2, <1>3 DEF Steady, Frame, Carried
<1>7. Sound(C)
  BY <1>3, <1>4, <1>6, CarrySound
<1>8. Sound(M)
  BY <1>2, <1>3, <1>5, <1>6, CarrySound
<1> QED
  BY <1>7, <1>8 DEF C, M

\* A step that disturbs no handle.
LEMMA StreamSound ==
  ASSUME TypeOK, NEW V, Steady(World, V, {}), WF(World, {}) => WF(V, {})
  PROVE  Sound(V)
<1>1. World \in Worlds /\ Idle(World) /\ V \in Worlds
  BY WorldFields DEF TypeOK, Idle, Steady, Frame
<1>2. \A f \in AllHandles : V.ptr[f] = World.ptr[f] /\ V.sid[f] = World.sid[f]
  BY DEF Steady, Frame
<1>3. Idle(V)
  BY <1>1, <1>2, TemporaryNames DEF Idle
<1>4. Later(World, V)
  BY <1>1, SteadyLater
<1>5. WF(World, {}) /\ RxOK(World) => RxOK(V)
  BY <1>1, <1>2, <1>4, HandleNames, RxSteady
<1> QED
  BY <1>3, <1>5, SteadySound

\* status, write, flush, available, read and peek when the link is gone.
LEMMA LoseLinkSound ==
  ASSUME TypeOK, NEW h \in Handles, Valid(World, h),
         World.pool[ptr[h]].linkId = NoLink \/ LinkGone(World, ptr[h])
  PROVE  Sound(LoseLink(World, ptr[h]))
<1> DEFINE p == ptr[h]
           V == LoseLink(World, p)
<1>1. World \in Worlds /\ h \in AllHandles /\ p = World.ptr[h]
  BY HandleNames, WorldFields DEF TypeOK
<1>2. p \in Slots /\ World.pool[p].serialId = World.sid[h] /\ World.ptr[h] # Null
  BY <1>1, ValidOwner DEF Valid
<1>3. Steady(World, V, {})
  BY <1>1, <1>2, LoseLinkFrame
<1>4. WF(World, {}) => WF(V, {})
  <2>1. SUFFICES ASSUME WF(World, {}) PROVE WF(V, {})
    OBVIOUS
  <2>2. World.pool[p].serialId # 0
    BY <1>1, <1>2, <2>1 DEF WF, PointersOK
  <2>3. World.pool[p].linkId \notin World.open
    BY <2>1 DEF WF, LinksOK, LinkGone
  <2> QED
    BY <1>2, <2>1, <2>2, <2>3, LoseLinkWF
<1> HIDE DEF V
<1>5. Sound(V)
  BY <1>3, <1>4, StreamSound
<1> QED
  BY <1>5 DEF V

\* Bytes are received into the buffer of a client, or read out.
LEMMA SetUnreadSound ==
  ASSUME TypeOK, NEW h \in Handles, Valid(World, h), NEW b \in BOOLEAN
  PROVE  Sound(SetUnread(World, ptr[h], b))
<1> DEFINE p == ptr[h]
           V == SetUnread(World, p, b)
<1>1. World \in Worlds /\ h \in AllHandles /\ p = World.ptr[h]
  BY HandleNames, WorldFields DEF TypeOK
<1>2. p \in Slots /\ World.pool[p].serialId = World.sid[h] /\ World.ptr[h] # Null
  BY <1>1, ValidOwner DEF Valid
<1>3. Steady(World, V, {})
  <2>1. /\ V.ptr = World.ptr /\ V.sid = World.sid /\ V.serialId = World.serialId
        /\ V.requests = World.requests /\ V \in Worlds
        /\ \A q \in Slots : q # p => V.pool[q] = World.pool[q]
        /\ V.pool[p].serialId = World.pool[p].serialId
        /\ V.pool[p].linkId = World.pool[p].linkId
    BY <1>1, <1>2, SetUnreadFields
  <2> HIDE DEF V
  <2> QED
    BY <1>2, <2>1 DEF Steady, Aged, Frame
<1>4. WF(World, {}) => WF(V, {})
  <2>1. SUFFICES ASSUME WF(World, {}) PROVE WF(V, {})
    OBVIOUS
  <2>2. World.pool[p].serialId # 0
    BY <1>1, <1>2, <2>1 DEF WF, PointersOK
  <2> QED
    BY <1>2, <2>1, <2>2, SetUnreadWF
<1> HIDE DEF V
<1>5. Sound(V)
  BY <1>3, <1>4, StreamSound
<1> QED
  BY <1>5 DEF V

\* free() and then nullptr, from a world X that is a sound step away.
LEMMA FreeNullSound ==
  ASSUME NEW X \in Worlds, Idle(X), NEW h \in Handles, X.ptr[h] \in Slots
  PROVE  LET V == AssignNull(Free(X, X.ptr[h]), h) IN
         /\ Steady(X, V, {h, Tmp}) /\ Idle(V)
         /\ WF(X, {}) /\ X.pool[X.ptr[h]].linkId = NoLink => WF(V, {})
         /\ WF(X, {}) /\ RxOK(X) /\ X.pool[X.ptr[h]].linkId = NoLink => RxOK(V)
<1> DEFINE p == X.ptr[h]
           F == Free(X, p)
           V == AssignNull(F, h)
<1>1. Steady(X, F, {}) /\ F \in Worlds
  BY FreeFrame DEF Steady, Frame
<1>2. WF(X, {}) /\ X.pool[p].linkId = NoLink => WF(F, {})
  <2>1. SUFFICES ASSUME WF(X, {}), X.pool[p].linkId = NoLink PROVE WF(F, {})
    OBVIOUS
  <2>2. X.pool[p].linkId \notin X.open
    BY <2>1 DEF WF, LinksOK
  <2> QED
    BY <2>1, <2>2, FreeWF
<1> HIDE DEF p, F
<1>3. \A f \in AllHandles : F.ptr[f] = X.ptr[f] /\ F.sid[f] = X.sid[f]
  BY <1>1 DEF Steady, Frame
<1>4. Idle(F)
  BY <1>3, TemporaryNames DEF Idle
<1>5. WF(X, {}) /\ RxOK(X) => RxOK(F)
  BY <1>1, <1>3, HandleNames, SteadyLater, RxSteady
<1>6. /\ Steady(F, V, {h, Tmp}) /\ Idle(V)
      /\ WF(F, {}) => WF(V, {})
      /\ WF(F, {}) /\ RxOK(F) => RxOK(V)
  BY <1>1, <1>4, AssignNullSound
<1> HIDE DEF V
<1>7. Steady(X, V, {h, Tmp})
  BY <1>1, <1>6 DEF Steady, Aged, Frame
<1> QED
  BY <1>2, <1>5, <1>6, <1>7 DEF V, F, p

\* connected() of a client whose stream has lost its link.
LEMMA ConnectedSound ==
  ASSUME TypeOK, NEW h \in Handles, Connected(h)
  PROVE  LET p == ptr[h]
             W == IF LinkGone(World, p) THEN LoseLink(World, p) ELSE World IN
         Sound(IF Valid(W, h) /\ W.pool[p].unread THEN W ELSE AssignNull(Free(W, p), h))
<1> DEFINE p == ptr[h]
           W == IF LinkGone(World, p) THEN LoseLink(World, p) ELSE World
           V == AssignNull(Free(W, p), h)
<1>1. World \in Worlds /\ Idle(World) /\ h \in AllHandles /\ p = World.ptr[h]
  BY HandleNames, WorldFields DEF TypeOK, Idle
<1>2. Valid(World, h) /\ W.pool[p].linkId = NoLink
  BY DEF Connected
<1>3. p \in Slots /\ World.pool[p].serialId = World.sid[h] /\ World.ptr[h] # Null
  BY <1>1, <1>2, ValidOwner DEF Valid
<1>4. Steady(World, W, {})
  <2>1. CASE LinkGone(World, p)
    BY <1>1, <1>3, <2>1, LoseLinkFrame
  <2>2. CASE ~ LinkGone(World, p)
    BY <1>1, <2>2 DEF Steady, Aged, Frame
  <2> QED
    BY <2>1, <2>2
<1>5. WF(World, {}) => WF(W, {})
  <2>1. SUFFICES ASSUME WF(World, {}), LinkGone(World, p) PROVE WF(LoseLink(World, p), {})
    OBVIOUS
  <2>2. World.pool[p].serialId # 0
    BY <1>1, <1>3, <2>1 DEF WF, PointersOK
  <2>3. World.pool[p].linkId \notin World.open
    BY <2>1 DEF LinkGone
  <2> QED
    BY <1>3, <2>1, <2>2, <2>3, LoseLinkWF
<1>6. KindOf[h] # UdpRxKind
  BY KindsAssumption DEF Connected
<1> HIDE DEF W
<1>7. Sound(W)
  BY <1>4, <1>5, StreamSound
<1>8. W \in Worlds /\ Idle(W) /\ W.ptr[h] = p
  BY <1>1, <1>4, <1>7 DEF Sound, Steady, Frame
<1>9. /\ Steady(W, V, {h, Tmp}) /\ Idle(V)
      /\ WF(W, {}) => WF(V, {})
      /\ WF(W, {}) /\ RxOK(W) => RxOK(V)
  BY <1>2, <1>3, <1>8, FreeNullSound
<1>10. WF(World, {}) /\ RxOK(World) => RxOK(W)
  <2>1. \A f \in AllHandles : W.ptr[f] = World.ptr[f] /\ W.sid[f] = World.sid[f]
    BY <1>4 DEF Steady, Frame
  <2> QED
    BY <1>1, <1>4, <1>8, <2>1, HandleNames, SteadyLater, RxSteady
<1> HIDE DEF V
<1>11. Steady(World, V, {h, Tmp})
  BY <1>4, <1>9 DEF Steady, Aged, Frame
<1>12. Sound(V)
  BY <1>5, <1>9, <1>10, <1>11, SteadySound
<1> QED
  BY <1>7, <1>12 DEF V, W

\* The start of parsePacket: the last packet's stream is freed and let go.
LEMMA LastPacketSound ==
  ASSUME TypeOK, NEW h \in Handles, KindOf[h] = UdpRxKind
  PROVE  LET V == LastPacketFreed(h) IN
         /\ Steady(World, V, {h, Tmp}) /\ Idle(V) /\ Sound(V)
         /\ WF(World, {}) /\ RxOK(World) => WF(V, {}) /\ RxOK(V)
<1> DEFINE V == LastPacketFreed(h)
<1>1. World \in Worlds /\ Idle(World) /\ h \in AllHandles /\ World.ptr[h] = ptr[h]
  BY HandleNames, WorldFields DEF TypeOK, Idle
<1>2. /\ Steady(World, V, {h, Tmp}) /\ Idle(V)
      /\ WF(World, {}) /\ RxOK(World) => WF(V, {}) /\ RxOK(V)
  <2>1. CASE Valid(World, h)
    <3>1. V = AssignNull(Free(World, World.ptr[h]), h)
      BY <1>1, <2>1 DEF LastPacketFreed
    <3>2. World.ptr[h] \in Slots
      BY <1>1, <2>1, ValidOwner
    <3>3. RxOK(World) => World.pool[World.ptr[h]].linkId = NoLink
      BY <2>1 DEF RxOK
    <3> HIDE DEF V
    <3>4. LET U == AssignNull(Free(World, World.ptr[h]), h) IN
          /\ Steady(World, U, {h, Tmp}) /\ Idle(U)
          /\ WF(World, {}) /\ World.pool[World.ptr[h]].linkId = NoLink => WF(U, {})
          /\ WF(World, {}) /\ RxOK(World) /\ World.pool[World.ptr[h]].linkId = NoLink => RxOK(U)
      BY <1>1, <3>2, FreeNullSound
    <3> QED
      BY <3>1, <3>3, <3>4
  <2>2. CASE ~ Valid(World, h)
    BY <1>1, <2>2 DEF LastPacketFreed, Steady, Aged, Frame
  <2> QED
    BY <2>1, <2>2
<1> HIDE DEF V
<1>3. Sound(V)
  <2>1. V \in Worlds /\ V.requests = requests /\ requests \in Nat
    BY <1>1, <1>2, WorldFields DEF Steady, Frame, Worlds
  <2>2. Later(World, V)
    BY <1>1, <1>2, SteadyLater
  <2> QED
    BY <1>2, <2>1, <2>2 DEF Sound
<1> QED
  BY <1>2, <1>3 DEF V

\* parsePacket with a packet to receive.
LEMMA ParsePacketSound ==
  ASSUME TypeOK, NEW h \in Handles, KindOf[h] = UdpRxKind, NEW got \in BOOLEAN
  PROVE  Sound(PacketWorld(h, got))
<1> DEFINE X == LastPacketFreed(h)
           W == TakeStream(X, h, NoLink, UdpRxKind)
           U == IF got THEN SetUnread(W, W.ptr[h], TRUE) ELSE Free(W, W.ptr[h])
           V == IF ~ Valid(W, h) THEN W ELSE U
<1>1. h \in AllHandles /\ h # Tmp /\ h # Ret /\ World \in Worlds /\ requests \in Nat
  BY HandleNames, WorldFields DEF TypeOK, Worlds
<1>2. /\ Steady(World, X, {h, Tmp}) /\ Idle(X)
      /\ WF(World, {}) /\ RxOK(World) => WF(X, {}) /\ RxOK(X)
  BY LastPacketSound
<1> HIDE DEF X
<1>3. X \in Worlds /\ X.requests = requests
  BY <1>2, WorldFields DEF Steady, Frame
<1>4. UdpRxKind \in Kinds /\ NoLink \in Nat
  BY DEF Kinds, NoLink
<1>5. Frame(Counted(X), W, {h, Tmp}) /\ W.ptr[Tmp] = Null /\ W.sid[Tmp] = 0
  BY <1>1, <1>3, <1>4, TakeStreamFrame
<1>6. W \in Worlds /\ W.requests = requests + 1
      /\ \A f \in AllHandles : f # h /\ f # Tmp => W.ptr[f] = X.ptr[f] /\ W.sid[f] = X.sid[f]
  BY <1>3, <1>5, CountedFields DEF Frame
<1>7. Idle(W)
  BY <1>1, <1>2, <1>5, <1>6, TemporaryNames DEF Idle
<1>8. ASSUME WF(World, {}), RxOK(World), requests + 1 < SerialMod
      PROVE  WF(W, {}) /\ RxOK(W) /\ Later(World, W)
  <2>1. WF(X, {}) /\ RxOK(X)
    BY <1>2, <1>8
  <2>2. MayTake(X, {}, NoLink)
    BY <1>1, <1>2, <1>3, <1>8 DEF MayTake, Idle, NoLink
  <2>3. (Valid(W, h) => WF(W, {} \ {NoLink})) /\ (~ Valid(W, h) => WF(W, {}))
    BY <1>1, <1>4, <2>1, <2>2, TakeStreamWF
  <2>4. {} \ {NoLink} = {}
    OBVIOUS
  <2>5. WF(W, {})
    BY <2>3, <2>4
  <2>6. /\ Later(X, W)
        /\ Valid(W, h) => \/ W.ptr[h] = X.ptr[h] /\ W.sid[h] = X.sid[h]
                          \/ W.pool[W.ptr[h]].linkId \in {NoLink, NoLink}
    BY <1>1, <1>4, <2>1, <2>2, TakeStreamLater
  <2> HIDE DEF W
  <2>7. Later(World, W)
    BY <1>1, <1>2, <1>3, <1>6, <2>6, LaterTrans, SteadyLater
  <2>8. RxOK(W)
    <3>1. CASE ~ Valid(W, h)
      <4>1. ASSUME NEW f \in Handles, KindOf[f] = UdpRxKind, Valid(W, f)
            PROVE  W.pool[W.ptr[f]].linkId = NoLink
        <5>1. f # h /\ f \in AllHandles /\ f # Tmp
          BY <3>1, <4>1, HandleNames
        <5> DEFINE Y == [W EXCEPT !.ptr[h] = Null]
        <5>2. Y = SetPtr(W, h, Null)
          BY DEF SetPtr
        <5>3. Null \in 0 .. PoolSize
          BY PoolAssumption DEF Null
        <5> HIDE DEF Y
        <5>4. /\ Y \in Worlds /\ Y.ptr[h] = Null
              /\ \A e \in AllHandles : e # h => Y.ptr[e] = W.ptr[e]
              /\ Y.pool = W.pool /\ Y.sid = W.sid /\ Y.serialId = W.serialId
          BY <1>1, <1>6, <5>2, <5>3, SetPtrFields
        <5>5. Later(X, Y)
          BY <2>6, <5>4 DEF Later
        <5>6. RxOK(Y)
          BY <1>6, <2>1, <5>4, <5>5, HandleNames, RxSteady
        <5>7. Valid(Y, f)
          BY <4>1, <5>1, <5>4 DEF Valid
        <5> QED
          BY <4>1, <5>1, <5>4, <5>6, <5>7 DEF RxOK
      <4> QED
        BY <4>1 DEF RxOK
    <3>2. CASE Valid(W, h)
      BY <1>6, <2>1, <2>6, <3>2, HandleNames, RxKept
    <3> QED
      BY <3>1, <3>2
  <2> QED
    BY <2>5, <2>7, <2>8
<1>9. ASSUME ~ Valid(W, h) PROVE Sound(V)
  <2>1. V = W
    BY <1>9
  <2> HIDE DEF W, V
  <2>2. W.requests >= requests
    BY <1>1, <1>6
  <2>3. Sound(W)
    BY <1>6, <1>7, <1>8, <2>2 DEF Sound
  <2> QED
    BY <2>1, <2>3
<1>10. ASSUME Valid(W, h) PROVE Sound(V)
  <2> DEFINE p == W.ptr[h]
  <2>1. p \in Slots
    BY <1>1, <1>6, <1>10, ValidOwner
  <2>2. V = U
    BY <1>10
  <2>3. U \in {SetUnread(W, p, TRUE), Free(W, p)}
    OBVIOUS
  <2>4. W.pool[p].serialId = W.sid[h]
    BY <1>10 DEF Valid
  <2> HIDE DEF W, U, V, p
  <2>5. WF(W, {}) /\ RxOK(W) => WF(U, {})
    <3>1. SUFFICES ASSUME WF(W, {}), RxOK(W) PROVE WF(U, {})
      OBVIOUS
    <3>2. W.pool[p].serialId # 0
      BY <1>1, <1>10, <3>1 DEF Valid, WF, PointersOK, p
    <3>3. W.pool[p].linkId \notin W.open
      BY <1>1, <1>10, <3>1 DEF RxOK, WF, LinksOK, p, NoLink
    <3>4. WF(SetUnread(W, p, TRUE), {})
      BY <2>1, <3>1, <3>2, SetUnreadWF
    <3>5. WF(Free(W, p), {})
      BY <2>1, <3>1, <3>3, FreeWF
    <3> QED
      BY <2>3, <3>4, <3>5
  <2>6. Steady(W, U, {})
    <3>1. Steady(W, Free(W, p), {})
      BY <1>6, <2>1, FreeFrame
    <3>2. Steady(W, SetUnread(W, p, TRUE), {})
      <4> DEFINE Z == SetUnread(W, p, TRUE)
      <4>1. /\ Z.ptr = W.ptr /\ Z.sid = W.sid /\ Z.serialId = W.serialId
            /\ Z.requests = W.requests /\ Z \in Worlds
            /\ \A q \in Slots : q # p => Z.pool[q] = W.pool[q]
            /\ Z.pool[p].serialId = W.pool[p].serialId
            /\ Z.pool[p].linkId = W.pool[p].linkId
        BY <1>6, <2>1, SetUnreadFields
      <4> HIDE DEF Z
      <4>2. Steady(W, Z, {})
        BY <2>1, <4>1 DEF Steady, Aged, Frame
      <4> QED
        BY <4>2 DEF Z
    <3> QED
      BY <2>3, <3>1, <3>2
  <2>7. /\ U \in Worlds /\ U.requests = requests + 1
        /\ \A f \in AllHandles : U.ptr[f] = W.ptr[f] /\ U.sid[f] = W.sid[f]
    BY <1>6, <2>6 DEF Steady, Frame
  <2>8. Idle(U)
    BY <1>7, <2>7, TemporaryNames DEF Idle
  <2>9. Later(W, U)
    BY <1>6, <2>6, <2>7, SteadyLater
  <2>10. WF(W, {}) /\ RxOK(W) => RxOK(U)
    BY <1>6, <2>7, <2>9, HandleNames, RxSteady
  <2>11. Later(World, W) => Later(World, U)
    BY <1>1, <1>6, <2>7, <2>9, LaterTrans
  <2>12. WF(World, {}) /\ RxOK(World) /\ requests + 1 < SerialMod => WF(U, {}) /\ RxOK(U) /\ Later(World, U)
    BY <1>8, <2>5, <2>10, <2>11
  <2>13. U.requests >= requests
    BY <1>1, <2>7
  <2>14. Sound(U)
    BY <2>7, <2>8, <2>12, <2>13 DEF Sound
  <2> QED
    BY <2>2, <2>14
<1>11. PacketWorld(h, got) = V
  BY DEF PacketWorld, X
<1> QED
  BY <1>9, <1>10, <1>11

\* The peer closes a connection.
LEMMA PeerCloseSound ==
  ASSUME TypeOK, NEW c
  PROVE  Sound(CloseLink(World, c))
<1> DEFINE V == CloseLink(World, c)
<1>1. World \in Worlds
  BY DEF TypeOK
<1>2. Steady(World, V, {})
  BY <1>1, CloseLinkFields DEF Steady, Aged, Frame
<1>3. WF(World, {}) => WF(V, {})
  <2>1. WF(World, {}) => WF(V, {} \ {c})
    BY CloseLinkWF
  <2>2. {} \ {c} = {}
    OBVIOUS
  <2> QED
    BY <2>1, <2>2
<1> HIDE DEF V
<1>4. Sound(V)
  BY <1>2, <1>3, StreamSound
<1> QED
  BY <1>4 DEF V

\* The invariant holds when the sketch starts: no streams, no references.
LEMMA InitInvariant == Init => IInv
<1> SUFFICES ASSUME Init PROVE IInv
  OBVIOUS
<1>1. 0 \in Serials /\ 0 \in Counts /\ 0 \in 0 .. PoolSize /\ Blank(NoKind) \in Stream
  BY PoolAssumption DEF Serials, Counts, Blank, Stream, NoLink
<1>2. World \in Worlds
  BY <1>1 DEF Init, World, Worlds, Null
<1>3. \A p \in Slots : World.pool[p] = Blank(NoKind)
  BY DEF Init, World
<1>4. /\ \A h \in AllHandles : World.ptr[h] = Null /\ World.sid[h] = 0
      /\ World.serialId = 0 /\ World.open = {} /\ World.requests = 0
  BY DEF Init, World
<1>5. TypeOK
  BY <1>2, TemporaryNames DEF TypeOK, Init
<1>6. SerialsOK(World) /\ SlotsOK(World) /\ PointersOK(World) /\ LinksOK(World, {})
  <2>1. \A p \in Slots : /\ World.pool[p].serialId = 0 /\ World.pool[p].linkId = NoLink
                        /\ World.pool[p].kind = NoKind
    BY <1>3 DEF Blank
  <2>2. SerialsOK(World) /\ PointersOK(World)
    BY <1>4, <2>1 DEF SerialsOK, PointersOK
  <2>3. SlotsOK(World)
    BY <1>3, <2>1 DEF SlotsOK
  <2>4. LinksOK(World, {})
    BY <1>4, <2>1 DEF LinksOK, NoLink
  <2> QED
    BY <2>2, <2>3, <2>4
<1>7. CountsOK(World)
  <2>1. ASSUME NEW p \in Slots PROVE Cardinality(Owners(World, p)) = 0
    <3>1. World.pool[p].serialId = 0
      BY <1>3 DEF Blank
    <3> QED
      BY <1>6, <3>1, NoOwners
  <2> QED
    BY <1>3, <2>1 DEF CountsOK, Blank
<1>8. RxOK(World)
  BY <1>4, HandleNames DEF RxOK, Valid
<1> QED
  BY <1>2, <1>5, <1>6, <1>7, <1>8 DEF IInv, WF

\* Every step of the sketch and of the driver is to a sound world.
LEMMA NextInvariant ==
  ASSUME IInv, Next
  PROVE  IInv' /\ (NoWrap' => NoWrap /\ Later(World, World'))
<1> USE DEF IInv
<1>1. ASSUME NEW c \in open, PeerClose(c)
      PROVE  IInv' /\ (NoWrap' => NoWrap /\ Later(World, World'))
  <2>1. Become(CloseLink(World, c))
    BY <1>1 DEF PeerClose
  <2> QED
    BY <2>1, PeerCloseSound, SoundStep
<1>2. ASSUME NEW h \in Handles, HandleStep(h)
      PROVE  \E V : Become(V) /\ Sound(V)
  <2>1. CASE Stop(h)
    BY <2>1, StopSound DEF Stop
  <2>2. CASE Connect(h)
    BY <2>2, ConnectSound DEF Connect
  <2>3. CASE Accept(h)
    BY <2>3, AcceptSound DEF Accept
  <2>4. CASE Clear(h)
    BY <2>4, ClearSound DEF Clear
  <2>5. CASE Drop(h)
    BY <2>5, DropSound DEF Drop
  <2>6. CASE Connected(h)
    BY <2>6, ConnectedSound DEF Connected
  <2>7. CASE Notice(h)
    BY <2>7, LoseLinkSound DEF Notice
  <2>8. CASE Available(h)
    BY <2>8, LoseLinkSound, WorldFields DEF Available
  <2>9. CASE Fill(h)
    BY <2>9, SetUnreadSound DEF Fill
  <2>10. CASE ReadOut(h)
    BY <2>10, SetUnreadSound DEF ReadOut
  <2>11. CASE NoPacket(h)
    BY <2>11, LastPacketSound DEF NoPacket
  <2>12. CASE ParsePacket(h)
    BY <2>12, ParsePacketSound DEF ParsePacket
  <2>13. ASSUME NEW g \in Handles, Copy(h, g) \/ Move(h, g)
         PROVE  \E V : Become(V) /\ Sound(V)
    BY <2>13, CopySound DEF Copy, Move
  <2>14. ASSUME NEW g \in Handles, NewCopy(h, g) \/ NewMoved(h, g)
         PROVE  \E V : Become(V) /\ Sound(V)
    BY <2>14, NewObjectSound DEF NewCopy, NewMoved
  <2> QED
    BY <1>2, <2>1, <2>2, <2>3, <2>4, <2>5, <2>6, <2>7, <2>8, <2>9, <2>10, <2>11, <2>12,
       <2>13, <2>14 DEF HandleStep
<1>3. ASSUME NEW h \in Handles, HandleStep(h)
      PROVE  IInv' /\ (NoWrap' => NoWrap /\ Later(World, World'))
  <2>1. PICK V : Become(V) /\ Sound(V)
    BY <1>2, <1>3
  <2> QED
    BY <2>1, SoundStep
<1> QED
  BY <1>1, <1>3 DEF Next

\* A step that changes nothing keeps the invariant.
LEMMA StutterInvariant ==
  ASSUME IInv, UNCHANGED vars
  PROVE  IInv'
<1>1. World' = World /\ NoWrap' = NoWrap
  BY DEF World, NoWrap, vars
<1>2. WF(World, {})' = WF(World, {}) /\ RxOK(World)' = RxOK(World)
  BY <1>1 DEF WF, SerialsOK, SlotsOK, PointersOK, CountsOK, LinksOK, Owners, RxOK, Valid
<1>3. TypeOK' = TypeOK
  BY <1>1 DEF TypeOK, vars
<1> QED
  BY <1>1, <1>2, <1>3 DEF IInv

-----------------------------------------------------------------------------
(* The theorems.                                                           *)

\* The inductive invariant holds in every reachable state.
THEOREM Invariance == Spec => []IInv
<1>1. Init => IInv
  BY InitInvariant
<1>2. IInv /\ [Next]_vars => IInv'
  BY NextInvariant, StutterInvariant
<1> QED
  BY <1>1, <1>2, PTL DEF Spec

\* The pool, the handles and the driver's connections keep their types whatever
\* the sketch does, also after the serial ids have wrapped, and no operation
\* leaves a temporary handle behind.
THEOREM TypesCorrect == Spec => []TypeOK
<1>1. IInv => TypeOK
  BY DEF IInv
<1> QED
  BY <1>1, Invariance, PTL

\* The valid handles on a stream are those of the sketch's objects.
LEMMA SketchOwners ==
  ASSUME TypeOK, NEW p \in Slots
  PROVE  Owners(World, p) = {h \in Handles : ptr[h] = p /\ Valid(World, h)}
<1>1. ptr[Tmp] = Null /\ ptr[Ret] = Null /\ p # Null
  BY DEF TypeOK, Slots, Null
<1> QED
  BY <1>1, WorldFields DEF Owners, Valid, AllHandles

\* While no serial id was given twice, refCount of every stream is the number of
\* valid handles on it, and a stream in use has one: nothing is freed early or
\* leaked, whatever is copied, moved, reassigned or destroyed.
THEOREM RefCountsCorrect == Spec => []RefCountExact
<1>1. IInv => RefCountExact
  <2> SUFFICES ASSUME IInv, NoWrap, NEW p \in Slots
               PROVE  /\ pool[p].refCount = Cardinality({h \in Handles : ptr[h] = p /\ Valid(World, h)})
                      /\ pool[p].serialId # 0 => pool[p].refCount > 0
    BY DEF RefCountExact
  <2> QED
    BY SketchOwners, WorldFields DEF IInv, WF, CountsOK
<1> QED
  BY <1>1, Invariance, PTL

\* While no serial id was given twice, every open connection of the driver is
\* referred to by an object: when the last one lets go it is closed.
THEOREM NothingOrphaned == Spec => []NoOrphan
<1>1. IInv => NoOrphan
  <2> SUFFICES ASSUME IInv, NoWrap, NEW c \in open
               PROVE  \E h \in Handles : Valid(World, h) /\ pool[ptr[h]].linkId = c
    BY DEF NoOrphan, ClosedWhenUnreferenced
  <2>1. PICK p \in Slots : pool[p].linkId = c /\ c # NoLink
    BY WorldFields DEF IInv, WF, LinksOK
  <2>2. pool[p].serialId # 0
    <3>1. Blank(pool[p].kind).linkId = NoLink
      BY DEF Blank
    <3>2. pool[p].serialId = 0 => pool[p] = Blank(pool[p].kind)
      BY WorldFields DEF IInv, WF, SlotsOK
    <3> QED
      BY <2>1, <3>1, <3>2
  <2>3. Cardinality(Owners(World, p)) > 0
    BY <2>2, WorldFields DEF IInv, WF, CountsOK
  <2>4. Owners(World, p) # {}
    BY <2>3, FS_EmptySet
  <2>5. PICK h \in Handles : ptr[h] = p /\ Valid(World, h)
    BY <2>4, SketchOwners DEF IInv
  <2> QED
    BY <2>1, <2>5
<1> QED
  BY <1>1, Invariance, PTL

\* While no serial id was given twice, a stream that waits in the pool carries
\* nothing of its earlier life.
THEOREM FreedStreamsClean == Spec => []FreedIsClean
<1>1. IInv => FreedIsClean
  BY WorldFields DEF IInv, WF, SlotsOK, FreedIsClean
<1> QED
  BY <1>1, Invariance, PTL

\* While no serial id was given twice, a handle that was left on an earlier life
\* of a stream never becomes valid again, and none is moved to a connection it
\* was not made for.
THEOREM StaleHandlesStayStale == Spec => StaleStaysStale
<1> DEFINE Stays ==
      NoWrap' => \A h \in Handles :
        ptr[h] # Null /\ ptr'[h] = ptr[h] /\ sid'[h] = sid[h] /\ Valid(World, h)' =>
          /\ Valid(World, h)
          /\ pool'[ptr[h]].linkId \in {pool[ptr[h]].linkId, NoLink}
<1>1. IInv /\ Next => Stays
  <2> SUFFICES ASSUME IInv, Next, NoWrap', NEW h \in Handles, ptr[h] # Null,
                      ptr'[h] = ptr[h], sid'[h] = sid[h], Valid(World, h)'
               PROVE  /\ Valid(World, h)
                      /\ pool'[ptr[h]].linkId \in {pool[ptr[h]].linkId, NoLink}
    OBVIOUS
  <2> DEFINE p == ptr[h]
  <2>1. NoWrap /\ Later(World, World') /\ WF(World, {})
    BY NextInvariant DEF IInv
  <2>2. h \in AllHandles /\ World \in Worlds /\ World.ptr[h] = p
    BY HandleNames, WorldFields DEF IInv, TypeOK
  <2>3. p \in Slots
    BY <2>2 DEF Worlds, Slots, Null
  <2>4. sid[h] # 0 /\ sid[h] <= serialId /\ sid[h] \in Nat /\ serialId \in Nat
    BY <2>1, <2>2, WorldFields DEF WF, PointersOK, SerialsOK, Worlds, Serials
  <2>5. World'.pool[p].serialId = sid[h] /\ World'.pool = pool'
    BY DEF Valid, World
  <2>6. World.pool[p].serialId = sid[h] /\ pool'[p].linkId \in {pool[p].linkId, NoLink}
    BY <2>1, <2>3, <2>4, <2>5, WorldFields DEF Later
  <2> QED
    BY <2>2, <2>6, WorldFields DEF Valid
<1>2. IInv /\ [Next]_vars => Stays \/ UNCHANGED vars
  BY <1>1
<1> QED
  BY <1>2, Invariance, PTL DEF Spec, StaleStaysStale
=============================================================================
