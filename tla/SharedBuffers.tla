---------------------------- MODULE SharedBuffers ----------------------------
(***************************************************************************)
(* The pool of buffer streams (WiFiEspAtBuffManager) and the reference     *)
(* counted handles on them (WiFiEspAtSharedBuffStreamPtr), driven by the   *)
(* operations of WiFiClient and WiFiUDP.                                   *)
(*                                                                         *)
(* A sketch never frees a stream by hand.  A handle is a pair (pointer,    *)
(* serial id); it is valid while the stream it points to still has that    *)
(* serial id.  A stream that is freed gets serial id 0, and a new one when *)
(* it is handed out again, so the handles left on its earlier life become  *)
(* invalid at once without being visited.                                  *)
(*                                                                         *)
(* One C++ operation is one action.  Several special members run inside an *)
(* operation (a temporary is built, moved from and destroyed), so they are *)
(* operators from worlds to worlds: a world W is the whole state as a      *)
(* record, and an action computes the world it leaves behind.              *)
(*                                                                         *)
(* The driver is seen from above: `open` is the set of connections for     *)
(* which EspAtDrv.connected() answers true.  A connection is named by the  *)
(* number of the request it was made for, never used twice, which stands   *)
(* for the pair (AT link, serial id of the link).                          *)
(***************************************************************************)
EXTENDS Integers, FiniteSets, FiniteSetsExt

CONSTANTS
  Handles,      \* the WiFiEspAtSharedBuffStreamPtr members of the sketch's objects
  Tmp,          \* the temporary built from the result of getBuffStream
  Ret,          \* the WiFiClient that accept() returns by value
  ClientKind,   \* buffer sizes of a WiFiClient stream
  UdpTxKind,    \* buffer sizes of a WiFiUDP transmit stream
  UdpRxKind,    \* buffer sizes of a WiFiUDP receive stream
  NoKind,       \* an empty place of the pool, pool[i] == nullptr
  KindOf,       \* the kind of stream each handle is used for
  PoolSize,     \* WIFIESPAT_LINKS_COUNT streams
  LinksCount,   \* LINKS_COUNT simultaneous connections
  SerialMod,    \* serial ids are counted modulo this, 256 for uint8_t
  MaxRequests   \* bound: calls of getBuffStream in a behaviour

Kinds == {ClientKind, UdpTxKind, UdpRxKind}
AllHandles == Handles \cup {Tmp, Ret}

ASSUME PoolAssumption == PoolSize \in Nat \ {0} /\ SerialMod \in Nat \ {0} /\ PoolSize + 1 < SerialMod
ASSUME HandlesAssumption ==
  /\ Tmp \notin Handles /\ Ret \notin Handles /\ Tmp # Ret
  /\ IsFiniteSet(AllHandles) /\ Cardinality(AllHandles) < 256
  /\ KindOf \in [Handles -> Kinds]
ASSUME KindsAssumption ==
  /\ ClientKind # UdpTxKind /\ ClientKind # UdpRxKind /\ UdpTxKind # UdpRxKind
  /\ NoKind \notin Kinds
ASSUME BoundAssumption == MaxRequests \in Nat /\ LinksCount \in Nat

Null   == 0                                    \* nullptr
NoLink == 0                                    \* WIFIESPAT_NO_LINK

Slots   == 1 .. PoolSize
Serials == 0 .. SerialMod - 1
Counts  == 0 .. 255                            \* uint8_t refCount

\* unread stands for rxBufferIndex < rxBufferLength
Stream == [serialId : Serials, refCount : Counts, linkId : Nat,
           unread : BOOLEAN, kind : Kinds \cup {NoKind}]

VARIABLES
  pool,      \* WiFiEspAtBuffManager.pool
  ptr, sid,  \* the pointer and the serial id of every handle
  serialId,  \* WiFiEspAtBuffManager.serialId
  open,      \* connections the driver holds open for the sketch
  requests   \* history: calls of getBuffStream so far

vars == <<pool, ptr, sid, serialId, open, requests>>

World == [pool |-> pool, ptr |-> ptr, sid |-> sid, serialId |-> serialId,
          open |-> open, requests |-> requests]

Worlds == [pool : [Slots -> Stream], ptr : [AllHandles -> 0 .. PoolSize],
           sid : [AllHandles -> Serials], serialId : Serials,
           open : SUBSET Nat, requests : Nat]

\* The step to the world W.
Become(W) ==
  /\ pool' = W.pool /\ ptr' = W.ptr /\ sid' = W.sid
  /\ serialId' = W.serialId /\ open' = W.open /\ requests' = W.requests

\* The world W with one field of a stream, or the pointer of a handle, replaced.
SetStream(W, p, s)   == [W EXCEPT !.pool[p] = s]
SetRefCount(W, p, n) == [W EXCEPT !.pool[p].refCount = n]
SetLink(W, p, l)     == [W EXCEPT !.pool[p].linkId = l]
SetUnread(W, p, b)   == [W EXCEPT !.pool[p].unread = b]
SetPtr(W, h, x)      == [W EXCEPT !.ptr[h] = x]
SetSid(W, h, x)      == [W EXCEPT !.sid[h] = x]

-----------------------------------------------------------------------------
(* The stream: free, close, and noticing that the link is gone.            *)

Blank(k) == [serialId |-> 0, refCount |-> 0, linkId |-> NoLink, unread |-> FALSE, kind |-> k]

\* operator bool: the handle refers to a stream in the life it was made for
Valid(W, h) == W.ptr[h] # Null /\ W.pool[W.ptr[h]].serialId = W.sid[h]

\* the valid handles on the stream at p
Owners(W, p) == {h \in AllHandles : W.ptr[h] = p /\ W.sid[h] = W.pool[p].serialId}

\* mutant: the receive buffer is not reset
FreeKeepsBytes(W, p) ==
  SetStream(W, p, [Blank(W.pool[p].kind) EXCEPT !.unread = W.pool[p].unread])

Free(W, p) ==
  IF W.pool[p].serialId = 0 THEN W
  ELSE SetStream(W, p, Blank(W.pool[p].kind))

CloseLink(W, l) == [W EXCEPT !.open = @ \ {l}]

\* mutant: the driver is not told
CloseKeepsLink(W, p) == Free(W, p)

Close(W, p) == Free(CloseLink(W, W.pool[p].linkId), p)

\* linkId = NO_LINK; available(), which frees a stream with nothing to read
LoseLink(W, p) ==
  LET V == SetLink(W, p, NoLink)
  IN  IF V.pool[p].unread THEN V ELSE Free(V, p)

LinkGone(W, p) == W.pool[p].linkId # NoLink /\ W.pool[p].linkId \notin W.open

-----------------------------------------------------------------------------
(* The special members of the handle.                                      *)

CheckValid(W, h) == IF Valid(W, h) THEN W ELSE SetPtr(W, h, Null)

IncreaseRefCount(W, h) ==
  LET p == W.ptr[h] IN
  IF Valid(W, h) THEN SetRefCount(W, p, (W.pool[p].refCount + 1) % 256)
  ELSE SetPtr(W, h, Null)

\* The pointer that decreaseRefCount() leaves is overwritten by the assignment
\* operators and ends with the object in the destructor: it is Null here.
DecreaseRefCount(W, h) ==
  LET p == W.ptr[h]
      V == SetPtr(W, h, Null)
  IN  IF ~ Valid(W, h) THEN V
      ELSE IF W.pool[p].refCount = 1 THEN Close(SetRefCount(V, p, 0), p)
      ELSE SetRefCount(V, p, (W.pool[p].refCount + 255) % 256)

\* the destructor; the handle can then be constructed again
Destroy(W, h) == SetSid(DecreaseRefCount(W, h), h, 0)

\* mutant: the copy is not counted
CopyUncounted(W, h, g) == SetSid(SetPtr(W, h, W.ptr[g]), h, W.sid[g])

\* the copy constructor: ptr and serialId are copied whatever they are
CopyConstruct(W, h, g) ==
  IncreaseRefCount(SetSid(SetPtr(W, h, W.ptr[g]), h, W.sid[g]), h)

\* the move constructor: only the pointer of the source is reset
MoveConstruct(W, h, g) ==
  SetPtr(SetSid(SetPtr(W, h, W.ptr[g]), h, W.sid[g]), g, Null)

\* the test of both assignment operators, after checkValid()
Differ(W, h, g) == CheckValid(W, h).ptr[h] # W.ptr[g] /\ W.sid[h] # W.sid[g]

CopyAssign(W, h, g) ==
  IF Differ(W, h, g) THEN CopyConstruct(DecreaseRefCount(W, h), h, g) ELSE CheckValid(W, h)

MoveAssign(W, h, g) ==
  IF Differ(W, h, g) THEN MoveConstruct(DecreaseRefCount(W, h), h, g) ELSE CheckValid(W, h)

\* stream = nullptr: an empty temporary is moved in
AssignNull(W, h) == Destroy(MoveAssign(W, h, Tmp), Tmp)

-----------------------------------------------------------------------------
(* The manager.                                                            *)

\* how many increments of the counter c lead to s, wrapping at SerialMod
Ahead(c, s) == IF s > c THEN s - c ELSE s - c + SerialMod

\* mutant: the lowest serial id that is not in use
NextSerialLowest(W) == Min(Serials \ ({W.pool[i].serialId : i \in Slots} \cup {0}))

\* nextSerialId: the first following serial that no stream of the pool has
NextSerial(W) ==
  LET taken == {W.pool[i].serialId : i \in {j \in Slots : W.pool[j].kind # NoKind}}
  IN  CHOOSE s \in Serials \ taken :
        \A t \in Serials \ taken : Ahead(W.serialId, s) <= Ahead(W.serialId, t)

Reusable(W, k) == {i \in Slots : W.pool[i].kind = k /\ W.pool[i].serialId = 0}
Unallocated(W) == {i \in Slots : W.pool[i].kind = NoKind}

\* The slot getBuffStream takes: a freed stream with these buffer sizes, or
\* the first empty place of the pool; Null when there is neither.
SlotFor(W, k) ==
  IF Reusable(W, k) # {} THEN Min(Reusable(W, k))
  ELSE IF Unallocated(W) # {} THEN Min(Unallocated(W)) ELSE Null

\* Tmp is constructed from getBuffStream(l, sizes of k).  The reference count
\* of the stream is incremented from what it is.
GetBuffStream(W, l, k) ==
  LET p == SlotFor(W, k)
      s == NextSerial(W)
      V == [W EXCEPT !.requests = @ + 1]
      U == SetStream([V EXCEPT !.serialId = s], p,
                     [W.pool[p] EXCEPT !.serialId = s, !.linkId = l, !.kind = k])
  IN  IF p = Null THEN V
      ELSE IncreaseRefCount(SetSid(SetPtr(U, Tmp, p), Tmp, s), Tmp)

\* mutant: the temporary outlives the operation
TakeStreamKeepsTemporary(W, x, l, k) == MoveAssign(GetBuffStream(W, l, k), x, Tmp)

\* x = WiFiEspAtBuffManager.getBuffStream(...): the temporary is moved, then destroyed
TakeStream(W, x, l, k) == Destroy(MoveAssign(GetBuffStream(W, l, k), x, Tmp), Tmp)

\* mutant: the link is left open when there is no stream
TakeStreamOnly(W, x, l, k) == TakeStream(W, x, l, k)

\* if (!stream) EspAtDrv.close(linkId);
TakeStreamOrClose(W, x, l, k) ==
  LET V == TakeStream(W, x, l, k) IN IF Valid(V, x) THEN V ELSE CloseLink(V, l)

-----------------------------------------------------------------------------
(* The operations of the sketch.                                           *)

NewConnection == requests + 1
OpenLink(W) == [W EXCEPT !.open = @ \cup {NewConnection}]
CanOpen(W)  == requests < MaxRequests /\ Cardinality(W.open) < LinksCount

\* WiFiClient::stop and abort, WiFiUDP::endPacket; also a connect or beginPacket
\* that the driver refuses, on an object that has a stream
StopWorld(W, h) == IF Valid(W, h) THEN AssignNull(Close(W, W.ptr[h]), h) ELSE W

Stop(h) == KindOf[h] # UdpRxKind /\ Valid(World, h) /\ Become(StopWorld(World, h))

\* WiFiClient::connect, WiFiUDP::beginPacket of an object that is not listening
Connect(h) ==
  LET W == StopWorld(World, h) IN
  /\ KindOf[h] # UdpRxKind
  /\ CanOpen(W)
  /\ Become(TakeStreamOrClose(OpenLink(W), h, NewConnection, KindOf[h]))

\* h = server.accept(): a new WiFiClient is built for the link and moved into h
Accept(h) ==
  LET W == TakeStreamOrClose(OpenLink(World), Ret, NewConnection, ClientKind) IN
  /\ KindOf[h] = ClientKind
  /\ CanOpen(World)
  /\ Become(Destroy(MoveAssign(W, h, Ret), Ret))

\* h = WiFiClient(), and h = server.accept() with nobody waiting
Clear(h) == Become(AssignNull(World, h))

\* the object goes out of scope
Drop(h) == Become(Destroy(World, h))

\* h = g
Copy(h, g) == h # g /\ KindOf[h] = KindOf[g] /\ Become(CopyAssign(World, h, g))
\* h = std::move(g)
Move(h, g) == h # g /\ KindOf[h] = KindOf[g] /\ Become(MoveAssign(World, h, g))
\* a new object h initialized with g, or with std::move(g)
NewCopy(h, g) ==
  /\ h # g /\ KindOf[h] = KindOf[g] /\ ptr[h] = Null /\ sid[h] = 0
  /\ Become(CopyConstruct(World, h, g))
NewMoved(h, g) ==
  /\ h # g /\ KindOf[h] = KindOf[g] /\ ptr[h] = Null /\ sid[h] = 0
  /\ Become(MoveConstruct(World, h, g))

\* WiFiClient::connected, where it returns false or drops the link number
Connected(h) ==
  LET p == ptr[h]
      W == IF LinkGone(World, p) THEN LoseLink(World, p) ELSE World IN
  /\ KindOf[h] = ClientKind /\ Valid(World, h)
  /\ W.pool[p].linkId = NoLink
  /\ Become(IF Valid(W, h) /\ W.pool[p].unread THEN W ELSE AssignNull(Free(W, p), h))

\* status, and a write or flush that finds the link not active
Notice(h) ==
  /\ KindOf[h] # UdpRxKind /\ Valid(World, h)
  /\ LinkGone(World, ptr[h])
  /\ Become(LoseLink(World, ptr[h]))

\* available, read and peek, where nothing is left to read and no link to ask
Available(h) ==
  /\ KindOf[h] # UdpTxKind /\ Valid(World, h)
  /\ ~ pool[ptr[h]].unread
  /\ pool[ptr[h]].linkId = NoLink \/ LinkGone(World, ptr[h])
  /\ Become(LoseLink(World, ptr[h]))

\* fillRXbuffer from a connection with data
Fill(h) ==
  /\ KindOf[h] = ClientKind /\ Valid(World, h)
  /\ pool[ptr[h]].linkId \in open /\ ~ pool[ptr[h]].unread
  /\ Become(SetUnread(World, ptr[h], TRUE))

\* read of the last byte of the buffer
ReadOut(h) ==
  /\ KindOf[h] # UdpTxKind /\ Valid(World, h) /\ pool[ptr[h]].unread
  /\ Become(SetUnread(World, ptr[h], FALSE))

\* WiFiUDP::parsePacket: the last packet is freed, the next is received into a
\* new stream that has no link; when nothing comes of it, it is freed again
LastPacketFreed(h) ==
  IF Valid(World, h) THEN AssignNull(Free(World, ptr[h]), h) ELSE World
NoPacket(h) ==
  KindOf[h] = UdpRxKind /\ Valid(World, h) /\ Become(LastPacketFreed(h))
PacketWorld(h, got) ==
  LET W == TakeStream(LastPacketFreed(h), h, NoLink, UdpRxKind) IN
  IF ~ Valid(W, h) THEN W
  ELSE IF got THEN SetUnread(W, W.ptr[h], TRUE) ELSE Free(W, W.ptr[h])
ParsePacket(h) ==
  /\ KindOf[h] = UdpRxKind /\ requests < MaxRequests
  /\ \E got \in BOOLEAN : Become(PacketWorld(h, got))

\* the driver learns that the connection c is closed
PeerClose(c) == c \in open /\ Become(CloseLink(World, c))

-----------------------------------------------------------------------------
Init ==
  /\ pool = [i \in Slots |-> Blank(NoKind)]
  /\ ptr = [h \in AllHandles |-> Null] /\ sid = [h \in AllHandles |-> 0]
  /\ serialId = 0 /\ open = {} /\ requests = 0

HandleStep(h) ==
  \/ Stop(h) \/ Connect(h) \/ Accept(h) \/ Clear(h) \/ Drop(h)
  \/ Connected(h) \/ Notice(h) \/ Available(h) \/ Fill(h) \/ ReadOut(h)
  \/ NoPacket(h) \/ ParsePacket(h)
  \/ \E g \in Handles : Copy(h, g) \/ Move(h, g) \/ NewCopy(h, g) \/ NewMoved(h, g)

Next == (\E h \in Handles : HandleStep(h)) \/ (\E c \in open : PeerClose(c))

Spec == Init /\ [][Next]_vars

-----------------------------------------------------------------------------
(* What must hold.  Everything but the types is claimed while no serial id *)
(* has been given twice.                                                   *)

NoWrap == requests < SerialMod

\* The state has its types, and no temporary survives an operation.
TypeOK == World \in Worlds /\ \A t \in {Tmp, Ret} : ptr[t] = Null /\ sid[t] = 0

\* refCount is the number of valid handles, and a stream in use has at least
\* one: no stream is freed under a handle and none is leaked
\* (increaseRefCount, decreaseRefCount, free).
RefCountExact ==
  NoWrap => \A p \in Slots :
    /\ pool[p].refCount = Cardinality({h \in Handles : ptr[h] = p /\ Valid(World, h)})
    /\ pool[p].serialId # 0 => pool[p].refCount > 0

\* Every connection the driver holds open for the sketch can be reached by a
\* handle; README.md: "it closes the connection as soon as no WiFiClient object
\* references it".
ClosedWhenUnreferenced ==
  \A c \in open : \E h \in Handles : Valid(World, h) /\ pool[ptr[h]].linkId = c

\* It holds while no serial id has been given twice.
NoOrphan == NoWrap => ClosedWhenUnreferenced

\* A freed stream carries nothing over to its next user: no link, no unread
\* bytes, no references (free, getBuffStream).
FreedIsClean ==
  NoWrap => \A p \in Slots : pool[p].serialId = 0 => pool[p] = Blank(pool[p].kind)

\* A handle that keeps its pointer and serial id is never moved to another
\* connection, and never becomes valid again after it was invalid: an old copy
\* cannot interfere with a later connection in the same buffer.
StaleStaysStale ==
  [][NoWrap' => \A h \in Handles :
       ptr[h] # Null /\ ptr'[h] = ptr[h] /\ sid'[h] = sid[h] /\ Valid(World, h)' =>
         /\ Valid(World, h)
         /\ pool'[ptr[h]].linkId \in {pool[ptr[h]].linkId, NoLink}]_vars

-----------------------------------------------------------------------------
(* The promise to the sketch: connections owned by objects.                *)

Owner == [h \in Handles |-> IF Valid(World, h) THEN pool[ptr[h]].linkId ELSE NoLink]

Abstract == INSTANCE Ownership WITH owner <- Owner, open <- open, Objects <- Handles, None <- NoLink
OwnershipSpec == Abstract!Spec
=============================================================================
