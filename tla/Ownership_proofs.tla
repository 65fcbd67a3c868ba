--------------------------- MODULE Ownership_proofs ---------------------------
(***************************************************************************)
(* The pool of buffer streams implements Ownership: with the buffers, the  *)
(* reference counts and the serial ids taken away, every operation of the  *)
(* sketch's objects is one of the steps that WiFiClient promises, or no    *)
(* step at all.                                                            *)
(*                                                                         *)
(* What a handle owns depends on its stream alone, so the proof asks of    *)
(* every operator from worlds to worlds what each handle holds afterwards  *)
(* and which connections were closed, and composes the answers.            *)
(***************************************************************************)
EXTENDS SharedBuffers_proofs

-----------------------------------------------------------------------------
(* What the handles hold.                                                  *)

\* The connection of the stream the handle refers to.
Holds(W, h) == IF Valid(W, h) THEN W.pool[W.ptr[h]].linkId ELSE NoLink

Same(W, V) == V.open = W.open /\ \A f \in AllHandles : Holds(V, f) = Holds(W, f)

\* Nothing is closed but what h held, and nobody holds that any more.
Closes(W, V, h) ==
  /\ V.open \subseteq W.open
  /\ \A c \in W.open \ V.open : c = Holds(W, h) /\ \A f \in AllHandles : Holds(V, f) # c

\* h holds x in place of what it held.
Takes(W, V, h, x) ==
  /\ \A f \in AllHandles : f # h => Holds(V, f) = Holds(W, f)
  /\ Holds(V, h) = x /\ Closes(W, V, h)

\* h holds what g held, and g nothing.
Moves(W, V, h, g) ==
  /\ \A f \in AllHandles : f # h /\ f # g => Holds(V, f) = Holds(W, f)
  /\ Holds(V, h) = Holds(W, g) /\ Holds(V, g) = NoLink /\ Closes(W, V, h)

\* The connection l is taken from every handle.
Cut(W, V, l) == \A f \in AllHandles : Holds(V, f) = IF Holds(W, f) = l THEN NoLink ELSE Holds(W, f)

\* A valid handle refers to a stream in use.
LEMMA ValidHolds ==
  ASSUME NEW P, NEW W, WF(W, P), NEW h \in AllHandles, Valid(W, h)
  PROVE  /\ W.ptr[h] \in Slots /\ W.pool[W.ptr[h]].serialId = W.sid[h] /\ W.sid[h] # 0
         /\ Holds(W, h) = W.pool[W.ptr[h]].linkId
<1>1. W \in Worlds /\ W.ptr[h] # Null
  BY DEF WF, Valid
<1>2. W.ptr[h] \in Slots
  BY <1>1, ValidOwner
<1> QED
  BY <1>1, <1>2 DEF WF, PointersOK, Valid, Holds

\* A handle left alone, on a stream left alone, holds what it held.
LEMMA HoldsKept ==
  ASSUME NEW W, NEW V, NEW f \in AllHandles, V.ptr[f] = W.ptr[f], V.sid[f] = W.sid[f],
         W.ptr[f] # Null => /\ V.pool[W.ptr[f]].serialId = W.pool[W.ptr[f]].serialId
                            /\ V.pool[W.ptr[f]].linkId = W.pool[W.ptr[f]].linkId
  PROVE  Holds(V, f) = Holds(W, f) /\ (Valid(V, f) <=> Valid(W, f))
BY DEF Holds, Valid

\* No connection has two streams, and none that waits for a stream has one.
LEMMA HeldOnce ==
  ASSUME NEW P, NEW W, WF(W, P), NEW h \in AllHandles
  PROVE  /\ Holds(W, h) \in Nat /\ Holds(W, h) <= W.requests /\ Holds(W, h) \notin P
         /\ \A p \in Slots : W.pool[p].linkId # NoLink /\ Holds(W, h) = W.pool[p].linkId
              => Valid(W, h) /\ W.ptr[h] = p
<1>1. CASE ~ Valid(W, h)
  BY <1>1 DEF Holds, WF, LinksOK, NoLink, Worlds
<1>2. CASE Valid(W, h)
  <2>1. W.ptr[h] \in Slots /\ Holds(W, h) = W.pool[W.ptr[h]].linkId
    BY <1>2, ValidHolds
  <2>2. W.pool[W.ptr[h]] \in Stream
    BY <2>1 DEF WF, Worlds
  <2>3. W.pool[W.ptr[h]].linkId \in Nat
    BY <2>2 DEF Stream
  <2> QED
    BY <1>2, <2>1, <2>3 DEF WF, LinksOK
<1> QED
  BY <1>1, <1>2

\* Every open connection that does not wait for a stream is held.
LEMMA OpenHeld ==
  ASSUME NEW P, NEW W, WF(W, P), NEW c \in W.open
  PROVE  c # NoLink /\ (c \in P \/ \E h \in AllHandles : Holds(W, h) = c)
<1>1. c # NoLink
  BY DEF WF, LinksOK
<1>2. SUFFICES ASSUME c \notin P PROVE \E h \in AllHandles : Holds(W, h) = c
  BY <1>1
<1>3. PICK p \in Slots : W.pool[p].linkId = c
  BY <1>2 DEF WF, LinksOK
<1>4. W.pool[p].serialId # 0
  <2>1. Blank(W.pool[p].kind).linkId = NoLink
    BY DEF Blank
  <2> QED
    BY <1>1, <1>3, <2>1 DEF WF, SlotsOK
<1>5. Owners(W, p) # {}
  BY <1>4, FS_EmptySet DEF WF, CountsOK
<1>6. PICK h \in Owners(W, p) : TRUE
  BY <1>5
<1>7. W \in Worlds /\ h \in AllHandles /\ Valid(W, h) /\ W.ptr[h] = p
  BY <1>6, ValidOwner DEF WF, Owners
<1> QED
  BY <1>3, <1>7 DEF Holds

\* Nothing is closed unless it was held.
LEMMA SameTakes ==
  ASSUME NEW W, NEW V, Same(W, V), NEW h \in AllHandles
  PROVE  Takes(W, V, h, Holds(W, h))
BY DEF Same, Takes, Closes

\* A handle that holds nothing closes nothing when it takes something.
LEMMA NothingClosed ==
  ASSUME NEW P, NEW W, WF(W, P), NEW V, NEW h \in AllHandles, Closes(W, V, h), Holds(W, h) = NoLink
  PROVE  V.open = W.open
BY OpenHeld DEF Closes

\* Equal worlds, then a change.
LEMMA TakesOfSame ==
  ASSUME NEW W, NEW V, NEW U, NEW h \in AllHandles, NEW x, Same(W, V), Takes(V, U, h, x)
  PROVE  Takes(W, U, h, x)
BY DEF Same, Takes, Closes

LEMMA SameOfTakes ==
  ASSUME NEW W, NEW V, NEW U, NEW h \in AllHandles, NEW x, Takes(W, V, h, x), Same(V, U)
  PROVE  Takes(W, U, h, x)
BY DEF Same, Takes, Closes

-----------------------------------------------------------------------------
(* The stream.                                                             *)

\* free() takes the connection of the stream from every handle.
LEMMA FreedCut ==
  ASSUME NEW P, NEW W, WF(W, P), NEW p \in Slots, NEW V,
         \A f \in AllHandles : V.ptr[f] = W.ptr[f] /\ V.sid[f] = W.sid[f],
         V.pool[p] = Blank(W.pool[p].kind),
         \A q \in Slots : q # p => V.pool[q] = W.pool[q]
  PROVE  Cut(W, V, W.pool[p].linkId)
<1> SUFFICES ASSUME NEW f \in AllHandles
             PROVE  Holds(V, f) = IF Holds(W, f) = W.pool[p].linkId THEN NoLink ELSE Holds(W, f)
  BY DEF Cut
<1>1. V.pool[p].serialId = 0
  BY DEF Blank
<1>2. W.ptr[f] \in Slots \cup {Null} /\ (W.ptr[f] # Null => W.sid[f] # 0)
  BY DEF WF, PointersOK, Worlds, Slots, Null
<1>3. CASE W.ptr[f] = p
  <2>1. Holds(V, f) = NoLink
    BY <1>1, <1>2, <1>3 DEF Holds, Valid
  <2>2. Holds(W, f) = W.pool[p].linkId \/ Holds(W, f) = NoLink
    BY <1>3 DEF Holds
  <2> QED
    BY <2>1, <2>2
<1>4. CASE W.ptr[f] # p
  <2>1. Holds(V, f) = Holds(W, f)
    BY <1>2, <1>4, HoldsKept
  <2>2. Holds(W, f) = W.pool[p].linkId => W.pool[p].linkId = NoLink
    BY <1>4, HeldOnce
  <2> QED
    BY <2>1, <2>2
<1> QED
  BY <1>3, <1>4

\* free() closes nothing.
LEMMA FreeCut ==
  ASSUME NEW P, NEW W, WF(W, P), NEW p \in Slots
  PROVE  Cut(W, Free(W, p), W.pool[p].linkId) /\ Free(W, p).open = W.open
<1>0. W \in Worlds
  BY DEF WF
<1>1. CASE W.pool[p].serialId = 0
  <2>1. Free(W, p) = W
    BY <1>1 DEF Free
  <2>2. W.pool[p].linkId = NoLink
    <3>1. Blank(W.pool[p].kind).linkId = NoLink
      BY DEF Blank
    <3> QED
      BY <1>1, <3>1 DEF WF, SlotsOK
  <2> QED
    BY <2>1, <2>2 DEF Cut
<1>2. CASE W.pool[p].serialId # 0
  <2> DEFINE V == Free(W, p)
  <2>1. /\ V.ptr = W.ptr /\ V.sid = W.sid /\ V.open = W.open
        /\ V.pool[p] = Blank(W.pool[p].kind)
        /\ \A q \in Slots : q # p => V.pool[q] = W.pool[q]
    BY <1>0, <1>2, FreeFields
  <2> HIDE DEF V
  <2>2. Cut(W, V, W.pool[p].linkId)
    BY <2>1, FreedCut
  <2> QED
    BY <2>1, <2>2 DEF V
<1> QED
  BY <1>1, <1>2

\* close() closes the connection besides.
LEMMA CloseCut ==
  ASSUME NEW P, NEW W, WF(W, P), NEW p \in Slots, W.pool[p].serialId # 0
  PROVE  Cut(W, Close(W, p), W.pool[p].linkId) /\ Close(W, p).open = W.open \ {W.pool[p].linkId}
<1> DEFINE V == Close(W, p)
<1>1. /\ V.ptr = W.ptr /\ V.sid = W.sid /\ V.open = W.open \ {W.pool[p].linkId}
      /\ V.pool[p] = Blank(W.pool[p].kind)
      /\ \A q \in Slots : q # p => V.pool[q] = W.pool[q]
  BY CloseFields DEF WF
<1> HIDE DEF V
<1>2. Cut(W, V, W.pool[p].linkId)
  BY <1>1, FreedCut
<1> QED
  BY <1>1, <1>2 DEF V

\* A stream that loses its link takes the connection from every handle.
LEMMA LoseLinkCut ==
  ASSUME NEW P, NEW W, WF(W, P), NEW p \in Slots, W.pool[p].serialId # 0
  PROVE  Cut(W, LoseLink(W, p), W.pool[p].linkId) /\ LoseLink(W, p).open = W.open
<1> DEFINE V == SetLink(W, p, NoLink)
           U == LoseLink(W, p)
<1>0. W \in Worlds /\ NoLink \in Nat
  BY DEF WF, NoLink
<1>1. /\ V \in Worlds /\ V.ptr = W.ptr /\ V.sid = W.sid /\ V.open = W.open
      /\ \A q \in Slots : q # p => V.pool[q] = W.pool[q]
      /\ V.pool[p].linkId = NoLink /\ V.pool[p].serialId = W.pool[p].serialId
      /\ V.pool[p].kind = W.pool[p].kind
  BY <1>0, SetLinkFields
<1>2. CASE V.pool[p].unread
  <2>1. U = V
    BY <1>2 DEF LoseLink
  <2> HIDE DEF U, V
  <2>2. ASSUME NEW f \in AllHandles
        PROVE  Holds(V, f) = IF Holds(W, f) = W.pool[p].linkId THEN NoLink ELSE Holds(W, f)
    <3>1. W.ptr[f] \in Slots \cup {Null}
      BY <1>0 DEF Worlds, Slots, Null
    <3>2. CASE W.ptr[f] = p
      BY <1>1, <3>2 DEF Holds, Valid
    <3>3. CASE W.ptr[f] # p
      <4>1. Holds(V, f) = Holds(W, f)
        BY <1>1, <3>1, <3>3, HoldsKept
      <4>2. Holds(W, f) = W.pool[p].linkId => W.pool[p].linkId = NoLink
        BY <3>3, HeldOnce
      <4> QED
        BY <4>1, <4>2
    <3> QED
      BY <3>2, <3>3
  <2> QED
    BY <1>1, <2>1, <2>2 DEF Cut, U
<1>3. CASE ~ V.pool[p].unread
  <2>1. U = Free(V, p)
    BY <1>3 DEF LoseLink
  <2> HIDE DEF V, U
  <2>2. /\ U.ptr = V.ptr /\ U.sid = V.sid /\ U.open = V.open
        /\ U.pool[p] = Blank(V.pool[p].kind)
        /\ \A q \in Slots : q # p => U.pool[q] = V.pool[q]
    BY <1>1, <2>1, FreeFields
  <2>3. Cut(W, U, W.pool[p].linkId)
    BY <1>1, <2>2, FreedCut
  <2> QED
    BY <1>1, <2>2, <2>3 DEF U
<1> QED
  BY <1>2, <1>3

-----------------------------------------------------------------------------
(* The handle.                                                             *)

\* A handle that points nowhere holds nothing.
LEMMA NullHolds ==
  ASSUME NEW W, NEW h, W.ptr[h] = Null
  PROVE  ~ Valid(W, h) /\ Holds(W, h) = NoLink
BY DEF Valid, Holds

\* decreaseRefCount: the handle holds nothing, and the last one to hold the
\* connection closes it.
LEMMA DecreaseTakes ==
  ASSUME NEW P, NEW W, WF(W, P), NEW h \in AllHandles
  PROVE  Takes(W, DecreaseRefCount(W, h), h, NoLink)
<1> DEFINE p == W.ptr[h]
           V == SetPtr(W, h, Null)
           D == DecreaseRefCount(W, h)
<1>1. /\ V \in Worlds /\ V.ptr[h] = Null /\ \A g \in AllHandles : g # h => V.ptr[g] = W.ptr[g]
      /\ V.pool = W.pool /\ V.sid = W.sid /\ V.open = W.open
  <2>1. Null \in 0 .. PoolSize
    BY PoolAssumption DEF Null
  <2> QED
    BY <2>1, SetPtrFields DEF WF
<1>2. \A f \in AllHandles : W.ptr[f] \in Slots \cup {Null}
  BY DEF WF, Worlds, Slots, Null
<1>3. ASSUME D.open = W.open, \A q \in Slots : /\ D.pool[q].serialId = W.pool[q].serialId
                                               /\ D.pool[q].linkId = W.pool[q].linkId,
             D.ptr = V.ptr, D.sid = V.sid
      PROVE  Takes(W, D, h, NoLink)
  <2> HIDE DEF D, V
  <2>1. ASSUME NEW f \in AllHandles, f # h PROVE Holds(D, f) = Holds(W, f)
    <3>1. D.ptr[f] = W.ptr[f] /\ D.sid[f] = W.sid[f]
      BY <1>1, <1>3, <2>1
    <3> QED
      BY <3>1, <1>2, <1>3, HoldsKept
  <2>2. Holds(D, h) = NoLink
    BY <1>1, <1>3, NullHolds
  <2> QED
    BY <1>3, <2>1, <2>2 DEF Takes, Closes
<1>4. CASE ~ Valid(W, h)
  <2>1. D = V
    BY <1>4 DEF DecreaseRefCount
  <2> HIDE DEF D, V
  <2>2. Takes(W, D, h, NoLink)
    BY <1>1, <1>3, <2>1
  <2> QED
    BY <2>2 DEF D
<1>5. CASE Valid(W, h)
  <2>1. /\ p \in Slots /\ W.pool[p].serialId = W.sid[h] /\ W.sid[h] # 0
        /\ Holds(W, h) = W.pool[p].linkId
    BY <1>5, ValidHolds
  <2>2. h \in Owners(W, p)
    BY <2>1 DEF Owners
  <2>3. W.pool[p].refCount = Cardinality(Owners(W, p)) /\ W.pool[p].refCount > 0
        /\ W.pool[p].refCount \in 0 .. 255
    BY <2>1 DEF WF, CountsOK, Worlds, Stream, Counts
  <2>4. CASE W.pool[p].refCount = 1
    <3> DEFINE U == SetRefCount(V, p, 0)
    <3>1. D = Close(U, p)
      BY <1>5, <2>4 DEF DecreaseRefCount
    <3> HIDE DEF V, D, p
    <3>2. /\ U.ptr = V.ptr /\ U.sid = V.sid /\ U.open = V.open /\ U \in Worlds
          /\ \A q \in Slots : q # p => U.pool[q] = V.pool[q]
          /\ U.pool[p].serialId = V.pool[p].serialId /\ U.pool[p].kind = V.pool[p].kind
          /\ U.pool[p].linkId = V.pool[p].linkId
      <4>1. V \in Worlds /\ p \in Slots /\ 0 \in Counts
        BY <1>1, <2>1 DEF Counts
      <4> QED
        BY <4>1, SetRefCountFields
    <3> HIDE DEF U
    <3>3. U.pool[p].serialId # 0 /\ U.pool[p].linkId = W.pool[p].linkId
          /\ U.pool[p].kind = W.pool[p].kind
      BY <1>1, <2>1, <3>2
    <3>4. /\ D.ptr = U.ptr /\ D.sid = U.sid /\ D.open = U.open \ {U.pool[p].linkId}
          /\ D.pool[p] = Blank(U.pool[p].kind)
          /\ \A q \in Slots : q # p => D.pool[q] = U.pool[q]
      BY <2>1, <3>1, <3>2, <3>3, CloseFields
    <3>5. /\ D.sid = W.sid /\ D.ptr[h] = Null /\ \A g \in AllHandles : g # h => D.ptr[g] = W.ptr[g]
          /\ D.open = W.open \ {W.pool[p].linkId} /\ D.pool[p].serialId = 0
          /\ \A q \in Slots : q # p => D.pool[q] = W.pool[q]
      BY <1>1, <3>2, <3>3, <3>4 DEF Blank
    <3>6. Owners(W, p) = {h}
      <4>1. IsFiniteSet(Owners(W, p)) /\ Cardinality(Owners(W, p)) = 1
        BY <2>3, <2>4, OwnersFinite DEF p
      <4> QED
        BY <4>1, <2>2, FS_Singleton
    <3>7. ASSUME NEW f \in AllHandles, f # h PROVE Holds(D, f) = Holds(W, f)
      <4>1. CASE W.ptr[f] = p
        <5>1. ~ Valid(W, f)
          BY <3>6, <3>7, <4>1 DEF Owners, Valid
        <5>2. W.sid[f] # 0
          BY <2>1, <4>1 DEF WF, PointersOK, Slots, Null
        <5>3. ~ Valid(D, f)
          BY <3>5, <3>7, <4>1, <5>2 DEF Valid
        <5> QED
          BY <5>1, <5>3 DEF Holds
      <4>2. CASE W.ptr[f] # p
        BY <1>2, <3>5, <3>7, <4>2, HoldsKept
      <4> QED
        BY <4>1, <4>2
    <3>8. Holds(D, h) = NoLink
      BY <3>5, NullHolds
    <3>9. ASSUME NEW f \in AllHandles, W.pool[p].linkId # NoLink PROVE Holds(D, f) # W.pool[p].linkId
      <4>1. CASE f = h
        BY <3>8, <3>9, <4>1
      <4>2. CASE f # h
        <5>1. Holds(W, f) = W.pool[p].linkId => Valid(W, f) /\ W.ptr[f] = p
          BY <2>1, <3>9, HeldOnce
        <5>2. f \notin Owners(W, p)
          BY <3>6, <4>2
        <5> QED
          BY <3>7, <4>2, <5>1, <5>2 DEF Owners, Valid
      <4> QED
        BY <4>1, <4>2
    <3>10. NoLink \notin W.open
      BY DEF WF, LinksOK
    <3>11. Closes(W, D, h)
      BY <2>1, <3>5, <3>9, <3>10 DEF Closes, p
    <3>12. Takes(W, D, h, NoLink)
      BY <3>7, <3>8, <3>11 DEF Takes
    <3> QED
      BY <3>12 DEF D
  <2>5. CASE W.pool[p].refCount # 1
    <3> DEFINE n == W.pool[p].refCount - 1
    <3>1. (W.pool[p].refCount + 255) % 256 = n
      BY <2>3
    <3>2. D = SetRefCount(V, p, n)
      BY <1>5, <2>5, <3>1 DEF DecreaseRefCount
    <3>3. n \in Counts
      BY <2>3, <2>5 DEF Counts
    <3> HIDE DEF V, D, p, n
    <3>4. /\ D.ptr = V.ptr /\ D.sid = V.sid /\ D.open = V.open
          /\ \A q \in Slots : q # p => D.pool[q] = V.pool[q]
          /\ D.pool[p].serialId = V.pool[p].serialId /\ D.pool[p].linkId = V.pool[p].linkId
      BY <1>1, <2>1, <3>2, <3>3, SetRefCountFields
    <3>5. \A q \in Slots : D.pool[q].serialId = W.pool[q].serialId /\ D.pool[q].linkId = W.pool[q].linkId
      BY <1>1, <3>4
    <3>6. Takes(W, D, h, NoLink)
      BY <1>1, <1>3, <3>4, <3>5
    <3> QED
      BY <3>6 DEF D
  <2> QED
    BY <2>4, <2>5
<1> QED
  BY <1>4, <1>5

\* checkValid takes nothing from any handle.
LEMMA CheckValidSame ==
  ASSUME NEW P, NEW W, WF(W, P), NEW h \in AllHandles
  PROVE  Same(W, CheckValid(W, h))
<1>1. CASE Valid(W, h)
  BY <1>1 DEF CheckValid, Same
<1>2. CASE ~ Valid(W, h)
  <2> DEFINE V == SetPtr(W, h, Null)
  <2>1. CheckValid(W, h) = V
    BY <1>2 DEF CheckValid
  <2>2. /\ V.ptr[h] = Null /\ \A g \in AllHandles : g # h => V.ptr[g] = W.ptr[g]
        /\ V.pool = W.pool /\ V.sid = W.sid /\ V.open = W.open
    <3>1. Null \in 0 .. PoolSize
      BY PoolAssumption DEF Null
    <3> QED
      BY <3>1, SetPtrFields DEF WF
  <2> HIDE DEF V
  <2>3. Holds(V, h) = Holds(W, h)
    BY <1>2, <2>2, NullHolds DEF Holds
  <2>4. \A f \in AllHandles : f # h => Holds(V, f) = Holds(W, f)
    BY <2>2, HoldsKept
  <2> QED
    BY <2>1, <2>2, <2>3, <2>4 DEF Same
<1> QED
  BY <1>1, <1>2

\* The destructor.
LEMMA DestroyTakes ==
  ASSUME NEW P, NEW W, WF(W, P), NEW h \in AllHandles
  PROVE  Takes(W, Destroy(W, h), h, NoLink)
<1> DEFINE D == DecreaseRefCount(W, h)
           V == SetSid(D, h, 0)
<1>1. Takes(W, D, h, NoLink) /\ WF(D, P) /\ D.ptr[h] = Null
  BY DecreaseTakes, DecreaseWF
<1>2. Destroy(W, h) = V
  BY DEF Destroy
<1> HIDE DEF D
<1>3. /\ V.ptr = D.ptr /\ V.pool = D.pool /\ V.open = D.open
      /\ \A g \in AllHandles : g # h => V.sid[g] = D.sid[g]
  <2>1. 0 \in Serials
    BY PoolAssumption DEF Serials
  <2> QED
    BY <1>1, <2>1, SetSidFields DEF WF
<1> HIDE DEF V
<1>4. Holds(V, h) = Holds(D, h)
  BY <1>1, <1>3, NullHolds
<1>5. \A f \in AllHandles : f # h => Holds(V, f) = Holds(D, f)
  BY <1>3, HoldsKept
<1>6. Same(D, V)
  BY <1>3, <1>4, <1>5 DEF Same
<1> QED
  BY <1>1, <1>2, <1>6, SameOfTakes

\* The copy constructor: both handles hold what the source held.
LEMMA CopyConstructTakes ==
  ASSUME NEW P, NEW W, WF(W, P), NEW h \in AllHandles, NEW g \in AllHandles, h # g, W.ptr[h] = Null
  PROVE  /\ Takes(W, CopyConstruct(W, h, g), h, Holds(W, g))
         /\ CopyConstruct(W, h, g).open = W.open
<1> DEFINE V == SetSid(SetPtr(W, h, W.ptr[g]), h, W.sid[g])
           C == CopyConstruct(W, h, g)
<1>1. /\ V \in Worlds /\ V.ptr[h] = W.ptr[g] /\ V.sid[h] = W.sid[g]
      /\ \A f \in AllHandles : f # h => V.ptr[f] = W.ptr[f] /\ V.sid[f] = W.sid[f]
      /\ V.pool = W.pool /\ V.open = W.open
  BY PointTo DEF WF
<1>2. C = IncreaseRefCount(V, h)
  BY DEF CopyConstruct
<1> HIDE DEF V
<1>3. \A f \in AllHandles : f # h => Holds(V, f) = Holds(W, f)
  BY <1>1, HoldsKept
<1>4. Holds(V, h) = Holds(W, g) /\ (Valid(V, h) <=> Valid(W, g))
  BY <1>1 DEF Holds, Valid
<1>5. Same(V, C)
  <2>1. CASE Valid(V, h)
    <3> DEFINE p == V.ptr[h]
               n == (V.pool[p].refCount + 1) % 256
    <3>1. p \in Slots
      BY <1>1, <2>1, ValidOwner
    <3>2. V.pool[p].refCount \in Nat
      BY SMTT(30), <1>1, <3>1 DEF Worlds, Stream, Counts
    <3>3. n \in Counts
      <4>1. \A m \in Nat : (m + 1) % 256 \in 0 .. 255
        OBVIOUS
      <4> QED
        BY <3>2, <4>1 DEF Counts
    <3>4. C = SetRefCount(V, p, n)
      BY <1>2, <2>1 DEF IncreaseRefCount
    <3> HIDE DEF p, n, C
    <3>5. /\ C.ptr = V.ptr /\ C.sid = V.sid /\ C.open = V.open
          /\ \A q \in Slots : q # p => C.pool[q] = V.pool[q]
          /\ C.pool[p].serialId = V.pool[p].serialId /\ C.pool[p].linkId = V.pool[p].linkId
      BY <1>1, <3>1, <3>3, <3>4, SetRefCountFields
    <3>6. \A f \in AllHandles : V.ptr[f] \in Slots \cup {Null}
      BY <1>1 DEF Worlds, Slots, Null
    <3>7. \A q \in Slots : C.pool[q].serialId = V.pool[q].serialId /\ C.pool[q].linkId = V.pool[q].linkId
      BY <3>5
    <3>8. \A f \in AllHandles : Holds(C, f) = Holds(V, f)
      BY <3>5, <3>6, <3>7, HoldsKept
    <3> QED
      BY <3>5, <3>8 DEF Same, C
  <2>2. CASE ~ Valid(V, h)
    <3>1. C = SetPtr(V, h, Null)
      BY <1>2, <2>2 DEF IncreaseRefCount
    <3> HIDE DEF C
    <3>2. /\ C.ptr[h] = Null /\ \A f \in AllHandles : f # h => C.ptr[f] = V.ptr[f]
          /\ C.pool = V.pool /\ C.sid = V.sid /\ C.open = V.open
      <4>1. Null \in 0 .. PoolSize
        BY PoolAssumption DEF Null
      <4> QED
        BY <1>1, <3>1, <4>1, SetPtrFields
    <3>3. Holds(C, h) = Holds(V, h)
      BY <2>2, <3>2, NullHolds DEF Holds
    <3>4. \A f \in AllHandles : f # h => Holds(C, f) = Holds(V, f)
      BY <3>2, HoldsKept
    <3> QED
      BY <3>2, <3>3, <3>4 DEF Same, C
  <2> QED
    BY <2>1, <2>2
<1> HIDE DEF C
<1>6. Takes(W, C, h, Holds(W, g)) /\ C.open = W.open
  BY <1>1, <1>3, <1>4, <1>5 DEF Takes, Closes, Same
<1> QED
  BY <1>6 DEF C

\* The move constructor: the source holds nothing any more.
LEMMA MoveConstructMoves ==
  ASSUME NEW P, NEW W, WF(W, P), NEW h \in AllHandles, NEW g \in AllHandles, h # g, W.ptr[h] = Null
  PROVE  /\ Moves(W, MoveConstruct(W, h, g), h, g)
         /\ MoveConstruct(W, h, g).open = W.open
<1> DEFINE M == MoveConstruct(W, h, g)
<1>1. /\ M.pool = W.pool /\ M.open = W.open
      /\ M.ptr[h] = W.ptr[g] /\ M.sid[h] = W.sid[g] /\ M.ptr[g] = Null
      /\ \A f \in AllHandles : f # h /\ f # g => M.ptr[f] = W.ptr[f]
      /\ \A f \in AllHandles : f # h => M.sid[f] = W.sid[f]
  BY MoveConstructWF
<1> HIDE DEF M
<1>2. \A f \in AllHandles : f # h /\ f # g => Holds(M, f) = Holds(W, f)
  BY <1>1, HoldsKept
<1>3. Holds(M, h) = Holds(W, g) /\ Holds(M, g) = NoLink
  BY <1>1 DEF Holds, Valid
<1>4. Moves(W, M, h, g) /\ M.open = W.open
  BY <1>1, <1>2, <1>3 DEF Moves, Closes
<1> QED
  BY <1>4 DEF M

\* Assignment: what an assignment does that takes effect, and what one that does
\* not.
LEMMA CopyAssignTakes ==
  ASSUME NEW P, NEW W, WF(W, P), NEW h \in AllHandles, NEW g \in AllHandles, h # g
  PROVE  \/ Same(W, CopyAssign(W, h, g))
         \/ Takes(W, CopyAssign(W, h, g), h, Holds(W, g))
<1>1. CASE ~ Differ(W, h, g)
  BY <1>1, CheckValidSame DEF CopyAssign
<1>2. CASE Differ(W, h, g)
  <2> DEFINE D == DecreaseRefCount(W, h)
             C == CopyConstruct(D, h, g)
  <2>1. CopyAssign(W, h, g) = C
    BY <1>2 DEF CopyAssign
  <2>2. Takes(W, D, h, NoLink) /\ WF(D, P) /\ D.ptr[h] = Null
    BY DecreaseTakes, DecreaseWF
  <2> HIDE DEF D
  <2>3. Takes(D, C, h, Holds(D, g)) /\ C.open = D.open
    BY <2>2, CopyConstructTakes
  <2> HIDE DEF C
  <2>4. Holds(D, g) = Holds(W, g)
    BY <2>2 DEF Takes
  <2>5. \A f \in AllHandles : \E e \in AllHandles : Holds(C, f) = Holds(D, e)
    BY <2>3 DEF Takes
  <2>6. Closes(W, C, h)
    BY <2>2, <2>3, <2>5 DEF Takes, Closes
  <2> QED
    BY <2>1, <2>2, <2>3, <2>4, <2>6 DEF Takes
<1> QED
  BY <1>1, <1>2

LEMMA MoveAssignMoves ==
  ASSUME NEW P, NEW W, WF(W, P), NEW h \in AllHandles, NEW g \in AllHandles, h # g
  PROVE  /\ Differ(W, h, g) => Moves(W, MoveAssign(W, h, g), h, g)
         /\ ~ Differ(W, h, g) => Same(W, MoveAssign(W, h, g))
<1>1. CASE ~ Differ(W, h, g)
  BY <1>1, CheckValidSame DEF MoveAssign
<1>2. CASE Differ(W, h, g)
  <2> DEFINE D == DecreaseRefCount(W, h)
             M == MoveConstruct(D, h, g)
  <2>1. MoveAssign(W, h, g) = M
    BY <1>2 DEF MoveAssign
  <2>2. Takes(W, D, h, NoLink) /\ WF(D, P) /\ D.ptr[h] = Null
    BY DecreaseTakes, DecreaseWF
  <2> HIDE DEF D
  <2>3. Moves(D, M, h, g) /\ M.open = D.open
    BY <2>2, MoveConstructMoves
  <2> HIDE DEF M
  <2>4. Holds(D, g) = Holds(W, g)
    BY <2>2 DEF Takes
  <2>5. \A f \in AllHandles : f # g => \E e \in AllHandles : Holds(M, f) = Holds(D, e)
    BY <2>3 DEF Moves
  <2>6. Holds(M, g) = Holds(D, h)
    BY <2>2, <2>3 DEF Takes, Moves
  <2>7. Closes(W, M, h)
    BY <2>2, <2>3, <2>5, <2>6 DEF Takes, Closes
  <2> QED
    BY <1>2, <2>1, <2>2, <2>3, <2>4, <2>7 DEF Takes, Moves
<1> QED
  BY <1>1, <1>2

\* A handle that holds nothing is destroyed without a trace.
LEMMA DestroyEmpty ==
  ASSUME NEW P, NEW W, WF(W, P), NEW t \in AllHandles, Holds(W, t) = NoLink
  PROVE  Same(W, Destroy(W, t))
<1>1. Takes(W, Destroy(W, t), t, NoLink)
  BY DestroyTakes
<1>2. Destroy(W, t).open = W.open
  BY <1>1, NothingClosed DEF Takes
<1> QED
  BY <1>1, <1>2 DEF Takes, Same

\* stream = nullptr: the handle holds nothing.
LEMMA AssignNullTakes ==
  ASSUME NEW P, NEW W, WF(W, P), NEW h \in AllHandles, h # Tmp, W.ptr[Tmp] = Null, W.sid[Tmp] = 0
  PROVE  Takes(W, AssignNull(W, h), h, NoLink) /\ ~ Valid(AssignNull(W, h), h)
<1> DEFINE M == MoveAssign(W, h, Tmp)
           V == Destroy(M, Tmp)
<1>1. Tmp \in AllHandles /\ AssignNull(W, h) = V
  BY TemporaryNames DEF AssignNull
<1>2. Differ(W, h, Tmp) => Moves(W, M, h, Tmp) /\ M.ptr[h] = W.ptr[Tmp]
  BY <1>1, MoveAssignMoves, MoveAssignWF
<1>3. WF(M, P) /\ (~ Differ(W, h, Tmp) => Same(W, M) /\ M = CheckValid(W, h))
  BY <1>1, MoveAssignMoves, MoveAssignWF
<1> HIDE DEF M
<1>4. Holds(W, Tmp) = NoLink
  BY NullHolds
<1>5. CASE Differ(W, h, Tmp)
  <2>1. Takes(W, M, h, NoLink) /\ Holds(M, Tmp) = NoLink /\ M.ptr[h] = Null
    BY <1>1, <1>2, <1>3, <1>4, <1>5 DEF Moves, Takes
  <2>2. Same(M, V)
    BY <1>1, <1>3, <2>1, DestroyEmpty
  <2>3. V.ptr[h] = M.ptr[h]
    BY <1>1, <1>3, DestroyWF
  <2>4. ~ Valid(V, h)
    BY <2>1, <2>3 DEF Valid
  <2> QED
    BY <1>1, <2>1, <2>2, <2>4, SameOfTakes
<1>6. CASE ~ Differ(W, h, Tmp)
  <2>1. Same(W, M) /\ M = CheckValid(W, h)
    BY <1>3, <1>6
  <2>2. M.ptr[h] = Null
    <3>1. CheckValid(W, h).ptr[h] = Null \/ W.sid[h] = 0
      BY <1>6 DEF Differ
    <3>2. CheckValid(W, h).ptr[h] # Null => CheckValid(W, h).ptr[h] = W.ptr[h]
      BY CheckValidWF
    <3>3. W.sid[h] = 0 => W.ptr[h] = Null
      BY DEF WF, PointersOK
    <3> QED
      BY <2>1, <3>1, <3>2, <3>3
  <2>3. Holds(M, h) = NoLink /\ Holds(M, Tmp) = NoLink
    BY <1>1, <1>4, <2>1, <2>2, NullHolds DEF Same
  <2>4. Same(M, V)
    BY <1>1, <1>3, <2>3, DestroyEmpty
  <2>5. V.ptr[h] = M.ptr[h]
    BY <1>1, <1>3, DestroyWF
  <2>6. ~ Valid(V, h)
    BY <2>2, <2>5 DEF Valid
  <2>7. Takes(W, M, h, NoLink)
    BY <2>1, <2>3, SameTakes DEF Same
  <2> QED
    BY <1>1, <2>4, <2>6, <2>7, SameOfTakes
<1> QED
  BY <1>5, <1>6

\* The same of a handle that holds nothing.
LEMMA AssignNullSame ==
  ASSUME NEW P, NEW W, WF(W, P), NEW h \in AllHandles, h # Tmp, W.ptr[Tmp] = Null, W.sid[Tmp] = 0,
         Holds(W, h) = NoLink
  PROVE  Same(W, AssignNull(W, h))
<1>1. Takes(W, AssignNull(W, h), h, NoLink)
  BY AssignNullTakes
<1>2. AssignNull(W, h).open = W.open
  BY <1>1, NothingClosed DEF Takes
<1> QED
  BY <1>1, <1>2 DEF Takes, Same

\* stop(): the connection is closed and taken from every handle.
LEMMA StopCut ==
  ASSUME NEW W, WF(W, {}), NEW h \in AllHandles, h # Tmp, W.ptr[Tmp] = Null, W.sid[Tmp] = 0
  PROVE  /\ Cut(W, StopWorld(W, h), Holds(W, h))
         /\ StopWorld(W, h).open = W.open \ {Holds(W, h)}
<1>1. CASE ~ Valid(W, h)
  <2>1. StopWorld(W, h) = W /\ Holds(W, h) = NoLink
    BY <1>1 DEF StopWorld, Holds
  <2>2. NoLink \notin W.open
    BY DEF WF, LinksOK
  <2> QED
    BY <2>1, <2>2 DEF Cut
<1>2. CASE Valid(W, h)
  <2> DEFINE p == W.ptr[h]
             U == Close(W, p)
             V == AssignNull(U, h)
  <2>1. StopWorld(W, h) = V
    BY <1>2 DEF StopWorld
  <2>2. p \in Slots /\ W.pool[p].serialId # 0 /\ Holds(W, h) = W.pool[p].linkId
    BY <1>2, ValidHolds
  <2> HIDE DEF p
  <2>3. Cut(W, U, Holds(W, h)) /\ U.open = W.open \ {Holds(W, h)} /\ WF(U, {})
    BY <2>2, CloseCut, CloseWF
  <2>4. U.ptr = W.ptr /\ U.sid = W.sid
    BY <2>2, CloseFields DEF WF
  <2> HIDE DEF U
  <2>5. Holds(U, h) = NoLink
    BY <2>3 DEF Cut
  <2>6. Same(U, V)
    BY <2>3, <2>4, <2>5, AssignNullSame
  <2> QED
    BY <2>1, <2>3, <2>6 DEF Cut, Same
<1> QED
  BY <1>1, <1>2

-----------------------------------------------------------------------------
(* The manager.                                                            *)

\* x = getBuffStream(l): x holds l, or nothing when there is no stream.
LEMMA TakeStreamTakes ==
  ASSUME NEW P, NEW W, WF(W, P), NEW k \in Kinds, NEW l, MayTake(W, P, l),
         NEW x \in AllHandles, x # Tmp
  PROVE  LET V == TakeStream(W, x, l, k) IN
         \/ Takes(W, V, x, NoLink) /\ ~ Valid(V, x)
         \/ Takes(W, V, x, l)
<1> DEFINE G == GetBuffStream(W, l, k)
           p == SlotFor(W, k)
           M == MoveAssign(G, x, Tmp)
           V == TakeStream(W, x, l, k)
<1>0. Tmp \in AllHandles /\ W \in Worlds /\ W.ptr[Tmp] = Null
  BY TemporaryNames DEF WF, MayTake
<1>1. Got(W, G, P, l, p)
  BY GetBuffStreamWF
<1>2. V = Destroy(M, Tmp) /\ V = AssignNull(G, x)
  BY DEF TakeStream, AssignNull
<1> HIDE DEF G, p, V
<1>3. CASE p = Null
  <2>1. /\ WF(G, P) /\ G.ptr[Tmp] = Null /\ G.sid[Tmp] = 0 /\ G.pool = W.pool /\ G.open = W.open
        /\ \A f \in AllHandles : f # Tmp => G.ptr[f] = W.ptr[f] /\ G.sid[f] = W.sid[f]
    BY <1>1, <1>3 DEF Got
  <2>2. \A f \in AllHandles : f # Tmp => Holds(G, f) = Holds(W, f)
    BY <2>1, HoldsKept
  <2>3. Holds(G, Tmp) = Holds(W, Tmp)
    BY <1>0, <2>1, NullHolds
  <2>4. Same(W, G)
    BY <2>1, <2>2, <2>3 DEF Same
  <2>5. Takes(G, V, x, NoLink) /\ ~ Valid(V, x)
    BY <1>2, <2>1, AssignNullTakes
  <2>6. Takes(W, V, x, NoLink)
    BY <2>4, <2>5, TakesOfSame
  <2> QED
    BY <2>5, <2>6 DEF V
<1>4. CASE p # Null
  <2>1. /\ WF(G, P \ {l}) /\ p \in Slots /\ G.ptr[Tmp] = p /\ G.open = W.open
        /\ G.sid[Tmp] = W.serialId + 1 /\ G.pool[p].serialId = W.serialId + 1
        /\ W.pool[p].serialId = 0 /\ G.pool[p].linkId = l
        /\ \A q \in Slots : q # p => G.pool[q] = W.pool[q]
        /\ \A f \in AllHandles : f # Tmp => G.ptr[f] = W.ptr[f] /\ G.sid[f] = W.sid[f]
    BY <1>1, <1>4 DEF Got
  <2>2. \A f \in AllHandles : W.sid[f] <= W.serialId /\ W.sid[f] \in Nat /\ W.serialId \in Nat
    BY <1>0 DEF WF, SerialsOK, Worlds, Serials
  <2>3. ASSUME NEW f \in AllHandles, f # Tmp PROVE Holds(G, f) = Holds(W, f)
    <3>1. W.ptr[f] \in Slots \cup {Null} /\ (W.ptr[f] # Null => W.sid[f] # 0)
      BY <1>0 DEF WF, PointersOK, Worlds, Slots, Null
    <3>2. CASE W.ptr[f] = p
      <4>1. W.sid[f] # 0 /\ W.sid[f] # W.serialId + 1
        BY <1>4, <2>2, <3>1, <3>2
      <4>2. ~ Valid(W, f) /\ ~ Valid(G, f)
        BY <2>1, <2>3, <3>2, <4>1 DEF Valid
      <4> QED
        BY <4>2 DEF Holds
    <3>3. CASE W.ptr[f] # p
      BY <2>1, <2>3, <3>1, <3>3, HoldsKept
    <3> QED
      BY <3>2, <3>3
  <2>4. Valid(G, Tmp) /\ Holds(G, Tmp) = l
    BY <1>4, <2>1 DEF Valid, Holds
  <2>5. Differ(G, x, Tmp)
    <3>1. G.sid[x] # G.sid[Tmp]
      BY <2>1, <2>2
    <3>2. ~ (G.ptr[x] = p /\ Valid(G, x))
      BY <2>1, <3>1 DEF Valid
    <3>3. CheckValid(G, x).ptr[x] # Null => CheckValid(G, x).ptr[x] = G.ptr[x] /\ Valid(G, x)
      BY <2>1, CheckValidWF
    <3> QED
      BY <1>4, <2>1, <3>1, <3>2, <3>3 DEF Differ
  <2>6. WF(M, P \ {l}) /\ Moves(G, M, x, Tmp)
    BY <1>0, <2>1, <2>5, MoveAssignWF, MoveAssignMoves
  <2> HIDE DEF M
  <2>7. Same(M, V)
    BY <1>0, <1>2, <2>6, DestroyEmpty DEF Moves
  <2>8. Holds(V, x) = l /\ \A f \in AllHandles : f # x /\ f # Tmp => Holds(V, f) = Holds(W, f)
    BY <2>3, <2>4, <2>6, <2>7 DEF Moves, Same
  <2>9. Holds(V, Tmp) = Holds(W, Tmp)
    BY <1>0, <2>6, <2>7, NullHolds DEF Moves, Same
  <2>10. Closes(W, V, x)
    BY <2>1, <2>3, <2>6, <2>7 DEF Moves, Same, Closes
  <2>11. Takes(W, V, x, l)
    BY <2>8, <2>9, <2>10 DEF Takes
  <2> QED
    BY <2>11 DEF V
<1> QED
  BY <1>3, <1>4

\* The number of the next request is on no stream and on no open connection.
LEMMA RequestFresh ==
  ASSUME NEW X, WF(X, {}), X.requests = requests
  PROVE  /\ NewConnection # NoLink /\ NewConnection \notin X.open
         /\ \A p \in Slots : X.pool[p].linkId # NewConnection
         /\ \A f \in AllHandles : Holds(X, f) # NewConnection
<1>1. X \in Worlds /\ requests \in Nat /\ NewConnection = requests + 1
  BY DEF WF, Worlds, NewConnection
<1>2. \A f \in AllHandles : Holds(X, f) \in Nat /\ Holds(X, f) <= requests
  BY HeldOnce
<1>3. \A f \in AllHandles : Holds(X, f) # NewConnection
  BY <1>1, <1>2
<1>4. \A p \in Slots : X.pool[p].linkId \in Nat /\ X.pool[p].linkId <= requests
  BY <1>1 DEF WF, LinksOK, Worlds, Stream
<1>5. \A p \in Slots : X.pool[p].linkId # NewConnection
  BY <1>1, <1>4
<1> QED
  BY <1>1, <1>3, <1>5, OpenHeld DEF NoLink

\* A connection is opened for x, which held none: x gets it, or it is closed.
LEMMA RequestHolds ==
  ASSUME NEW X, WF(X, {}), NEW x \in AllHandles, x # Tmp, NEW k \in Kinds,
         X.requests = requests, requests + 1 < SerialMod, X.ptr[Tmp] = Null, X.sid[Tmp] = 0,
         Holds(X, x) = NoLink
  PROVE  LET V == TakeStreamOrClose(OpenLink(X), x, NewConnection, k) IN
         /\ NewConnection # NoLink /\ NewConnection \notin X.open
         /\ \A f \in AllHandles : Holds(X, f) # NewConnection
         /\ \A f \in AllHandles : f # x => Holds(V, f) = Holds(X, f)
         /\ \/ Holds(V, x) = NewConnection /\ V.open = X.open \cup {NewConnection}
            \/ ~ Valid(V, x) /\ V.open = X.open
<1> DEFINE c == NewConnection
           O == OpenLink(X)
           T == TakeStream(O, x, c, k)
           V == TakeStreamOrClose(O, x, c, k)
<1>1. X \in Worlds /\ requests \in Nat /\ c = requests + 1
  BY DEF WF, Worlds, NewConnection
<1>2. WF(O, {c}) /\ MayTake(O, {c}, c)
      /\ O.pool = X.pool /\ O.ptr = X.ptr /\ O.sid = X.sid
  BY OpenLinkWF
<1>3. O.open = X.open \cup {c}
  BY <1>1 DEF OpenLink, Worlds
<1>4. V = IF Valid(T, x) THEN T ELSE CloseLink(T, c)
  BY DEF TakeStreamOrClose
<1> HIDE DEF c, O, V
<1>5. T \in Worlds
  <2>1. WF(T, {c}) \/ WF(T, {c} \ {c})
    BY <1>2, TakeStreamWF
  <2> QED
    BY <2>1 DEF WF
<1>6. \/ Takes(O, T, x, NoLink) /\ ~ Valid(T, x)
      \/ Takes(O, T, x, c)
  BY <1>2, TakeStreamTakes
<1> HIDE DEF T
<1>7. \A f \in AllHandles : Holds(O, f) = Holds(X, f)
  BY <1>2, HoldsKept
<1>8. /\ c # NoLink /\ c \notin X.open
      /\ \A f \in AllHandles : Holds(X, f) # c
  BY RequestFresh DEF c
<1>9. T.open = X.open \cup {c}
  BY <1>2, <1>3, <1>6, <1>7, NothingClosed DEF Takes
<1>10. \A f \in AllHandles : f # x => Holds(T, f) = Holds(X, f)
  BY <1>6, <1>7 DEF Takes
<1>11. CASE Valid(T, x)
  <2>1. V = T /\ Holds(V, x) = c
    BY <1>4, <1>6, <1>11 DEF Takes
  <2> QED
    BY <1>8, <1>9, <1>10, <2>1 DEF V, O, c
<1>12. CASE ~ Valid(T, x)
  <2>1. V = CloseLink(T, c)
    BY <1>4, <1>12
  <2>2. V.pool = T.pool /\ V.ptr = T.ptr /\ V.sid = T.sid /\ V.open = T.open \ {c}
    BY <1>5, <2>1, CloseLinkFields
  <2>3. \A f \in AllHandles : Holds(V, f) = Holds(T, f)
    BY <2>2, HoldsKept
  <2>4. ~ Valid(V, x)
    BY <1>12, <2>2 DEF Valid
  <2>5. V.open = X.open
    BY <1>8, <1>9, <2>2
  <2> QED
    BY <1>8, <1>10, <2>3, <2>4, <2>5 DEF V, O, c
<1> QED
  BY <1>11, <1>12

-----------------------------------------------------------------------------
(* The steps of the sketch as steps of the objects that own connections.   *)

\* The step from the current world to V, seen from above.
Step(V) ==
  /\ WF(World, {}) /\ RxOK(World) /\ Idle(World) /\ World.open = open /\ World.requests = requests
  /\ WF(V, {}) /\ Idle(V) /\ V.open = open'
  /\ Owner = [h \in Handles |-> Holds(World, h)]
  /\ Owner' = [h \in Handles |-> Holds(V, h)]

\* What an operation of the sketch gives a step above.
LEMMA StepAbove ==
  ASSUME IInv, NoWrap, NoWrap', NEW V, Become(V), Sound(V)
  PROVE  Step(V)
<1>1. V \in Worlds /\ Idle(V)
  BY DEF Sound
<1>2. World' = V
  BY <1>1, BecomeWorld
<1>3. /\ pool' = V.pool /\ ptr' = V.ptr /\ sid' = V.sid /\ open' = V.open
      /\ requests' = V.requests
  BY DEF Become
<1>4. WF(World, {}) /\ RxOK(World) /\ TypeOK
  BY DEF IInv
<1>5. Idle(World)
  BY <1>4, WorldFields DEF TypeOK, Idle
<1>6. WF(V, {})
  BY <1>3, <1>4 DEF Sound, NoWrap
<1>7. Owner = [h \in Handles |-> Holds(World, h)]
  BY WorldFields DEF Owner, Holds
<1>8. Owner' = [h \in Handles |-> Holds(V, h)]
  <2>1. \A h \in Handles : Valid(World, h)' = Valid(V, h)
    BY <1>2 DEF Valid
  <2>2. Owner' = [h \in Handles |-> IF Valid(World, h)' THEN pool'[ptr'[h]].linkId ELSE NoLink]
    BY DEF Owner, NoLink
  <2> QED
    BY <1>3, <2>1, <2>2 DEF Holds
<1> QED
  BY <1>1, <1>3, <1>4, <1>5, <1>6, <1>7, <1>8, WorldFields DEF Step

\* What the temporaries hold between operations.
LEMMA IdleHolds ==
  ASSUME NEW W, Idle(W)
  PROVE  /\ Holds(W, Tmp) = NoLink /\ Holds(W, Ret) = NoLink /\ W.ptr[Tmp] = Null /\ W.sid[Tmp] = 0
         /\ \A f \in AllHandles : f \notin Handles => Holds(W, f) = NoLink
BY NullHolds DEF Idle, AllHandles

\* The open connections are the ones of S that some object owns, when no other
\* is closed.
LEMMA KeptOpen ==
  ASSUME NEW V, Step(V), NEW S, open' \subseteq S,
         \A c \in S \ open' : \A f \in AllHandles : Holds(V, f) # c
  PROVE  open' = S \cap Abstract!Owned(Owner')
<1>1. WF(V, {}) /\ V.open = open' /\ \A h \in Handles : Owner'[h] = Holds(V, h) /\ h \in AllHandles
  BY HandleNames DEF Step
<1>2. Abstract!Owned(Owner') = {Owner'[h] : h \in Handles} \ {NoLink}
  BY DEF Abstract!Owned
<1>3. ASSUME NEW c \in open' PROVE c \in Abstract!Owned(Owner')
  <2>1. c # NoLink /\ \E f \in AllHandles : Holds(V, f) = c
    BY <1>1, <1>3, OpenHeld
  <2>2. PICK f \in AllHandles : Holds(V, f) = c
    BY <2>1
  <2>3. f \in Handles
    BY <2>1, <2>2, IdleHolds DEF Step
  <2> QED
    BY <1>1, <1>2, <2>1, <2>2, <2>3
<1>4. ASSUME NEW c \in S, c \in Abstract!Owned(Owner') PROVE c \in open'
  <2>1. PICK h \in Handles : c = Holds(V, h)
    BY <1>1, <1>2, <1>4
  <2> QED
    BY <1>1, <1>4, <2>1
<1> QED
  BY <1>3, <1>4

\* Nothing changes above.
LEMMA SameAbove ==
  ASSUME NEW V, Step(V), Same(World, V)
  PROVE  Owner' = Owner /\ open' = open
BY HandleNames DEF Step, Same

\* h takes x, and what it had ends if it was the last to have it.
LEMMA TakesAbove ==
  ASSUME NEW V, Step(V), NEW h \in Handles, NEW x, Takes(World, V, h, x)
  PROVE  Owner' = [Owner EXCEPT ![h] = x] /\ open' = Abstract!Kept(Owner')
<1>1. Owner' = [Owner EXCEPT ![h] = x]
  BY HandleNames DEF Step, Takes
<1>2. open' = open \cap Abstract!Owned(Owner')
  BY KeptOpen DEF Takes, Closes, Step
<1> QED
  BY <1>1, <1>2 DEF Abstract!Kept

\* h lets go.
LEMMA DropAbove ==
  ASSUME NEW V, Step(V), NEW h \in Handles, Takes(World, V, h, NoLink)
  PROVE  Abstract!Drop(h)
BY TakesAbove DEF Abstract!Drop

\* h gets what g has.
LEMMA ShareAbove ==
  ASSUME NEW V, Step(V), NEW h \in Handles, NEW g \in Handles, Takes(World, V, h, Holds(World, g))
  PROVE  Abstract!Share(h, g)
<1>1. Owner[g] = Holds(World, g)
  BY DEF Step
<1> QED
  BY <1>1, TakesAbove DEF Abstract!Share

\* The same from g, which keeps nothing.
LEMMA MoveAbove ==
  ASSUME NEW V, Step(V), NEW h \in Handles, NEW g \in Handles, h # g, Moves(World, V, h, g)
  PROVE  Abstract!Move(h, g)
<1>1. Owner' = [Owner EXCEPT ![h] = Owner[g], ![g] = NoLink]
  BY HandleNames DEF Step, Moves
<1>2. open' = open \cap Abstract!Owned(Owner')
  BY KeptOpen DEF Moves, Closes, Step
<1> QED
  BY <1>1, <1>2 DEF Abstract!Move, Abstract!Kept

\* The connection of h is taken from everybody.
LEMMA CutAbove ==
  ASSUME NEW V, Step(V), NEW h \in Handles, Cut(World, V, Holds(World, h))
  PROVE  Owner' = Abstract!Taken(h)
BY HandleNames DEF Step, Cut, Abstract!Taken

\* free() of a stream without a link, and bytes that come and go, are not seen
\* above.
LEMMA FreeSame ==
  ASSUME NEW P, NEW W, WF(W, P), NEW p \in Slots, W.pool[p].linkId = NoLink
  PROVE  Same(W, Free(W, p))
BY FreeCut DEF Cut, Same

LEMMA SetUnreadSame ==
  ASSUME NEW W \in Worlds, NEW p \in Slots, NEW b \in BOOLEAN
  PROVE  Same(W, SetUnread(W, p, b))
<1> DEFINE V == SetUnread(W, p, b)
<1>1. /\ V.ptr = W.ptr /\ V.sid = W.sid /\ V.open = W.open
      /\ \A q \in Slots : q # p => V.pool[q] = W.pool[q]
      /\ V.pool[p].serialId = W.pool[p].serialId /\ V.pool[p].linkId = W.pool[p].linkId
  BY SetUnreadFields
<1>2. \A f \in AllHandles : W.ptr[f] \in Slots \cup {Null}
  BY DEF Worlds, Slots, Null
<1> HIDE DEF V
<1>3. \A f \in AllHandles : Holds(V, f) = Holds(W, f)
  <2>1. \A q \in Slots : V.pool[q].serialId = W.pool[q].serialId /\ V.pool[q].linkId = W.pool[q].linkId
    BY <1>1
  <2> QED
    BY <1>1, <1>2, <2>1, HoldsKept
<1> QED
  BY <1>1, <1>3 DEF Same, V

LEMMA SameTrans ==
  ASSUME NEW W, NEW V, NEW U, Same(W, V), Same(V, U)
  PROVE  Same(W, U)
BY DEF Same

\* stop().
LEMMA StopAbove ==
  ASSUME IInv, NoWrap, NoWrap', NEW h \in Handles, Stop(h)
  PROVE  Abstract!Stop(h)
<1> DEFINE V == StopWorld(World, h)
<1>1. Become(V) /\ Sound(V)
  BY StopSound DEF Stop, IInv
<1>2. h \in AllHandles /\ h # Tmp
  BY HandleNames
<1> HIDE DEF V
<1>3. Step(V)
  BY <1>1, StepAbove
<1>4. WF(World, {}) /\ World.ptr[Tmp] = Null /\ World.sid[Tmp] = 0
  BY <1>3, IdleHolds DEF Step
<1>5. Cut(World, V, Holds(World, h)) /\ V.open = World.open \ {Holds(World, h)}
  BY <1>2, <1>4, StopCut DEF V
<1>6. open' = open \ {Owner[h]}
  BY <1>3, <1>5 DEF Step
<1> QED
  BY <1>3, <1>5, <1>6, CutAbove DEF Abstract!Stop

\* The connection of a new request is fresh above.
LEMMA FreshAbove ==
  ASSUME NEW V, Step(V)
  PROVE  Abstract!Fresh(NewConnection)
<1>1. /\ NewConnection # NoLink /\ NewConnection \notin open
      /\ \A f \in AllHandles : Holds(World, f) # NewConnection
  BY RequestFresh DEF Step
<1>2. \A f \in Handles : Owner[f] # NewConnection
  BY <1>1, HandleNames DEF Step
<1> QED
  BY <1>1, <1>2 DEF Abstract!Fresh, Abstract!Owned

\* connect() and beginPacket(): a refused one only stops.
LEMMA ConnectAbove ==
  ASSUME IInv, NoWrap, NoWrap', NEW h \in Handles, Connect(h)
  PROVE  Abstract!Connect(h, Owner'[h]) \/ Abstract!Stop(h)
<1> DEFINE X == StopWorld(World, h)
           V == TakeStreamOrClose(OpenLink(X), h, NewConnection, KindOf[h])
<1>1. Become(V) /\ Sound(V)
  BY ConnectSound DEF Connect, IInv
<1>2. h \in AllHandles /\ h # Tmp /\ KindOf[h] \in Kinds
  BY HandleNames, HandlesAssumption
<1>3. Step(V)
  BY <1>1, StepAbove
<1>4. /\ WF(World, {}) /\ World.ptr[Tmp] = Null /\ World.sid[Tmp] = 0
      /\ World.open = open /\ World.requests = requests
  BY <1>3, IdleHolds DEF Step
<1> HIDE DEF V
<1>5. Cut(World, X, Holds(World, h)) /\ X.open = World.open \ {Holds(World, h)}
  BY <1>2, <1>4, StopCut
<1>6. WF(X, {}) /\ X.requests = requests /\ X.ptr[Tmp] = Null /\ X.sid[Tmp] = 0
  <2>1. WF(X, {})
    BY <1>2, <1>4, StopWorldWF
  <2>2. Steady(World, X, {h, Tmp}) /\ X.ptr[Tmp] = Null /\ X.sid[Tmp] = 0
    BY <1>2, <1>4, StopWorldFrame DEF WF
  <2> QED
    BY <1>4, <2>1, <2>2 DEF Steady, Frame
<1> HIDE DEF X
<1>7. requests + 1 < SerialMod
  <2>1. X \in Worlds /\ V.requests = requests + 1
    BY <1>2, <1>6, RequestSound DEF WF, V
  <2> QED
    BY <1>1, <2>1 DEF NoWrap, Become
<1>8. Holds(X, h) = NoLink
  BY <1>2, <1>5 DEF Cut
<1>9. /\ \A f \in AllHandles : f # h => Holds(V, f) = Holds(X, f)
      /\ \/ Holds(V, h) = NewConnection /\ V.open = X.open \cup {NewConnection}
         \/ ~ Valid(V, h) /\ V.open = X.open
  BY <1>2, <1>6, <1>7, <1>8, RequestHolds DEF V
<1>10. CASE Holds(V, h) = NewConnection /\ V.open = X.open \cup {NewConnection}
  <2>1. Abstract!Fresh(NewConnection) /\ Owner'[h] = NewConnection
    BY <1>3, <1>10, FreshAbove DEF Step
  <2>2. Owner' = [Abstract!Taken(h) EXCEPT ![h] = NewConnection]
    BY <1>3, <1>5, <1>9, <1>10, HandleNames DEF Step, Cut, Abstract!Taken
  <2>3. open' = (open \ {Owner[h]}) \cup {NewConnection}
    BY <1>3, <1>5, <1>10 DEF Step
  <2> QED
    BY <2>1, <2>2, <2>3 DEF Abstract!Connect
<1>11. CASE ~ Valid(V, h) /\ V.open = X.open
  <2>1. Holds(V, h) = NoLink
    BY <1>11 DEF Holds
  <2>2. \A f \in AllHandles : Holds(V, f) = Holds(X, f)
    BY <1>8, <1>9, <2>1
  <2>3. Cut(World, V, Holds(World, h))
    BY <1>5, <2>2 DEF Cut
  <2>4. open' = open \ {Owner[h]}
    BY <1>3, <1>5, <1>11 DEF Step
  <2> QED
    BY <1>3, <2>3, <2>4, CutAbove DEF Abstract!Stop
<1> QED
  BY <1>9, <1>10, <1>11

\* accept(): the WiFiClient that is returned is moved into h.  Without a stream
\* for the connection h only lets go of what it had.
LEMMA AcceptAbove ==
  ASSUME IInv, NoWrap, NoWrap', NEW h \in Handles, Accept(h)
  PROVE  Abstract!Receive(h, Owner'[h]) \/ Abstract!Drop(h) \/ (Owner' = Owner /\ open' = open)
<1> DEFINE W == TakeStreamOrClose(OpenLink(World), Ret, NewConnection, ClientKind)
           M == MoveAssign(W, h, Ret)
           V == Destroy(M, Ret)
           c == NewConnection
<1>1. Become(V) /\ Sound(V)
  BY AcceptSound DEF Accept, IInv
<1>2. /\ h \in AllHandles /\ h # Tmp /\ h # Ret /\ ClientKind \in Kinds
      /\ Ret \in AllHandles /\ Ret # Tmp
  BY HandleNames, TemporaryNames DEF Kinds
<1>3. Step(V)
  BY <1>1, StepAbove
<1> HIDE DEF V
<1>4. /\ WF(World, {}) /\ World.ptr[Tmp] = Null /\ World.sid[Tmp] = 0
      /\ World.open = open /\ World.requests = requests
      /\ Holds(World, Ret) = NoLink /\ World \in Worlds
  BY <1>3, IdleHolds DEF Step, WF
<1>5. V = Destroy(M, Ret)
  BY DEF V
<1>6. /\ W \in Worlds /\ W.requests = requests + 1
      /\ \A f \in AllHandles : f # Ret /\ f # Tmp => W.ptr[f] = World.ptr[f] /\ W.sid[f] = World.sid[f]
      /\ W.requests < SerialMod => WF(W, {}) /\ Later(World, W)
  BY <1>2, <1>4, RequestSound
<1>7. requests + 1 < SerialMod
  <2>1. M \in Worlds /\ M.requests = W.requests
    BY <1>2, <1>6, AssignFrame DEF Steady, Frame
  <2> HIDE DEF M
  <2>2. V.requests = M.requests
    BY <1>2, <1>5, <2>1, DestroyFrame DEF Steady, Frame
  <2>3. requests' = V.requests
    BY <1>1 DEF Become
  <2> QED
    BY <1>6, <2>1, <2>2, <2>3 DEF NoWrap
<1>8. /\ \A f \in AllHandles : f # Ret => Holds(W, f) = Holds(World, f)
      /\ \/ Holds(W, Ret) = c /\ W.open = open \cup {c}
         \/ ~ Valid(W, Ret) /\ W.open = open
  BY <1>2, <1>4, <1>7, RequestHolds
<1>9. WF(W, {}) /\ Later(World, W)
  BY <1>6, <1>7
<1>10. /\ c # NoLink /\ c \notin open /\ \A p \in Slots : World.pool[p].linkId # c
  BY <1>4, RequestFresh
<1> HIDE DEF W, c
<1>11. /\ Differ(W, h, Ret) => Moves(W, M, h, Ret)
       /\ ~ Differ(W, h, Ret) => Same(W, M)
       /\ WF(M, {})
  BY <1>2, <1>9, MoveAssignMoves, MoveAssignWF
<1> HIDE DEF M
<1>12. CASE Holds(W, Ret) = c /\ W.open = open \cup {c}
  <2> DEFINE p == W.ptr[Ret]
  <2>1. Valid(W, Ret)
    BY <1>10, <1>12 DEF Holds
  <2>2. p \in Slots /\ W.pool[p].serialId = W.sid[Ret] /\ W.sid[Ret] # 0 /\ W.pool[p].linkId = c
    BY <1>2, <1>9, <1>12, <2>1, ValidHolds
  <2>3. W.pool[p].serialId > World.serialId
    BY <1>9, <1>10, <2>2 DEF Later
  <2>4. World.sid[h] <= World.serialId /\ World.sid[h] \in Nat /\ World.serialId \in Nat
    BY <1>2, <1>4 DEF WF, SerialsOK, Worlds, Serials
  <2>5. W.sid[h] = World.sid[h]
    BY <1>2, <1>6
  <2>6. W.sid[h] # W.sid[Ret]
    BY <2>2, <2>3, <2>4, <2>5
  <2>7. CheckValid(W, h).ptr[h] # Null => CheckValid(W, h).ptr[h] = W.ptr[h] /\ Valid(W, h)
    BY <1>2, <1>9, CheckValidWF
  <2>8. Differ(W, h, Ret)
    BY <2>1, <2>2, <2>6, <2>7 DEF Differ, Valid
  <2>9. Moves(W, M, h, Ret)
    BY <1>11, <2>8
  <2>10. Same(M, V)
    BY <1>2, <1>5, <1>11, <2>9, DestroyEmpty DEF Moves
  <2>11. Holds(V, h) = c /\ \A f \in AllHandles : f # h => Holds(V, f) = Holds(World, f)
    <3>1. \A f \in AllHandles : Holds(V, f) = Holds(M, f)
      BY <2>10 DEF Same
    <3>2. /\ \A f \in AllHandles : f # h /\ f # Ret => Holds(M, f) = Holds(W, f)
          /\ Holds(M, h) = Holds(W, Ret) /\ Holds(M, Ret) = NoLink
      BY <2>9 DEF Moves
    <3> QED
      BY <1>2, <1>4, <1>8, <1>12, <3>1, <3>2
  <2>12. Owner'[h] = c /\ Owner' = [Owner EXCEPT ![h] = c]
    BY <1>3, <2>11, HandleNames DEF Step
  <2>13. open' = (open \cup {c}) \cap Abstract!Owned(Owner')
    <3>1. V.open \subseteq open \cup {c} /\ V.open = open'
      BY <1>3, <1>12, <2>9, <2>10 DEF Moves, Same, Closes, Step
    <3>2. \A d \in (open \cup {c}) \ V.open : \A f \in AllHandles : Holds(V, f) # d
      BY <1>12, <2>9, <2>10 DEF Moves, Same, Closes
    <3> QED
      BY <1>3, <3>1, <3>2, KeptOpen
  <2>14. c \in Abstract!Owned(Owner')
    BY <1>10, <2>12 DEF Abstract!Owned
  <2>15. open' = Abstract!Kept(Owner') \cup {c}
    BY <2>13, <2>14 DEF Abstract!Kept
  <2>16. Abstract!Fresh(c)
    BY <1>3, FreshAbove DEF c
  <2> QED
    BY <2>12, <2>15, <2>16 DEF Abstract!Receive
<1>13. CASE ~ Valid(W, Ret) /\ W.open = open
  <2>1. Holds(W, Ret) = NoLink
    BY <1>13 DEF Holds
  <2>2. Same(World, W)
    BY <1>4, <1>8, <1>13, <2>1 DEF Same
  <2>3. Holds(M, Ret) = NoLink
    BY <1>2, <1>11, <2>1 DEF Moves, Same
  <2>4. Same(M, V)
    BY <1>2, <1>5, <1>11, <2>3, DestroyEmpty
  <2>5. CASE Differ(W, h, Ret)
    <3>1. Takes(W, M, h, NoLink)
      BY <1>11, <2>1, <2>5 DEF Moves, Takes
    <3>2. Takes(World, V, h, NoLink)
      BY <1>2, <2>2, <2>4, <3>1, TakesOfSame, SameOfTakes
    <3> QED
      BY <1>3, <3>2, DropAbove
  <2>6. CASE ~ Differ(W, h, Ret)
    <3>1. Same(World, V)
      BY <1>11, <2>2, <2>4, <2>6 DEF Same
    <3> QED
      BY <1>3, <3>1, SameAbove
  <2> QED
    BY <2>5, <2>6
<1> QED
  BY <1>8, <1>12, <1>13

\* h = WiFiClient().
LEMMA ClearAbove ==
  ASSUME IInv, NoWrap, NoWrap', NEW h \in Handles, Clear(h)
  PROVE  Abstract!Drop(h)
<1> DEFINE V == AssignNull(World, h)
<1>1. Become(V) /\ Sound(V)
  BY ClearSound DEF Clear, IInv
<1> HIDE DEF V
<1>2. Step(V)
  BY <1>1, StepAbove
<1>3. Takes(World, V, h, NoLink)
  BY <1>2, HandleNames, IdleHolds, AssignNullTakes DEF Step, V
<1> QED
  BY <1>2, <1>3, DropAbove

\* The object goes out of scope.
LEMMA GoneAbove ==
  ASSUME IInv, NoWrap, NoWrap', NEW h \in Handles, Drop(h)
  PROVE  Abstract!Drop(h)
<1> DEFINE V == Destroy(World, h)
<1>1. Become(V) /\ Sound(V)
  BY DropSound DEF Drop, IInv
<1> HIDE DEF V
<1>2. Step(V)
  BY <1>1, StepAbove
<1>3. Takes(World, V, h, NoLink)
  BY <1>2, HandleNames, DestroyTakes DEF Step, V
<1> QED
  BY <1>2, <1>3, DropAbove

\* h = g and h = std::move(g); an assignment that finds nothing to do changes
\* nothing.
LEMMA CopyAbove ==
  ASSUME IInv, NoWrap, NoWrap', NEW h \in Handles, NEW g \in Handles, Copy(h, g)
  PROVE  Abstract!Share(h, g) \/ (Owner' = Owner /\ open' = open)
<1> DEFINE V == CopyAssign(World, h, g)
<1>1. h # g /\ Become(V) /\ Sound(V)
  BY CopySound DEF Copy, IInv
<1> HIDE DEF V
<1>2. Step(V)
  BY <1>1, StepAbove
<1>3. Same(World, V) \/ Takes(World, V, h, Holds(World, g))
  BY <1>1, <1>2, HandleNames, CopyAssignTakes DEF Step, V
<1> QED
  BY <1>2, <1>3, ShareAbove, SameAbove

LEMMA MovedAbove ==
  ASSUME IInv, NoWrap, NoWrap', NEW h \in Handles, NEW g \in Handles, Move(h, g)
  PROVE  Abstract!Move(h, g) \/ (Owner' = Owner /\ open' = open)
<1> DEFINE V == MoveAssign(World, h, g)
<1>1. h # g /\ Become(V) /\ Sound(V)
  BY CopySound DEF Move, IInv
<1> HIDE DEF V
<1>2. Step(V)
  BY <1>1, StepAbove
<1>3. Same(World, V) \/ Moves(World, V, h, g)
  BY <1>1, <1>2, HandleNames, MoveAssignMoves DEF Step, V
<1> QED
  BY <1>1, <1>2, <1>3, MoveAbove, SameAbove

\* A new object initialized from g.
LEMMA NewCopyAbove ==
  ASSUME IInv, NoWrap, NoWrap', NEW h \in Handles, NEW g \in Handles, NewCopy(h, g)
  PROVE  Abstract!Share(h, g)
<1> DEFINE V == CopyConstruct(World, h, g)
<1>1. h # g /\ World.ptr[h] = Null /\ Become(V) /\ Sound(V)
  BY NewObjectSound, WorldFields DEF NewCopy, IInv
<1> HIDE DEF V
<1>2. Step(V)
  BY <1>1, StepAbove
<1>3. Takes(World, V, h, Holds(World, g))
  BY <1>1, <1>2, HandleNames, CopyConstructTakes DEF Step, V
<1> QED
  BY <1>2, <1>3, ShareAbove

LEMMA NewMovedAbove ==
  ASSUME IInv, NoWrap, NoWrap', NEW h \in Handles, NEW g \in Handles, NewMoved(h, g)
  PROVE  Abstract!Move(h, g)
<1> DEFINE V == MoveConstruct(World, h, g)
<1>1. h # g /\ World.ptr[h] = Null /\ Become(V) /\ Sound(V)
  BY NewObjectSound, WorldFields DEF NewMoved, IInv
<1> HIDE DEF V
<1>2. Step(V)
  BY <1>1, StepAbove
<1>3. Moves(World, V, h, g)
  BY <1>1, <1>2, HandleNames, MoveConstructMoves DEF Step, V
<1> QED
  BY <1>1, <1>2, <1>3, MoveAbove

\* A handle finds that its connection is gone, and so does every copy of it.
LEMMA ForgetAbove ==
  ASSUME NEW V, Step(V), NEW h \in Handles, Valid(World, h), LinkGone(World, World.ptr[h]),
         Same(LoseLink(World, World.ptr[h]), V)
  PROVE  Abstract!Forget(h)
<1> DEFINE p == World.ptr[h]
           W == LoseLink(World, p)
<1>1. WF(World, {}) /\ h \in AllHandles /\ Owner[h] = Holds(World, h) /\ World.open = open
  BY HandleNames DEF Step
<1>2. p \in Slots /\ World.pool[p].serialId # 0 /\ Holds(World, h) = World.pool[p].linkId
  BY <1>1, ValidHolds
<1>3. Cut(World, W, Holds(World, h)) /\ W.open = World.open
  BY <1>1, <1>2, LoseLinkCut
<1>4. Same(W, V)
  OBVIOUS
<1> HIDE DEF W, p
<1>5. Cut(World, V, Holds(World, h)) /\ V.open = open
  BY <1>1, <1>3, <1>4 DEF Cut, Same
<1>6. Owner[h] \notin open
  BY <1>1, <1>2 DEF LinkGone, p
<1>7. open' = open
  BY <1>5 DEF Step
<1> QED
  BY <1>5, <1>6, <1>7, CutAbove DEF Abstract!Forget

\* status(), write(), flush(), available(), read() and peek() when the link is gone.
LEMMA NoticeAbove ==
  ASSUME IInv, NoWrap, NoWrap', NEW h \in Handles, Notice(h) \/ Available(h)
  PROVE  Abstract!Forget(h) \/ (Owner' = Owner /\ open' = open)
<1> DEFINE p == ptr[h]
           V == LoseLink(World, p)
<1>1. /\ Become(V) /\ Valid(World, h) /\ p = World.ptr[h]
      /\ World.pool[p].linkId = NoLink \/ LinkGone(World, p)
  BY WorldFields DEF Notice, Available
<1>2. Sound(V)
  BY <1>1, LoseLinkSound DEF IInv
<1> HIDE DEF V
<1>3. Step(V)
  BY <1>1, <1>2, StepAbove
<1>4. CASE LinkGone(World, p)
  <2>1. Same(LoseLink(World, World.ptr[h]), V)
    BY <1>1 DEF V, Same
  <2> QED
    BY <1>1, <1>3, <1>4, <2>1, ForgetAbove
<1>5. CASE World.pool[p].linkId = NoLink
  <2>1. WF(World, {}) /\ h \in AllHandles
    BY <1>3, HandleNames DEF Step
  <2>2. p \in Slots /\ World.pool[p].serialId # 0
    BY <1>1, <2>1, ValidHolds
  <2>3. Cut(World, V, NoLink) /\ V.open = World.open
    BY <1>5, <2>1, <2>2, LoseLinkCut DEF V
  <2>4. Same(World, V)
    BY <2>3 DEF Cut, Same
  <2> QED
    BY <1>3, <2>4, SameAbove
<1> QED
  BY <1>1, <1>4, <1>5

\* connected(): the stream is kept for the bytes in it, or let go.
LEMMA ConnectedAbove ==
  ASSUME IInv, NoWrap, NoWrap', NEW h \in Handles, Connected(h)
  PROVE  Abstract!Forget(h) \/ (Owner' = Owner /\ open' = open)
<1> DEFINE p == ptr[h]
           W == IF LinkGone(World, p) THEN LoseLink(World, p) ELSE World
           V == IF Valid(W, h) /\ W.pool[p].unread THEN W ELSE AssignNull(Free(W, p), h)
<1>1. /\ Become(V) /\ Valid(World, h) /\ p = World.ptr[h]
      /\ W.pool[p].linkId = NoLink
  BY WorldFields DEF Connected
<1>2. Sound(V)
  BY ConnectedSound DEF IInv
<1> HIDE DEF V
<1>3. Step(V)
  BY <1>1, <1>2, StepAbove
<1>4. WF(World, {}) /\ h \in AllHandles /\ h # Tmp /\ Idle(World)
  BY <1>3, HandleNames DEF Step
<1>5. p \in Slots /\ World.pool[p].serialId # 0 /\ Holds(World, h) = World.pool[p].linkId
  BY <1>1, <1>4, ValidHolds
<1> HIDE DEF p
<1>6. WF(W, {}) /\ W.ptr = World.ptr /\ W.sid = World.sid
  <2>1. CASE ~ LinkGone(World, p)
    BY <1>4, <2>1
  <2>2. CASE LinkGone(World, p)
    <3>1. World.pool[p].linkId \notin World.open
      BY <2>2 DEF LinkGone
    <3>2. W = LoseLink(World, p)
      BY <2>2
    <3> HIDE DEF W
    <3>3. WF(W, {})
      BY <1>4, <1>5, <3>1, <3>2, LoseLinkWF
    <3>4. W.ptr = World.ptr /\ W.sid = World.sid
      <4> DEFINE U == SetLink(World, p, NoLink)
      <4>1. World \in Worlds /\ NoLink \in Nat
        BY <1>4 DEF WF, NoLink
      <4>2. U \in Worlds /\ U.ptr = World.ptr /\ U.sid = World.sid
        BY <1>5, <4>1, SetLinkFields
      <4>3. W = IF U.pool[p].unread THEN U ELSE Free(U, p)
        BY <3>2 DEF LoseLink
      <4> HIDE DEF U
      <4>4. Free(U, p).ptr = U.ptr /\ Free(U, p).sid = U.sid
        BY <1>5, <4>2, FreeFields DEF Free
      <4> QED
        BY <4>2, <4>3, <4>4
    <3> QED
      BY <3>3, <3>4
  <2> QED
    BY <2>1, <2>2
<1>7. LinkGone(World, p) => W = LoseLink(World, p)
  OBVIOUS
<1>8. ~ LinkGone(World, p) => W = World
  OBVIOUS
<1> HIDE DEF W
<1>9. Same(W, V)
  <2>1. CASE Valid(W, h) /\ W.pool[p].unread
    BY <2>1 DEF V, Same
  <2>2. CASE ~ (Valid(W, h) /\ W.pool[p].unread)
    <3> DEFINE F == Free(W, p)
    <3>1. V = AssignNull(F, h)
      BY <2>2 DEF V
    <3>2. Same(W, F)
      BY <1>1, <1>5, <1>6, FreeSame
    <3>3. W.pool[p].linkId \notin W.open
      BY <1>1, <1>6 DEF WF, LinksOK
    <3>4. WF(F, {})
      BY <1>5, <1>6, <3>3, FreeWF
    <3>5. F.ptr = W.ptr /\ F.sid = W.sid
      BY <1>5, <1>6, FreeFields DEF WF, Free
    <3> HIDE DEF F
    <3>6. F.ptr[Tmp] = Null /\ F.sid[Tmp] = 0
      BY <1>4, <1>6, <3>5, IdleHolds
    <3>7. Holds(W, h) = NoLink
      BY <1>1, <1>6 DEF Holds
    <3>8. Holds(F, h) = NoLink
      BY <1>4, <3>2, <3>7 DEF Same
    <3>9. Same(F, V)
      BY <1>4, <3>1, <3>4, <3>6, <3>8, AssignNullSame
    <3> QED
      BY <3>2, <3>9, SameTrans
  <2> QED
    BY <2>1, <2>2
<1>10. CASE LinkGone(World, p)
  BY <1>1, <1>3, <1>7, <1>9, <1>10, ForgetAbove DEF p
<1>11. CASE ~ LinkGone(World, p)
  BY <1>3, <1>8, <1>9, <1>11, SameAbove
<1> QED
  BY <1>10, <1>11

\* Bytes that come and go.
LEMMA BytesAbove ==
  ASSUME IInv, NoWrap, NoWrap', NEW h \in Handles, Fill(h) \/ ReadOut(h)
  PROVE  Owner' = Owner /\ open' = open
<1>1. PICK b \in BOOLEAN : Become(SetUnread(World, ptr[h], b))
  BY DEF Fill, ReadOut
<1> DEFINE V == SetUnread(World, ptr[h], b)
<1>2. Valid(World, h) /\ ptr[h] = World.ptr[h]
  BY WorldFields DEF Fill, ReadOut
<1>3. Become(V) /\ Sound(V)
  BY <1>1, <1>2, SetUnreadSound DEF IInv
<1> HIDE DEF V
<1>4. Step(V)
  BY <1>3, StepAbove
<1>5. World \in Worlds /\ ptr[h] \in Slots
  BY <1>2, <1>4, HandleNames, ValidHolds DEF Step, WF
<1>6. Same(World, V)
  BY <1>5, SetUnreadSame DEF V
<1> QED
  BY <1>4, <1>6, SameAbove

\* A stream that WiFiUDP receives into has no link, so nothing that becomes of it
\* is seen above: the last packet's stream is let go.
LEMMA LastPacketSame ==
  ASSUME WF(World, {}), RxOK(World), Idle(World), NEW h \in Handles, KindOf[h] = UdpRxKind
  PROVE  Same(World, LastPacketFreed(h)) /\ Holds(World, h) = NoLink
<1>1. h \in AllHandles /\ h # Tmp /\ World.ptr[h] = ptr[h]
  BY HandleNames, WorldFields
<1>2. Holds(World, h) = NoLink
  BY DEF RxOK, Holds
<1>3. CASE ~ Valid(World, h)
  BY <1>2, <1>3 DEF LastPacketFreed, Same
<1>4. CASE Valid(World, h)
  <2> DEFINE p == ptr[h]
             F == Free(World, p)
             V == LastPacketFreed(h)
  <2>1. V = AssignNull(F, h)
    BY <1>4 DEF LastPacketFreed
  <2>2. p \in Slots /\ World.pool[p].linkId = NoLink
    BY <1>1, <1>2, <1>4, ValidHolds
  <2>3. Same(World, F)
    BY <2>2, FreeSame
  <2>4. World.pool[p].linkId \notin World.open
    BY <2>2 DEF WF, LinksOK
  <2>5. WF(F, {})
    BY <2>2, <2>4, FreeWF
  <2>6. F.ptr = World.ptr /\ F.sid = World.sid
    BY <2>2, FreeFields DEF WF, Free
  <2> HIDE DEF F
  <2>7. F.ptr[Tmp] = Null /\ F.sid[Tmp] = 0
    BY <2>6, IdleHolds
  <2>8. Holds(F, h) = NoLink
    BY <1>1, <1>2, <2>3 DEF Same
  <2>9. Same(F, V)
    BY <1>1, <2>1, <2>5, <2>7, <2>8, AssignNullSame
  <2> QED
    BY <1>2, <2>3, <2>9, SameTrans
<1> QED
  BY <1>3, <1>4

\* parsePacket() without a packet.
LEMMA NoPacketAbove ==
  ASSUME IInv, NoWrap, NoWrap', NEW h \in Handles, NoPacket(h)
  PROVE  Owner' = Owner /\ open' = open
<1> DEFINE V == LastPacketFreed(h)
<1>1. Become(V) /\ Sound(V) /\ KindOf[h] = UdpRxKind
  BY LastPacketSound DEF NoPacket, IInv
<1> HIDE DEF V
<1>2. Step(V)
  BY <1>1, StepAbove
<1>3. Same(World, V)
  BY <1>1, <1>2, LastPacketSame DEF Step, V
<1> QED
  BY <1>2, <1>3, SameAbove

\* parsePacket() with one.
LEMMA ParsePacketAbove ==
  ASSUME IInv, NoWrap, NoWrap', NEW h \in Handles, ParsePacket(h)
  PROVE  Owner' = Owner /\ open' = open
<1>1. KindOf[h] = UdpRxKind /\ \E got \in BOOLEAN : Become(PacketWorld(h, got))
  BY DEF ParsePacket
<1>2. PICK got \in BOOLEAN : Become(PacketWorld(h, got))
  BY <1>1
<1> DEFINE X == LastPacketFreed(h)
           W == TakeStream(X, h, NoLink, UdpRxKind)
           V == PacketWorld(h, got)
<1>3. Become(V) /\ Sound(V)
  BY <1>1, <1>2, ParsePacketSound DEF IInv
<1>4. V = IF ~ Valid(W, h) THEN W
          ELSE IF got THEN SetUnread(W, W.ptr[h], TRUE) ELSE Free(W, W.ptr[h])
  BY DEF PacketWorld
<1> HIDE DEF V
<1>5. Step(V)
  BY <1>3, StepAbove
<1>6. h \in AllHandles /\ h # Tmp /\ UdpRxKind \in Kinds /\ World \in Worlds
      /\ World.requests = requests /\ requests \in Nat
  BY <1>5, HandleNames DEF Kinds, Step, WF, Worlds
<1>7. Same(World, X) /\ Holds(World, h) = NoLink
  BY <1>1, <1>5, LastPacketSame DEF Step
<1>8. Steady(World, X, {h, Tmp}) /\ Idle(X) /\ WF(X, {})
  BY <1>1, <1>5, LastPacketSound DEF Step, IInv
<1> HIDE DEF X
<1>9. X \in Worlds /\ X.requests = requests
  BY <1>6, <1>8 DEF Steady, Frame
<1>10. W \in Worlds /\ W.requests = requests + 1
  <2>1. Frame(Counted(X), W, {h, Tmp})
    BY <1>6, <1>9, TakeStreamFrame DEF NoLink
  <2> QED
    BY <1>9, <2>1, CountedFields DEF Frame
<1> HIDE DEF W
<1>11. requests + 1 < SerialMod
  <2>1. V.requests = W.requests
    <3>1. CASE ~ Valid(W, h)
      BY <1>4, <3>1
    <3>2. CASE Valid(W, h)
      <4>1. W.ptr[h] \in Slots
        BY <1>6, <1>10, <3>2, ValidOwner
      <4>2. SetUnread(W, W.ptr[h], TRUE).requests = W.requests
        BY <1>10, <4>1, SetUnreadFields
      <4>3. Free(W, W.ptr[h]).requests = W.requests
        BY <1>10, <4>1, FreeFrame DEF Steady, Frame
      <4> QED
        BY <1>4, <3>2, <4>2, <4>3
    <3> QED
      BY <3>1, <3>2
  <2>2. requests' = V.requests
    BY <1>3 DEF Become
  <2> QED
    BY <1>10, <2>1, <2>2 DEF NoWrap
<1>12. MayTake(X, {}, NoLink)
  BY <1>6, <1>8, <1>9, <1>11 DEF MayTake, Idle, NoLink
<1>13. Takes(X, W, h, NoLink)
  BY <1>6, <1>8, <1>12, TakeStreamTakes DEF W
<1>14. WF(W, {})
  <2>1. WF(W, {}) \/ WF(W, {} \ {NoLink})
    BY <1>6, <1>8, <1>12, TakeStreamWF DEF W
  <2>2. {} \ {NoLink} = {}
    OBVIOUS
  <2> QED
    BY <2>1, <2>2
<1>15. Same(X, W)
  <2>1. Holds(X, h) = NoLink
    BY <1>6, <1>7 DEF Same
  <2>2. W.open = X.open
    BY <1>6, <1>8, <1>13, <2>1, NothingClosed DEF Takes
  <2> QED
    BY <1>13, <2>1, <2>2 DEF Takes, Same
<1>16. Same(W, V)
  <2>1. CASE ~ Valid(W, h)
    BY <1>4, <2>1 DEF Same
  <2>2. CASE Valid(W, h)
    <3>1. W.ptr[h] \in Slots /\ W.pool[W.ptr[h]].linkId = NoLink
      BY <1>6, <1>13, <1>14, <2>2, ValidHolds DEF Takes
    <3>2. Same(W, SetUnread(W, W.ptr[h], TRUE))
      BY <1>10, <3>1, SetUnreadSame
    <3>3. Same(W, Free(W, W.ptr[h]))
      BY <1>14, <3>1, FreeSame
    <3> QED
      BY <1>4, <2>2, <3>2, <3>3
  <2> QED
    BY <2>1, <2>2
<1>17. Same(World, V)
  BY <1>7, <1>15, <1>16 DEF Same
<1> QED
  BY <1>5, <1>17, SameAbove

\* The peer closes a connection; the objects still have it.
LEMMA PeerCloseAbove ==
  ASSUME IInv, NoWrap, NoWrap', NEW c \in open, PeerClose(c)
  PROVE  Abstract!PeerClose(c)
<1> DEFINE V == CloseLink(World, c)
<1>1. Become(V) /\ Sound(V)
  BY PeerCloseSound DEF PeerClose, IInv
<1>2. World \in Worlds
  BY DEF IInv, TypeOK
<1>3. V.pool = World.pool /\ V.ptr = World.ptr /\ V.sid = World.sid /\ V.open = World.open \ {c}
  BY <1>2, CloseLinkFields
<1> HIDE DEF V
<1>4. Step(V)
  BY <1>1, StepAbove
<1>5. \A f \in AllHandles : Holds(V, f) = Holds(World, f)
  BY <1>3, HoldsKept
<1>6. Owner' = Owner
  BY <1>4, <1>5, HandleNames DEF Step
<1>7. open' = open \ {c}
  BY <1>3, <1>4 DEF Step
<1> QED
  BY <1>6, <1>7 DEF Abstract!PeerClose

-----------------------------------------------------------------------------
(* The theorem.                                                            *)

\* Every step of the pool is a step above, or none.
LEMMA NextAbove ==
  ASSUME IInv, NoWrap, NoWrap', Next
  PROVE  Abstract!Next \/ (Owner' = Owner /\ open' = open)
<1>1. ASSUME NEW c \in open, PeerClose(c) PROVE Abstract!Next
  BY <1>1, PeerCloseAbove DEF Abstract!Next
<1>2. ASSUME NEW h \in Handles, HandleStep(h)
      PROVE  \/ Abstract!Receive(h, Owner'[h]) \/ Abstract!Connect(h, Owner'[h])
             \/ Abstract!Drop(h) \/ Abstract!Stop(h) \/ Abstract!Forget(h)
             \/ \E g \in Handles \ {h} : Abstract!Share(h, g) \/ Abstract!Move(h, g)
             \/ Owner' = Owner /\ open' = open
  <2>1. CASE Stop(h)
    BY <2>1, StopAbove
  <2>2. CASE Connect(h)
    BY <2>2, ConnectAbove
  <2>3. CASE Accept(h)
    BY <2>3, AcceptAbove
  <2>4. CASE Clear(h)
    BY <2>4, ClearAbove
  <2>5. CASE Drop(h)
    BY <2>5, GoneAbove
  <2>6. CASE Connected(h)
    BY <2>6, ConnectedAbove
  <2>7. CASE Notice(h) \/ Available(h)
    BY <2>7, NoticeAbove
  <2>8. CASE Fill(h) \/ ReadOut(h)
    BY <2>8, BytesAbove
  <2>9. CASE NoPacket(h)
    BY <2>9, NoPacketAbove
  <2>10. CASE ParsePacket(h)
    BY <2>10, ParsePacketAbove
  <2>11. ASSUME NEW g \in Handles, Copy(h, g) \/ Move(h, g) \/ NewCopy(h, g) \/ NewMoved(h, g)
         PROVE  \/ \E f \in Handles \ {h} : Abstract!Share(h, f) \/ Abstract!Move(h, f)
                \/ Owner' = Owner /\ open' = open
    <3>1. g # h
      BY <2>11 DEF Copy, Move, NewCopy, NewMoved
    <3>2. \/ Abstract!Share(h, g) \/ Abstract!Move(h, g)
          \/ Owner' = Owner /\ open' = open
      BY <2>11, CopyAbove, MovedAbove, NewCopyAbove, NewMovedAbove
    <3> QED
      BY <3>1, <3>2
  <2> QED
    BY <1>2, <2>1, <2>2, <2>3, <2>4, <2>5, <2>6, <2>7, <2>8, <2>9, <2>10, <2>11 DEF HandleStep
<1>3. ASSUME NEW h \in Handles, HandleStep(h)
      PROVE  Abstract!Next \/ (Owner' = Owner /\ open' = open)
  BY <1>2, <1>3 DEF Abstract!Next
<1> QED
  BY <1>1, <1>3 DEF Next

\* While no serial id is given twice, the pool of reference counted streams is an
\* implementation of objects that own connections: a connection stays open
\* exactly as long as an object owns it, stop() through one object takes it from
\* every copy, and no operation of one object touches what another owns
\* (WiFiEspAtBuffManager, WiFiEspAtSharedBuffStreamPtr, WiFiClient, WiFiUDP).
THEOREM PoolImplementsOwnership == Spec /\ []NoWrap => OwnershipSpec
<1>1. Init => Abstract!Init
  <2>1. ASSUME Init, NEW h \in Handles PROVE ~ Valid(World, h)
    BY <2>1, HandleNames, WorldFields DEF Init, Valid
  <2> QED
    BY <2>1 DEF Abstract!Init, Owner, Init
<1>2. IInv /\ NoWrap /\ NoWrap' /\ [Next]_vars => [Abstract!Next]_(Abstract!vars)
  <2>1. CASE UNCHANGED vars
    <3>1. World' = World
      BY <2>1 DEF vars, World
    <3>2. \A h \in Handles : Valid(World, h)' = Valid(World, h)
      BY <3>1 DEF Valid
    <3>3. Owner' = [h \in Handles |-> IF Valid(World, h)' THEN pool'[ptr'[h]].linkId ELSE NoLink]
      BY DEF Owner, NoLink
    <3>4. Owner' = Owner /\ open' = open
      BY <2>1, <3>2, <3>3 DEF vars, Owner
    <3> QED
      BY <3>4 DEF Abstract!vars
  <2>2. ASSUME IInv, NoWrap, NoWrap', Next PROVE [Abstract!Next]_(Abstract!vars)
    BY <2>2, NextAbove DEF Abstract!vars
  <2> QED
    BY <2>1, <2>2
<1>3. Spec => []IInv
  BY Invariance
<1>4. Init /\ [][Next]_vars /\ []IInv /\ []NoWrap => Abstract!Spec
  BY <1>1, <1>2, PTL DEF Abstract!Spec
<1> QED
  BY <1>3, <1>4, PTL DEF Spec, OwnershipSpec
=============================================================================
