--------------------------- MODULE MCSharedBuffers ---------------------------
(* Instances of SharedBuffers for TLC: clients only, and all three kinds.   *)
EXTENDS SharedBuffers, TLC

CONSTANTS h1, h2, h3, h4

ClientsOnly == [h \in Handles |-> ClientKind]   \* of one kind
AllKinds    == (h1 :> ClientKind) @@ (h2 :> ClientKind) @@ (h3 :> UdpTxKind) @@ (h4 :> UdpRxKind)

\* 253 connections were made and stopped one after the other by one object that
\* is gone: the pool has one freed stream.
LateInit ==
  /\ pool = [i \in Slots |-> Blank(IF i = 1 THEN ClientKind ELSE NoKind)]
  /\ ptr = [h \in AllHandles |-> Null] /\ sid = [h \in AllHandles |-> 0]
  /\ serialId = 253 /\ open = {} /\ requests = 253
LateSpec == LateInit /\ [][Next]_vars

Interchangeable == Permutations({h1, h2})
=============================================================================
