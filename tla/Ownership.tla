------------------------------ MODULE Ownership ------------------------------
(***************************************************************************)
(* What WiFiClient promises about the life of a connection, without        *)
(* buffers, reference counts or serial ids.  Every object owns at most one *)
(* connection.  A connection stays open exactly as long as some object     *)
(* owns it, unless a stop() or the peer closes it; a stop() through one    *)
(* object takes the connection from every copy.                            *)
(***************************************************************************)
CONSTANTS Objects, None

VARIABLES owner, open
vars == <<owner, open>>

Owned(o) == {o[h] : h \in Objects} \ {None}

\* the connections left open when the objects own what o says
Kept(o) == open \cap Owned(o)

\* what the objects own once the connection of h is taken from all of them
Taken(h) == [g \in Objects |-> IF owner[g] = owner[h] THEN None ELSE owner[g]]

Fresh(c) == c # None /\ c \notin open /\ c \notin Owned(owner)

\* h = server.accept()
Receive(h, c) ==
  /\ Fresh(c)
  /\ owner' = [owner EXCEPT ![h] = c]
  /\ open' = Kept(owner') \cup {c}

\* h.connect(): the connection h has is stopped first
Connect(h, c) ==
  /\ Fresh(c)
  /\ owner' = [Taken(h) EXCEPT ![h] = c]
  /\ open' = (open \ {owner[h]}) \cup {c}

\* h = g for a copy, and the end of what h owned
Share(h, g) == owner' = [owner EXCEPT ![h] = owner[g]] /\ open' = Kept(owner')
Drop(h)     == owner' = [owner EXCEPT ![h] = None]     /\ open' = Kept(owner')

\* h = std::move(g): g owns nothing afterwards
Move(h, g) ==
  owner' = [owner EXCEPT ![h] = owner[g], ![g] = None] /\ open' = Kept(owner')

Stop(h) == owner' = Taken(h) /\ open' = open \ {owner[h]}

\* the peer closes c; later the objects find out and let go of it
PeerClose(c) == c \in open /\ open' = open \ {c} /\ UNCHANGED owner
Forget(h)    == owner[h] \notin open /\ owner' = Taken(h) /\ UNCHANGED open

Init == owner = [h \in Objects |-> None] /\ open = {}

\* A fresh connection is whatever the new owner owns in the next state.
Next ==
  \/ \E h \in Objects :
       \/ Receive(h, owner'[h]) \/ Connect(h, owner'[h])
       \/ Drop(h) \/ Stop(h) \/ Forget(h)
       \/ \E g \in Objects \ {h} : Share(h, g) \/ Move(h, g)
  \/ \E c \in open : PeerClose(c)

Spec == Init /\ [][Next]_vars
=============================================================================
