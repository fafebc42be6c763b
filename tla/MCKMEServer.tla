--------------------------- MODULE MCKMEServer ---------------------------
(* Instances of the server for TLC: two applications, hence one route. *)
EXTENDS KMEServer, TLC

CONSTANTS k1, k2, c1, c2, ank, ist, route

\* Whoever asks, and for whichever peer: the keys of one route.
OneRoute == [pair \in {{a, b} : a, b \in Sae} |-> route]

\* Bound: no application asks for its own name; that route has the same keys.
ForeignPeers == \A c \in Conn : req[c] # None => req[c].peer # who[c]

\* All keys have one size.
OneSize == [r \in Route |-> [k \in KeyId |-> 256]]

ServerSymmetry == Permutations(Conn) \cup Permutations(KeyId)
=============================================================================
