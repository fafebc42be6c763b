------------------------------ MODULE KMEProofs ------------------------------
(***************************************************************************)
(* Proofs about the KME: its key store (KMEKeyStore) and the server around *)
(* it (KMEServer), for any routes, applications, keys, connections and     *)
(* bounds, and for any exports, those with delivered keys included.        *)
(*                                                                         *)
(* 1. The store by itself: its inductive invariant IInv, what is in the    *)
(*    queue, how often a key is given out, and what the audit counters     *)
(*    count.                                                               *)
(* 2. The store implements KeyDelivery: every method of the class is one   *)
(*    step in the life of its keys, whatever it does to the queue array,   *)
(*    its head index and the flags.  One fact is needed besides IInv:      *)
(*    SlaveLast, for the keys a refused request spends.                    *)
(* 3. The server, seen twice.  Its connections keep ConnInv, whatever the  *)
(*    store does; and whatever a handler or a timer does to the store is a *)
(*    step of the store, a call of one of its methods.                     *)
(***************************************************************************)
EXTENDS KMEServer, FiniteSetTheorems, SequenceTheorems, TLAPS

-----------------------------------------------------------------------------
(* Sequences.                                                              *)

\* What stands in line does not depend on what is appended behind it.
LEMMA TailOfConcat ==
  ASSUME NEW T, NEW u \in Seq(T), NEW o \in Seq(T), NEW h \in Nat, h <= Len(u)
  PROVE  SubSeq(u \o o, h + 1, Len(u \o o)) = SubSeq(u, h + 1, Len(u)) \o o
<1> DEFINE a == SubSeq(u \o o, h + 1, Len(u \o o))
           b == SubSeq(u, h + 1, Len(u)) \o o
<1>1. a \in Seq(T) /\ b \in Seq(T)
  OBVIOUS
<1>2. Len(a) = Len(u) + Len(o) - h /\ Len(b) = Len(u) + Len(o) - h
  OBVIOUS
<1>3. ASSUME NEW i \in 1..Len(a) PROVE a[i] = b[i]
  <2>1. a[i] = (u \o o)[h + i]
    BY <1>2
  <2>2. CASE h + i <= Len(u)
    BY <2>1, <2>2, <1>2
  <2>3. CASE h + i > Len(u)
    BY <2>1, <2>3, <1>2
  <2> QED  BY <2>2, <2>3
<1> HIDE DEF a, b
<1>4. a = b
  BY <1>1, <1>2, <1>3
<1> QED  BY <1>4 DEF a, b

\* l is what follows the first h of u.
IsTail(u, h, l) == l = SubSeq(u, h + 1, Len(u))

\* cut is l without its n first, which in u are those after the first h.
TailSplit(u, h, n, l, cut) ==
  /\ cut = SubSeq(l, n + 1, Len(l))
  /\ SubSeq(cut, 1, Len(cut)) = SubSeq(l, n + 1, Len(l))
  /\ Len(l) = Len(u) - h
  /\ \A i \in 1..n : l[i] = u[h + i]

\* The line after the n first have left it, with the array cut or not.
LEMMA TailOfTail ==
  ASSUME NEW u \in Seq(KeyId), NEW h \in Nat, NEW n \in Nat, h + n <= Len(u),
         NEW l, IsTail(u, h, l), NEW cut, IsTail(u, h + n, cut)
  PROVE  TailSplit(u, h, n, l, cut)
<1> DEFINE rest == SubSeq(l, n + 1, Len(l))
           same == SubSeq(cut, 1, Len(cut))
<1>1. /\ l \in Seq(KeyId) /\ Len(l) = Len(u) - h
      /\ \A i \in 1..Len(l) : l[i] = u[h + i]
  BY DEF IsTail
<1>2. /\ cut \in Seq(KeyId) /\ Len(cut) = Len(u) - h - n
      /\ \A i \in 1..Len(cut) : cut[i] = u[h + n + i]
  BY DEF IsTail
<1>3. /\ rest \in Seq(KeyId) /\ Len(rest) = Len(u) - h - n
      /\ \A i \in 1..Len(rest) : rest[i] = l[n + i]
  BY <1>1 DEF IsTail
<1>4. /\ same \in Seq(KeyId) /\ Len(same) = Len(cut)
      /\ \A i \in 1..Len(same) : same[i] = cut[i]
  BY <1>2 DEF IsTail
<1> HIDE DEF rest, same
<1>5. ASSUME NEW i \in 1..Len(rest) PROVE rest[i] = u[h + n + i]
  <2>1. n + i \in 1..Len(l) /\ h + (n + i) = h + n + i
    BY <1>1, <1>3
  <2> QED  BY <2>1, <1>1, <1>3
<1>6. cut = rest
  <2>1. ASSUME NEW i \in 1..Len(rest) PROVE cut[i] = rest[i]
    <3>1. i \in 1..Len(cut)
      BY <1>2, <1>3
    <3>2. cut[i] = u[h + n + i]
      BY <3>1, <1>2
    <3> QED  BY <3>2, <1>5
  <2> QED  BY <2>1, <1>2, <1>3, SeqEqual
<1>7. same = rest
  <2>1. Len(same) = Len(rest) /\ \A i \in 1..Len(same) : same[i] = rest[i]
    BY <1>4, <1>6
  <2> QED  BY <2>1, <1>3, <1>4, SeqEqual
<1>8. \A i \in 1..n : l[i] = u[h + i]
  BY <1>1
<1> QED  BY <1>1, <1>6, <1>7, <1>8 DEF rest, same, TailSplit

-----------------------------------------------------------------------------
(* 1. The key store.                                                       *)

\* What QueueHoldsUnissued says of one route, with queue u, used prefix h
\* and map m.
LineHolds(u, h, m) ==
  /\ \A i, j \in h + 1 .. Len(u) : u[i] = u[j] => i = j
  /\ {u[i] : i \in h + 1 .. Len(u)} = {k \in DOMAIN m : ~m[k].issuedToMaster}

\* A map of a route.
IsMap(m) == DOMAIN m \in SUBSET KeyId /\ m \in [DOMAIN m -> Entry]

-----------------------------------------------------------------------------
(* Lemmas about the operators of the store.                                *)

\* A listing is a sequence that holds every element of the set exactly once.
LEMMA ListingFacts ==
  ASSUME NEW T, NEW S \in SUBSET T, IsFiniteSet(S), NEW f \in Listings(S)
  PROVE  /\ f \in Seq(S) /\ f \in Seq(T)
         /\ \A i, j \in 1..Len(f) : f[i] = f[j] => i = j
         /\ {f[i] : i \in 1..Len(f)} = S
<1>1. Cardinality(S) \in Nat
  BY FS_CardinalityType
<1>2. /\ f \in [1..Cardinality(S) -> S]
      /\ \A k \in S : \E i \in 1..Cardinality(S) :
            /\ f[i] = k
            /\ \A j \in 1..Cardinality(S) : f[j] = k => j = i
  BY DEF Listings
<1>3. f \in Seq(S) /\ f \in Seq(T) /\ Len(f) = Cardinality(S)
  <2>1. f \in [1..Cardinality(S) -> T]
    BY <1>2
  <2> QED BY <1>1, <1>2, <2>1
<1>4. \A i, j \in 1..Len(f) : f[i] = f[j] => i = j
  BY <1>2, <1>3
<1>5. {f[i] : i \in 1..Len(f)} = S
  BY <1>2, <1>3
<1> QED BY <1>3, <1>4, <1>5

\* What TypeOK says of the variables that are indexed by routes.
LEMMA Shape ==
  ASSUME TypeOK
  PROVE  /\ DOMAIN routes = Route /\ routes = [r \in Route |-> routes[r]]
         /\ unissued \in [Route -> Seq(KeyId)]
         /\ head \in [Route -> Nat]
         /\ \A r \in Route : head[r] <= Len(unissued[r])
BY DEF TypeOK

\* Every route has a map.
LEMMA RouteMap ==
  ASSUME TypeOK, NEW r \in Route
  PROVE  IsMap(routes[r])
BY DEF TypeOK, IsMap

\* Maps of all routes make a value of routes.
LEMMA MapsMakeRoutes ==
  ASSUME NEW f, f = [r \in Route |-> f[r]], \A r \in Route : IsMap(f[r])
  PROVE  f \in [Route -> UNION {[S -> Entry] : S \in SUBSET KeyId}]
BY DEF IsMap

\* The invariant, route by route.
LEMMA QueueByRoute ==
  QueueHoldsUnissued <=>
    \A r \in Route : LineHolds(unissued[r], head[r], routes[r])
BY DEF QueueHoldsUnissued, LineHolds

\* New keys at the end of the queue: the line grows by exactly them.
LEMMA LineGrows ==
  ASSUME NEW u \in Seq(KeyId), NEW h \in Nat, h <= Len(u),
         NEW m, NEW m2, LineHolds(u, h, m), IsMap(m), IsMap(m2),
         NEW new \in SUBSET KeyId, new \cap DOMAIN m = {},
         DOMAIN m2 = DOMAIN m \cup new,
         \A k \in new : m2[k] = Fresh,
         \A k \in DOMAIN m : m2[k] = m[k],
         NEW o \in Seq(new),
         \A i, j \in 1..Len(o) : o[i] = o[j] => i = j,
         {o[i] : i \in 1..Len(o)} = new
  PROVE  LineHolds(u \o o, h, m2)
<1> DEFINE v == u \o o
<1>1. /\ v \in Seq(KeyId)
      /\ Len(v) = Len(u) + Len(o)
      /\ \A i \in 1..Len(u) : v[i] = u[i]
      /\ \A i \in Len(u) + 1 .. Len(v) : v[i] = o[i - Len(u)]
  OBVIOUS
<1>2. /\ Len(u) \in Nat /\ Len(o) \in Nat
      /\ \A i \in h + 1 .. Len(u) : i \in 1..Len(u)
      /\ \A i \in h + 1 .. Len(v) : i \in h + 1 .. Len(u) \/ i \in Len(u) + 1 .. Len(v)
      /\ \A i \in Len(u) + 1 .. Len(v) : i - Len(u) \in 1..Len(o)
      /\ \A i \in 1..Len(o) : i + Len(u) \in Len(u) + 1 .. Len(v)
  BY <1>1
<1>3. \A i \in h + 1 .. Len(u) : v[i] \in DOMAIN m /\ ~m[v[i]].issuedToMaster
  BY <1>1, <1>2 DEF LineHolds
<1>4. \A i \in Len(u) + 1 .. Len(v) : v[i] \in new
  <2>1. \A i \in 1..Len(o) : o[i] \in new
    OBVIOUS
  <2> QED BY ONLY <2>1, <1>1, <1>2
<1>5. \A i, j \in h + 1 .. Len(v) : v[i] = v[j] => i = j
  <2> SUFFICES ASSUME NEW i \in h + 1 .. Len(v), NEW j \in h + 1 .. Len(v),
                      v[i] = v[j]
               PROVE  i = j
    OBVIOUS
  <2>1. CASE i \in h + 1 .. Len(u) /\ j \in h + 1 .. Len(u)
    BY <2>1, <1>1, <1>2 DEF LineHolds
  <2>2. CASE i \in Len(u) + 1 .. Len(v) /\ j \in Len(u) + 1 .. Len(v)
    <3>1. /\ i - Len(u) \in 1..Len(o) /\ j - Len(u) \in 1..Len(o)
          /\ o[i - Len(u)] = o[j - Len(u)]
      BY <2>2, <1>1, <1>2
    <3>2. i - Len(u) = j - Len(u)
      BY <3>1
    <3> QED BY <3>2, <2>2, <1>2
  <2>3. CASE \/ i \in h + 1 .. Len(u) /\ j \in Len(u) + 1 .. Len(v)
             \/ j \in h + 1 .. Len(u) /\ i \in Len(u) + 1 .. Len(v)
    BY <2>3, <1>3, <1>4
  <2> QED BY <2>1, <2>2, <2>3, <1>2
<1>6. {v[i] : i \in h + 1 .. Len(v)} =
        {u[i] : i \in h + 1 .. Len(u)} \cup {o[i] : i \in 1..Len(o)}
  <2>1. ASSUME NEW i \in h + 1 .. Len(u)
        PROVE  i \in h + 1 .. Len(v) /\ v[i] = u[i]
    BY <1>1, <1>2
  <2>2. ASSUME NEW i \in 1..Len(o)
        PROVE  i + Len(u) \in h + 1 .. Len(v) /\ v[i + Len(u)] = o[i]
    BY <1>1, <1>2
  <2>3. ASSUME NEW i \in h + 1 .. Len(v)
        PROVE  \/ i \in h + 1 .. Len(u) /\ v[i] = u[i]
               \/ i - Len(u) \in 1..Len(o) /\ v[i] = o[i - Len(u)]
    BY <1>1, <1>2
  <2> HIDE DEF v
  <2>4. ASSUME NEW i \in h + 1 .. Len(v)
        PROVE  v[i] \in {u[j] : j \in h + 1 .. Len(u)}
                         \cup {o[j] : j \in 1..Len(o)}
    BY <2>3
  <2>5. ASSUME NEW i \in h + 1 .. Len(u)
        PROVE  u[i] \in {v[j] : j \in h + 1 .. Len(v)}
    BY <2>1
  <2>6. ASSUME NEW i \in 1..Len(o)
        PROVE  o[i] \in {v[j] : j \in h + 1 .. Len(v)}
    BY <2>2
  <2> QED BY ONLY <2>4, <2>5, <2>6
<1>7. {k \in DOMAIN m2 : ~m2[k].issuedToMaster} =
        {k \in DOMAIN m : ~m[k].issuedToMaster} \cup new
  BY DEF Fresh
<1> QED BY <1>5, <1>6, <1>7 DEF LineHolds

\* The n oldest keys leave the line: either the head moves past them or the
\* used prefix is cut off, and in both cases the keys behind them remain.
LEMMA LineShrinks ==
  ASSUME NEW u \in Seq(KeyId), NEW h \in Nat, NEW n \in Nat, h + n <= Len(u),
         NEW m, NEW m2, LineHolds(u, h, m),
         DOMAIN m2 = DOMAIN m,
         \A k \in DOMAIN m : m2[k].issuedToMaster <=>
            m[k].issuedToMaster \/ k \in {u[i] : i \in h + 1 .. h + n}
  PROVE  /\ LineHolds(u, h + n, m2)
         /\ LineHolds(SubSeq(u, h + n + 1, Len(u)), 0, m2)
<1>1. \A i, j \in h + 1 .. Len(u) : u[i] = u[j] => i = j
  BY DEF LineHolds
<1>2. \A i \in h + n + 1 .. Len(u) : i \in h + 1 .. Len(u)
  OBVIOUS
<1>3. \A i \in h + 1 .. h + n : i \in h + 1 .. Len(u)
  OBVIOUS
<1>4. \A i \in h + 1 .. Len(u) : i \in h + 1 .. h + n \/ i \in h + n + 1 .. Len(u)
  OBVIOUS
<1>5. \A i \in h + n + 1 .. Len(u) : i \notin h + 1 .. h + n
  OBVIOUS
<1>6. {u[i] : i \in h + n + 1 .. Len(u)} = {k \in DOMAIN m2 : ~m2[k].issuedToMaster}
  <2>1. {k \in DOMAIN m2 : ~m2[k].issuedToMaster} =
          {u[i] : i \in h + 1 .. Len(u)} \ {u[i] : i \in h + 1 .. h + n}
    BY DEF LineHolds
  <2>2. {u[i] : i \in h + 1 .. Len(u)} \ {u[i] : i \in h + 1 .. h + n} =
          {u[i] : i \in h + n + 1 .. Len(u)}
    BY <1>1, <1>2, <1>3, <1>4, <1>5
  <2> QED BY <2>1, <2>2
<1>7. LineHolds(u, h + n, m2)
  BY <1>1, <1>2, <1>6 DEF LineHolds
<1> DEFINE w == SubSeq(u, h + n + 1, Len(u))
<1>8. /\ Len(w) = Len(u) - (h + n)
      /\ \A i \in 1..Len(w) : w[i] = u[h + n + i]
  OBVIOUS
<1>9. /\ \A i \in 1..Len(w) : h + n + i \in h + n + 1 .. Len(u)
      /\ \A i \in h + n + 1 .. Len(u) : i - (h + n) \in 1..Len(w)
                                        /\ w[i - (h + n)] = u[i]
  BY <1>8
<1>10. {w[i] : i \in 0 + 1 .. Len(w)} = {u[i] : i \in h + n + 1 .. Len(u)}
  <2> HIDE DEF w
  <2>1. ASSUME NEW i \in 0 + 1 .. Len(w)
        PROVE  w[i] \in {u[j] : j \in h + n + 1 .. Len(u)}
    <3>1. i \in 1..Len(w)
      OBVIOUS
    <3>2. h + n + i \in h + n + 1 .. Len(u) /\ w[i] = u[h + n + i]
      BY ONLY <3>1, <1>8, <1>9
    <3> QED BY ONLY <3>2
  <2>2. ASSUME NEW i \in h + n + 1 .. Len(u)
        PROVE  u[i] \in {w[j] : j \in 0 + 1 .. Len(w)}
    <3>1. i - (h + n) \in 0 + 1 .. Len(w) /\ w[i - (h + n)] = u[i]
      BY <1>9
    <3> QED BY <3>1
  <2> QED BY ONLY <2>1, <2>2
<1>11. \A i, j \in 0 + 1 .. Len(w) : w[i] = w[j] => i = j
  BY <1>1, <1>2, <1>8, <1>9
<1>12. LineHolds(w, 0, m2)
  BY <1>6, <1>10, <1>11 DEF LineHolds
<1> QED BY <1>7, <1>12

-----------------------------------------------------------------------------
(* The invariant, action by action.                                        *)

IInv == TypeOK /\ QueueHoldsUnissued

LEMMA InitHolds == Init => IInv
<1> SUFFICES ASSUME Init PROVE IInv
  OBVIOUS
<1>1. \A r \in Route : routes[r] = <<>> /\ unissued[r] = <<>> /\ head[r] = 0
  BY DEF Init, NoKeys
<1>2. \A r \in Route : IsMap(routes[r])
  <2>1. DOMAIN << >> = {} /\ << >> \in [{} -> Entry]
    OBVIOUS
  <2> QED BY <1>1, <2>1 DEF IsMap
<1>3. routes = [r \in Route |-> routes[r]]
  BY DEF Init, NoKeys
<1>4. TypeOK
  <2>1. routes \in [Route -> UNION {[S -> Entry] : S \in SUBSET KeyId}]
    BY <1>2, <1>3, MapsMakeRoutes
  <2>2. << >> \in Seq(KeyId) /\ Len(<< >>) = 0
    OBVIOUS
  <2>3. unissued \in [Route -> Seq(KeyId)] /\ head \in [Route -> Nat]
    BY <2>2 DEF Init, NoKeys
  <2>4. \A r \in Route : head[r] <= Len(unissued[r])
    BY <2>2, <1>1
  <2>5. encGiven \in [Route -> [KeyId -> Nat]]
        /\ decGiven \in [Route -> [KeyId -> Nat]]
    BY DEF Init, Zero
  <2>6. /\ deliveredCount \in Nat /\ destroyedCount \in Nat
        /\ restarts \in 0..MaxRestarts
    BY StoreAssumption DEF Init, StoreAssumption
  <2> QED BY <2>1, <2>3, <2>4, <2>5, <2>6 DEF TypeOK
<1>5. \A r \in Route : LineHolds(unissued[r], head[r], routes[r])
  BY <1>1 DEF LineHolds
<1> QED BY <1>4, <1>5, QueueByRoute DEF IInv

LEMMA ImportKeeps ==
  ASSUME IInv, NEW exp \in [Route -> SUBSET KeyId], Import(exp)
  PROVE  IInv'
<1> DEFINE new == [r \in Route |-> exp[r] \ DOMAIN routes[r]]
<1>1. exp \in [Route -> SUBSET KeyId]
  OBVIOUS
<1>2. /\ routes' = [r \in Route |->
                     [k \in DOMAIN routes[r] \cup new[r] |->
                        IF k \in new[r] THEN Fresh ELSE routes[r][k]]]
      /\ UNCHANGED <<head, deliveredCount, destroyedCount,
                     encGiven, decGiven, restarts>>
  BY DEF Import
<1>3. PICK order : /\ \A r \in Route : order[r] \in Listings(new[r])
                   /\ unissued' = [r \in Route |-> unissued[r] \o order[r]]
  BY DEF Import
<1>4. ASSUME NEW r \in Route
      PROVE  /\ IsMap(routes'[r])
             /\ unissued'[r] \in Seq(KeyId)
             /\ head'[r] = head[r] /\ head[r] <= Len(unissued'[r])
             /\ LineHolds(unissued'[r], head'[r], routes'[r])
  <2> DEFINE N == new[r]
             o == order[r]
             m == routes[r]
             m2 == routes'[r]
             u == unissued[r]
             h == head[r]
  <2>1. N \in SUBSET KeyId /\ N \cap DOMAIN m = {}
    BY <1>1
  <2>2. IsFiniteSet(N)
    BY <2>1, StoreAssumption, FS_Subset DEF StoreAssumption
  <2>3. /\ o \in Seq(N) /\ o \in Seq(KeyId)
        /\ \A i, j \in 1..Len(o) : o[i] = o[j] => i = j
        /\ {o[i] : i \in 1..Len(o)} = N
    <3>1. o \in Listings(N)
      BY <1>3
    <3> HIDE DEF N, o
    <3> QED BY <3>1, <2>1, <2>2, ListingFacts
  <2>4. IsMap(m)
    BY RouteMap DEF IInv
  <2>5. /\ DOMAIN m2 = DOMAIN m \cup N
        /\ \A k \in N : m2[k] = Fresh
        /\ \A k \in DOMAIN m : m2[k] = m[k]
        /\ m2 = [k \in DOMAIN m2 |-> m2[k]]
    BY <1>2, <2>1
  <2>6. IsMap(m2)
    <3>1. Fresh \in Entry
      BY DEF Fresh, Entry
    <3>2. \A k \in DOMAIN m2 : m2[k] \in Entry
      BY <3>1, <2>4, <2>5 DEF IsMap
    <3>3. DOMAIN m2 \in SUBSET KeyId
      BY <2>1, <2>4, <2>5 DEF IsMap
    <3> QED BY <3>2, <3>3, <2>5 DEF IsMap
  <2>7. u \in Seq(KeyId) /\ h \in Nat /\ h <= Len(u)
    BY Shape DEF IInv
  <2>8. unissued'[r] = u \o o /\ head'[r] = h
    BY <1>2, <1>3
  <2>9. LineHolds(u, h, m)
    BY QueueByRoute DEF IInv
  <2>10. LineHolds(u \o o, h, m2)
    <3> HIDE DEF N, o, m, m2, u, h
    <3> QED BY <2>1, <2>3, <2>4, <2>5, <2>6, <2>7, <2>9, LineGrows
  <2>11. u \o o \in Seq(KeyId) /\ h <= Len(u \o o)
    <3> HIDE DEF u, o, h
    <3> QED BY <2>3, <2>7
  <2>12. LineHolds(unissued'[r], head'[r], routes'[r])
    BY <2>8, <2>10
  <2>13. /\ unissued'[r] \in Seq(KeyId)
         /\ head'[r] = head[r] /\ head[r] <= Len(unissued'[r])
    BY <2>8, <2>11
  <2> QED BY <2>6, <2>12, <2>13
<1>5. TypeOK'
  <2>1. routes' = [r \in Route |-> routes'[r]]
    BY <1>2
  <2>2. routes' \in [Route -> UNION {[S -> Entry] : S \in SUBSET KeyId}]
    BY <2>1, <1>4, MapsMakeRoutes
  <2>3. unissued' \in [Route -> Seq(KeyId)]
    BY <1>3, <1>4
  <2> QED BY <2>2, <2>3, <1>2, <1>4 DEF IInv, TypeOK
<1>6. QueueHoldsUnissued'
  BY <1>4 DEF QueueHoldsUnissued, LineHolds
<1> QED BY <1>5, <1>6 DEF IInv

LEMMA EncServedKeeps ==
  ASSUME IInv, NEW r \in Route, NEW n \in 1..MaxNumber, NEW size \in Sizes,
         EncServed(r, n, size)
  PROVE  IInv'
<1> DEFINE u == unissued[r]
           h == head[r]
           m == routes[r]
           chosen == {u[i] : i \in h + 1 .. h + n}
           cut == h + n > CompactAt /\ (h + n) * 2 >= Len(u)
<1>1. /\ u \in Seq(KeyId) /\ h \in Nat /\ h <= Len(u)
      /\ n \in Nat /\ h + n <= Len(u)
  <2>1. u \in Seq(KeyId) /\ h \in Nat /\ h <= Len(u)
    BY Shape DEF IInv
  <2>2. n \in Nat
    BY StoreAssumption DEF StoreAssumption
  <2>3. Available(r) >= n
    BY DEF EncServed, EncAccepts
  <2> QED BY <2>1, <2>2, <2>3 DEF Available
<1>2. IsMap(m) /\ LineHolds(u, h, m)
  BY RouteMap, QueueByRoute DEF IInv
<1>a. /\ DOMAIN routes = Route /\ DOMAIN unissued = Route /\ DOMAIN head = Route
  BY Shape DEF IInv
<1>3. /\ routes' = [routes EXCEPT ![r] = [k \in DOMAIN m |->
                      IF k \in chosen
                      THEN [m[k] EXCEPT !.issuedToMaster = TRUE] ELSE m[k]]]
      /\ encGiven' = [encGiven EXCEPT ![r] = [k \in KeyId |->
                      IF k \in chosen THEN encGiven[r][k] + 1 ELSE encGiven[r][k]]]
      /\ unissued' = [unissued EXCEPT ![r] =
                      IF cut THEN SubSeq(u, h + n + 1, Len(u)) ELSE u]
      /\ head' = [head EXCEPT ![r] = IF cut THEN 0 ELSE h + n]
      /\ deliveredCount' = deliveredCount + n
      /\ UNCHANGED <<destroyedCount, decGiven, restarts>>
  BY DEF EncServed, Dequeue, Oldest, IInv, TypeOK
<1>b. /\ unissued'[r] = IF cut THEN SubSeq(u, h + n + 1, Len(u)) ELSE u
      /\ head'[r] = IF cut THEN 0 ELSE h + n
  <2> HIDE DEF u, h, cut, m, chosen
  <2> QED BY <1>3, <1>a
<1> DEFINE m2 == routes'[r]
<1>4. /\ DOMAIN m2 = DOMAIN m
      /\ m2 = [k \in DOMAIN m |->
                 IF k \in chosen
                 THEN [m[k] EXCEPT !.issuedToMaster = TRUE] ELSE m[k]]
  BY <1>3 DEF IInv, TypeOK
<1>5. \A k \in DOMAIN m : m2[k] \in Entry
                          /\ (m2[k].issuedToMaster <=>
                                 m[k].issuedToMaster \/ k \in chosen)
  <2> HIDE DEF chosen, m2, m
  <2> SUFFICES ASSUME NEW k \in DOMAIN m
               PROVE  m2[k] \in Entry
                      /\ (m2[k].issuedToMaster <=>
                             m[k].issuedToMaster \/ k \in chosen)
    OBVIOUS
  <2>1. m[k] \in Entry
    BY <1>2 DEF IsMap
  <2>2. m2[k] = IF k \in chosen
                THEN [m[k] EXCEPT !.issuedToMaster = TRUE] ELSE m[k]
    BY <1>4
  <2> QED BY <2>1, <2>2 DEF Entry
<1>6. IsMap(m2)
  <2> HIDE DEF chosen, m2, m
  <2> QED BY <1>2, <1>4, <1>5 DEF IsMap
<1>7. LineHolds(unissued'[r], head'[r], m2)
  <2>1. LineHolds(u, h + n, m2) /\ LineHolds(SubSeq(u, h + n + 1, Len(u)), 0, m2)
    <3>1. \A k \in DOMAIN m : m2[k].issuedToMaster <=>
            m[k].issuedToMaster \/ k \in {u[i] : i \in h + 1 .. h + n}
      BY <1>5
    <3> HIDE DEF chosen, m2, m, u, h
    <3> QED BY <3>1, <1>1, <1>2, <1>4, LineShrinks
  <2>2. \/ unissued'[r] = u /\ head'[r] = h + n
        \/ unissued'[r] = SubSeq(u, h + n + 1, Len(u)) /\ head'[r] = 0
    BY <1>b
  <2> HIDE DEF m2, u, h
  <2> QED BY <2>1, <2>2
<1>8. /\ unissued'[r] \in Seq(KeyId)
      /\ head'[r] \in Nat /\ head'[r] <= Len(unissued'[r])
  <2>1. CASE cut
    <3>1. unissued'[r] = SubSeq(u, h + n + 1, Len(u)) /\ head'[r] = 0
      BY <2>1, <1>b
    <3>2. SubSeq(u, h + n + 1, Len(u)) \in Seq(KeyId)
      BY <1>1
    <3>3. Len(SubSeq(u, h + n + 1, Len(u))) \in Nat
      BY <3>2
    <3> QED BY <3>1, <3>2, <3>3
  <2>2. CASE ~cut
    <3> HIDE DEF cut, u, h
    <3> QED BY <2>2, <1>1, <1>b
  <2> QED BY <2>1, <2>2
<1>9. \A s \in Route \ {r} : /\ routes'[s] = routes[s]
                              /\ unissued'[s] = unissued[s]
                              /\ head'[s] = head[s]
  BY <1>3, <1>a
<1>10. TypeOK'
  <2>1. \A s \in Route : IsMap(routes'[s])
    BY <1>6, <1>9, RouteMap DEF IInv
  <2>2. routes' = [s \in Route |-> routes'[s]]
    BY <1>3 DEF IInv, TypeOK
  <2>3. routes' \in [Route -> UNION {[S -> Entry] : S \in SUBSET KeyId}]
    BY <2>1, <2>2, MapsMakeRoutes
  <2>4. \A s \in Route : /\ unissued'[s] \in Seq(KeyId)
                         /\ head'[s] \in Nat /\ head'[s] <= Len(unissued'[s])
    BY <1>8, <1>9, Shape DEF IInv
  <2>5. /\ unissued' = [s \in Route |-> unissued'[s]]
        /\ head' = [s \in Route |-> head'[s]]
    BY <1>3, <1>a
  <2>6. unissued' \in [Route -> Seq(KeyId)] /\ head' \in [Route -> Nat]
    BY <2>4, <2>5
  <2>7. encGiven' \in [Route -> [KeyId -> Nat]]
    <3> HIDE DEF chosen
    <3> QED BY <1>3 DEF IInv, TypeOK
  <2>8. deliveredCount' \in Nat
    <3>1. deliveredCount \in Nat
      BY DEF IInv, TypeOK
    <3> QED BY <3>1, <1>1, <1>3
  <2>9. /\ destroyedCount' \in Nat /\ restarts' \in 0..MaxRestarts
        /\ decGiven' \in [Route -> [KeyId -> Nat]]
    BY <1>3 DEF IInv, TypeOK
  <2> QED BY <2>3, <2>4, <2>6, <2>7, <2>8, <2>9 DEF TypeOK
<1>11. QueueHoldsUnissued'
  <2>1. \A s \in Route : LineHolds(unissued'[s], head'[s], routes'[s])
    BY <1>7, <1>9, QueueByRoute DEF IInv
  <2> QED BY <2>1 DEF QueueHoldsUnissued, LineHolds
<1> QED BY <1>10, <1>11 DEF IInv

\* An action that replaces the map of one route, and keeps its unissued keys
\* and the queue, keeps the invariant.
LEMMA MapChanges ==
  ASSUME IInv, NEW r \in Route, NEW m2, IsMap(m2),
         {k \in DOMAIN m2 : ~m2[k].issuedToMaster} =
           {k \in DOMAIN routes[r] : ~routes[r][k].issuedToMaster},
         routes' = [routes EXCEPT ![r] = m2],
         UNCHANGED <<unissued, head, deliveredCount, encGiven, restarts>>,
         destroyedCount' \in Nat,
         decGiven' \in [Route -> [KeyId -> Nat]]
  PROVE  IInv'
<1>1. /\ routes'[r] = m2
      /\ \A s \in Route \ {r} : routes'[s] = routes[s]
      /\ routes' = [s \in Route |-> routes'[s]]
  BY Shape DEF IInv
<1>2. TypeOK'
  <2>1. \A s \in Route : IsMap(routes'[s])
    BY <1>1, RouteMap DEF IInv
  <2>2. routes' \in [Route -> UNION {[S -> Entry] : S \in SUBSET KeyId}]
    BY ONLY <1>1, <2>1, MapsMakeRoutes
  <2>3. /\ unissued \in [Route -> Seq(KeyId)] /\ head \in [Route -> Nat]
        /\ \A s \in Route : head[s] <= Len(unissued[s])
        /\ deliveredCount \in Nat
        /\ encGiven \in [Route -> [KeyId -> Nat]]
        /\ restarts \in 0..MaxRestarts
    BY DEF IInv, TypeOK
  <2>4. /\ unissued' = unissued /\ head' = head
        /\ deliveredCount' = deliveredCount /\ encGiven' = encGiven
        /\ restarts' = restarts
    OBVIOUS
  <2>5. /\ destroyedCount' \in Nat
        /\ decGiven' \in [Route -> [KeyId -> Nat]]
    OBVIOUS
  <2> QED BY ONLY <2>2, <2>3, <2>4, <2>5 DEF TypeOK
<1>3. QueueHoldsUnissued'
  <2>1. \A s \in Route : LineHolds(unissued[s], head[s], routes'[s])
    <3>1. LineHolds(unissued[r], head[r], m2)
      <4>1. LineHolds(unissued[r], head[r], routes[r])
        BY QueueByRoute DEF IInv
      <4> QED BY <4>1 DEF LineHolds
    <3>2. \A s \in Route \ {r} : LineHolds(unissued[s], head[s], routes'[s])
      BY <1>1, QueueByRoute DEF IInv
    <3> QED BY <1>1, <3>1, <3>2
  <2>2. \A s \in Route : LineHolds(unissued'[s], head'[s], routes'[s])
    BY <2>1
  <2> QED BY <2>2 DEF QueueHoldsUnissued, LineHolds
<1> QED BY <1>2, <1>3 DEF IInv

LEMMA DecServedKeeps ==
  ASSUME IInv, NEW r \in Route, NEW len \in 1..MaxIds,
         NEW ids \in [1..len -> KeyId], DecServed(r, ids)
  PROVE  IInv'
<1> DEFINE m == routes[r]
           m2 == [k \in DOMAIN m \ Requested(ids) |-> m[k]]
<1>1. IsMap(m) /\ len \in Nat /\ ids \in Seq(KeyId) /\ Len(ids) = len
  BY RouteMap, StoreAssumption DEF IInv, StoreAssumption
<1>2. IsMap(m2)
  BY <1>1 DEF IsMap
<1>3. \A k \in Requested(ids) : m[k].issuedToMaster
  BY DEF DecServed, Accepts, Requested
<1>4. {k \in DOMAIN m2 : ~m2[k].issuedToMaster} =
        {k \in DOMAIN m : ~m[k].issuedToMaster}
  BY <1>3
<1>5. routes' = [routes EXCEPT ![r] = m2]
  BY DEF DecServed
<1>6. destroyedCount' \in Nat
  BY <1>1 DEF DecServed, IInv, TypeOK
<1>7. decGiven' \in [Route -> [KeyId -> Nat]]
  BY DEF DecServed, IInv, TypeOK
<1>8. UNCHANGED <<unissued, head, deliveredCount, encGiven, restarts>>
  BY DEF DecServed
<1> HIDE DEF m2
<1> QED BY <1>2, <1>4, <1>5, <1>6, <1>7, <1>8, MapChanges

LEMMA DecRefusedKeeps ==
  ASSUME IInv, NEW r \in Route, NEW len \in 1..MaxIds,
         NEW ids \in [1..len -> KeyId], DecRefused(r, ids)
  PROVE  IInv'
<1> DEFINE m == routes[r]
<1>1. PICK f \in 1..Len(ids) :
        /\ routes' = [routes EXCEPT ![r] = [k \in DOMAIN m |->
                        IF \E i \in 1..f - 1 : ids[i] = k
                        THEN [m[k] EXCEPT !.issuedToSlave = TRUE] ELSE m[k]]]
        /\ UNCHANGED <<unissued, head, deliveredCount, destroyedCount,
                       encGiven, decGiven, restarts>>
  BY DEF DecRefused
<1> DEFINE m2 == [k \in DOMAIN m |->
                    IF \E i \in 1..f - 1 : ids[i] = k
                    THEN [m[k] EXCEPT !.issuedToSlave = TRUE] ELSE m[k]]
<1>2. IsMap(m)
  BY RouteMap DEF IInv
<1>3. \A k \in DOMAIN m : /\ m2[k] \in Entry
                          /\ m2[k].issuedToMaster = m[k].issuedToMaster
  BY <1>2 DEF IsMap, Entry
<1>4. IsMap(m2)
  BY <1>2, <1>3 DEF IsMap
<1>5. {k \in DOMAIN m2 : ~m2[k].issuedToMaster} =
        {k \in DOMAIN m : ~m[k].issuedToMaster}
  BY <1>3
<1>6. routes' = [routes EXCEPT ![r] = m2]
  BY <1>1
<1>7. destroyedCount' \in Nat /\ decGiven' \in [Route -> [KeyId -> Nat]]
  BY <1>1 DEF IInv, TypeOK
<1>8. UNCHANGED <<unissued, head, deliveredCount, encGiven, restarts>>
  BY <1>1
<1> HIDE DEF m2
<1> QED BY <1>4, <1>5, <1>6, <1>7, <1>8, MapChanges

LEMMA RestartKeeps ==
  ASSUME IInv, Restart
  PROVE  IInv'
<1>1. /\ routes' = [r \in Route |-> << >>]
      /\ unissued' = [r \in Route |-> << >>]
      /\ head' = [r \in Route |-> 0]
      /\ deliveredCount' = 0 /\ destroyedCount' = 0
      /\ restarts < MaxRestarts /\ restarts' = restarts + 1
      /\ encGiven' = encGiven /\ decGiven' = decGiven
  BY DEF Restart, NoKeys
<1>2. /\ DOMAIN << >> = {} /\ << >> \in [{} -> Entry]
      /\ << >> \in Seq(KeyId) /\ Len(<< >>) = 0
  OBVIOUS
<1>3. routes' \in [Route -> UNION {[S -> Entry] : S \in SUBSET KeyId}]
  <2>1. \A r \in Route : IsMap(routes'[r])
    BY <1>1, <1>2 DEF IsMap
  <2> QED BY <2>1, <1>1, MapsMakeRoutes
<1>4. /\ unissued' \in [Route -> Seq(KeyId)] /\ head' \in [Route -> Nat]
      /\ \A r \in Route : head'[r] <= Len(unissued'[r])
  BY <1>1, <1>2
<1>5. restarts' \in 0..MaxRestarts
  BY <1>1, StoreAssumption DEF IInv, TypeOK, StoreAssumption
<1>6. TypeOK'
  BY <1>1, <1>3, <1>4, <1>5 DEF IInv, TypeOK
<1>7. QueueHoldsUnissued'
  BY <1>1, <1>2 DEF QueueHoldsUnissued
<1> QED BY <1>6, <1>7 DEF IInv

LEMMA StutterKeeps ==
  ASSUME IInv, UNCHANGED vars
  PROVE  IInv'
BY DEF IInv, TypeOK, QueueHoldsUnissued, vars, storeVars

\* One step of the store, of any kind, keeps the invariant.
LEMMA NextKeeps == IInv /\ [Next]_vars => IInv'
<1> SUFFICES ASSUME IInv, [Next]_vars PROVE IInv'
  OBVIOUS
<1>1. ASSUME NEW exp \in Exports, Import(exp) PROVE IInv'
  BY <1>1, ImportKeeps DEF Exports
<1>2. ASSUME NEW r \in Route, NEW n \in 1..MaxNumber, NEW size \in Sizes,
             EncServed(r, n, size)
      PROVE  IInv'
  BY <1>2, EncServedKeeps
<1>3. ASSUME NEW r \in Route, NEW len \in 1..MaxIds,
             NEW ids \in [1..len -> KeyId], DecServed(r, ids)
      PROVE  IInv'
  BY <1>3, DecServedKeeps
<1>4. ASSUME NEW r \in Route, NEW len \in 1..MaxIds,
             NEW ids \in [1..len -> KeyId], DecRefused(r, ids)
      PROVE  IInv'
  BY <1>4, DecRefusedKeeps
<1>5. CASE Restart
  BY <1>5, RestartKeeps
<1>6. CASE UNCHANGED vars
  BY <1>6, StutterKeeps
<1> QED BY <1>1, <1>2, <1>3, <1>4, <1>5, <1>6 DEF Next

\* The store's variables keep their types, and the head of a queue never
\* passes its end, whatever is imported, taken, refused or restarted.
THEOREM TypeCorrect == Spec => []TypeOK
<1>1. IInv => TypeOK
  BY DEF IInv
<1> QED BY InitHolds, NextKeeps, <1>1, PTL DEF Spec

\* The line of every route lists exactly the keys no master has been given,
\* each once (_dequeue, _add and takeForMaster keep the array, its head
\* index and the flags of the map in step).
THEOREM QueueCorrect == Spec => []QueueHoldsUnissued
<1>1. IInv => QueueHoldsUnissued
  BY DEF IInv
<1> QED BY InitHolds, NextKeeps, <1>1, PTL DEF Spec

-----------------------------------------------------------------------------
(* How often a key was given.                                              *)

\* The types the counts of OneSlavePerMaster have.
LEMMA GivenTypes ==
  ASSUME TypeOK
  PROVE  /\ encGiven \in [Route -> [KeyId -> Nat]]
         /\ decGiven \in [Route -> [KeyId -> Nat]]
         /\ restarts \in Nat
BY StoreAssumption DEF TypeOK, StoreAssumption

\* What OneSlavePerMaster says of one key, given e times to a master and d
\* times to a slave in n + 1 lives of the process, and held half-open or not.
Balanced(half, e, d, n) ==
  IF half THEN e \in d + 1 .. d + 1 + n ELSE e \in d .. d + n

BalanceInv ==
  \A r \in Route, k \in KeyId :
    Balanced(HalfOpen(r, k), encGiven[r][k], decGiven[r][k], restarts)

LEMMA BalanceStep ==
  ASSUME IInv, BalanceInv, [Next]_vars PROVE BalanceInv'
<1>a. /\ DOMAIN routes = Route /\ restarts \in Nat
      /\ encGiven \in [Route -> [KeyId -> Nat]] /\ decGiven \in [Route -> [KeyId -> Nat]]
      /\ \A r \in Route : IsMap(routes[r])
  BY Shape, GivenTypes, RouteMap DEF IInv
<1>1. ASSUME NEW exp \in Exports, Import(exp) PROVE BalanceInv'
  <2>1. /\ UNCHANGED <<encGiven, decGiven, restarts>>
        /\ \A r \in Route : \A k \in KeyId :
             HalfOpen(r, k)' <=> HalfOpen(r, k)
    BY <1>1 DEF Import, HalfOpen, Fresh
  <2> QED  BY <2>1 DEF BalanceInv, Balanced
<1>2. ASSUME NEW r \in Route, NEW n \in 1..MaxNumber, NEW size \in Sizes,
             EncServed(r, n, size)
      PROVE  BalanceInv'
  <2> DEFINE chosen == Oldest(r, n)
             m == routes[r]
  <2>1. /\ routes' = [routes EXCEPT ![r] = [k \in DOMAIN m |->
                        IF k \in chosen
                        THEN [m[k] EXCEPT !.issuedToMaster = TRUE] ELSE m[k]]]
        /\ encGiven' = [encGiven EXCEPT ![r] = [k \in KeyId |->
                        IF k \in chosen THEN encGiven[r][k] + 1 ELSE encGiven[r][k]]]
        /\ decGiven' = decGiven /\ restarts' = restarts
    BY <1>2, <1>a DEF EncServed
  <2>2. \A k \in chosen : k \in DOMAIN m /\ ~m[k].issuedToMaster
    <3>1. /\ head[r] \in Nat /\ Len(unissued[r]) \in Nat /\ n \in Nat
          /\ head[r] + n <= Len(unissued[r])
      BY <1>2, Shape, StoreAssumption
         DEF IInv, EncServed, EncAccepts, Available, StoreAssumption
    <3>2. chosen \subseteq {unissued[r][i] : i \in head[r] + 1 .. Len(unissued[r])}
      BY <3>1 DEF Oldest
    <3> HIDE DEF chosen
    <3> QED  BY <3>2 DEF IInv, QueueHoldsUnissued
  <2> HIDE DEF chosen
  <2>3. ASSUME NEW s \in Route, NEW k \in KeyId
        PROVE  Balanced(HalfOpen(s, k)', encGiven'[s][k], decGiven[s][k], restarts)
    <3>1. Balanced(HalfOpen(s, k), encGiven[s][k], decGiven[s][k], restarts)
      BY DEF BalanceInv
    <3>2. CASE s = r /\ k \in chosen
      <4>1. m[k] \in Entry
        BY <3>2, <2>2, <1>a DEF IsMap
      <4>2. HalfOpen(s, k)' /\ ~HalfOpen(s, k)
        BY <3>2, <4>1, <2>1, <2>2, <1>a DEF HalfOpen, Entry
      <4>3. encGiven'[s][k] = encGiven[s][k] + 1
        BY <3>2, <2>1, <1>a
      <4>4. encGiven[s][k] \in decGiven[s][k] .. decGiven[s][k] + restarts
        BY <3>1, <4>2 DEF Balanced
      <4>5. encGiven'[s][k] \in decGiven[s][k] + 1 .. decGiven[s][k] + 1 + restarts
        BY <4>3, <4>4, <1>a
      <4> QED  BY <4>2, <4>5 DEF Balanced
    <3>3. CASE s # r \/ k \notin chosen
      <4>1. encGiven'[s][k] = encGiven[s][k]
        BY <3>3, <2>1, <1>a
      <4>2. HalfOpen(s, k)' <=> HalfOpen(s, k)
        BY <3>3, <2>1, <1>a DEF HalfOpen
      <4> QED  BY <3>1, <4>1, <4>2 DEF Balanced
    <3> QED  BY <3>2, <3>3
  <2> QED  BY <2>1, <2>3 DEF BalanceInv
<1>3. ASSUME NEW r \in Route, NEW len \in 1..MaxIds, NEW ids \in [1..len -> KeyId],
             DecServed(r, ids)
      PROVE  BalanceInv'
  <2> DEFINE gone == Requested(ids)
             m == routes[r]
  <2>1. /\ routes' = [routes EXCEPT ![r] = [k \in DOMAIN m \ gone |-> m[k]]]
        /\ decGiven' = [decGiven EXCEPT ![r] = [k \in KeyId |->
                         IF k \in gone THEN decGiven[r][k] + 1 ELSE decGiven[r][k]]]
        /\ encGiven' = encGiven /\ restarts' = restarts
    BY <1>3, <1>a DEF DecServed
  <2>2. \A k \in gone : k \in DOMAIN m /\ m[k].issuedToMaster
    BY <1>3 DEF DecServed, Accepts, Requested
  <2> HIDE DEF gone
  <2>3. ASSUME NEW s \in Route, NEW k \in KeyId
        PROVE  Balanced(HalfOpen(s, k)', encGiven[s][k], decGiven'[s][k], restarts)
    <3>1. Balanced(HalfOpen(s, k), encGiven[s][k], decGiven[s][k], restarts)
      BY DEF BalanceInv
    <3>2. CASE s = r /\ k \in gone
      <4>1. HalfOpen(s, k) /\ ~HalfOpen(s, k)'
        BY <3>2, <2>1, <2>2, <1>a DEF HalfOpen
      <4>2. decGiven'[s][k] = decGiven[s][k] + 1
        BY <3>2, <2>1, <1>a
      <4>3. encGiven[s][k] \in decGiven[s][k] + 1 .. decGiven[s][k] + 1 + restarts
        BY <3>1, <4>1 DEF Balanced
      <4> QED  BY <4>1, <4>2, <4>3 DEF Balanced
    <3>3. CASE s # r \/ k \notin gone
      <4>1. decGiven'[s][k] = decGiven[s][k]
        BY <3>3, <2>1, <1>a
      <4>2. HalfOpen(s, k)' <=> HalfOpen(s, k)
        BY <3>3, <2>1, <1>a DEF HalfOpen
      <4> QED  BY <3>1, <4>1, <4>2 DEF Balanced
    <3> QED  BY <3>2, <3>3
  <2> QED  BY <2>1, <2>3 DEF BalanceInv
<1>4. ASSUME NEW r \in Route, NEW len \in 1..MaxIds, NEW ids \in [1..len -> KeyId],
             DecRefused(r, ids)
      PROVE  BalanceInv'
  <2> DEFINE m == routes[r]
  <2>1. PICK f \in 1..Len(ids) :
          /\ routes' = [routes EXCEPT ![r] = [k \in DOMAIN m |->
                          IF \E i \in 1..f - 1 : ids[i] = k
                          THEN [m[k] EXCEPT !.issuedToSlave = TRUE] ELSE m[k]]]
          /\ encGiven' = encGiven /\ decGiven' = decGiven /\ restarts' = restarts
    BY <1>4 DEF DecRefused
  <2>2. ASSUME NEW k \in DOMAIN m
        PROVE  routes'[r][k].issuedToMaster = m[k].issuedToMaster
    BY <2>1, <1>a DEF IsMap, Entry
  <2>3. /\ DOMAIN routes'[r] = DOMAIN m
        /\ \A s \in Route \ {r} : routes'[s] = routes[s]
    BY <2>1, <1>a
  <2>4. \A s \in Route, k \in KeyId : HalfOpen(s, k)' <=> HalfOpen(s, k)
    BY <2>2, <2>3 DEF HalfOpen
  <2> QED  BY <2>1, <2>4 DEF BalanceInv, Balanced
<1>5. CASE Restart
  <2>1. /\ \A r \in Route : routes'[r] = << >>
        /\ restarts' = restarts + 1 /\ encGiven' = encGiven /\ decGiven' = decGiven
    BY <1>5 DEF Restart, NoKeys
  <2>2. ASSUME NEW r \in Route, NEW k \in KeyId
        PROVE  Balanced(HalfOpen(r, k)', encGiven[r][k], decGiven[r][k], restarts + 1)
    <3>1. Balanced(HalfOpen(r, k), encGiven[r][k], decGiven[r][k], restarts)
      BY DEF BalanceInv
    <3>2. ~HalfOpen(r, k)'
      BY <2>1 DEF HalfOpen
    <3>3. encGiven[r][k] \in Nat /\ decGiven[r][k] \in Nat
      BY <1>a
    <3>4. encGiven[r][k] \in decGiven[r][k] .. decGiven[r][k] + (restarts + 1)
      BY <3>1, <3>3, <1>a DEF Balanced
    <3> QED  BY <3>2, <3>4 DEF Balanced
  <2> QED  BY <2>1, <2>2 DEF BalanceInv
<1>6. CASE UNCHANGED vars
  BY <1>6 DEF BalanceInv, HalfOpen, vars, storeVars
<1> QED  BY <1>1, <1>2, <1>3, <1>4, <1>5, <1>6 DEF Next

\* For any exports, delivered keys included, a slave is given a key as often
\* as a master was before it, a master is given it again only after its slave
\* was, and the map knows which keys are half-open; every restart forgets one
\* at most (takeForMaster, takeForSlave and the merge of loadFromExport).
THEOREM OneEach == Spec => []OneSlavePerMaster
<1>1. Init => BalanceInv
  BY DEF Init, NoKeys, Zero, BalanceInv, Balanced, HalfOpen
<1>2. IInv /\ BalanceInv /\ [Next]_vars => BalanceInv'
  BY BalanceStep
<1>3. IInv /\ BalanceInv => OneSlavePerMaster
  <2> SUFFICES ASSUME IInv, BalanceInv, NEW r \in Route, NEW k \in KeyId
               PROVE  IF HalfOpen(r, k)
                      THEN encGiven[r][k] - decGiven[r][k] \in 1..1 + restarts
                      ELSE encGiven[r][k] - decGiven[r][k] \in 0..restarts
    BY DEF OneSlavePerMaster
  <2>1. Balanced(HalfOpen(r, k), encGiven[r][k], decGiven[r][k], restarts)
    BY DEF BalanceInv
  <2>2. encGiven[r][k] \in Nat /\ decGiven[r][k] \in Nat /\ restarts \in Nat
    BY GivenTypes DEF IInv
  <2> QED BY <2>1, <2>2 DEF Balanced
<1> QED BY InitHolds, NextKeeps, <1>1, <1>2, <1>3, PTL DEF Spec

\* A key leaves the store only in the answer that gives it to the slave, or
\* because the process restarts: no re-import and no refused request loses it.
THEOREM HalfOpenKept == Spec => HalfOpenKeysStay
<1> DEFINE A == \A r \in Route : \A k \in DOMAIN routes[r] \ DOMAIN routes'[r] :
                  \/ decGiven'[r][k] = decGiven[r][k] + 1
                  \/ restarts' # restarts
<1>1. ASSUME IInv, [Next]_vars PROVE A \/ UNCHANGED vars
  <2>1. ASSUME NEW exp \in Exports, Import(exp) PROVE A
    BY <2>1 DEF Import
  <2>2. ASSUME NEW r \in Route, NEW n \in 1..MaxNumber, NEW size \in Sizes,
               EncServed(r, n, size)
        PROVE  A
    <3>1. \A s \in Route : DOMAIN routes'[s] = DOMAIN routes[s]
      BY <2>2, <1>1, Shape DEF EncServed, IInv
    <3> QED BY <3>1
  <2>3. ASSUME NEW r \in Route, NEW len \in 1..MaxIds,
               NEW ids \in [1..len -> KeyId], DecServed(r, ids)
        PROVE  A
    <3>1. /\ DOMAIN routes'[r] = DOMAIN routes[r] \ Requested(ids)
          /\ \A s \in Route \ {r} : routes'[s] = routes[s]
      BY <2>3, <1>1, Shape DEF DecServed, IInv
    <3>2. \A k \in Requested(ids) \cap KeyId :
             decGiven'[r][k] = decGiven[r][k] + 1
      BY <2>3, <1>1 DEF DecServed, IInv, TypeOK
    <3>3. DOMAIN routes[r] \subseteq KeyId
      BY <1>1, RouteMap DEF IInv, IsMap
    <3> QED BY <3>1, <3>2, <3>3
  <2>4. ASSUME NEW r \in Route, NEW len \in 1..MaxIds,
               NEW ids \in [1..len -> KeyId], DecRefused(r, ids)
        PROVE  A
    <3>1. \A s \in Route : DOMAIN routes'[s] = DOMAIN routes[s]
      BY <2>4, <1>1, Shape DEF DecRefused, IInv
    <3> QED BY <3>1
  <2>5. CASE Restart
    BY <2>5, <1>1 DEF Restart, IInv, TypeOK
  <2> QED BY <1>1, <2>1, <2>2, <2>3, <2>4, <2>5 DEF Next
<1>2. IInv /\ [Next]_vars => [A]_vars
  BY <1>1
<1> QED BY InitHolds, NextKeeps, <1>2, PTL DEF Spec, HalfOpenKeysStay

-----------------------------------------------------------------------------
(* The audit counters.                                                     *)

\* An answer, by its route, its key and its number.
LEMMA AnswerIs ==
  ASSUME NEW given \in [Route -> [KeyId -> Nat]], NEW x
  PROVE  x \in Answers(given) <=>
           \E s \in Route, k \in KeyId, m \in Nat :
             x = <<s, k, m>> /\ 1 <= m /\ m <= given[s][k]
<1> DEFINE of(s, k) == {<<s, k, n>> : n \in 1..given[s][k]}
<1>1. Answers(given) = UNION {of(s, k) : s \in Route, k \in KeyId}
  BY DEF Answers
<1>2. \A s \in Route, k \in KeyId : given[s][k] \in Nat
  OBVIOUS
<1>3. \A s \in Route, k \in KeyId :
        x \in of(s, k) <=> \E m \in Nat : x = <<s, k, m>> /\ 1 <= m /\ m <= given[s][k]
  BY <1>2
<1> HIDE DEF of
<1>4. x \in UNION {of(s, k) : s \in Route, k \in KeyId}
        <=> \E s \in Route, k \in KeyId : x \in of(s, k)
  OBVIOUS
<1> QED BY <1>1, <1>3, <1>4

LEMMA IntervalSize ==
  ASSUME NEW n \in Nat
  PROVE  IsFiniteSet(1..n) /\ Cardinality(1..n) = n
BY FS_Interval

\* As many different values as indices.
LEMMA ListedSize ==
  ASSUME NEW n \in Nat, NEW g, NEW T, T = {g[i] : i \in 1..n},
         \A i, j \in 1..n : g[i] = g[j] => i = j
  PROVE  Cardinality(T) = n
<1> DEFINE f == [i \in 1..n |-> g[i]]
<1>1. IsFiniteSet(1..n) /\ Cardinality(1..n) = n
  BY IntervalSize
<1>2. f \in [1..n -> T] /\ IsInjective(f) /\ \A x \in T : \E i \in 1..n : f[i] = x
  BY DEF IsInjective
<1> HIDE DEF f
<1>3. f \in Bijection(1..n, T)
  BY <1>2 DEF Bijection, Injection, Surjection
<1>4. ExistsBijection(1..n, T)
  BY <1>3 DEF ExistsBijection
<1> QED BY <1>1, <1>4, FS_Bijection

\* Each key of a set is given out once more: as many answers more as keys.
OneMore(given, r, C) ==
  [given EXCEPT ![r] = [k \in KeyId |->
     IF k \in C THEN given[r][k] + 1 ELSE given[r][k]]]

LEMMA AnswersGrow ==
  ASSUME NEW given \in [Route -> [KeyId -> Nat]], IsFiniteSet(Answers(given)),
         NEW r \in Route, NEW C, C \subseteq KeyId
  PROVE  /\ IsFiniteSet(Answers(OneMore(given, r, C)))
         /\ Cardinality(Answers(OneMore(given, r, C)))
              = Cardinality(Answers(given)) + Cardinality(C)
<1> DEFINE more == OneMore(given, r, C)
           old == Answers(given)
           next == [k \in C |-> <<r, k, given[r][k] + 1>>]
           new == {next[k] : k \in C}
<1>1. /\ more \in [Route -> [KeyId -> Nat]]
      /\ \A s \in Route, k \in KeyId :
           /\ given[s][k] \in Nat
           /\ more[s][k] = IF s = r /\ k \in C THEN given[s][k] + 1 ELSE given[s][k]
  BY DEF OneMore
<1>2. \A x : x \in old <=>
        \E s \in Route, k \in KeyId, m \in Nat : x = <<s, k, m>> /\ 1 <= m /\ m <= given[s][k]
  BY AnswerIs
<1> HIDE DEF more
<1>3. \A x : x \in Answers(more) <=>
        \E s \in Route, k \in KeyId, m \in Nat : x = <<s, k, m>> /\ 1 <= m /\ m <= more[s][k]
  BY <1>1, AnswerIs
<1>4. \A x : x \in new <=> \E k \in C : x = <<r, k, given[r][k] + 1>>
  OBVIOUS
<1>5. IsFiniteSet(C)
  BY StoreAssumption, FS_Subset DEF StoreAssumption
<1>6. IsFiniteSet(new) /\ Cardinality(new) = Cardinality(C)
  <2>1. /\ next \in [C -> new] /\ IsInjective(next)
        /\ \A x \in new : \E k \in C : next[k] = x
    BY DEF IsInjective
  <2> HIDE DEF next, new
  <2>2. next \in Bijection(C, new)
    BY <2>1 DEF Bijection, Injection, Surjection
  <2>3. ExistsBijection(C, new)
    BY <2>2 DEF ExistsBijection
  <2> QED BY <1>5, <2>3, FS_Bijection
<1> HIDE DEF old, new
<1>7. old \cap new = {}
  BY <1>1, <1>2, <1>4, <1>5
<1>8. Answers(more) = old \cup new
  <2>1. ASSUME NEW x \in Answers(more) PROVE x \in old \cup new
    <3>1. PICK s \in Route, k \in KeyId, m \in Nat :
            x = <<s, k, m>> /\ 1 <= m /\ m <= more[s][k]
      BY <1>3, <2>1
    <3>2. CASE m <= given[s][k]
      BY <3>1, <3>2, <1>2
    <3>3. CASE ~(m <= given[s][k])
      <4>1. s = r /\ k \in C /\ m = given[r][k] + 1
        BY <3>1, <3>3, <1>1
      <4> QED BY <3>1, <4>1, <1>4
    <3> QED BY <3>2, <3>3
  <2>2. ASSUME NEW x \in old PROVE x \in Answers(more)
    <3>1. PICK s \in Route, k \in KeyId, m \in Nat :
            x = <<s, k, m>> /\ 1 <= m /\ m <= given[s][k]
      BY <1>2, <2>2
    <3>2. m <= more[s][k]
      BY <3>1, <1>1
    <3> QED BY <3>1, <3>2, <1>3
  <2>3. ASSUME NEW x \in new PROVE x \in Answers(more)
    <3>1. PICK k \in C : x = <<r, k, given[r][k] + 1>>
      BY <1>4, <2>3
    <3>2. k \in KeyId /\ given[r][k] + 1 \in Nat /\ 1 <= given[r][k] + 1
          /\ given[r][k] + 1 <= more[r][k]
      BY <3>1, <1>1
    <3> QED BY <3>1, <3>2, <1>3
  <2> QED BY <2>1, <2>2, <2>3
<1>9. /\ IsFiniteSet(old \cup new)
      /\ Cardinality(old \cup new) = Cardinality(old) + Cardinality(C)
  <2>1. IsFiniteSet(old)
    BY DEF old
  <2>2. Cardinality(old) \in Nat /\ Cardinality(C) \in Nat
    BY <1>5, <2>1, FS_CardinalityType
  <2>3. Cardinality(old \cap new) = 0
    BY <1>7, FS_EmptySet
  <2>4. /\ IsFiniteSet(old \cup new)
        /\ Cardinality(old \cup new)
             = Cardinality(old) + Cardinality(new) - Cardinality(old \cap new)
    BY <1>6, <2>1, FS_Union
  <2> QED BY <1>6, <2>2, <2>3, <2>4
<1> QED BY <1>8, <1>9 DEF old, more

CountInv ==
  restarts = 0 =>
    /\ IsFiniteSet(Answers(encGiven)) /\ IsFiniteSet(Answers(decGiven))
    /\ deliveredCount = Cardinality(Answers(encGiven))
    /\ destroyedCount = Cardinality(Answers(decGiven))

LEMMA CountEncServed ==
  ASSUME IInv, CountInv, NEW r \in Route, NEW n \in 1..MaxNumber,
         NEW size \in Sizes, EncServed(r, n, size)
  PROVE  CountInv'
<1> DEFINE u == unissued[r]
           h == head[r]
           g == [i \in 1..n |-> u[h + i]]
<1>1. /\ encGiven' = OneMore(encGiven, r, Oldest(r, n))
      /\ deliveredCount' = deliveredCount + n
      /\ UNCHANGED <<destroyedCount, decGiven, restarts>>
  BY DEF EncServed, OneMore
<1>2. n \in Nat /\ encGiven \in [Route -> [KeyId -> Nat]]
  BY StoreAssumption, GivenTypes DEF IInv, StoreAssumption
<1>3. u \in Seq(KeyId) /\ h \in Nat /\ h + n <= Len(u)
  <2>1. u \in Seq(KeyId) /\ h \in Nat
    BY Shape DEF IInv
  <2>2. Len(u) - h >= n
    BY DEF EncServed, EncAccepts, Available
  <2> HIDE DEF u, h
  <2>3. Len(u) \in Nat
    BY <2>1
  <2> QED BY <1>2, <2>1, <2>2, <2>3
<1>4. Cardinality(Oldest(r, n)) = n /\ Oldest(r, n) \subseteq KeyId
  <2>1. \A i, j \in h + 1 .. Len(u) : u[i] = u[j] => i = j
    BY DEF IInv, QueueHoldsUnissued
  <2>2. Oldest(r, n) = {u[i] : i \in h + 1 .. h + n}
    BY DEF Oldest
  <2> HIDE DEF u, h
  <2>3. \A i \in 1..n : h + i \in h + 1 .. Len(u) /\ h + i \in h + 1 .. h + n
    BY <1>2, <1>3
  <2>4. \A i \in h + 1 .. h + n : i \in 1..Len(u) /\ i - h \in 1..n /\ h + (i - h) = i
    BY <1>2, <1>3
  <2>5. {u[i] : i \in h + 1 .. h + n} = {g[i] : i \in 1..n}
    BY <2>3, <2>4
  <2>6. \A i, j \in 1..n : g[i] = g[j] => i = j
    <3>1. \A i, j \in 1..n : h + i = h + j => i = j
      BY <1>2, <1>3
    <3> QED BY <2>1, <2>3, <3>1
  <2>7. Cardinality(Oldest(r, n)) = n
    <3> HIDE DEF g
    <3>1. Oldest(r, n) = {g[i] : i \in 1..n}
      BY <2>2, <2>5
    <3> QED BY <1>2, <2>6, <3>1, ListedSize
  <2>8. \A i \in 1..Len(u) : u[i] \in KeyId
    BY <1>3
  <2> QED BY <2>2, <2>4, <2>7, <2>8
<1>5. IsFiniteSet(Answers(encGiven)) =>
        /\ IsFiniteSet(Answers(encGiven'))
        /\ Cardinality(Answers(encGiven')) = Cardinality(Answers(encGiven)) + n
  BY <1>1, <1>2, <1>4, AnswersGrow
<1>6. Answers(decGiven') = Answers(decGiven)
  BY <1>1
<1> QED BY <1>1, <1>5, <1>6 DEF CountInv, Answers

LEMMA CountDecServed ==
  ASSUME IInv, CountInv, NEW r \in Route, NEW len \in 1..MaxIds,
         NEW ids \in [1..len -> KeyId], DecServed(r, ids)
  PROVE  CountInv'
<1>1. len \in Nat /\ ids \in Seq(KeyId) /\ Len(ids) = len
  BY StoreAssumption
<1>2. /\ decGiven' = OneMore(decGiven, r, Requested(ids))
      /\ destroyedCount' = destroyedCount + len
      /\ UNCHANGED <<deliveredCount, encGiven, restarts>>
  BY <1>1 DEF DecServed, OneMore
<1>3. \A i, j \in 1..len : ids[i] = ids[j] => i = j
  <2>1. \A i \in 1..len : \A j \in 1..i - 1 : ids[j] # ids[i]
    BY <1>1 DEF DecServed, Accepts
  <2> SUFFICES ASSUME NEW i \in 1..len, NEW j \in 1..len, ids[i] = ids[j] PROVE i = j
    OBVIOUS
  <2>2. ~(i < j)
    <3> SUFFICES ASSUME i < j PROVE FALSE
      OBVIOUS
    <3>1. i \in 1..j - 1
      BY <1>1
    <3> QED BY <2>1, <3>1
  <2>3. ~(j < i)
    <3> SUFFICES ASSUME j < i PROVE FALSE
      OBVIOUS
    <3>1. j \in 1..i - 1
      BY <1>1
    <3> QED BY <2>1, <3>1
  <2> QED BY <1>1, <2>2, <2>3
<1>4. Cardinality(Requested(ids)) = len /\ Requested(ids) \subseteq KeyId
  <2>1. Requested(ids) = {ids[i] : i \in 1..len}
    BY <1>1 DEF Requested
  <2> QED BY <1>1, <1>3, <2>1, ListedSize
<1>5. decGiven \in [Route -> [KeyId -> Nat]]
  BY GivenTypes DEF IInv
<1>6. IsFiniteSet(Answers(decGiven)) =>
        /\ IsFiniteSet(Answers(decGiven'))
        /\ Cardinality(Answers(decGiven')) = Cardinality(Answers(decGiven)) + len
  BY <1>2, <1>4, <1>5, AnswersGrow
<1>7. Answers(encGiven') = Answers(encGiven)
  BY <1>2
<1> QED BY <1>2, <1>6, <1>7 DEF CountInv, Answers

\* In the first life of the process the two audit counters equal the number
\* of keys that were in the answers to masters and to slaves, whatever was
\* refused, re-imported or cut from the queue (takeForMaster, takeForSlave).
THEOREM CountersTrue == Spec => []AuditCountersAgree
<1>1. Init => CountInv
  <2>1. Init => Answers(encGiven) = {} /\ Answers(decGiven) = {}
    BY DEF Init, Zero, Answers
  <2> QED BY <2>1, FS_EmptySet DEF Init, CountInv
<1>2. IInv /\ CountInv /\ [Next]_vars => CountInv'
  <2> SUFFICES ASSUME IInv, CountInv, [Next]_vars PROVE CountInv'
    OBVIOUS
  <2>1. ASSUME NEW exp \in Exports, Import(exp) PROVE CountInv'
    BY <2>1 DEF Import, CountInv, Answers
  <2>2. ASSUME NEW r \in Route, NEW n \in 1..MaxNumber, NEW size \in Sizes,
               EncServed(r, n, size)
        PROVE  CountInv'
    BY <2>2, CountEncServed
  <2>3. ASSUME NEW r \in Route, NEW len \in 1..MaxIds,
               NEW ids \in [1..len -> KeyId], DecServed(r, ids)
        PROVE  CountInv'
    BY <2>3, CountDecServed
  <2>4. ASSUME NEW r \in Route, NEW len \in 1..MaxIds,
               NEW ids \in [1..len -> KeyId], DecRefused(r, ids)
        PROVE  CountInv'
    BY <2>4 DEF DecRefused, CountInv, Answers
  <2>5. CASE Restart
    <3>1. restarts' # 0
      BY <2>5, StoreAssumption DEF Restart, IInv, TypeOK
    <3> QED BY <3>1 DEF CountInv
  <2>6. CASE UNCHANGED vars
    BY <2>6 DEF vars, storeVars, CountInv, Answers
  <2> QED BY <2>1, <2>2, <2>3, <2>4, <2>5, <2>6 DEF Next
<1>3. CountInv => AuditCountersAgree
  BY DEF CountInv, AuditCountersAgree
<1> QED BY InitHolds, NextKeeps, <1>1, <1>2, <1>3, PTL DEF Spec

-----------------------------------------------------------------------------
(* 2. The key store implements KeyDelivery.                                *)

\* The refinement mapping of KMEKeyStore!Delivery, by name.
Stage == [r \in Route |-> [k \in KeyId |-> StageOf(r, k)]]
Line == [r \in Route |-> InLine(r)]

\* The stages of route r after the keys S moved on to stage s.
Moved(r, S, s) == [k \in KeyId |-> IF k \in S THEN s ELSE Stage[r][k]]

-----------------------------------------------------------------------------
(* A key is flagged for the slave only after it was issued to a master;    *)
(* otherwise it would go from the line straight to "burnt".                *)
SlaveLast ==
  \A r \in Route : \A k \in DOMAIN routes[r] :
    routes[r][k].issuedToSlave => routes[r][k].issuedToMaster

LEMMA SlaveLastStep ==
  ASSUME IInv, SlaveLast, [Next]_vars PROVE SlaveLast'
<1>a. DOMAIN routes = Route /\ \A r \in Route : IsMap(routes[r])
  BY Shape, RouteMap DEF IInv
<1>1. ASSUME NEW exp \in Exports, Import(exp) PROVE SlaveLast'
  BY <1>1 DEF Import, SlaveLast, Fresh
<1>2. ASSUME NEW r \in Route, NEW n \in 1..MaxNumber, NEW size \in Sizes,
             EncServed(r, n, size)
      PROVE  SlaveLast'
  <2> DEFINE m == routes[r]
             chosen == Oldest(r, n)
  <2>1. routes' = [routes EXCEPT ![r] = [k \in DOMAIN m |->
                     IF k \in chosen
                     THEN [m[k] EXCEPT !.issuedToMaster = TRUE] ELSE m[k]]]
    BY <1>2 DEF EncServed
  <2> HIDE DEF chosen
  <2>2. ASSUME NEW k \in DOMAIN m PROVE m[k] \in Entry
    BY <1>a DEF IsMap
  <2>3. ASSUME NEW k \in DOMAIN m, routes'[r][k].issuedToSlave
        PROVE  routes'[r][k].issuedToMaster
    BY <1>a, <2>1, <2>2, <2>3 DEF SlaveLast, Entry
  <2>4. DOMAIN routes'[r] = DOMAIN m /\ \A s \in Route \ {r} : routes'[s] = routes[s]
    BY <1>a, <2>1
  <2> QED  BY <2>3, <2>4 DEF SlaveLast
<1>3. ASSUME NEW r \in Route, NEW len \in 1..MaxIds, NEW ids \in [1..len -> KeyId],
             DecServed(r, ids)
      PROVE  SlaveLast'
  BY <1>3, <1>a DEF DecServed, SlaveLast
<1>4. ASSUME NEW r \in Route, NEW len \in 1..MaxIds, NEW ids \in [1..len -> KeyId],
             DecRefused(r, ids)
      PROVE  SlaveLast'
  <2> DEFINE m == routes[r]
  <2>1. PICK f \in 1..Len(ids) :
          /\ \A i \in 1..f - 1 : Accepts(r, ids, i)
          /\ routes' = [routes EXCEPT ![r] = [k \in DOMAIN m |->
                          IF \E i \in 1..f - 1 : ids[i] = k
                          THEN [m[k] EXCEPT !.issuedToSlave = TRUE] ELSE m[k]]]
    BY <1>4 DEF DecRefused
  <2>2. ASSUME NEW k \in DOMAIN m PROVE m[k] \in Entry
    BY <1>a DEF IsMap
  <2>3. \A k \in DOMAIN m : (\E i \in 1..f - 1 : ids[i] = k) => m[k].issuedToMaster
    BY <2>1 DEF Accepts
  <2>4. ASSUME NEW k \in DOMAIN m, routes'[r][k].issuedToSlave
        PROVE  routes'[r][k].issuedToMaster
    BY <1>a, <2>1, <2>2, <2>3, <2>4 DEF SlaveLast, Entry
  <2>5. DOMAIN routes'[r] = DOMAIN m /\ \A s \in Route \ {r} : routes'[s] = routes[s]
    BY <1>a, <2>1
  <2> QED  BY <2>4, <2>5 DEF SlaveLast
<1>5. CASE Restart
  BY <1>5 DEF Restart, NoKeys, SlaveLast
<1>6. CASE UNCHANGED vars
  BY <1>6 DEF vars, storeVars, SlaveLast
<1> QED  BY <1>1, <1>2, <1>3, <1>4, <1>5, <1>6 DEF Next

-----------------------------------------------------------------------------
(* The methods, one step of KeyDelivery each.                              *)

\* Stage and line of a state in which the store's variables are well-typed.
LEMMA StageFacts ==
  ASSUME NEW r \in Route, NEW k \in KeyId
  PROVE  /\ Stage[r][k] = StageOf(r, k) /\ Stage'[r][k] = StageOf(r, k)'
         /\ Line[r] = InLine(r) /\ Line'[r] = InLine(r)'
BY DEF Stage, Line

LEMMA InitRefines == Init => Delivery!Init
<1> SUFFICES ASSUME Init PROVE Delivery!Init
  OBVIOUS
<1>1. ASSUME NEW r \in Route, NEW k \in KeyId PROVE StageOf(r, k) = "absent"
  BY DEF Init, NoKeys, Zero, StageOf
<1>2. ASSUME NEW r \in Route PROVE InLine(r) = << >>
  BY DEF Init, NoKeys, InLine
<1> QED  BY <1>1, <1>2 DEF Delivery!Init, Init, Zero

LEMMA ImportRefines ==
  ASSUME IInv, NEW exp \in Exports, Import(exp)
  PROVE  Delivery!Arrive
<1> DEFINE new == [r \in Route |-> exp[r] \ DOMAIN routes[r]]
<1>1. /\ new \in [Route -> SUBSET KeyId]
      /\ \A r \in Route : \A k \in new[r] : k \notin DOMAIN routes[r]
  BY DEF Exports
<1>2. PICK order \in [Route -> UNION {Listings(new[r]) : r \in Route}] :
        /\ \A r \in Route : order[r] \in Listings(new[r])
        /\ unissued' = [r \in Route |-> unissued[r] \o order[r]]
  BY DEF Import
<1>3. /\ routes' = [r \in Route |->
                     [k \in DOMAIN routes[r] \cup new[r] |->
                        IF k \in new[r] THEN Fresh ELSE routes[r][k]]]
      /\ head' = head /\ decGiven' = decGiven
  BY DEF Import
<1> HIDE DEF new
<1>4. \A r \in Route : \A k \in new[r] : Stage[r][k] = "absent"
  BY <1>1, StageFacts DEF StageOf
<1>5. Stage' = [r \in Route |-> Moved(r, new[r], "waiting")]
  <2>1. ASSUME NEW r \in Route, NEW k \in KeyId
        PROVE  StageOf(r, k)' = Moved(r, new[r], "waiting")[k]
    <3>1. Moved(r, new[r], "waiting")[k] =
            IF k \in new[r] THEN "waiting" ELSE StageOf(r, k)
      BY StageFacts DEF Moved
    <3>2. CASE k \in new[r]
      BY <3>1, <3>2, <1>3 DEF StageOf, Fresh
    <3>3. CASE k \notin new[r]
      BY <3>1, <3>3, <1>3 DEF StageOf
    <3> QED  BY <3>2, <3>3
  <2> QED  BY <2>1 DEF Stage, Moved
<1>6. Line' = [r \in Route |-> Line[r] \o order[r]]
  <2>1. ASSUME NEW r \in Route PROVE InLine(r)' = InLine(r) \o order[r]
    <3>1. order[r] \in Seq(KeyId)
      <4>1. new[r] \in SUBSET KeyId /\ IsFiniteSet(new[r])
        BY <1>1, FS_Subset, StoreAssumption DEF StoreAssumption
      <4> QED  BY <4>1, <1>2, ListingFacts
    <3>2. /\ unissued[r] \in Seq(KeyId) /\ head[r] \in Nat /\ head[r] <= Len(unissued[r])
      BY Shape DEF IInv
    <3>3. unissued'[r] = unissued[r] \o order[r] /\ head'[r] = head[r]
      BY <1>2, <1>3
    <3> QED  BY <3>1, <3>2, <3>3, TailOfConcat DEF InLine
  <2> QED  BY <2>1 DEF Line
<1>7. \A S : Delivery!Listings(S) = Listings(S)
  BY DEF Delivery!Listings, Listings, Delivery!Cardinality, Cardinality
<1>8. /\ order \in [Route -> UNION {Delivery!Listings(new[r]) : r \in Route}]
      /\ \A r \in Route : order[r] \in Delivery!Listings(new[r])
  BY <1>2, <1>7
<1>9. Stage' = [r \in Route |-> Delivery!Move(r, new[r], "waiting")]
  BY <1>5 DEF Moved, Delivery!Move, Stage
<1> QED  BY <1>1, <1>3, <1>4, <1>6, <1>8, <1>9 DEF Delivery!Arrive, Stage, Line

LEMMA EncServedRefines ==
  ASSUME IInv, SlaveLast, NEW r \in Route, NEW n \in 1..MaxNumber,
         NEW size \in Sizes, EncServed(r, n, size)
  PROVE  Delivery!Issue(r)
<1> DEFINE u == unissued[r]
           h == head[r]
           m == routes[r]
           chosen == Oldest(r, n)
           cut == SubSeq(u, h + n + 1, Len(u))
           first == {Line[r][i] : i \in 1..n}
           rest == SubSeq(Line[r], n + 1, Len(Line[r]))
<1>1. /\ u \in Seq(KeyId) /\ h \in Nat /\ h + n <= Len(u)
      /\ unissued \in [Route -> Seq(KeyId)] /\ head \in [Route -> Nat]
      /\ DOMAIN routes = Route
      /\ n \in Nat /\ n >= 1
  BY Shape, StoreAssumption DEF IInv, EncServed, EncAccepts, Available, StoreAssumption
<1>2. /\ routes' = [routes EXCEPT ![r] = [k \in DOMAIN m |->
                      IF k \in chosen
                      THEN [m[k] EXCEPT !.issuedToMaster = TRUE] ELSE m[k]]]
      /\ decGiven' = decGiven
  BY DEF EncServed
<1>3. \/ unissued' = [unissued EXCEPT ![r] = cut] /\ head' = [head EXCEPT ![r] = 0]
      \/ unissued' = unissued /\ head' = [head EXCEPT ![r] = h + n]
  BY <1>1 DEF EncServed, Dequeue
<1>4. Line[r] = SubSeq(u, h + 1, Len(u))
  BY DEF Line, InLine
<1>5. chosen = {u[i] : i \in h + 1 .. h + n}
  BY DEF Oldest
<1>6. IsMap(m) /\ LineHolds(u, h, m)
  BY RouteMap, QueueByRoute DEF IInv
<1>7. \A k \in DOMAIN m : m[k].issuedToSlave => m[k].issuedToMaster
  BY DEF SlaveLast
<1> HIDE DEF u, h, m, chosen
<1>8. /\ cut = rest /\ SubSeq(cut, 1, Len(cut)) = rest
      /\ Len(Line[r]) = Len(u) - h /\ first = chosen
  <2> DEFINE l == Line[r]
  <2>1. cut = SubSeq(u, h + n + 1, Len(u)) /\ l = SubSeq(u, h + 1, Len(u))
    BY <1>4
  <2> HIDE DEF cut, l
  <2>2. u \in Seq(KeyId) /\ h \in Nat /\ n \in Nat /\ h + n <= Len(u)
    BY <1>1
  <2>a. IsTail(u, h, l) /\ IsTail(u, h + n, cut)
    BY ONLY <2>1 DEF IsTail
  <2>b. TailSplit(u, h, n, l, cut)
    BY ONLY <2>2, <2>a, TailOfTail
  <2>3. /\ cut = SubSeq(l, n + 1, Len(l))
        /\ SubSeq(cut, 1, Len(cut)) = SubSeq(l, n + 1, Len(l))
        /\ Len(l) = Len(u) - h
        /\ \A i \in 1..n : l[i] = u[h + i]
    BY ONLY <2>b DEF TailSplit
  <2>4. {l[i] : i \in 1..n} = {u[i] : i \in h + 1 .. h + n}
    <3>1. \A i \in 1..n : h + i \in h + 1 .. h + n
      BY <2>2
    <3>2. ASSUME NEW j \in h + 1 .. h + n PROVE \E i \in 1..n : l[i] = u[j]
      <4>1. j - h \in 1..n /\ h + (j - h) = j
        BY <2>2
      <4>2. l[j - h] = u[j]
        BY <4>1, <2>3
      <4> QED  BY <4>1, <4>2
    <3>3. {l[i] : i \in 1..n} \subseteq {u[i] : i \in h + 1 .. h + n}
      BY <2>3, <3>1
    <3>4. {u[i] : i \in h + 1 .. h + n} \subseteq {l[i] : i \in 1..n}
      BY <3>2
    <3> QED  BY <3>3, <3>4
  <2> QED  BY <2>3, <2>4, <1>5 DEF l
<1> HIDE DEF cut, rest, first
<1>9. Line' = [Line EXCEPT ![r] = rest]
  <2>1. ASSUME NEW s \in Route PROVE InLine(s)' = IF s = r THEN rest ELSE Line[s]
    <3>1. CASE s # r
      BY <3>1, <1>1, <1>3 DEF InLine, Line
    <3>2. CASE s = r /\ unissued'[r] = cut /\ head'[r] = 0
      BY <3>2, <1>8 DEF InLine
    <3>3. CASE s = r /\ unissued'[r] = u /\ head'[r] = h + n
      BY <3>3, <1>8 DEF InLine, cut
    <3> QED  BY <3>1, <3>2, <3>3, <1>1, <1>3 DEF u
  <2> QED  BY <2>1 DEF Line
<1>10. \A k \in chosen : /\ k \in DOMAIN m /\ ~m[k].issuedToMaster
                         /\ ~m[k].issuedToSlave
  <2>1. chosen \subseteq {u[i] : i \in h + 1 .. Len(u)}
    BY <1>1, <1>5
  <2> QED  BY <2>1, <1>6, <1>7 DEF LineHolds
<1>11. Stage' = [Stage EXCEPT ![r] = Moved(r, chosen, "issued")]
  <2>1. ASSUME NEW s \in Route, NEW k \in KeyId
        PROVE  StageOf(s, k)' =
                 IF s = r /\ k \in chosen THEN "issued" ELSE StageOf(s, k)
    <3>1. CASE s # r
      BY <3>1, <1>1, <1>2 DEF StageOf
    <3>2. CASE s = r /\ k \in chosen
      <4>1. m[k] \in Entry
        BY <3>2, <1>6, <1>10 DEF IsMap
      <4>2. /\ k \in DOMAIN routes'[r]
            /\ routes'[r][k] = [m[k] EXCEPT !.issuedToMaster = TRUE]
        BY <3>2, <1>1, <1>2, <1>10
      <4>3. routes'[r][k].issuedToMaster /\ ~routes'[r][k].issuedToSlave
        BY <3>2, <4>1, <4>2, <1>10 DEF Entry
      <4> QED  BY <3>2, <4>2, <4>3 DEF StageOf
    <3>3. CASE s = r /\ k \notin chosen
      <4>1. /\ DOMAIN routes'[r] = DOMAIN m
            /\ k \in DOMAIN m => routes'[r][k] = m[k]
        BY <3>3, <1>1, <1>2
      <4> QED  BY <3>3, <4>1, <1>2 DEF StageOf, m
    <3> QED  BY <3>1, <3>2, <3>3
  <2> QED  BY <2>1 DEF Stage, Moved
<1>12. n \in 1..Len(Line[r])
  BY <1>1, <1>8
<1>13. Stage' = [Stage EXCEPT ![r] = Delivery!Move(r, first, "issued")]
  BY <1>8, <1>11 DEF Moved, Delivery!Move, Stage
<1>14. decGiven' = decGiven
  BY DEF EncServed
<1> QED  BY <1>9, <1>12, <1>13, <1>14 DEF Delivery!Issue, Stage, Line, first, rest

LEMMA DecServedRefines ==
  ASSUME IInv, SlaveLast, NEW r \in Route, NEW len \in 1..MaxIds,
         NEW ids \in [1..len -> KeyId], DecServed(r, ids)
  PROVE  Delivery!Complete(r)
<1> DEFINE m == routes[r]
           given == Requested(ids)
<1>1. /\ DOMAIN routes = Route /\ decGiven \in [Route -> [KeyId -> Nat]]
      /\ len \in Nat /\ Len(ids) = len
  BY Shape, GivenTypes, StoreAssumption DEF IInv, StoreAssumption
<1>2. /\ routes' = [routes EXCEPT ![r] = [k \in DOMAIN m \ given |-> m[k]]]
      /\ decGiven' = [decGiven EXCEPT ![r] = [k \in KeyId |->
                        IF k \in given THEN @[k] + 1 ELSE @[k]]]
      /\ UNCHANGED <<unissued, head>>
  BY DEF DecServed
<1>3. \A k \in given : /\ k \in KeyId /\ k \in DOMAIN m
                       /\ m[k].issuedToMaster /\ ~m[k].issuedToSlave
  BY <1>1 DEF DecServed, Accepts, Requested
<1> HIDE DEF given, m
<1>4. given \in SUBSET {k \in KeyId : Stage[r][k] = "issued"}
  <2>1. ASSUME NEW k \in given PROVE StageOf(r, k) = "issued"
    BY <1>3 DEF StageOf, m
  <2> QED  BY <1>3, <2>1, StageFacts
<1>5. Stage' = [Stage EXCEPT ![r] = Moved(r, given, "absent")]
  <2>1. ASSUME NEW s \in Route, NEW k \in KeyId
        PROVE  StageOf(s, k)' =
                 IF s = r /\ k \in given THEN "absent" ELSE StageOf(s, k)
    <3>1. CASE s # r
      BY <3>1, <1>1, <1>2 DEF StageOf
    <3>2. CASE s = r /\ k \in given
      <4>1. k \notin DOMAIN routes'[r]
        BY <3>2, <1>1, <1>2
      <4> QED  BY <3>2, <4>1 DEF StageOf
    <3>3. CASE s = r /\ k \notin given
      <4>1. /\ k \in DOMAIN routes'[r] <=> k \in DOMAIN m
            /\ k \in DOMAIN m => routes'[r][k] = m[k]
        BY <3>3, <1>1, <1>2
      <4> QED  BY <3>3, <4>1 DEF StageOf, m
    <3> QED  BY <3>1, <3>2, <3>3
  <2> QED  BY <2>1 DEF Stage, Moved
<1>6. Line' = Line
  BY <1>2 DEF Line, InLine
<1>7. Stage' = [Stage EXCEPT ![r] = Delivery!Move(r, given, "absent")]
  BY <1>5 DEF Moved, Delivery!Move, Stage
<1> QED  BY <1>2, <1>4, <1>6, <1>7 DEF Delivery!Complete, Stage, Line

LEMMA DecRefusedRefines ==
  ASSUME IInv, SlaveLast, NEW r \in Route, NEW len \in 1..MaxIds,
         NEW ids \in [1..len -> KeyId], DecRefused(r, ids)
  PROVE  Delivery!Burn(r)
<1> DEFINE m == routes[r]
<1>1. DOMAIN routes = Route /\ IsMap(m) /\ len \in Nat /\ Len(ids) = len
  BY Shape, RouteMap, StoreAssumption DEF IInv, StoreAssumption
<1>2. PICK f \in 1..Len(ids) :
        /\ \A i \in 1..f - 1 : Accepts(r, ids, i)
        /\ routes' = [routes EXCEPT ![r] = [k \in DOMAIN m |->
                        IF \E i \in 1..f - 1 : ids[i] = k
                        THEN [m[k] EXCEPT !.issuedToSlave = TRUE] ELSE m[k]]]
        /\ UNCHANGED <<unissued, head, decGiven>>
  BY DEF DecRefused
<1> DEFINE spent == {ids[i] : i \in 1..f - 1}
<1>3. /\ \A k : k \in spent <=> \E i \in 1..f - 1 : ids[i] = k
      /\ \A i \in 1..f - 1 : i \in 1..len
  BY <1>1
<1>4. \A k \in spent : /\ k \in KeyId /\ k \in DOMAIN m
                       /\ m[k].issuedToMaster /\ ~m[k].issuedToSlave
  BY <1>1, <1>2, <1>3 DEF Accepts
<1>5. routes' = [routes EXCEPT ![r] = [k \in DOMAIN m |->
                   IF k \in spent THEN [m[k] EXCEPT !.issuedToSlave = TRUE]
                   ELSE m[k]]]
  BY <1>2, <1>3
<1> HIDE DEF spent, m
<1>6. spent \in SUBSET {k \in KeyId : Stage[r][k] = "issued"}
  <2>1. ASSUME NEW k \in spent PROVE StageOf(r, k) = "issued"
    BY <1>4 DEF StageOf, m
  <2> QED  BY <1>4, <2>1, StageFacts
<1>7. Stage' = [Stage EXCEPT ![r] = Moved(r, spent, "burnt")]
  <2>1. ASSUME NEW s \in Route, NEW k \in KeyId
        PROVE  StageOf(s, k)' =
                 IF s = r /\ k \in spent THEN "burnt" ELSE StageOf(s, k)
    <3>1. CASE s # r
      BY <3>1, <1>1, <1>2, <1>5 DEF StageOf
    <3>2. CASE s = r /\ k \in spent
      <4>1. m[k] \in Entry
        BY <3>2, <1>1, <1>4 DEF IsMap
      <4>2. /\ k \in DOMAIN routes'[r]
            /\ routes'[r][k] = [m[k] EXCEPT !.issuedToSlave = TRUE]
        BY <3>2, <1>1, <1>4, <1>5
      <4>3. routes'[r][k].issuedToMaster /\ routes'[r][k].issuedToSlave
        BY <3>2, <4>1, <4>2, <1>4 DEF Entry
      <4> QED  BY <3>2, <4>2, <4>3 DEF StageOf
    <3>3. CASE s = r /\ k \notin spent
      <4>1. /\ DOMAIN routes'[r] = DOMAIN m
            /\ k \in DOMAIN m => routes'[r][k] = m[k]
        BY <3>3, <1>1, <1>5
      <4> QED  BY <3>3, <4>1, <1>2 DEF StageOf, m
    <3> QED  BY <3>1, <3>2, <3>3
  <2> QED  BY <2>1 DEF Stage, Moved
<1>8. Line' = Line
  BY <1>2 DEF Line, InLine
<1>9. Stage' = [Stage EXCEPT ![r] = Delivery!Move(r, spent, "burnt")]
  BY <1>7 DEF Moved, Delivery!Move, Stage
<1> QED  BY <1>2, <1>6, <1>8, <1>9 DEF Delivery!Burn, Stage, Line

LEMMA RestartRefines ==
  ASSUME Restart
  PROVE  Delivery!Forget
<1>1. /\ \A r \in Route : routes'[r] = << >> /\ unissued'[r] = << >> /\ head'[r] = 0
      /\ decGiven' = decGiven
  BY DEF Restart, NoKeys
<1>2. ASSUME NEW r \in Route, NEW k \in KeyId PROVE StageOf(r, k)' = "absent"
  BY <1>1 DEF StageOf
<1>3. ASSUME NEW r \in Route PROVE InLine(r)' = << >>
  BY <1>1 DEF InLine
<1> QED  BY <1>1, <1>2, <1>3 DEF Delivery!Forget

\* Every step of the store is a step of KeyDelivery, or none.
LEMMA StepRefines ==
  ASSUME IInv, SlaveLast, [Next]_vars
  PROVE  [Delivery!Next]_(Delivery!vars)
<1>1. ASSUME NEW exp \in Exports, Import(exp) PROVE Delivery!Next
  BY <1>1, ImportRefines DEF Delivery!Next
<1>2. ASSUME NEW r \in Route, NEW n \in 1..MaxNumber, NEW size \in Sizes,
             EncServed(r, n, size)
      PROVE  Delivery!Next
  BY <1>2, EncServedRefines DEF Delivery!Next
<1>3. ASSUME NEW r \in Route, NEW len \in 1..MaxIds, NEW ids \in [1..len -> KeyId],
             DecServed(r, ids)
      PROVE  Delivery!Next
  BY <1>3, DecServedRefines DEF Delivery!Next
<1>4. ASSUME NEW r \in Route, NEW len \in 1..MaxIds, NEW ids \in [1..len -> KeyId],
             DecRefused(r, ids)
      PROVE  Delivery!Next
  BY <1>4, DecRefusedRefines DEF Delivery!Next
<1>5. CASE Restart
  BY <1>5, RestartRefines DEF Delivery!Next
<1>6. CASE UNCHANGED vars
  BY <1>6 DEF vars, storeVars, Delivery!vars, StageOf, InLine
<1> QED  BY <1>1, <1>2, <1>3, <1>4, <1>5, <1>6 DEF Next

-----------------------------------------------------------------------------
\* The store implements KeyDelivery: whatever the methods do to the array,
\* its head and the flags, for any exports and across restarts, keys are
\* issued in the order of their arrival, completed once for each time they
\* were issued and only then, and stand in line again only if they arrive
\* again.
THEOREM StoreDelivers == Spec => DeliverySpec
<1>1. Init => SlaveLast
  BY DEF Init, NoKeys, SlaveLast
<1>2. IInv /\ SlaveLast /\ [Next]_vars => SlaveLast'
  BY SlaveLastStep
<1>3. IInv /\ SlaveLast /\ [Next]_vars => [Delivery!Next]_(Delivery!vars)
  BY StepRefines
<1> QED  BY InitHolds, NextKeeps, InitRefines, <1>1, <1>2, <1>3, PTL
         DEF Spec, DeliverySpec, Delivery!Spec

-----------------------------------------------------------------------------
(* 3. The server.                                                          *)

(* Connections.                                                            *)

ConnTypes ==
  /\ live \subseteq Conn
  /\ who \in [Conn -> Sae \cup {None}]
  /\ req \in [Conn -> Request \cup {None}]
  /\ pc \in [Conn -> {"idle", "ocsp", "body", "hung"}]

\* A session has its certificate, a running handler its request, and a
\* handler that reads a body its socket.
ConnInv ==
  /\ ConnTypes
  /\ \A c \in Conn :
       /\ c \in live => who[c] \in Sae
       /\ pc[c] # "idle" => /\ who[c] \in Sae /\ req[c] \in Request
       /\ pc[c] = "body" => c \in live

\* While the timer has run and the gate is still shut no session is open.
SweptInv == swept => ~gateOpen /\ live = {}

LEMMA InitConn == ServerInit => ConnInv /\ SweptInv
BY DEF ServerInit, ConnInv, ConnTypes, SweptInv

\* Sockets that close, one or all of them.
LEMMA CloseKeeps ==
  ASSUME ConnInv, NEW S \in SUBSET live, Close(S)
  PROVE  ConnInv' /\ live' = live \ S
BY DEF ConnInv, ConnTypes, Close

\* The end of a handler that leaves its connection open, or closes it.
LEMMA SettleKeeps ==
  ASSUME ConnInv, NEW c \in Conn, Settle(c), NEW open \in BOOLEAN,
         open => c \in live, Release(c, open)
  PROVE  ConnInv' /\ live' \subseteq live
<1>1. /\ pc' = [pc EXCEPT ![c] = "idle"] /\ req' = [req EXCEPT ![c] = None]
  BY DEF Settle
<1>2. CASE open
  <2>1. live' = live /\ who' = who
    BY <1>2 DEF Release
  <2> QED  BY <1>1, <2>1 DEF ConnInv, ConnTypes
<1>3. CASE ~open
  <2>1. live' = live \ {c} /\ who' = [who EXCEPT ![c] = None]
    BY <1>3 DEF Release
  <2> QED  BY <1>1, <2>1 DEF ConnInv, ConnTypes
<1> QED  BY <1>2, <1>3

\* The same for a handler that leaves the connections as they are.
LEMMA SettleOnlyKeeps ==
  ASSUME ConnInv, NEW c \in Conn, Settle(c), UNCHANGED <<live, who>>
  PROVE  ConnInv'
BY DEF ConnInv, ConnTypes, Settle

LEMMA ConnStep ==
  ASSUME ConnInv, SweptInv, [ServerNext]_serverVars
  PROVE  ConnInv' /\ SweptInv'
<1>1. ASSUME NEW c \in Conn, NEW sae \in Sae, Connect(c, sae)
      PROVE  ConnInv' /\ SweptInv'
  BY <1>1 DEF Connect, ConnInv, ConnTypes, SweptInv, gateVars
<1>2. ASSUME NEW c \in Conn, NEW r \in Request, Receive(c, r)
      PROVE  ConnInv' /\ SweptInv'
  BY <1>2 DEF Receive, ConnInv, ConnTypes, SweptInv, gateVars
<1>3. ASSUME NEW c \in Conn, Cut(c)
      PROVE  ConnInv' /\ SweptInv'
  <2>1. ConnInv' /\ live' = live \ {c}
    BY <1>3, CloseKeeps DEF Cut
  <2> QED  BY <1>3, <2>1 DEF Cut, SweptInv, gateVars
<1>4. ASSUME NEW c \in Conn, OcspAnswer(c)
      PROVE  ConnInv' /\ SweptInv'
  <2>1. CASE OcspGoodServed(c)
    <3>a. Settle(c) /\ Release(c, c \in live) /\ (c \in live) \in BOOLEAN
      BY <2>1 DEF OcspGoodServed
    <3>1. ConnInv' /\ live' \subseteq live
      BY <3>a, SettleKeeps
    <3> QED  BY <2>1, <3>1 DEF OcspGoodServed, SweptInv, gateVars
  <2>2. CASE OcspGoodBody(c)
    BY <2>2 DEF OcspGoodBody, ConnInv, ConnTypes, SweptInv, gateVars
  <2>3. CASE OcspRefused(c)
    <3>1. PICK open \in BOOLEAN : Release(c, open /\ c \in live)
      BY <2>3 DEF OcspRefused
    <3>2. ConnInv' /\ live' \subseteq live
      BY <2>3, <3>1, SettleKeeps DEF OcspRefused
    <3> QED  BY <2>3, <3>2 DEF OcspRefused, SweptInv, gateVars
  <2> QED  BY <1>4, <2>1, <2>2, <2>3 DEF OcspAnswer
<1>5. ASSUME NEW c \in Conn, BodyServed(c)
      PROVE  ConnInv' /\ SweptInv'
  BY <1>5, SettleOnlyKeeps DEF BodyServed, SweptInv, gateVars
<1>6. ASSUME NEW c \in Conn, BodyBad(c)
      PROVE  ConnInv' /\ SweptInv'
  BY <1>6, SettleOnlyKeeps DEF BodyBad, SweptInv, gateVars
<1>7. ASSUME NEW c \in Conn, BodyTooLarge(c)
      PROVE  ConnInv' /\ SweptInv'
  <2>1. ConnInv' /\ live' \subseteq live
    BY <1>7, SettleKeeps DEF BodyTooLarge
  <2> QED  BY <1>7, <2>1 DEF BodyTooLarge, SweptInv, gateVars
<1>8. ASSUME NEW open \in BOOLEAN, NEW peers \in SUBSET Sae, GateWrite(open, peers)
      PROVE  ConnInv' /\ SweptInv'
  BY <1>8 DEF GateWrite, ConnInv, ConnTypes, SweptInv, connVars
<1>9. CASE Sweep
  <2>1. ConnInv' /\ live' = live \ live
    BY <1>9, CloseKeeps DEF Sweep
  <2> QED  BY <1>9, <2>1 DEF Sweep, SweptInv
<1>10. ASSUME NEW f \in File, Drop(f)
       PROVE  ConnInv' /\ SweptInv'
  BY <1>10 DEF Drop, ConnInv, ConnTypes, SweptInv, connVars, gateVars
<1>11. CASE Drain
  BY <1>11 DEF Drain, ConnInv, ConnTypes, SweptInv, connVars, gateVars
<1>12. CASE ServerRestart
  BY <1>12 DEF ServerRestart, ConnInv, ConnTypes, SweptInv, gateVars
<1>13. CASE UNCHANGED serverVars
  BY <1>13 DEF serverVars, ConnInv, ConnTypes, SweptInv
<1> QED  BY <1>1, <1>2, <1>3, <1>4, <1>5, <1>6, <1>7, <1>8, <1>9, <1>10, <1>11,
            <1>12, <1>13 DEF ServerNext

-----------------------------------------------------------------------------
(* The store.                                                              *)

\* What a step of the server does to the store is a step of the store.

\* The handlers take keys of the route of two applications.
LEMMA TakeIsStoreStep ==
  ASSUME ConnInv, NEW c \in Conn, pc[c] # "idle", Take(c)
  PROVE  [Next]_vars
<1> DEFINE r == RouteOf(who[c], req[c].peer)
<1>1. r \in Route
  BY ServerAssumption DEF ServerAssumption, ConnInv, RouteOf, Request
<1>2. MaxIds \in Nat /\ MaxIds # 0
  BY StoreAssumption, ServerAssumption DEF StoreAssumption, ServerAssumption
<1>3. CASE UNCHANGED vars
  BY <1>3 DEF Next
<1>4. ASSUME NEW n \in 1..MaxNumber, NEW size \in Sizes, EncServed(r, n, size)
      PROVE  [Next]_vars
  BY <1>1, <1>4 DEF Next
<1>5. ASSUME NEW len \in 1..(IF req[c].post THEN MaxIds ELSE 1),
             NEW ids \in [1..len -> KeyId], DecServed(r, ids) \/ DecRefused(r, ids)
      PROVE  [Next]_vars
  <2>1. len \in 1..MaxIds
    BY <1>2
  <2> QED  BY <1>1, <1>5, <2>1 DEF Next
<1> QED  BY <1>3, <1>4, <1>5 DEF Take

LEMMA ServerStoreStep ==
  ASSUME ConnInv, inbox \subseteq File, [ServerNext]_serverVars
  PROVE  [Next]_vars
<1>1. ASSUME NEW c \in Conn, OcspAnswer(c)
      PROVE  [Next]_vars
  <2>1. CASE OcspGoodServed(c)
    BY <2>1, TakeIsStoreStep DEF OcspGoodServed
  <2>2. CASE OcspGoodBody(c) \/ OcspRefused(c)
    BY <2>2 DEF OcspGoodBody, OcspRefused, Next
  <2> QED  BY <1>1, <2>1, <2>2 DEF OcspAnswer
<1>2. ASSUME NEW c \in Conn, BodyServed(c)
      PROVE  [Next]_vars
  BY <1>2, TakeIsStoreStep DEF BodyServed
<1>3. ASSUME NEW c \in Conn, BodyBad(c) \/ BodyTooLarge(c) \/ Cut(c)
      PROVE  [Next]_vars
  BY <1>3 DEF BodyBad, BodyTooLarge, Cut, Next
<1>4. ASSUME NEW c \in Conn, NEW sae \in Sae, Connect(c, sae)
      PROVE  [Next]_vars
  BY <1>4 DEF Connect, Next
<1>5. ASSUME NEW c \in Conn, NEW r \in Request, Receive(c, r)
      PROVE  [Next]_vars
  BY <1>5 DEF Receive, Next
<1>6. ASSUME NEW open \in BOOLEAN, NEW peers \in SUBSET Sae, GateWrite(open, peers)
      PROVE  [Next]_vars
  BY <1>6 DEF GateWrite, Next
<1>7. CASE Sweep
  BY <1>7 DEF Sweep, Next
<1>8. ASSUME NEW f \in File, Drop(f)
      PROVE  [Next]_vars
  BY <1>8 DEF Drop, Next
<1>9. CASE Drain
  <2>1. PICK part \in [inbox -> [Route -> SUBSET KeyId]] :
          Import([r \in Route |-> UNION {part[f][r] : f \in inbox}])
    BY <1>9 DEF Drain
  <2> DEFINE exp == [r \in Route |-> UNION {part[f][r] : f \in inbox}]
  <2>2. exp \in [Route -> SUBSET KeyId]
    <3>1. ASSUME NEW r \in Route PROVE UNION {part[f][r] : f \in inbox} \subseteq KeyId
      BY <2>1
    <3> QED  BY <3>1
  <2> HIDE DEF exp
  <2>3. Import(exp)
    BY <2>1 DEF exp
  <2> QED  BY <2>2, <2>3 DEF Next, Exports
<1>10. CASE ServerRestart
  BY <1>10 DEF ServerRestart, Next
<1>11. CASE UNCHANGED serverVars
  BY <1>11 DEF serverVars, Next
<1> QED  BY <1>1, <1>2, <1>3, <1>4, <1>5, <1>6, <1>7, <1>8, <1>9, <1>10, <1>11
         DEF ServerNext

-----------------------------------------------------------------------------
(* Theorems.                                                               *)

ServerInv == ConnInv /\ SweptInv /\ inbox \subseteq File /\ IInv /\ BalanceInv

LEMMA InitServer == ServerInit => ServerInv
<1>1. Init => BalanceInv
  BY DEF Init, NoKeys, Zero, BalanceInv, Balanced, HalfOpen
<1> QED  BY <1>1, InitHolds, InitConn DEF ServerInit, ServerInv

LEMMA ServerKeeps == ServerInv /\ [ServerNext]_serverVars => ServerInv'
<1> SUFFICES ASSUME ServerInv, [ServerNext]_serverVars PROVE ServerInv'
  OBVIOUS
<1>1. ConnInv' /\ SweptInv'
  BY ConnStep DEF ServerInv
<1>2. [Next]_vars
  BY ServerStoreStep DEF ServerInv
<1>3. IInv' /\ BalanceInv'
  BY <1>2, NextKeeps, BalanceStep DEF ServerInv
<1>4. inbox' \subseteq File
  BY DEF ServerInv, ServerNext, Connect, Receive, Cut, OcspAnswer, OcspGoodServed,
         OcspGoodBody, OcspRefused, BodyServed, BodyBad, BodyTooLarge, GateWrite,
         Sweep, Drop, Drain, ServerRestart, serverVars
<1> QED  BY <1>1, <1>3, <1>4 DEF ServerInv

\* For any producer, stale files and failed unlinks included, a master is
\* given a key again only after its slave was, or after a restart (the merge
\* of loadFromExport under drainKeystoreInbox).
THEOREM MastersExclude == ServerSpec => []NoSecondMaster
<1>1. ServerInv => NoSecondMaster
  <2> SUFFICES ASSUME ServerInv, NEW r \in Route, NEW k \in KeyId
               PROVE  /\ decGiven[r][k] <= encGiven[r][k]
                      /\ encGiven[r][k] <= decGiven[r][k] + 1 + restarts
    BY DEF NoSecondMaster
  <2>1. encGiven[r][k] \in Nat /\ decGiven[r][k] \in Nat /\ restarts \in Nat
    BY GivenTypes DEF ServerInv, IInv
  <2>2. Balanced(HalfOpen(r, k), encGiven[r][k], decGiven[r][k], restarts)
    BY DEF ServerInv, BalanceInv
  <2> QED  BY <2>1, <2>2 DEF Balanced
<1> QED  BY InitServer, ServerKeeps, <1>1, PTL DEF ServerSpec

\* A shut gate whose timer has run stops the delivery, for requests at every
\* await and for any number of connections (the timer over liveTls and the
\* checks of authenticate).
THEOREM SweepStops == ServerSpec => NoKeysAfterSweep
<1> DEFINE A == swept => encGiven' = encGiven /\ decGiven' = decGiven
<1>1. ASSUME ServerInv, [ServerNext]_serverVars PROVE A
  <2> SUFFICES ASSUME swept PROVE encGiven' = encGiven /\ decGiven' = decGiven
    OBVIOUS
  <2>1. ~gateOpen /\ live = {}
    BY <1>1 DEF ServerInv, SweptInv
  <2>2. ASSUME NEW c \in Conn PROVE ~OcspGoodServed(c) /\ ~BodyServed(c)
    BY <2>1 DEF OcspGoodServed, Allowed, GateAllows, BodyServed
  <2>3. ASSUME NEW c \in Conn, OcspAnswer(c) PROVE UNCHANGED vars
    BY <2>2, <2>3 DEF OcspAnswer, OcspGoodBody, OcspRefused
  <2>4. CASE Drain
    BY <2>4 DEF Drain, Import
  <2>5. CASE ServerRestart
    BY <2>5 DEF ServerRestart, Restart
  <2> QED  BY <1>1, <2>2, <2>3, <2>4, <2>5
           DEF ServerNext, Connect, Receive, Cut, BodyBad, BodyTooLarge, GateWrite,
               Sweep, Drop, serverVars, vars
<1>2. ServerInv /\ [ServerNext]_serverVars => [A]_serverVars
  BY <1>1
<1> QED  BY InitServer, ServerKeeps, <1>2, PTL DEF ServerSpec, NoKeysAfterSweep
=============================================================================
