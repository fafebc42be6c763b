---------------------------- MODULE KMEKeyStore ----------------------------
(***************************************************************************)
(* The key store of the ETSI GS QKD 014 key management entity, class       *)
(* KMEKeyStore of bb84/etsi014_kme_server.js.                              *)
(*                                                                         *)
(* The store keeps one map of keys per route and, next to it, a queue of   *)
(* the keys no master has been given.  The queue is an array that is only  *)
(* appended to; a head index says how much of it is used up, and once the  *)
(* used part is large the array is cut.  A master takes keys from the      *)
(* queue by number (enc_keys), the slave names them (dec_keys), and a key  *)
(* given to both is deleted.                                               *)
(*                                                                         *)
(* One action per method that changes the store; every action is one       *)
(* synchronous call and therefore one step.  encGiven and decGiven are not *)
(* part of the store: they are what the applications outside have been     *)
(* given, and survive a restart of the process.                            *)
(***************************************************************************)
EXTENDS Integers, Sequences, FiniteSets

CONSTANTS
  Route,           \* route keys ("A-B"), one per pair of applications
  KeyId,           \* key_ID values; a key is identified by its route and its id
  SizeOf,          \* SizeOf[r][k]: sizeBits of the key k of route r
  AnySize,         \* the `size` of a request that names none
  CompactAt,       \* used prefix above which the queue is cut (4096 in the code)
  MaxNumber,       \* bound on the `number` of an enc_keys request (128 in the code)
  MaxIds,          \* bound on the length of the key_IDs list of dec_keys
  MaxRestarts,     \* bound on the restarts of the process
  MaxGone          \* bound: no more imports once a process destroyed so many

ASSUME StoreAssumption ==
  /\ IsFiniteSet(KeyId)
  /\ SizeOf \in [Route -> [KeyId -> Nat]]
  /\ AnySize \notin Nat
  /\ CompactAt \in Nat
  /\ MaxNumber \in Nat
  /\ MaxIds \in Nat
  /\ MaxRestarts \in Nat
  /\ MaxGone \in Nat

VARIABLES
  routes,          \* routes[r]: key_ID -> [issuedToMaster, issuedToSlave]
  unissued,        \* unissued[r]: the queue array
  head,            \* head[r]: length of the used prefix of unissued[r]
  deliveredCount,  \* keys given to masters, the store's own statistic
  destroyedCount,  \* keys deleted after both sides had them, likewise
  encGiven,        \* encGiven[r][k]: how often enc_keys answered with the key
  decGiven,        \* decGiven[r][k]: how often dec_keys answered with the key
  restarts         \* restarts so far

storeVars == <<routes, unissued, head, deliveredCount, destroyedCount>>
vars == <<storeVars, encGiven, decGiven, restarts>>

Entry == [issuedToMaster : BOOLEAN, issuedToSlave : BOOLEAN]
Fresh == [issuedToMaster |-> FALSE, issuedToSlave |-> FALSE]

\* The sequences that list every element of S exactly once.
Listings(S) ==
  {f \in [1..Cardinality(S) -> S] :
     \A k \in S : \E i \in 1..Cardinality(S) :
        /\ f[i] = k
        /\ \A j \in 1..Cardinality(S) : f[j] = k => j = i}

-----------------------------------------------------------------------------
(* The queue.                                                              *)

Available(r) == Len(unissued[r]) - head[r]

\* The keys still in line, oldest first.
InLine(r) == SubSeq(unissued[r], head[r] + 1, Len(unissued[r]))

\* Defect for the runs to find: the newest keys are taken.
NewestInstead(r, n) ==
  {unissued[r][i] : i \in Len(unissued[r]) - n + 1 .. Len(unissued[r])}

\* The n oldest keys in line.
Oldest(r, n) == {unissued[r][i] : i \in head[r] + 1 .. head[r] + n}

\* Defect: the head is not reset when the array is cut.
DequeueKeepsHead(r, n) ==
  LET h   == head[r] + n
      cut == h > CompactAt /\ h * 2 >= Len(unissued[r])
  IN /\ unissued' = [unissued EXCEPT ![r] =
                       IF cut THEN SubSeq(@, h + 1, Len(@)) ELSE @]
     /\ head' = [head EXCEPT ![r] = h]

\* Defect: the cut leaves one used key in the array.
DequeueCutsShort(r, n) ==
  LET h   == head[r] + n
      cut == h > CompactAt /\ h * 2 >= Len(unissued[r])
  IN /\ unissued' = [unissued EXCEPT ![r] =
                       IF cut THEN SubSeq(@, h, Len(@)) ELSE @]
     /\ head' = [head EXCEPT ![r] = IF cut THEN 0 ELSE h]

\* _dequeue: the head moves past n keys; a long used prefix that makes up
\* half of the array is cut off.
Dequeue(r, n) ==
  LET h   == head[r] + n
      cut == h > CompactAt /\ h * 2 >= Len(unissued[r])
  IN /\ unissued' = [unissued EXCEPT ![r] =
                       IF cut THEN SubSeq(@, h + 1, Len(@)) ELSE @]
     /\ head' = [head EXCEPT ![r] = IF cut THEN 0 ELSE h]

-----------------------------------------------------------------------------
(* Import.                                                                 *)

\* What an export may hold.  exportForKME lists every key it ever registered,
\* the delivered ones too, and an older export may be read after a newer one:
\* any set of keys, those the slaves have had included.
Exports == [Route -> SUBSET KeyId]

\* Defect, once in the code (lines 252 to 261): an import of a route starts
\* it afresh.
ImportAfresh(exp) ==
  /\ destroyedCount < MaxGone
  /\ routes' = [r \in Route |-> IF exp[r] = {} THEN routes[r]
                                ELSE [k \in exp[r] |-> Fresh]]
  /\ \E order \in [Route -> UNION {Listings(exp[r]) : r \in Route}] :
       /\ \A r \in Route : order[r] \in Listings(exp[r])
       /\ unissued' = [r \in Route |-> IF exp[r] = {} THEN unissued[r]
                                       ELSE order[r]]
  /\ head' = [r \in Route |-> IF exp[r] = {} THEN head[r] ELSE 0]
  /\ UNCHANGED <<deliveredCount, destroyedCount, encGiven, decGiven, restarts>>

\* loadFromExport with merge: known keys keep their flags and are not queued
\* again, new ones are added in the order of the export.  A key that both
\* sides have had is not in the map and counts as new.  The order is an
\* input, so any listing of the new keys may be appended.
Import(exp) ==
  LET new == [r \in Route |-> exp[r] \ DOMAIN routes[r]]
  IN /\ destroyedCount < MaxGone
     /\ routes' = [r \in Route |->
                     [k \in DOMAIN routes[r] \cup new[r] |->
                        IF k \in new[r] THEN Fresh ELSE routes[r][k]]]
     /\ \E order \in [Route -> UNION {Listings(new[r]) : r \in Route}] :
          /\ \A r \in Route : order[r] \in Listings(new[r])
          /\ unissued' = [r \in Route |-> unissued[r] \o order[r]]
     /\ UNCHANGED <<head, deliveredCount, destroyedCount,
                    encGiven, decGiven, restarts>>

-----------------------------------------------------------------------------
(* takeForMaster.                                                          *)

\* Only the first key in line is compared with the requested size.
WrongSize(r, size) ==
  /\ size # AnySize
  /\ Available(r) > 0
  /\ SizeOf[r][unissued[r][head[r] + 1]] # size

\* Otherwise the request is refused, with 400 for the size and 503 for the
\* number, and nothing changes.
EncAccepts(r, n, size) == ~WrongSize(r, size) /\ Available(r) >= n

EncServed(r, n, size) ==
  /\ EncAccepts(r, n, size)
  /\ LET chosen == Oldest(r, n) IN
       /\ routes' = [routes EXCEPT ![r] = [k \in DOMAIN @ |->
                       IF k \in chosen
                       THEN [@[k] EXCEPT !.issuedToMaster = TRUE]
                       ELSE @[k]]]
       /\ encGiven' = [encGiven EXCEPT ![r] = [k \in KeyId |->
                       IF k \in chosen THEN @[k] + 1 ELSE @[k]]]
  /\ Dequeue(r, n)
  /\ deliveredCount' = deliveredCount + n
  /\ UNCHANGED <<destroyedCount, decGiven, restarts>>

-----------------------------------------------------------------------------
(* takeForSlave.                                                           *)

\* Defect: a key no master has been given passes.
AcceptsUnissued(r, ids, i) ==
  /\ ids[i] \in DOMAIN routes[r]
  /\ ~routes[r][ids[i]].issuedToSlave
  /\ \A j \in 1..i - 1 : ids[j] # ids[i]

\* The loop lets the i-th id of the list pass: the key is known, issued to a
\* master and not flagged yet, not even by an earlier id of the same list.
Accepts(r, ids, i) ==
  /\ ids[i] \in DOMAIN routes[r]
  /\ routes[r][ids[i]].issuedToMaster
  /\ ~routes[r][ids[i]].issuedToSlave
  /\ \A j \in 1..i - 1 : ids[j] # ids[i]

Requested(ids) == {ids[i] : i \in 1..Len(ids)}

\* Defect: the whole request counts as one destroyed key.
DecServedCountsOne(r, ids) ==
  /\ \A i \in 1..Len(ids) : Accepts(r, ids, i)
  /\ routes' = [routes EXCEPT ![r] =
                  [k \in DOMAIN @ \ Requested(ids) |-> @[k]]]
  /\ decGiven' = [decGiven EXCEPT ![r] = [k \in KeyId |->
                    IF k \in Requested(ids) THEN @[k] + 1 ELSE @[k]]]
  /\ destroyedCount' = destroyedCount + 1
  /\ UNCHANGED <<unissued, head, deliveredCount, encGiven, restarts>>

\* Every id is accepted: the keys are given to the slave and deleted.
DecServed(r, ids) ==
  /\ \A i \in 1..Len(ids) : Accepts(r, ids, i)
  /\ routes' = [routes EXCEPT ![r] =
                  [k \in DOMAIN @ \ Requested(ids) |-> @[k]]]
  /\ decGiven' = [decGiven EXCEPT ![r] = [k \in KeyId |->
                    IF k \in Requested(ids) THEN @[k] + 1 ELSE @[k]]]
  /\ destroyedCount' = destroyedCount + Len(ids)
  /\ UNCHANGED <<unissued, head, deliveredCount, encGiven, restarts>>

\* Defect: what a refused request has flagged is deleted with it.
DecRefusedZeroizes(r, ids) ==
  \E f \in 1..Len(ids) :
    /\ ~Accepts(r, ids, f)
    /\ \A i \in 1..f - 1 : Accepts(r, ids, i)
    /\ routes' = [routes EXCEPT ![r] =
                    [k \in DOMAIN @ \ {ids[i] : i \in 1..f - 1} |-> @[k]]]
    /\ UNCHANGED <<unissued, head, deliveredCount, destroyedCount,
                   encGiven, decGiven, restarts>>

\* The f-th id throws: the request is refused, and the keys of the list
\* before it keep the flag the loop has already set.
DecRefused(r, ids) ==
  \E f \in 1..Len(ids) :
    /\ ~Accepts(r, ids, f)
    /\ \A i \in 1..f - 1 : Accepts(r, ids, i)
    /\ routes' = [routes EXCEPT ![r] = [k \in DOMAIN @ |->
                    IF \E i \in 1..f - 1 : ids[i] = k
                    THEN [@[k] EXCEPT !.issuedToSlave = TRUE]
                    ELSE @[k]]]
    /\ UNCHANGED <<unissued, head, deliveredCount, destroyedCount,
                   encGiven, decGiven, restarts>>

-----------------------------------------------------------------------------
(* The process.                                                            *)

NoKeys == [r \in Route |-> <<>>]     \* of routes and of unissued
Zero == [r \in Route |-> [k \in KeyId |-> 0]]

Init ==
  /\ routes = NoKeys
  /\ unissued = NoKeys
  /\ head = [r \in Route |-> 0]
  /\ deliveredCount = 0
  /\ destroyedCount = 0
  /\ encGiven = Zero
  /\ decGiven = Zero
  /\ restarts = 0

\* The process stops and starts again: the store lives in memory only.  The
\* keystore file the new process reads is one more Import.
Restart ==
  /\ restarts < MaxRestarts
  /\ restarts' = restarts + 1
  /\ routes' = NoKeys
  /\ unissued' = NoKeys
  /\ head' = [r \in Route |-> 0]
  /\ deliveredCount' = 0
  /\ destroyedCount' = 0
  /\ UNCHANGED <<encGiven, decGiven>>

Sizes == {AnySize} \cup {SizeOf[r][k] : r \in Route, k \in KeyId}

Next ==
  \/ \E exp \in Exports : Import(exp)
  \/ \E r \in Route :
       \/ \E n \in 1..MaxNumber, size \in Sizes :
            EncServed(r, n, size)
       \/ \E len \in 1..MaxIds : \E ids \in [1..len -> KeyId] :
            DecServed(r, ids) \/ DecRefused(r, ids)
  \/ Restart

Spec == Init /\ [][Next]_vars

-----------------------------------------------------------------------------
(* Properties.                                                             *)

TypeOK ==
  /\ routes \in [Route -> UNION {[S -> Entry] : S \in SUBSET KeyId}]
  /\ unissued \in [Route -> Seq(KeyId)]
  /\ head \in [Route -> Nat]
  /\ \A r \in Route : head[r] <= Len(unissued[r])
  /\ deliveredCount \in Nat
  /\ destroyedCount \in Nat
  /\ encGiven \in [Route -> [KeyId -> Nat]]
  /\ decGiven \in [Route -> [KeyId -> Nat]]
  /\ restarts \in 0..MaxRestarts

\* Whatever was imported, taken, cut off or re-imported, the line of a route
\* lists exactly the keys of its map that no master has been given, each
\* once: no key is stuck outside the line, none is offered twice.
QueueHoldsUnissued ==
  \A r \in Route :
    /\ \A i, j \in head[r] + 1 .. Len(unissued[r]) :
         unissued[r][i] = unissued[r][j] => i = j
    /\ {unissued[r][i] : i \in head[r] + 1 .. Len(unissued[r])} =
         {k \in DOMAIN routes[r] : ~routes[r][k].issuedToMaster}

\* A key in the hands of a master alone.
HalfOpen(r, k) == k \in DOMAIN routes[r] /\ routes[r][k].issuedToMaster

\* Across any number of re-imports, refusals and cuts of the queue every
\* answer to a slave is matched by one earlier answer to a master, and a
\* master is given a key again only after its slave has had it: the answers
\* to masters are ahead by one exactly while the map holds the key half-open.
\* A restart, which forgets the half-open keys, adds at most one.
OneSlavePerMaster ==
  \A r \in Route, k \in KeyId :
    LET ahead == encGiven[r][k] - decGiven[r][k]
    IN IF HalfOpen(r, k) THEN ahead \in 1..1 + restarts
                         ELSE ahead \in 0..restarts

\* The answers that gave a key out: <<r, k, n>> is the n-th one with the key k
\* of route r.
Answers(given) ==
  UNION {{<<r, k, n>> : n \in 1..given[r][k]} : r \in Route, k \in KeyId}

\* The two audit counters agree with what the applications were given since
\* the process started (:212, 327, 351); looked at in its first life.
AuditCountersAgree ==
  restarts = 0 =>
    /\ deliveredCount = Cardinality(Answers(encGiven))
    /\ destroyedCount = Cardinality(Answers(decGiven))

\* A half-open key, given to the master and not yet to the slave, survives
\* every re-import and every failed request: it leaves the map only in the
\* answer that gives it to the slave.
HalfOpenKeysStay ==
  [][ \A r \in Route : \A k \in DOMAIN routes[r] \ DOMAIN routes'[r] :
        \/ decGiven'[r][k] = decGiven[r][k] + 1
        \/ restarts' # restarts ]_vars

\* Where a key stands in the life KeyDelivery describes.
StageOf(r, k) ==
  IF k \notin DOMAIN routes[r] THEN "absent"
  ELSE IF ~routes[r][k].issuedToMaster THEN "waiting"
  ELSE IF routes[r][k].issuedToSlave THEN "burnt" ELSE "issued"

Delivery == INSTANCE KeyDelivery
  WITH stage <- [r \in Route |-> [k \in KeyId |-> StageOf(r, k)]],
       line <- [r \in Route |-> InLine(r)],
       completed <- decGiven

\* The store keeps the promise of KeyDelivery: keys are issued in the order
\* of their arrival, completed only after they were issued and once for each
\* time they were, and stand in line again only if they arrive again.
DeliverySpec == Delivery!Spec
=============================================================================
