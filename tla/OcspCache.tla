----------------------------- MODULE OcspCache -----------------------------
(***************************************************************************)
(* checkOcsp of bb84/etsi014_kme_server.js: the live revocation query that *)
(* every request makes, behind a cache with an expiry time.                *)
(*                                                                         *)
(* A request that finds no fresh entry starts a query of its own, and      *)
(* requests of the same client run side by side, so several queries may be *)
(* under way.  The responder answers a query at one moment and the answer  *)
(* is written to the cache at a later one.  Entries of different           *)
(* certificates do not touch each other; this is the life of one.  What    *)
(* the responder answers is the business of OcspResponder.                 *)
(***************************************************************************)
EXTENDS OcspResponder

CONSTANTS
  Query,     \* slots for queries under way
  Ttl,       \* OCSP_CACHE_TTL_MS, for good and revoked
  ShortTtl,  \* OCSP_INDETERMINATE_TTL_MS, for everything else
  MaxDelay,  \* time after which a query is killed (4 s)
  MaxTime    \* bound on the clock

Status == {"unknown", "good", "revoked", "unreachable"}

ASSUME OcspAssumption ==
  /\ Ttl \in Nat /\ ShortTtl \in Nat /\ MaxDelay \in Nat /\ MaxTime \in Nat
  /\ None \notin Status

VARIABLES
  cache,     \* the entry of OCSP_CACHE, or None
  query,     \* query[q]: the query in slot q, or None
  accepted   \* when a request was last let through, or None

cacheVars == <<cache, query, accepted>>

\* A result lets the request through only when it is good.
Ok(status) == status = "good"

-----------------------------------------------------------------------------
(* checkOcsp.                                                              *)

\* Defect for the runs to find: an entry never expires.
FreshForever == cache # None

Fresh == cache # None /\ cache.expiresAt > now

Decide(status) == accepted' = IF Ok(status) THEN now ELSE accepted

\* A fresh entry answers at once.
Hit ==
  /\ Fresh
  /\ Decide(cache.status)
  /\ UNCHANGED <<cache, query>>

\* Otherwise openssl is started.
Ask(q) ==
  /\ ~Fresh
  /\ query[q] = None
  /\ query' = [query EXCEPT ![q] = [at |-> now, answer |-> None]]
  /\ UNCHANGED <<cache, accepted>>

\* The responder answers, or cannot be reached and openssl gives up or is
\* killed.
Answered(q, status) ==
  /\ query[q] # None /\ query[q].answer = None
  /\ query' = [query EXCEPT ![q].answer = status]
  /\ UNCHANGED <<cache, accepted>>

\* Defect, once in the code (lines 539 to 543): one lifetime for all results.
TtlSame(status) == Ttl

TtlOf(status) == IF status \in {"good", "revoked"} THEN Ttl ELSE ShortTtl

Entry(status) ==
  IF TtlOf(status) > 0
  THEN [status |-> status, expiresAt |-> now + TtlOf(status)]
  ELSE None

\* The callback of execFile: the result is cached and the request decided.
Return(q) ==
  /\ query[q] # None /\ query[q].answer # None
  /\ LET status == query[q].answer IN
       /\ cache' = Entry(status)
       /\ Decide(status)
  /\ query' = [query EXCEPT ![q] = None]

\* A query that is due holds the clock until it has returned.
InTime == \A q \in Query : query[q] # None => now < query[q].at + MaxDelay

CacheInit ==
  cache = None /\ query = [q \in Query |-> None] /\ accepted = None

CacheTypeOK ==
  /\ cache \in [status : Status, expiresAt : Nat] \cup {None}
  /\ query \in [Query -> [at : Nat, answer : Status \cup {None}] \cup {None}]
  /\ accepted \in Nat \cup {None}
=============================================================================
