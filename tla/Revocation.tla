----------------------------- MODULE Revocation -----------------------------
(***************************************************************************)
(* A certificate from its signing to its revocation, as a request to the   *)
(* key server feels it: the cache of checkOcsp in front of the responder   *)
(* script.  Every answered query ends the responder's process, so a second *)
(* query may find nobody there.                                            *)
(***************************************************************************)
EXTENDS OcspCache

VARIABLES
  revokedAt,  \* when the authority revoked, or None; the last time since then
              \* that a process was there which a stop had left behind
  notGoodAt   \* last time the certificate was not signed and good in the
              \* database, or no process of the loop had read the database

vars == <<now, cacheVars, scriptVars, index, revokedAt, notGoodAt>>

Init ==
  /\ now = 0 /\ revokedAt = None /\ notGoodAt = 0
  /\ CacheInit /\ ResponderInit

Respond(q) ==
  \/ Serve /\ Answered(q, proc)
  \/ /\ proc \notin View /\ Answered(q, "unreachable")
     /\ UNCHANGED <<index, scriptVars>>

Tick ==
  /\ now < MaxTime /\ InTime /\ Settled
  /\ now' = now + 1
  /\ UNCHANGED <<cacheVars, index, scriptVars>>

Next ==
  /\ \/ Tick
     \/ /\ Hit \/ \E q \in Query : Ask(q) \/ Return(q)
        /\ UNCHANGED <<now, index, scriptVars>>
     \/ \E q \in Query : Respond(q) /\ UNCHANGED now
     \/ ResponderNext /\ UNCHANGED <<now, cacheVars>>
  /\ revokedAt' = IF index' = "revoked" /\ (index # "revoked" \/ left') THEN now'
                  ELSE revokedAt
  /\ notGoodAt' = IF index' = "good" /\ proc' \in View /\ ~left' THEN notGoodAt ELSE now'

Spec == Init /\ [][Next]_vars

-----------------------------------------------------------------------------
(* A revoked certificate is let through for at most the time the watcher   *)
(* needs, a query under way and the lifetime of a cache entry, whatever    *)
(* the loop was doing when the database changed and whether or not any     *)
(* other request comes.  The time counts from the revocation, or from the  *)
(* end of a process that a stop left behind                                *)
(* (etsi014_kme_server.js:535-537, run_ocsp_responder.sh:35-36, 44).       *)
AcceptanceEnds ==
  (accepted # None /\ revokedAt # None)
    => accepted <= revokedAt + Poll + MaxDelay + Ttl

(* A responder that was down, was starting, or did not know a new          *)
(* certificate yet locks it out only briefly: no entry refuses it once the *)
(* watcher, the queries under way and the short lifetime have had their    *)
(* time (etsi014_kme_server.js:539-549).                                   *)
LockoutEnds ==
  (Fresh /\ ~Ok(cache.status) /\ index = "good" /\ proc \in View)
    => now < notGoodAt + Poll + MaxDelay + ShortTtl
=============================================================================
