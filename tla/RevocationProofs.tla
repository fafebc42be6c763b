-------------------------- MODULE RevocationProofs --------------------------
(***************************************************************************)
(* How long a revoked certificate is let through, for all values of the    *)
(* constants.  The argument follows a revocation through the parts: the    *)
(* process that read the old database is gone one Poll later (StaleEnds),  *)
(* so no query that started later is told "good", one that was returns     *)
(* within MaxDelay, and what it leaves in the cache expires after Ttl      *)
(* (CacheInv).  That the watcher notices at all rests on the order of      *)
(* ages fingerprint, process, database (ScriptInv).                        *)
(***************************************************************************)
EXTENDS Revocation, TLAPS

(* The database at a was no younger than at b.                             *)
Older(a, b) == a = "unknown" \/ b = "revoked" \/ a = b

ScriptInv ==
  /\ ResponderTypeOK
  /\ fp # None => Older(fp, index)
  /\ proc \in View => Older(proc, index)
  /\ proc \in View /\ ~left => fp # None /\ Older(fp, proc)
  /\ loop = "start" \/ (proc = "starting" /\ ~left) => fp # None
  /\ left => proc # "none"
  /\ proc # "none" /\ ~left => loop \in {"pid", "wait"} /\ (pidKnown \/ loop = "pid")

Timing ==
  /\ now \in Nat /\ (loop # "down" => polledAt <= now /\ now <= polledAt + Poll)
  /\ revokedAt \in Nat \cup {None} /\ (revokedAt # None <=> index = "revoked")
  /\ revokedAt # None => revokedAt <= now
  /\ index = "revoked" /\ left => revokedAt = now

StaleEnds ==
  index = "revoked" /\ proc \in {"unknown", "good"} /\ ~left =>
    /\ \/ polledAt <= revokedAt
       \/ watch = "kill" /\ pidKnown /\ polledAt = now /\ now <= revokedAt + Poll
    /\ loop = "pid" => now = revokedAt

QueryInv(q) ==
  query[q] # None =>
    /\ query[q].at <= now /\ now <= query[q].at + MaxDelay
    /\ query[q].answer = "good" /\ revokedAt # None =>
         query[q].at <= revokedAt + Poll

CacheInv ==
  /\ CacheTypeOK
  /\ \A q \in Query : QueryInv(q)
  /\ cache # None /\ cache.status = "good" =>
       /\ cache.expiresAt <= now + Ttl
       /\ revokedAt # None => cache.expiresAt <= revokedAt + Poll + MaxDelay + Ttl
  /\ accepted # None => accepted <= now
  /\ accepted # None /\ revokedAt # None =>
       accepted <= revokedAt + Poll + MaxDelay + Ttl

IInv == ScriptInv /\ Timing /\ StaleEnds /\ CacheInv

-----------------------------------------------------------------------------
(* The two ways a step is recorded.                                        *)
Recorded ==
  revokedAt' = IF index' = "revoked" /\ (index # "revoked" \/ left') THEN now' ELSE revokedAt

LEMMA InitIInv == Init => IInv
<1> SUFFICES ASSUME Init PROVE IInv
  OBVIOUS
<1> USE ResponderAssumption, OcspAssumption DEF Init, ResponderInit, CacheInit
<1>1. ScriptInv  BY DEF ScriptInv, ResponderTypeOK, View
<1>2. Timing  BY DEF Timing
<1>3. StaleEnds  BY DEF StaleEnds
<1>4. CacheInv
  <2>1. CacheTypeOK  BY DEF CacheTypeOK
  <2>2. \A q \in Query : QueryInv(q)  BY DEF QueryInv
  <2> QED  BY <2>1, <2>2 DEF CacheInv
<1> QED  BY <1>1, <1>2, <1>3, <1>4 DEF IInv

-----------------------------------------------------------------------------
(* The script.                                                             *)

(* A process that read an older database differs from the fingerprint.     *)
LEMMA Seen == ScriptInv => StaleProcessIsSeen
  BY DEF ScriptInv, ResponderTypeOK, StaleProcessIsSeen, Older, View

LEMMA ScriptStep ==
  ASSUME ScriptInv, now \in Nat, ResponderNext PROVE ScriptInv'
<1> USE ResponderAssumption DEF ScriptInv, ResponderTypeOK, Older, View
<1>1. CASE Sign \/ Revoke  BY <1>1 DEF Sign, Revoke, scriptVars
<1>2. CASE WriteFp  BY <1>2 DEF WriteFp
<1>3. CASE StartProcess  BY <1>3 DEF StartProcess
<1>4. CASE WritePid  BY <1>4 DEF WritePid
<1>5. CASE ChildGone  BY <1>5 DEF ChildGone
<1>6. CASE Load  BY <1>6 DEF Load
<1>7. CASE Serve  BY <1>7 DEF Serve
<1>8. CASE Look  BY <1>8 DEF Look
<1>9. CASE Kill  BY <1>9 DEF Kill
<1>10. CASE Boot  BY <1>10 DEF Boot
<1>11. CASE cleanup  BY <1>11 DEF cleanup
<1> QED
  BY <1>1, <1>2, <1>3, <1>4, <1>5, <1>6, <1>7, <1>8, <1>9, <1>10, <1>11
  DEF ResponderNext

(* The clock stands still while the script is at work, and the time of a   *)
(* revocation is recorded.                                                 *)
LEMMA TimingStep ==
  ASSUME ScriptInv, Timing, now' = now, ResponderNext, Recorded PROVE Timing'
<1> USE ResponderAssumption DEF Timing, Recorded, ScriptInv, ResponderTypeOK, View
<1>1. CASE Sign \/ Revoke  BY <1>1 DEF Sign, Revoke, scriptVars
<1>2. CASE WriteFp  BY <1>2 DEF WriteFp
<1>3. CASE StartProcess  BY <1>3 DEF StartProcess
<1>4. CASE WritePid  BY <1>4 DEF WritePid
<1>5. CASE ChildGone  BY <1>5 DEF ChildGone
<1>6. CASE Load  BY <1>6 DEF Load
<1>7. CASE Serve  BY <1>7 DEF Serve
<1>8. CASE Look  BY <1>8 DEF Look
<1>9. CASE Kill  BY <1>9 DEF Kill
<1>10. CASE Boot  BY <1>10 DEF Boot
<1>11. CASE cleanup  BY <1>11 DEF cleanup
<1> QED
  BY <1>1, <1>2, <1>3, <1>4, <1>5, <1>6, <1>7, <1>8, <1>9, <1>10, <1>11
  DEF ResponderNext

(* The watcher's first look after a revocation kills a process that read   *)
(* the database before; it misses only one that was started in the very    *)
(* instant of the revocation, and gets it the next time.                   *)
LEMMA StaleStep ==
  ASSUME ScriptInv, Timing, StaleEnds, now' = now, ResponderNext, Recorded
  PROVE  StaleEnds'
<1> USE ResponderAssumption
    DEF StaleEnds, Timing, Recorded, ScriptInv, ResponderTypeOK, View
<1>1. CASE Sign  BY <1>1 DEF Sign, scriptVars
<1>2. CASE Revoke
  <2>1. revokedAt' = now /\ UNCHANGED scriptVars  BY <1>2 DEF Revoke
  <2>2. proc # "none" /\ ~left => polledAt <= now  BY <2>1
  <2> QED  BY <2>1, <2>2 DEF scriptVars
<1>3. CASE WriteFp  BY <1>3 DEF WriteFp
<1>4. CASE StartProcess  BY <1>4 DEF StartProcess
<1>5. CASE WritePid  BY <1>5 DEF WritePid
<1>6. CASE ChildGone  BY <1>6 DEF ChildGone
<1>7. CASE Load  BY <1>7 DEF Load
<1>8. CASE Serve  BY <1>8 DEF Serve
<1>9. CASE Look
  <2> SUFFICES ASSUME index = "revoked", proc \in {"unknown", "good"}, ~left
               PROVE  StaleEnds'
    BY <1>9 DEF Look
  <2>1. fp # index /\ fp # None  BY Seen DEF StaleProcessIsSeen
  <2>2. watch' = "kill" /\ polledAt' = now  BY <1>9, <2>1 DEF Look
  <2>3. polledAt <= revokedAt /\ now = polledAt + Poll  BY <1>9 DEF Look
  <2>4. now <= revokedAt + Poll  BY <2>3
  <2>5. pidKnown \/ now = revokedAt  OBVIOUS
  <2>6. UNCHANGED <<index, proc, loop, left, pidKnown, revokedAt>>  BY <1>9 DEF Look
  <2> QED  BY <2>2, <2>4, <2>5, <2>6
<1>10. CASE Kill  BY <1>10 DEF Kill
<1>11. CASE Boot  BY <1>11 DEF Boot
<1>12. CASE cleanup  BY <1>12 DEF cleanup
<1> QED
  BY <1>1, <1>2, <1>3, <1>4, <1>5, <1>6, <1>7, <1>8, <1>9, <1>10, <1>11, <1>12
  DEF ResponderNext

(* Time passes only when the script has nothing to do at once.             *)
LEMMA TickStep ==
  ASSUME ScriptInv, Timing, StaleEnds, Tick, Recorded
  PROVE  ScriptInv' /\ Timing' /\ StaleEnds'
<1> USE ResponderAssumption
    DEF Tick, Settled, Recorded, ScriptInv, ResponderTypeOK, View, scriptVars, Older
<1>1. ScriptInv'  OBVIOUS
<1>2. Timing'  BY DEF Timing
<1>3. StaleEnds'  BY DEF StaleEnds, Timing
<1> QED  BY <1>1, <1>2, <1>3

-----------------------------------------------------------------------------
(* The cache.                                                              *)

(* While an old answer can be had the revocation is at most Poll ago.      *)
LEMMA StaleWindow ==
  ASSUME ScriptInv, Timing, StaleEnds, revokedAt # None, proc = "good"
  PROVE  now <= revokedAt + Poll
  BY ResponderAssumption DEF ScriptInv, Timing, StaleEnds, ResponderTypeOK, View

LEMMA DecideStep ==
  ASSUME NEW status, Decide(status), accepted \in Nat \cup {None}, now \in Nat
  PROVE  /\ accepted' \in Nat \cup {None}
         /\ accepted' # accepted => accepted' = now /\ status = "good"
  BY DEF Decide, Ok

LEMMA HitStep ==
  ASSUME Timing, CacheInv, Hit, UNCHANGED <<now, revokedAt>> PROVE CacheInv'
<1> USE OcspAssumption, ResponderAssumption
<1>1. cache # None /\ cache.expiresAt > now /\ Decide(cache.status)
  BY DEF Hit, Fresh
<1>2. UNCHANGED <<cache, query>>  BY DEF Hit
<1>3. accepted \in Nat \cup {None} /\ cache.expiresAt \in Nat /\ now \in Nat
  BY <1>1 DEF CacheInv, CacheTypeOK, Timing
<1>4. /\ accepted' \in Nat \cup {None}
      /\ accepted' # accepted => accepted' = now /\ cache.status = "good"
  BY <1>1, <1>3, DecideStep
<1>5. CacheTypeOK'  BY <1>2, <1>4 DEF CacheInv, CacheTypeOK
<1>6. \A q \in Query : QueryInv(q)'  BY <1>2 DEF CacheInv, QueryInv
<1>7. accepted' # None => accepted' <= now'
  BY <1>3, <1>4 DEF CacheInv
<1>8. accepted' # None /\ revokedAt' # None =>
        accepted' <= revokedAt' + Poll + MaxDelay + Ttl
  BY <1>1, <1>3, <1>4 DEF CacheInv, Timing
<1> QED  BY <1>2, <1>5, <1>6, <1>7, <1>8 DEF CacheInv

LEMMA AskStep ==
  ASSUME Timing, CacheInv, NEW q \in Query, Ask(q), UNCHANGED <<now, revokedAt>>
  PROVE  CacheInv'
<1> USE OcspAssumption, ResponderAssumption
<1>1. query' = [query EXCEPT ![q] = [at |-> now, answer |-> None]]
  BY DEF Ask
<1>2. UNCHANGED <<cache, accepted>>  BY DEF Ask
<1>3. CacheTypeOK'  BY <1>1, <1>2 DEF CacheInv, CacheTypeOK, Timing
<1>4. ASSUME NEW p \in Query PROVE QueryInv(p)'
  <2>1. CASE p = q
    <3>1. query'[p] = [at |-> now, answer |-> None]
      BY <1>1, <2>1 DEF CacheInv, CacheTypeOK
    <3>2. None # "good"  BY DEF View
    <3> QED  BY <3>1, <3>2 DEF QueryInv, Timing
  <2>2. CASE p # q
    <3>1. query'[p] = query[p]  BY <1>1, <2>2 DEF CacheInv, CacheTypeOK
    <3> QED  BY <3>1 DEF CacheInv, QueryInv
  <2> QED  BY <2>1, <2>2
<1> QED  BY <1>2, <1>3, <1>4 DEF CacheInv

LEMMA AnsweredStep ==
  ASSUME ScriptInv, Timing, StaleEnds, CacheInv,
         NEW q \in Query, NEW status \in Status, Answered(q, status),
         status = "good" => proc = "good", UNCHANGED <<now, revokedAt>>
  PROVE  CacheInv'
<1> USE OcspAssumption, ResponderAssumption
<1>1. /\ query[q] # None /\ query' = [query EXCEPT ![q].answer = status]
      /\ UNCHANGED <<cache, accepted>>
  BY DEF Answered
<1>2. query[q] \in [at : Nat, answer : Status \cup {None}]
  BY <1>1 DEF CacheInv, CacheTypeOK
<1>3. query'[q] = [query[q] EXCEPT !.answer = status]
  BY <1>1 DEF CacheInv, CacheTypeOK
<1>4. CacheTypeOK'  BY <1>1, <1>2, <1>3 DEF CacheInv, CacheTypeOK
<1>5. ASSUME NEW p \in Query PROVE QueryInv(p)'
  <2>1. CASE p = q
    <3>1. query'[q].at = query[q].at /\ query'[q].answer = status
      BY <1>2, <1>3
    <3>2. query[q].at <= now /\ now <= query[q].at + MaxDelay
      BY <1>1 DEF CacheInv, QueryInv
    <3>3. status = "good" /\ revokedAt # None => now <= revokedAt + Poll
      BY StaleWindow
    <3>4. status = "good" /\ revokedAt # None => query[q].at <= revokedAt + Poll
      BY <1>2, <3>2, <3>3 DEF Timing
    <3> QED  BY <2>1, <3>1, <3>2, <3>4 DEF QueryInv
  <2>2. CASE p # q
    <3>1. query'[p] = query[p]  BY <1>1, <2>2 DEF CacheInv, CacheTypeOK
    <3> QED  BY <3>1 DEF CacheInv, QueryInv
  <2> QED  BY <2>1, <2>2
<1> QED  BY <1>1, <1>4, <1>5 DEF CacheInv

LEMMA ReturnStep ==
  ASSUME Timing, CacheInv, NEW q \in Query, Return(q), UNCHANGED <<now, revokedAt>>
  PROVE  CacheInv'
<1> USE OcspAssumption, ResponderAssumption
<1> DEFINE status == query[q].answer
<1>1. /\ query[q] # None /\ status # None /\ cache' = Entry(status)
      /\ Decide(status) /\ query' = [query EXCEPT ![q] = None]
  BY DEF Return
<1>2. query[q].at \in Nat /\ status \in Status /\ now \in Nat
      /\ revokedAt \in Nat \cup {None} /\ accepted \in Nat \cup {None}
  BY <1>1 DEF CacheInv, CacheTypeOK, Timing
<1>3. now <= query[q].at + MaxDelay
      /\ (status = "good" /\ revokedAt # None => query[q].at <= revokedAt + Poll)
  BY <1>1 DEF CacheInv, QueryInv
<1>4. status = "good" /\ revokedAt # None => now <= revokedAt + Poll + MaxDelay
  BY <1>2, <1>3
<1> HIDE DEF status
<1>5. cache' \in [status : Status, expiresAt : Nat] \cup {None}
  BY <1>1, <1>2 DEF Entry, TtlOf
<1>6. cache' # None => cache'.status = status
      /\ (status = "good" => cache'.expiresAt = now + Ttl)
  BY <1>1 DEF Entry, TtlOf
<1>7. /\ accepted' \in Nat \cup {None}
      /\ accepted' # accepted => accepted' = now /\ status = "good"
  BY <1>1, <1>2, DecideStep
<1>8. CacheTypeOK'  BY <1>1, <1>5, <1>7 DEF CacheInv, CacheTypeOK
<1>9. ASSUME NEW p \in Query PROVE QueryInv(p)'
  <2>1. query'[p] = None \/ query'[p] = query[p]
    BY <1>1 DEF CacheInv, CacheTypeOK
  <2> QED  BY <2>1 DEF CacheInv, QueryInv
<1>10. cache' # None /\ cache'.status = "good" =>
         /\ cache'.expiresAt <= now' + Ttl
         /\ revokedAt' # None =>
              cache'.expiresAt <= revokedAt' + Poll + MaxDelay + Ttl
  BY <1>2, <1>4, <1>6
<1>11. accepted' # None => accepted' <= now'
  BY <1>2, <1>7 DEF CacheInv
<1>12. accepted' # None /\ revokedAt' # None =>
         accepted' <= revokedAt' + Poll + MaxDelay + Ttl
  BY <1>2, <1>4, <1>7 DEF CacheInv
<1> QED  BY <1>8, <1>9, <1>10, <1>11, <1>12 DEF CacheInv

(* The rest of the system touches the cache only through the clock and the *)
(* recorded time of the revocation.                                        *)
LEMMA CacheWaits ==
  ASSUME ScriptInv, Timing, CacheInv, Recorded, UNCHANGED cacheVars,
         now' = now \/ Tick
  PROVE  CacheInv'
<1> USE OcspAssumption, ResponderAssumption
<1>1. UNCHANGED <<cache, query, accepted>>  BY DEF cacheVars
<1>2. /\ now \in Nat /\ now' \in Nat /\ now <= now'
      /\ revokedAt \in Nat \cup {None}
      /\ revokedAt' = revokedAt \/ revokedAt' = now'
  BY DEF Tick, Timing, Recorded
<1>3. CacheTypeOK'  BY <1>1 DEF CacheInv, CacheTypeOK
<1>4. /\ cache # None => cache.expiresAt \in Nat
      /\ accepted \in Nat \cup {None}
      /\ \A q \in Query : query[q] # None => query[q].at \in Nat
  BY DEF CacheInv, CacheTypeOK
<1>5. ASSUME NEW q \in Query PROVE QueryInv(q)'
  <2> SUFFICES ASSUME query[q] # None PROVE QueryInv(q)'
    BY <1>1 DEF QueryInv
  <2>1. query[q].at <= now /\ now <= query[q].at + MaxDelay
        /\ (query[q].answer = "good" /\ revokedAt # None =>
               query[q].at <= revokedAt + Poll)
    BY DEF CacheInv, QueryInv
  <2>2. now' <= query[q].at + MaxDelay
    BY <1>2, <1>4, <2>1 DEF Tick, InTime
  <2> QED  BY <1>1, <1>2, <1>4, <2>1, <2>2 DEF QueryInv
<1>6. cache # None /\ cache.status = "good" =>
        /\ cache.expiresAt <= now' + Ttl
        /\ revokedAt' # None =>
             cache.expiresAt <= revokedAt' + Poll + MaxDelay + Ttl
  BY <1>2, <1>4 DEF CacheInv
<1>7. accepted # None => accepted <= now'
  BY <1>2, <1>4 DEF CacheInv
<1>8. accepted # None /\ revokedAt' # None =>
        accepted <= revokedAt' + Poll + MaxDelay + Ttl
  BY <1>2, <1>4 DEF CacheInv
<1> QED  BY <1>1, <1>3, <1>5, <1>6, <1>7, <1>8 DEF CacheInv

-----------------------------------------------------------------------------
(* All together.                                                           *)

LEMMA NextIInv == IInv /\ [Next]_vars => IInv'
<1> SUFFICES ASSUME IInv, [Next]_vars PROVE IInv'
  OBVIOUS
<1> USE DEF IInv
<1>1. CASE UNCHANGED vars
  <2>1. UNCHANGED <<now, cache, query, accepted, fp, loop, proc, left, pidKnown, watch,
                    polledAt, index, revokedAt, notGoodAt>>
    BY <1>1 DEF vars, cacheVars, scriptVars
  <2>2. ScriptInv'  BY <2>1 DEF ScriptInv, ResponderTypeOK, Older
  <2>3. Timing' /\ StaleEnds'  BY <2>1 DEF Timing, StaleEnds
  <2>4. CacheInv'  BY <2>1 DEF CacheInv, CacheTypeOK, QueryInv
  <2> QED  BY <2>2, <2>3, <2>4
<1>2. CASE Next
  <2>1. Recorded  BY <1>2 DEF Next, Recorded
  <2>2. CASE Tick
    BY <2>1, <2>2, TickStep, CacheWaits DEF Tick
  <2>3. CASE /\ Hit \/ \E q \in Query : Ask(q) \/ Return(q)
             /\ UNCHANGED <<now, index, scriptVars>>
    <3>1. UNCHANGED <<now, index, revokedAt, fp, loop, proc, left, pidKnown, watch, polledAt>>
      BY <2>1, <2>3 DEF Recorded, scriptVars, Timing
    <3>2. ScriptInv'  BY <3>1 DEF ScriptInv, ResponderTypeOK, Older
    <3>3. Timing' /\ StaleEnds'  BY <3>1 DEF Timing, StaleEnds
    <3>4. CacheInv'  BY <2>3, <3>1, HitStep, AskStep, ReturnStep
    <3> QED  BY <3>2, <3>3, <3>4
  <2>4. ASSUME NEW q \in Query, Respond(q), now' = now PROVE IInv'
    <3>1. CASE Serve /\ Answered(q, proc)
      <4>1. UNCHANGED revokedAt /\ proc \in Status
        BY <2>1, <3>1 DEF Recorded, Serve, View, Status
      <4>2. PICK status \in Status : status = proc  BY <4>1
      <4>3. CacheInv'  BY <2>4, <3>1, <4>1, <4>2, AnsweredStep
      <4> QED
        BY <2>1, <2>4, <3>1, <4>3, ScriptStep, TimingStep, StaleStep
        DEF ResponderNext, Timing
    <3>2. CASE /\ proc \notin View /\ Answered(q, "unreachable")
               /\ UNCHANGED <<index, scriptVars>>
      <4>1. UNCHANGED <<now, index, revokedAt, fp, loop, proc, left, pidKnown, watch, polledAt>>
        BY <2>1, <2>4, <3>2 DEF Recorded, scriptVars, Timing
      <4>2. ScriptInv'  BY <4>1 DEF ScriptInv, ResponderTypeOK, Older
      <4>3. Timing' /\ StaleEnds'  BY <4>1 DEF Timing, StaleEnds
      <4>4. "unreachable" \in Status  BY DEF Status
      <4>5. CacheInv'  BY <3>2, <4>1, <4>4, AnsweredStep
      <4> QED  BY <4>2, <4>3, <4>5
    <3> QED  BY <2>4, <3>1, <3>2 DEF Respond
  <2>5. CASE ResponderNext /\ UNCHANGED <<now, cacheVars>>
    BY <2>1, <2>5, ScriptStep, TimingStep, StaleStep, CacheWaits DEF Timing
  <2> QED  BY <1>2, <2>2, <2>3, <2>4, <2>5 DEF Next
<1> QED  BY <1>1, <1>2

LEMMA Inductive == Spec => []IInv
  BY InitIInv, NextIInv, PTL DEF Spec

(* A process of the loop that has read an old database does not go unseen. *)
THEOREM StaleSeen == Spec => []StaleProcessIsSeen
<1>1. IInv => StaleProcessIsSeen  BY Seen DEF IInv
<1> QED  BY <1>1, Inductive, PTL

(* A revoked certificate is let through no longer than one interval of the *)
(* watcher, one query and one lifetime of a good entry after its           *)
(* revocation, or after the end of a process that a stop left behind,      *)
(* whatever these are.                                                     *)
THEOREM RevocationTakesEffect == Spec => []AcceptanceEnds
<1>1. IInv => AcceptanceEnds  BY DEF IInv, CacheInv, AcceptanceEnds
<1> QED  BY <1>1, Inductive, PTL

-----------------------------------------------------------------------------
(* The other direction: how long a good certificate stays locked out.      *)

Noted ==
  notGoodAt' = IF index' = "good" /\ proc' \in View /\ ~left' THEN notGoodAt ELSE now'

Absence ==
  /\ notGoodAt \in Nat /\ notGoodAt <= now /\ now <= MaxTime
  /\ index # "good" \/ proc \notin View \/ left => notGoodAt = now

LateEnds ==
  index = "good" /\ proc = "unknown" /\ ~left =>
    /\ \/ polledAt <= notGoodAt
       \/ watch = "kill" /\ pidKnown /\ polledAt = now /\ now <= notGoodAt + Poll
    /\ loop = "pid" => now = notGoodAt

Vague == {"unknown", "unreachable"}

LateQuery(q) ==
  query[q] # None =>
    /\ index # "revoked" => query[q].answer # "revoked"
    /\ index = "good" /\ query[q].answer \in Vague => query[q].at <= notGoodAt + Poll

LateCache ==
  /\ \A q \in Query : LateQuery(q)
  /\ cache # None /\ index # "revoked" => cache.status # "revoked"
  /\ cache # None /\ cache.status \in Vague =>
       /\ cache.expiresAt <= now + ShortTtl
       /\ index = "good" => cache.expiresAt <= notGoodAt + Poll + MaxDelay + ShortTtl

LInv == Absence /\ LateEnds /\ LateCache

LEMMA InitLInv == Init => LInv
<1> SUFFICES ASSUME Init PROVE LInv
  OBVIOUS
<1> USE OcspAssumption DEF Init, ResponderInit, CacheInit
<1>1. Absence /\ LateEnds  BY DEF Absence, LateEnds
<1>2. LateCache  BY DEF LateCache, LateQuery
<1> QED  BY <1>1, <1>2 DEF LInv

LEMMA AbsenceStep ==
  ASSUME Timing, Absence, Noted, now' = now \/ Tick PROVE Absence'
<1>1. now \in Nat /\ now' \in Nat /\ now <= now' /\ now' <= MaxTime
  BY OcspAssumption DEF Tick, Timing, Absence
<1> QED  BY <1>1 DEF Absence, Noted

(* The watcher's first look after the signing, as in StaleStep.            *)
LEMMA LateStep ==
  ASSUME ScriptInv, Timing, Absence, LateEnds, now' = now, ResponderNext, Noted
  PROVE  LateEnds'
<1> USE ResponderAssumption
    DEF LateEnds, Absence, Timing, Noted, ScriptInv, ResponderTypeOK, View
<1>1. CASE Sign  BY <1>1 DEF Sign, scriptVars
<1>2. CASE Revoke  BY <1>2 DEF Revoke, scriptVars
<1>3. CASE WriteFp  BY <1>3 DEF WriteFp
<1>4. CASE StartProcess  BY <1>4 DEF StartProcess
<1>5. CASE WritePid  BY <1>5 DEF WritePid
<1>6. CASE ChildGone  BY <1>6 DEF ChildGone
<1>7. CASE Load  BY <1>7 DEF Load
<1>8. CASE Serve  BY <1>8 DEF Serve
<1>9. CASE Look
  <2> SUFFICES ASSUME index = "good", proc = "unknown", ~left PROVE LateEnds'
    BY <1>9 DEF Look
  <2>1. fp # index /\ fp # None  BY Seen DEF StaleProcessIsSeen
  <2>2. watch' = "kill" /\ polledAt' = now  BY <1>9, <2>1 DEF Look
  <2>3. polledAt <= notGoodAt /\ now = polledAt + Poll  BY <1>9 DEF Look
  <2>4. now <= notGoodAt + Poll  BY <2>3
  <2>5. pidKnown \/ now = notGoodAt  OBVIOUS
  <2>6. UNCHANGED <<index, proc, loop, left, pidKnown, notGoodAt>>  BY <1>9 DEF Look
  <2> QED  BY <2>2, <2>4, <2>5, <2>6
<1>10. CASE Kill  BY <1>10 DEF Kill
<1>11. CASE Boot  BY <1>11 DEF Boot
<1>12. CASE cleanup  BY <1>12 DEF cleanup
<1> QED
  BY <1>1, <1>2, <1>3, <1>4, <1>5, <1>6, <1>7, <1>8, <1>9, <1>10, <1>11, <1>12
  DEF ResponderNext

LEMMA LateTick ==
  ASSUME ScriptInv, Timing, Absence, LateEnds, Tick, Noted PROVE LateEnds'
  BY ResponderAssumption
  DEF Tick, Settled, Noted, ScriptInv, ResponderTypeOK, View, scriptVars,
      Absence, Timing, LateEnds

(* While no good answer can be had the database or the process was not     *)
(* good at most Poll ago.                                                  *)
LEMMA LateWindow ==
  ASSUME ScriptInv, Timing, Absence, LateEnds, proc # "good", index = "good"
  PROVE  now <= notGoodAt + Poll
  BY ResponderAssumption
  DEF ScriptInv, Timing, Absence, LateEnds, ResponderTypeOK, View, Older

LEMMA LateAsk ==
  ASSUME CacheInv, LateCache, NEW q \in Query, Ask(q),
         UNCHANGED <<now, index, notGoodAt>>
  PROVE  LateCache'
<1>1. query' = [query EXCEPT ![q] = [at |-> now, answer |-> None]]
      /\ UNCHANGED <<cache, accepted>>
  BY DEF Ask
<1>2. ASSUME NEW p \in Query PROVE LateQuery(p)'
  <2>1. query'[p] = query[p] \/ query'[p] = [at |-> now, answer |-> None]
    BY <1>1 DEF CacheInv, CacheTypeOK
  <2>2. None \notin Vague \cup {"revoked"}
    BY OcspAssumption DEF Vague, Status
  <2> QED  BY <2>1, <2>2 DEF LateCache, LateQuery
<1> QED  BY <1>1, <1>2 DEF LateCache

LEMMA LateAnswered ==
  ASSUME ScriptInv, Timing, Absence, LateEnds, CacheInv, LateCache,
         NEW q \in Query, NEW status \in Status, Answered(q, status),
         status = "revoked" => proc = "revoked",
         proc = "good" => status = "good",
         UNCHANGED <<now, index>>, Noted
  PROVE  LateCache'
<1> USE OcspAssumption, ResponderAssumption
<1>1. /\ query[q] # None /\ query' = [query EXCEPT ![q].answer = status]
      /\ UNCHANGED <<cache, accepted>>
  BY DEF Answered
<1>2. query'[q] = [query[q] EXCEPT !.answer = status] /\ query[q].at \in Nat
      /\ query'[q].at = query[q].at /\ query'[q].answer = status
  BY <1>1 DEF CacheInv, CacheTypeOK
<1>3. now \in Nat /\ notGoodAt \in Nat /\ notGoodAt <= notGoodAt'
      /\ notGoodAt' \in Nat
  BY DEF Timing, Absence, Noted
<1>4. query[q].at <= now  BY <1>1 DEF CacheInv, QueryInv
<1>5. index # "revoked" => status # "revoked"
  BY DEF ScriptInv, ResponderTypeOK, Older, View
<1>6. index = "good" /\ status \in Vague => now <= notGoodAt + Poll
  <2> SUFFICES ASSUME index = "good", status \in Vague PROVE now <= notGoodAt + Poll
    OBVIOUS
  <2>1. proc # "good"  BY DEF Vague, View
  <2> QED  BY <2>1, LateWindow
<1>7. ASSUME NEW p \in Query PROVE LateQuery(p)'
  <2>1. CASE p = q
    <3>1. index = "good" /\ status \in Vague => query[q].at <= notGoodAt' + Poll
      BY <1>2, <1>3, <1>4, <1>6
    <3> QED  BY <2>1, <3>1, <1>2, <1>5 DEF LateQuery
  <2>2. CASE p # q
    <3>1. query'[p] = query[p] /\ (query[p] # None => query[p].at \in Nat)
      BY <1>1, <2>2 DEF CacheInv, CacheTypeOK
    <3> QED  BY <3>1, <1>3 DEF LateCache, LateQuery
  <2> QED  BY <2>1, <2>2
<1>8. cache # None => cache.expiresAt \in Nat  BY DEF CacheInv, CacheTypeOK
<1> QED  BY <1>1, <1>3, <1>7, <1>8 DEF LateCache

LEMMA LateReturn ==
  ASSUME Timing, Absence, CacheInv, LateCache, NEW q \in Query, Return(q),
         UNCHANGED <<now, index, notGoodAt>>
  PROVE  LateCache'
<1> USE OcspAssumption, ResponderAssumption
<1> DEFINE status == query[q].answer
<1>1. /\ query[q] # None /\ cache' = Entry(status)
      /\ query' = [query EXCEPT ![q] = None]
  BY DEF Return
<1>2. query[q].at \in Nat /\ now \in Nat /\ notGoodAt \in Nat
  BY <1>1 DEF CacheInv, CacheTypeOK, Timing, Absence
<1>3. /\ now <= query[q].at + MaxDelay
      /\ index # "revoked" => status # "revoked"
      /\ index = "good" /\ status \in Vague => query[q].at <= notGoodAt + Poll
  BY <1>1 DEF CacheInv, QueryInv, LateCache, LateQuery
<1>4. index = "good" /\ status \in Vague => now <= notGoodAt + Poll + MaxDelay
  BY <1>2, <1>3
<1> HIDE DEF status
<1>5. cache' # None => cache'.status = status
      /\ (status \in Vague => cache'.expiresAt = now + ShortTtl)
  BY <1>1 DEF Entry, TtlOf, Vague
<1>6. ASSUME NEW p \in Query PROVE LateQuery(p)'
  <2>1. query'[p] = None \/ query'[p] = query[p]
    BY <1>1 DEF CacheInv, CacheTypeOK
  <2> QED  BY <2>1 DEF LateCache, LateQuery
<1>7. cache' # None /\ index' # "revoked" => cache'.status # "revoked"
  BY <1>3, <1>5
<1>8. cache' # None /\ cache'.status \in Vague =>
        /\ cache'.expiresAt <= now' + ShortTtl
        /\ index' = "good" =>
             cache'.expiresAt <= notGoodAt' + Poll + MaxDelay + ShortTtl
  BY <1>2, <1>4, <1>5
<1> QED  BY <1>6, <1>7, <1>8 DEF LateCache

LEMMA LateWaits ==
  ASSUME Timing, Absence, CacheInv, LateCache, UNCHANGED <<cache, query>>,
         Noted, now' = now \/ Tick,
         index' = index \/ Sign \/ Revoke
  PROVE  LateCache'
<1> USE OcspAssumption, ResponderAssumption
<1>1. /\ now \in Nat /\ now' \in Nat /\ now <= now'
      /\ notGoodAt \in Nat /\ notGoodAt' \in Nat /\ notGoodAt <= notGoodAt'
      /\ index \notin {"good", "revoked"} => now <= notGoodAt'
  BY DEF Tick, Timing, Absence, Noted
<1>2. /\ index' # "revoked" => index # "revoked"
      /\ index' = "good" => index = "good" \/ index = "unknown"
  BY DEF Sign, Revoke
<1>3. /\ cache # None => cache.expiresAt \in Nat
      /\ \A q \in Query : query[q] # None => query[q].at \in Nat /\ query[q].at <= now
  BY DEF CacheInv, CacheTypeOK, QueryInv
<1>4. ASSUME NEW q \in Query PROVE LateQuery(q)'
  BY <1>1, <1>2, <1>3 DEF LateCache, LateQuery
<1>5. cache # None /\ cache.status \in Vague =>
        /\ cache.expiresAt <= now' + ShortTtl
        /\ index' = "good" =>
             cache.expiresAt <= notGoodAt' + Poll + MaxDelay + ShortTtl
  BY <1>1, <1>2, <1>3 DEF LateCache
<1> QED  BY <1>2, <1>4, <1>5 DEF LateCache

LEMMA NextLInv == IInv /\ LInv /\ [Next]_vars => LInv'
<1> SUFFICES ASSUME IInv, LInv, [Next]_vars PROVE LInv'
  OBVIOUS
<1> USE DEF IInv, LInv
<1>1. CASE UNCHANGED vars
  <2>1. UNCHANGED <<now, cache, query, proc, loop, left, pidKnown, watch, polledAt,
                    index, notGoodAt>>
    BY <1>1 DEF vars, cacheVars, scriptVars
  <2> QED  BY <2>1 DEF Absence, LateEnds, LateCache, LateQuery
<1>2. CASE Next
  <2>1. Noted  BY <1>2 DEF Next, Noted
  <2>2. CASE Tick
    BY <2>1, <2>2, AbsenceStep, LateTick, LateWaits DEF Tick, cacheVars
  <2>3. CASE /\ Hit \/ \E q \in Query : Ask(q) \/ Return(q)
             /\ UNCHANGED <<now, index, scriptVars>>
    <3>1. UNCHANGED <<now, index, notGoodAt, loop, proc, left, pidKnown, watch, polledAt>>
      BY <2>1, <2>3 DEF Noted, scriptVars, Absence
    <3>2. Absence' /\ LateEnds'  BY <3>1 DEF Absence, LateEnds
    <3>3. CASE Hit
      <4>1. UNCHANGED <<cache, query>>  BY <3>3 DEF Hit
      <4> QED  BY <3>1, <3>2, <4>1 DEF LateCache, LateQuery
    <3> QED  BY <2>3, <3>1, <3>2, <3>3, LateAsk, LateReturn
  <2>4. ASSUME NEW q \in Query, Respond(q), now' = now PROVE LInv'
    <3>1. Absence'  BY <2>1, <2>4, AbsenceStep
    <3>2. CASE Serve /\ Answered(q, proc)
      <4>1. proc \in Status /\ UNCHANGED index /\ ResponderNext
        BY <3>2 DEF Serve, View, Status, ResponderNext
      <4>2. PICK status \in Status : status = proc  BY <4>1
      <4>3. Answered(q, status) /\ UNCHANGED <<now, index>>
        BY <2>4, <3>2, <4>1, <4>2
      <4>4. LateCache'  BY <2>1, <4>2, <4>3, LateAnswered
      <4>5. LateEnds'  BY <2>1, <2>4, <4>1, LateStep
      <4> QED  BY <3>1, <4>4, <4>5
    <3>3. CASE /\ proc \notin View /\ Answered(q, "unreachable")
               /\ UNCHANGED <<index, scriptVars>>
      <4>1. "unreachable" \in Status  BY DEF Status
      <4>2. UNCHANGED <<index, loop, proc, left, pidKnown, watch, polledAt>>
        BY <3>3 DEF scriptVars
      <4>3. LateEnds'  BY <3>3, <4>2 DEF LateEnds, View
      <4>4. proc # "good"  BY <3>3 DEF View
      <4>5. LateCache'  BY <2>1, <2>4, <3>3, <4>1, <4>4, LateAnswered
      <4> QED  BY <3>1, <4>3, <4>5
    <3> QED  BY <2>4, <3>2, <3>3 DEF Respond
  <2>5. CASE ResponderNext /\ UNCHANGED <<now, cacheVars>>
    <3>1. index' = index \/ Sign \/ Revoke
      BY <2>5 DEF ResponderNext, WriteFp, StartProcess, WritePid, ChildGone,
                  Load, Serve, Look, Kill, Boot, cleanup
    <3> QED
      BY <2>1, <2>5, <3>1, AbsenceStep, LateStep, LateWaits DEF cacheVars
  <2> QED  BY <1>2, <2>2, <2>3, <2>4, <2>5 DEF Next
<1> QED  BY <1>1, <1>2

LEMMA InductiveL == Spec => [](IInv /\ LInv)
<1>1. Init => LInv  BY InitLInv
<1> QED  BY <1>1, NextLInv, Inductive, PTL DEF Spec

(* A good certificate is refused from the cache only shortly after its     *)
(* signing or after the responder's last absence.                          *)
THEOREM LockoutIsBrief == Spec => []LockoutEnds
<1>1. IInv /\ LInv => LockoutEnds
  <2> SUFFICES ASSUME IInv, LInv, Fresh, ~Ok(cache.status), index = "good"
               PROVE  now < notGoodAt + Poll + MaxDelay + ShortTtl
    BY DEF LockoutEnds
  <2>1. cache # None /\ cache.expiresAt > now /\ cache.status # "good"
    BY DEF Fresh, Ok
  <2>2. cache.status \in Status /\ cache.expiresAt \in Nat
    BY <2>1 DEF IInv, CacheInv, CacheTypeOK
  <2>3. cache.status \in Vague
    BY <2>1, <2>2 DEF LInv, LateCache, Vague, Status
  <2>4. cache.expiresAt <= notGoodAt + Poll + MaxDelay + ShortTtl
    BY <2>1, <2>3 DEF LInv, LateCache
  <2> QED
    BY <2>1, <2>2, <2>4, OcspAssumption, ResponderAssumption
    DEF IInv, Timing, LInv, Absence
<1> QED  BY <1>1, InductiveL, PTL

=============================================================================
