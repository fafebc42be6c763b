------------------------------ MODULE LinkCrisis ------------------------------
(***************************************************************************)
(* Links that are made to fail: LinkOutageController and                   *)
(* BurstTrafficGenerator of bb84/photonnet_core.js, each one instance for  *)
(* the whole application, and the panels that call them.                   *)
(*                                                                         *)
(* An outage waits on one timer, which cancel() ends early.  A burst is a  *)
(* loop of animation frames: cancel() only lowers the flag, the loop       *)
(* notices at its next frame, and its finally block then clears the flag   *)
(* of whichever burst has started since.  A frame may call the loops in    *)
(* any order.  The shape of a burst and the amount of load are left out.   *)
(***************************************************************************)
EXTENDS Integers, FiniteSets

CONSTANTS
  Link,
  TestKey,       \* the load key of the burst test
  MaxBurst       \* bound on the bursts alive at once

ASSUME LinkCrisisAssumption == TestKey \notin Link /\ MaxBurst \in Nat \ {0}

VARIABLES
  outage,        \* the running outage: its link and who asked for it
  linkDown,
  quarantined,   \* activeLinkQuarantines
  crisis,        \* activeCrisis
  generator,     \* running and _cancelToken of the generator
  bursts,        \* the loops of generateBurst not yet finished
  loaded         \* keys of linkLoad under synthetic load

outageVars == <<outage, linkDown, quarantined>>
burstVars == <<generator, bursts, loaded>>
linkVars == <<outage, linkDown, quarantined, crisis, generator, bursts, loaded>>

NoOutage == [key |-> "none", by |-> "nobody"]
NoCrisis == [key |-> "none", mode |-> "none"]
Stopped == [running |-> FALSE, token |-> 0]

-----------------------------------------------------------------------------
(* LinkOutageController: injectOutage throws while one is running.         *)
InjectOutage(k, by) ==
  /\ outage = NoOutage
  /\ outage' = [key |-> k, by |-> by]
  /\ linkDown' = linkDown \cup {k}

(* Defect: the link is left out of the finally block.                      *)
OutageEndsDown ==
  /\ outage # NoOutage
  /\ outage' = NoOutage
  /\ quarantined' = quarantined \ {outage.key}
  /\ crisis' = IF outage.by = "crisis" THEN NoCrisis ELSE crisis
  /\ UNCHANGED <<linkDown, burstVars>>
(* Timer or cancel(), the finally block and what the caller does then.     *)
OutageEnds ==
  /\ outage # NoOutage
  /\ outage' = NoOutage /\ linkDown' = linkDown \ {outage.key}
  /\ quarantined' = IF outage.by = "watchdog"
                    THEN quarantined \ {outage.key} ELSE quarantined
  /\ crisis' = IF outage.by = "crisis" THEN NoCrisis ELSE crisis
  /\ UNCHANGED burstVars

-----------------------------------------------------------------------------
(* BurstTrafficGenerator.                                                  *)
GenerateBurst(k, by) ==
  LET free == (1..MaxBurst) \ {b.id : b \in bursts}
  IN /\ ~generator.running
     /\ \E id \in free :
          /\ generator' = [running |-> TRUE, token |-> id]
          /\ bursts' = bursts \cup {[id |-> id, key |-> k, by |-> by]}
     /\ UNCHANGED loaded

CancelBurst == generator' = Stopped /\ UNCHANGED <<bursts, loaded>>

Goes(b) == generator.running /\ generator.token = b.id

(* A frame of a burst that goes on.                                        *)
BurstFrame(b) ==
  /\ Goes(b)
  /\ loaded' = loaded \cup {b.key}
  /\ UNCHANGED <<outageVars, crisis, generator, bursts>>

(* The last frame: its time is up, or it finds itself cancelled.           *)
(* Defect: a cancelled burst leaves without clearing its load.             *)
FreedAtTheEnd(b) == IF Goes(b) THEN loaded \ {b.key} ELSE loaded
Freed(b) == loaded \ {b.key}

BurstEnds(b) ==
  /\ generator' = Stopped
  /\ bursts' = bursts \ {b}
  /\ loaded' = Freed(b)
  /\ crisis' = IF b.by = "crisis" THEN NoCrisis ELSE crisis
  /\ UNCHANGED outageVars

-----------------------------------------------------------------------------
(* The panels.                                                             *)
injectCrisis(k, mode) ==
  /\ crisis = NoCrisis
  /\ crisis' = [key |-> k, mode |-> mode]
  /\ UNCHANGED quarantined
  /\ IF mode = "outage" THEN InjectOutage(k, "crisis") /\ UNCHANGED burstVars
     ELSE GenerateBurst(k, "crisis") /\ UNCHANGED <<outage, linkDown>>

cancelCrisis ==
  /\ crisis # NoCrisis /\ crisis.mode = "congestion" /\ CancelBurst
  /\ UNCHANGED <<outageVars, crisis>>

triggerBurstTest ==
  /\ IF generator.running THEN CancelBurst ELSE GenerateBurst(TestKey, "test")
  /\ UNCHANGED <<outageVars, crisis>>

linkTrendBusy == \E b \in bursts : b.by = "trend"

TrendOffered == ~linkTrendBusy

injectLinkTrend(k) ==
  /\ TrendOffered /\ GenerateBurst(k, "trend")
  /\ UNCHANGED <<outageVars, crisis>>

cancelLinkTrend ==
  /\ linkTrendBusy /\ CancelBurst
  /\ UNCHANGED <<outageVars, crisis>>

(* The effect on the transmission log: the last three transmissions failed *)
(* on the segment k, whose link is then put out.  When it cannot be, a     *)
(* node is blamed instead: Anomaly of NodeWatchdog.                        *)
(* Defect: it does not ask whether another outage is running.              *)
BlameLinkUnasked(k) ==
  /\ k \notin linkDown
  /\ quarantined' = quarantined \cup {k}
  /\ IF outage = NoOutage THEN InjectOutage(k, "watchdog")
     ELSE UNCHANGED <<outage, linkDown>>
  /\ UNCHANGED <<crisis, burstVars>>
BlameLink(k) ==
  /\ k \notin linkDown /\ outage = NoOutage
  /\ quarantined' = quarantined \cup {k}
  /\ InjectOutage(k, "watchdog")
  /\ UNCHANGED <<crisis, burstVars>>

CrisisInit ==
  /\ outage = NoOutage /\ linkDown = {} /\ quarantined = {}
  /\ crisis = NoCrisis /\ generator = Stopped /\ bursts = {} /\ loaded = {}

CrisisNext ==
  \/ OutageEnds
  \/ \E b \in bursts : BurstFrame(b) \/ BurstEnds(b)
  \/ \E k \in Link, mode \in {"outage", "congestion"} : injectCrisis(k, mode)
  \/ cancelCrisis \/ triggerBurstTest \/ cancelLinkTrend
  \/ \E k \in Link : injectLinkTrend(k) \/ BlameLink(k)

CrisisSpec == CrisisInit /\ [][CrisisNext]_linkVars

(* Timers fire, frames come, and the time of a burst runs out.             *)
CrisisFairSpec ==
  /\ CrisisSpec /\ WF_linkVars(OutageEnds)
  /\ \A id \in 1..MaxBurst :
       WF_linkVars(\E b \in bursts : b.id = id /\ BurstEnds(b))

-----------------------------------------------------------------------------
(* What the panels show is so: a crisis has its outage or its burst, a     *)
(* quarantined link is down, and no link is down for any other reason      *)
(* (photonnet_core.js:5074, 10427, 12202: one controller, two callers).    *)
PanelsShowTheTruth ==
  /\ crisis # NoCrisis =>
       IF crisis.mode = "outage"
       THEN outage = [key |-> crisis.key, by |-> "crisis"]
       ELSE \E b \in bursts : b.by = "crisis" /\ b.key = crisis.key
  /\ \A k \in linkDown : \/ k \in quarantined
                         \/ crisis = [key |-> k, mode |-> "outage"]
  /\ quarantined \subseteq linkDown

(* However bursts are cancelled and started over one another, a synthetic  *)
(* load belongs to a burst that will still take it away, and the generator *)
(* is busy only on behalf of a living burst: nobody is locked out of it    *)
(* (photonnet_core.js:5010).                                               *)
NoLoadLeftBehind ==
  /\ \A k \in loaded : \E b \in bursts : b.key = k
  /\ generator.running => \E b \in bursts : b.id = generator.token

(* Links that are down come up and synthetic loads go, with no human hand  *)
(* (photonnet_core.js:5091, 5017) and whatever is started meanwhile.       *)
LinksRecover ==
  /\ \A k \in Link : k \in linkDown ~> k \notin linkDown
  /\ \A k \in Link \cup {TestKey} : k \in loaded ~> k \notin loaded
=============================================================================
