------------------------------ MODULE CoreProofs ------------------------------
(***************************************************************************)
(* The safety of two parts of the core that run side by side, for every    *)
(* set of nodes and links and any number of bursts alive at once.          *)
(*                                                                         *)
(* NodeWatchdog: the three invariants carry one another; that services     *)
(* exclude each other and that endpoints are online both come from what    *)
(* callers ask before they start a service, and the lists of endpoints     *)
(* offer online nodes only.                                                *)
(* LinkCrisis: there is one outage controller, so the link that is down,   *)
(* the quarantine mark and an outage crisis are all read off the outage    *)
(* under way (OutageInv); the bursts need no more than that each takes its *)
(* own load away (CrisisInv, NoLoadLeftBehind).                            *)
(***************************************************************************)
EXTENDS NodeWatchdog, LinkCrisis, TLAPS

-----------------------------------------------------------------------------
(* 1. Services of nodes.                                                   *)

NodeInv == TypeOK /\ OneServiceAtATime /\ EndpointsOnline

LEMMA NodeInit == Init => NodeInv
  BY DEF Init, NodeInv, TypeOK, OneServiceAtATime, EndpointsOnline, Endpoint

(* An action that starts a service, or hands a node back, keeps NodeInv.      *)
LEMMA AnomalyStep ==
  ASSUME NodeInv, NEW n \in Node, Anomaly(n) PROVE NodeInv'
<1> USE DEF NodeInv, TypeOK, Anomaly, MayBlame, TriggerAnomaly, isBusy, isActive, Endpoint
<1>1. TypeOK'  OBVIOUS
<1>2. OneServiceAtATime'  BY DEF OneServiceAtATime
<1>3. EndpointsOnline'  BY DEF EndpointsOnline
<1> QED  BY <1>1, <1>2, <1>3

LEMMA DiagnosedStep ==
  ASSUME NodeInv, NEW n \in Node, Diagnosed(n) PROVE NodeInv'
<1> USE DEF NodeInv, TypeOK, Diagnosed, isActive, Endpoint
<1>1. TypeOK'  OBVIOUS
<1>2. OneServiceAtATime'  BY DEF OneServiceAtATime
<1>3. EndpointsOnline'  BY DEF EndpointsOnline
<1> QED  BY <1>1, <1>2, <1>3

LEMMA HealedStep ==
  ASSUME NodeInv, NEW n \in Node, Healed(n) PROVE NodeInv'
<1> USE DEF NodeInv, TypeOK, Healed, isActive, Endpoint
<1>1. TypeOK'  OBVIOUS
<1>2. OneServiceAtATime'  BY DEF OneServiceAtATime
<1>3. EndpointsOnline'  BY DEF EndpointsOnline
<1> QED  BY <1>1, <1>2, <1>3

LEMMA PredictiveTickStep ==
  ASSUME NodeInv, NEW n \in Node, NEW cpu, NEW mem, PredictiveTick(n, cpu, mem)
  PROVE  NodeInv'
<1> DEFINE starts == "CRITICAL" \in {cpu, mem} /\ n \notin triggered /\ MayBlame(n)
<1>1. /\ preventive' = IF starts THEN preventive \cup {n} ELSE preventive
      /\ on' = IF starts THEN on \ {n} ELSE on
      /\ triggered' \subseteq triggered \cup {n}
      /\ UNCHANGED <<active, src, dst>>
  BY DEF PredictiveTick
<1>2. starts => n \notin {src, dst} /\ active[n] = "no"
  BY DEF MayBlame, isBusy, isActive, Endpoint
<1> HIDE DEF starts
<1> USE DEF NodeInv, TypeOK, isActive, Endpoint
<1>3. TypeOK'  BY <1>1
<1>4. OneServiceAtATime'  BY <1>1, <1>2 DEF OneServiceAtATime
<1>5. EndpointsOnline'  BY <1>1, <1>2 DEF EndpointsOnline
<1> QED  BY <1>3, <1>4, <1>5

LEMMA PreventiveDoneStep ==
  ASSUME NodeInv, NEW n \in Node, PreventiveDone(n) PROVE NodeInv'
<1> USE DEF NodeInv, TypeOK, PreventiveDone, isActive, Endpoint
<1>1. TypeOK'  OBVIOUS
<1>2. OneServiceAtATime'  BY DEF OneServiceAtATime
<1>3. EndpointsOnline'  BY DEF EndpointsOnline
<1> QED  BY <1>1, <1>2, <1>3

LEMMA UserStep ==
  ASSUME NodeInv, NEW n \in Node,
         toggleNode(n) \/ SelectSource(n) \/ SelectDestination(n)
  PROVE  NodeInv'
<1> USE DEF NodeInv, TypeOK, toggleNode, SelectSource, SelectDestination, Offered,
            isActive, Endpoint
<1>1. TypeOK'  OBVIOUS
<1>2. OneServiceAtATime'  BY DEF OneServiceAtATime
<1>3. EndpointsOnline'  BY DEF EndpointsOnline
<1> QED  BY <1>1, <1>2, <1>3

LEMMA NodeStep == NodeInv /\ [Next]_nodeVars => NodeInv'
<1> SUFFICES ASSUME NodeInv, [Next]_nodeVars PROVE NodeInv'
  OBVIOUS
<1>1. CASE Next
  <2>1. PICK n \in Node :
          \/ Anomaly(n) \/ Diagnosed(n) \/ Healed(n) \/ PreventiveDone(n)
          \/ \E cpu, mem \in {"SAFE", "WATCH", "CRITICAL"} :
               PredictiveTick(n, cpu, mem)
          \/ toggleNode(n) \/ SelectSource(n) \/ SelectDestination(n)
    BY <1>1 DEF Next
  <2> QED
    BY <2>1, AnomalyStep, DiagnosedStep, HealedStep, PreventiveDoneStep,
       PredictiveTickStep, UserStep
<1>2. CASE UNCHANGED nodeVars
  BY <1>2 DEF nodeVars, NodeInv, TypeOK, OneServiceAtATime, EndpointsOnline, isActive, Endpoint
<1> QED  BY <1>1, <1>2

LEMMA NodeInductive == Spec => []NodeInv
  BY NodeInit, NodeStep, PTL DEF Spec

(* No node is ever under a reactive and a preventive service at once,      *)
(* although triggerAnomaly itself does not ask for the second.             *)
THEOREM ServicesExclude == Spec => []OneServiceAtATime
<1>1. NodeInv => OneServiceAtATime  BY DEF NodeInv
<1> QED  BY <1>1, NodeInductive, PTL

(* The selected endpoints are never switched off.                          *)
THEOREM EndpointsServe == Spec => []EndpointsOnline
<1>1. NodeInv => EndpointsOnline  BY DEF NodeInv
<1> QED  BY <1>1, NodeInductive, PTL

(* A node under service comes back only with the end of that service or by *)
(* the user's hand: the end of one service cannot end another's work.      *)
THEOREM ServiceHoldsNode == Spec => ServiceKeepsNodeOut
<1> DEFINE Step == \A n \in Node : isBusy(n) /\ n \notin on /\ n \in on'
                     => ~isBusy(n)' \/ toggleNode(n)
<1>1. NodeInv /\ [Next]_nodeVars => [Step]_nodeVars
  <2> SUFFICES ASSUME NodeInv, Next, NEW n \in Node,
                      isBusy(n), n \notin on, n \in on'
               PROVE  ~isBusy(n)' \/ toggleNode(n)
    BY DEF Step
  <2>1. PICK m \in Node :
          \/ Anomaly(m) \/ Diagnosed(m) \/ Healed(m) \/ PreventiveDone(m)
          \/ \E cpu, mem \in {"SAFE", "WATCH", "CRITICAL"} :
               PredictiveTick(m, cpu, mem)
          \/ toggleNode(m) \/ SelectSource(m) \/ SelectDestination(m)
    BY DEF Next
  <2>2. CASE Healed(m)
    <3>1. n = m  BY <2>2 DEF Healed
    <3>2. active'[n] = "no" /\ preventive' = preventive
      BY <2>2, <3>1 DEF Healed, NodeInv, TypeOK
    <3>3. n \notin preventive
      BY <2>2, <3>1 DEF Healed, NodeInv, OneServiceAtATime, isActive
    <3> QED  BY <3>2, <3>3 DEF isBusy, isActive
  <2>3. CASE PreventiveDone(m)
    <3>1. n = m  BY <2>3 DEF PreventiveDone
    <3>2. ~isActive(n) /\ active' = active
      BY <2>3, <3>1 DEF PreventiveDone, NodeInv, OneServiceAtATime
    <3> QED  BY <2>3, <3>1, <3>2 DEF PreventiveDone, isBusy, isActive
  <2>4. CASE toggleNode(m)
    <3>1. n = m  BY <2>4 DEF toggleNode
    <3> QED  BY <2>4, <3>1
  <2>5. on' \subseteq on \/ Healed(m) \/ PreventiveDone(m) \/ toggleNode(m)
    BY <2>1 DEF Anomaly, TriggerAnomaly, Diagnosed, PredictiveTick,
                SelectSource, SelectDestination
  <2> QED  BY <2>2, <2>3, <2>4, <2>5
<1>2. [][Step]_nodeVars => ServiceKeepsNodeOut
  BY DEF ServiceKeepsNodeOut
<1> HIDE DEF Step
<1> QED  BY <1>1, <1>2, NodeInductive, PTL DEF Spec

-----------------------------------------------------------------------------
(* 2. Outages and bursts of links.                                         *)

(* The records of the two controllers and of the crisis panel.             *)
RecordsOK ==
  /\ outage \in [key : Link, by : {"crisis", "watchdog"}] \cup {NoOutage}
  /\ crisis \in [key : Link, mode : {"outage", "congestion"}] \cup {NoCrisis}

(* What is down and marked belongs to the outage under way.                *)
OutageInv ==
  /\ linkDown = IF outage = NoOutage THEN {} ELSE {outage.key}
  /\ quarantined = IF outage.by = "watchdog" THEN {outage.key} ELSE {}

(* A crisis lasts as long as its outage or its burst, the only one made    *)
(* for a crisis.                                                           *)
CrisisInv ==
  /\ crisis.mode = "outage" => outage = [key |-> crisis.key, by |-> "crisis"]
  /\ outage.by = "crisis" => crisis = [key |-> outage.key, mode |-> "outage"]
  /\ crisis.mode = "congestion" => \E b \in bursts : b.by = "crisis" /\ b.key = crisis.key
  /\ \A b \in bursts : b.by = "crisis" =>
       /\ crisis = [key |-> b.key, mode |-> "congestion"]
       /\ \A c \in bursts : c.by = "crisis" => c = b

LinksInv == RecordsOK /\ OutageInv /\ CrisisInv /\ NoLoadLeftBehind

-----------------------------------------------------------------------------
LEMMA LinksInit == CrisisInit => LinksInv
BY DEF CrisisInit, LinksInv, RecordsOK, OutageInv, CrisisInv, NoLoadLeftBehind, NoOutage, NoCrisis, Stopped

(* The controllers.                                                        *)

LEMMA OutageEndsStep ==
  ASSUME LinksInv, OutageEnds PROVE LinksInv'
<1> USE DEF OutageEnds, burstVars
<1>1. RecordsOK'
  BY DEF LinksInv, RecordsOK
<1>2. OutageInv'
  BY DEF LinksInv, RecordsOK, OutageInv, NoOutage
<1>3. CrisisInv'
  BY DEF LinksInv, RecordsOK, CrisisInv, NoOutage, NoCrisis
<1>4. NoLoadLeftBehind'
  BY DEF LinksInv, NoLoadLeftBehind
<1> QED  BY <1>1, <1>2, <1>3, <1>4 DEF LinksInv

LEMMA FrameStep ==
  ASSUME LinksInv, NEW b \in bursts, BurstFrame(b) PROVE LinksInv'
<1> USE DEF BurstFrame, outageVars
<1>1. RecordsOK' /\ OutageInv' /\ CrisisInv'
  BY DEF LinksInv, RecordsOK, OutageInv, CrisisInv
<1>2. NoLoadLeftBehind'
  BY DEF LinksInv, NoLoadLeftBehind
<1> QED  BY <1>1, <1>2 DEF LinksInv

(* The burst that ends may be a cancelled one: whoever the generator ran   *)
(* for, it is free, and the loads of the other bursts still have owners.   *)
LEMMA BurstEndsStep ==
  ASSUME LinksInv, NEW b \in bursts, BurstEnds(b) PROVE LinksInv'
<1> USE DEF BurstEnds, outageVars
<1>1. RecordsOK'
  BY DEF LinksInv, RecordsOK
<1>2. OutageInv'
  BY DEF LinksInv, OutageInv
<1>3. CrisisInv'
  <2>1. CASE b.by = "crisis"
    BY <2>1 DEF LinksInv, RecordsOK, CrisisInv, NoCrisis, NoOutage
  <2>2. CASE b.by # "crisis"
    BY <2>2 DEF LinksInv, CrisisInv
  <2> QED  BY <2>1, <2>2
<1>4. NoLoadLeftBehind'
  BY DEF LinksInv, NoLoadLeftBehind, Freed, Stopped
<1> QED  BY <1>1, <1>2, <1>3, <1>4 DEF LinksInv

(* A new burst owns nothing yet but the generator.                         *)
LEMMA NewBurstOwned ==
  ASSUME NoLoadLeftBehind, NEW id, NEW k, NEW by,
         generator' = [running |-> TRUE, token |-> id],
         bursts' = bursts \cup {[id |-> id, key |-> k, by |-> by]}, loaded' = loaded
  PROVE  NoLoadLeftBehind'
<1> DEFINE new == [id |-> id, key |-> k, by |-> by]
<1>1. \A b \in bursts : b \in bursts'
  OBVIOUS
<1>2. \A j \in loaded' : \E b \in bursts' : b.key = j
  BY <1>1 DEF NoLoadLeftBehind
<1>3. new \in bursts' /\ new.id = generator'.token
  OBVIOUS
<1> HIDE DEF new
<1>4. \E b \in bursts' : b.id = generator'.token
  BY <1>3
<1> QED  BY <1>2, <1>4 DEF NoLoadLeftBehind

(* A new burst, not for a crisis.                                          *)
LEMMA GenerateStep ==
  ASSUME LinksInv, NEW k, NEW by, by # "crisis", GenerateBurst(k, by),
         UNCHANGED <<outageVars, crisis>>
  PROVE  LinksInv'
<1>1. PICK id : /\ generator' = [running |-> TRUE, token |-> id]
                /\ bursts' = bursts \cup {[id |-> id, key |-> k, by |-> by]}
                /\ loaded' = loaded
  BY DEF GenerateBurst
<1>2. RecordsOK' /\ OutageInv'
  BY DEF LinksInv, RecordsOK, OutageInv, outageVars
<1>3. CrisisInv'
  BY <1>1 DEF LinksInv, CrisisInv, outageVars
<1>4. NoLoadLeftBehind'
  BY <1>1, NewBurstOwned DEF LinksInv
<1> QED  BY <1>2, <1>3, <1>4 DEF LinksInv

LEMMA CancelStep ==
  ASSUME LinksInv, CancelBurst, UNCHANGED <<outageVars, crisis>> PROVE LinksInv'
<1> USE DEF CancelBurst, outageVars
<1>1. RecordsOK' /\ OutageInv'
  BY DEF LinksInv, RecordsOK, OutageInv
<1>2. CrisisInv'
  BY DEF LinksInv, CrisisInv
<1>3. NoLoadLeftBehind'
  BY DEF LinksInv, NoLoadLeftBehind, Stopped
<1> QED  BY <1>1, <1>2, <1>3 DEF LinksInv

-----------------------------------------------------------------------------
(* The panels.                                                             *)

LEMMA CrisisStep ==
  ASSUME LinksInv, NEW k \in Link, NEW mode \in {"outage", "congestion"}, injectCrisis(k, mode)
  PROVE  LinksInv'
<1>1. /\ crisis = NoCrisis /\ crisis' = [key |-> k, mode |-> mode]
      /\ \A b \in bursts : b.by # "crisis"
      /\ outage.by # "crisis"
      /\ quarantined' = quarantined
  BY DEF injectCrisis, LinksInv, CrisisInv, NoCrisis
<1>2. CASE mode = "outage"
  <2>1. /\ outage = NoOutage /\ outage' = [key |-> k, by |-> "crisis"]
        /\ linkDown' = linkDown \cup {k} /\ UNCHANGED burstVars
    BY <1>2 DEF injectCrisis, InjectOutage
  <2>2. RecordsOK'
    BY <1>1, <2>1 DEF RecordsOK
  <2>3. OutageInv'
    BY <1>1, <2>1 DEF LinksInv, OutageInv, NoOutage
  <2>4. CrisisInv'
    BY <1>1, <1>2, <2>1 DEF LinksInv, CrisisInv, burstVars
  <2>5. NoLoadLeftBehind'
    BY <2>1 DEF LinksInv, NoLoadLeftBehind, burstVars
  <2> QED  BY <2>2, <2>3, <2>4, <2>5 DEF LinksInv
<1>3. CASE mode = "congestion"
  <2>1. GenerateBurst(k, "crisis") /\ UNCHANGED <<outage, linkDown>>
    BY <1>3 DEF injectCrisis
  <2>2. PICK id : /\ generator' = [running |-> TRUE, token |-> id]
                  /\ bursts' = bursts \cup {[id |-> id, key |-> k, by |-> "crisis"]}
                  /\ loaded' = loaded
    BY <2>1 DEF GenerateBurst
  <2>3. RecordsOK' /\ OutageInv'
    BY <1>1, <2>1 DEF LinksInv, RecordsOK, OutageInv
  <2>4. CrisisInv'
    <3>1. crisis' = [key |-> k, mode |-> "congestion"] /\ outage'.by # "crisis"
      BY <1>1, <1>3, <2>1
    <3>2. \E b \in bursts' : b.by = "crisis" /\ b.key = crisis'.key
      <4> DEFINE new == [id |-> id, key |-> k, by |-> "crisis"]
      <4>1. new \in bursts' /\ new.by = "crisis" /\ new.key = crisis'.key
        BY <2>2, <3>1
      <4> HIDE DEF new
      <4> QED  BY <4>1
    <3>3. \A b \in bursts' : b.by = "crisis" => b = [id |-> id, key |-> k, by |-> "crisis"]
      BY <1>1, <2>2
    <3>4. \A b \in bursts' : b.by = "crisis" =>
            /\ crisis' = [key |-> b.key, mode |-> "congestion"]
            /\ \A c \in bursts' : c.by = "crisis" => c = b
      BY <3>1, <3>3
    <3>5. crisis'.mode # "outage"
      BY <3>1
    <3> QED  BY <3>1, <3>2, <3>4, <3>5 DEF CrisisInv
  <2>5. NoLoadLeftBehind'
    BY <2>2, NewBurstOwned DEF LinksInv
  <2> QED  BY <2>3, <2>4, <2>5 DEF LinksInv
<1> QED  BY <1>2, <1>3

LEMMA BlameStep ==
  ASSUME LinksInv, NEW k \in Link, BlameLink(k) PROVE LinksInv'
<1>1. /\ outage = NoOutage /\ outage' = [key |-> k, by |-> "watchdog"]
      /\ linkDown' = linkDown \cup {k} /\ quarantined' = quarantined \cup {k}
      /\ UNCHANGED <<crisis, burstVars>>
  BY DEF BlameLink, InjectOutage
<1>2. RecordsOK'
  BY <1>1 DEF LinksInv, RecordsOK
<1>3. OutageInv'
  BY <1>1 DEF LinksInv, OutageInv, NoOutage
<1>4. CrisisInv'
  BY <1>1 DEF LinksInv, CrisisInv, NoOutage, burstVars
<1>5. NoLoadLeftBehind'
  BY <1>1 DEF LinksInv, NoLoadLeftBehind, burstVars
<1> QED  BY <1>2, <1>3, <1>4, <1>5 DEF LinksInv

LEMMA LinksStep ==
  ASSUME LinksInv, [CrisisNext]_linkVars PROVE LinksInv'
<1>1. CASE OutageEnds
  BY <1>1, OutageEndsStep
<1>2. ASSUME NEW b \in bursts, BurstFrame(b) \/ BurstEnds(b) PROVE LinksInv'
  BY <1>2, FrameStep, BurstEndsStep
<1>3. ASSUME NEW k \in Link, NEW mode \in {"outage", "congestion"}, injectCrisis(k, mode)
      PROVE  LinksInv'
  BY <1>3, CrisisStep
<1>4. CASE cancelCrisis
  BY <1>4, CancelStep DEF cancelCrisis
<1>5. CASE triggerBurstTest
  BY <1>5, CancelStep, GenerateStep DEF triggerBurstTest
<1>6. CASE cancelLinkTrend
  BY <1>6, CancelStep DEF cancelLinkTrend
<1>7. ASSUME NEW k \in Link, injectLinkTrend(k) PROVE LinksInv'
  BY <1>7, GenerateStep DEF injectLinkTrend
<1>8. ASSUME NEW k \in Link, BlameLink(k) PROVE LinksInv'
  BY <1>8, BlameStep
<1>9. CASE UNCHANGED linkVars
  BY <1>9 DEF linkVars, LinksInv, RecordsOK, OutageInv, CrisisInv, NoLoadLeftBehind
<1> QED  BY <1>1, <1>2, <1>3, <1>4, <1>5, <1>6, <1>7, <1>8, <1>9 DEF CrisisNext

-----------------------------------------------------------------------------
(* Whatever is started and cancelled over one another, the outage under    *)
(* way explains every link that is down, and every crisis shown has its    *)
(* outage or burst.                                                        *)
THEOREM LinksInductive == CrisisSpec => []LinksInv
BY LinksInit, LinksStep, PTL DEF CrisisSpec

(* What the panels show is so: crises, quarantined links, links down.      *)
THEOREM PanelsTrue == CrisisSpec => []PanelsShowTheTruth
<1>1. LinksInv => PanelsShowTheTruth
  BY DEF LinksInv, RecordsOK, OutageInv, CrisisInv, PanelsShowTheTruth, NoOutage, NoCrisis
<1> QED  BY <1>1, LinksInductive, PTL

(* Every synthetic load has a living burst that will take it away, and     *)
(* the generator is never busy for a burst that is gone.                   *)
THEOREM LoadsOwned == CrisisSpec => []NoLoadLeftBehind
<1>1. LinksInv => NoLoadLeftBehind
  BY DEF LinksInv
<1> QED  BY <1>1, LinksInductive, PTL
=============================================================================
