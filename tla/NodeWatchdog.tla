----------------------------- MODULE NodeWatchdog -----------------------------
(***************************************************************************)
(* The nodes of the network and who switches them: NodeWatchdog of         *)
(* bb84/photonnet_core.js with its callers in the application (vitals      *)
(* tick, predictive tick, watchdog panel, failure log) and the user, who   *)
(* toggles nodes and selects source and destination.                       *)
(*                                                                         *)
(* A service is an async function: it awaits a diagnosis (500 ms) and a    *)
(* repair (a timer, or forceHealNow, which only a repair hears); each wait *)
(* is a step of its own.  The failure log of the application blames a node *)
(* when no link can be blamed (LinkCrisis): an Anomaly here.  CPU, memory  *)
(* and loads appear only as the risk levels the predictive tick reads; the *)
(* drill-down view is left out.                                            *)
(***************************************************************************)
EXTENDS Integers, FiniteSets

CONSTANTS Node

VARIABLES
  on,            \* nodes with .on = true
  active,        \* _active: "no", "diagnosing" or "healing"
  preventive,    \* _preventive
  src, dst,      \* the selected endpoints
  triggered      \* preventiveTriggeredRef

nodeVars == <<on, active, preventive, src, dst, triggered>>

isActive(n) == active[n] # "no"
isBusy(n) == isActive(n) \/ n \in preventive
Endpoint == {src, dst}

(* A shared link may preset either endpoint, to the same node even.        *)
Init ==
  /\ on = Node /\ active = [n \in Node |-> "no"] /\ preventive = {}
  /\ src \in Node /\ dst \in Node /\ triggered = {}

-----------------------------------------------------------------------------
(* Reactive service.                                                       *)

(* triggerAnomaly up to its first await.  Of services it asks only         *)
(* whether a reactive one runs: isBusy is the callers' to ask.             *)
TriggerAnomaly(n) ==
  /\ ~isActive(n)
  /\ active' = [active EXCEPT ![n] = "diagnosing"]
  /\ on' = on \ {n}
  /\ UNCHANGED <<preventive, src, dst, triggered>>

(* Defect: the caller only asks for a reactive service.                    *)
MayBlameActiveOnly(n) == n \notin Endpoint /\ ~isActive(n)
MayBlame(n) == n \notin Endpoint /\ ~isBusy(n)

(* The vitals tick picks an online node; the panel any node.  (The panel   *)
(* and the tick differ in ~on only, which the service sets anyway.)  The   *)
(* failure log spares the endpoints of the transmission that failed: they  *)
(* are the selected ones, whose lists are locked while it runs.            *)
Anomaly(n) == MayBlame(n) /\ TriggerAnomaly(n)

Diagnosed(n) ==
  /\ active[n] = "diagnosing"
  /\ active' = [active EXCEPT ![n] = "healing"]
  /\ UNCHANGED <<on, preventive, src, dst, triggered>>

(* Defect: the node is put back before the repair.                         *)
HealedOffline(n) ==
  /\ active[n] = "healing"
  /\ active' = [active EXCEPT ![n] = "no"]
  /\ UNCHANGED <<on, preventive, src, dst, triggered>>
Healed(n) ==
  /\ active[n] = "healing"
  /\ active' = [active EXCEPT ![n] = "no"]
  /\ on' = on \cup {n}
  /\ UNCHANGED <<preventive, src, dst, triggered>>

-----------------------------------------------------------------------------
(* Preventive service.                                                     *)

(* One pass of predictive-telemetry-tick over the two metrics of n, in     *)
(* order of falling risk: a CRITICAL one may start the service and marks   *)
(* the node, a SAFE one takes the mark away.                               *)
PredictiveTick(n, cpu, mem) ==
  LET starts == "CRITICAL" \in {cpu, mem} /\ n \notin triggered /\ MayBlame(n)
      marked == IF starts THEN triggered \cup {n} ELSE triggered
  IN /\ preventive' = IF starts THEN preventive \cup {n} ELSE preventive
     /\ on' = IF starts THEN on \ {n} ELSE on
     /\ triggered' = IF "SAFE" \in {cpu, mem} THEN marked \ {n} ELSE marked
     /\ UNCHANGED <<active, src, dst>>

PreventiveDone(n) ==
  /\ n \in preventive
  /\ preventive' = preventive \ {n}
  /\ on' = on \cup {n}
  /\ UNCHANGED <<active, src, dst, triggered>>

-----------------------------------------------------------------------------
(* The user.                                                               *)

toggleNode(n) ==
  /\ n \notin Endpoint
  /\ on' = IF n \in on THEN on \ {n} ELSE on \cup {n}
  /\ UNCHANGED <<active, preventive, src, dst, triggered>>

(* The lists of sources and destinations offer the online nodes.           *)
(* Defect: they offer every node.                                          *)
OfferedAll == Node
Offered == on

(* A list leaves out the other endpoint; its own is already chosen.        *)
SelectSource(n) ==
  /\ n \in Offered \ Endpoint /\ src' = n
  /\ UNCHANGED <<on, active, preventive, dst, triggered>>

SelectDestination(n) ==
  /\ n \in Offered \ Endpoint /\ dst' = n
  /\ UNCHANGED <<on, active, preventive, src, triggered>>

Next ==
  \E n \in Node :
    \/ Anomaly(n) \/ Diagnosed(n) \/ Healed(n) \/ PreventiveDone(n)
    \/ \E cpu, mem \in {"SAFE", "WATCH", "CRITICAL"} :
         PredictiveTick(n, cpu, mem)
    \/ toggleNode(n) \/ SelectSource(n) \/ SelectDestination(n)

Spec == Init /\ [][Next]_nodeVars

(* Timers fire: the event loop serves every wait.                          *)
FairSpec ==
  /\ Spec
  /\ \A n \in Node : /\ WF_nodeVars(Diagnosed(n)) /\ WF_nodeVars(Healed(n))
                      /\ WF_nodeVars(PreventiveDone(n))

-----------------------------------------------------------------------------
TypeOK ==
  /\ on \subseteq Node /\ preventive \subseteq Node
  /\ active \in [Node -> {"no", "diagnosing", "healing"}]
  /\ src \in Node /\ dst \in Node
  /\ triggered \subseteq Node

(* A node is never under two services, whose ends would each put it back   *)
(* into the network while the other still works on it (photonnet_core.js:  *)
(* 5147 does not look at _preventive, all four callers do).                *)
OneServiceAtATime == \A n \in preventive : ~isActive(n)

(* Source and destination stay in the network, whoever switches nodes off  *)
(* and in whatever order endpoints are selected meanwhile                  *)
(* (photonnet_core.js:12247, 10371, 10535, 12509, 12726).                  *)
EndpointsOnline == Endpoint \subseteq on

(* A node out for service comes back only with the end of that service or  *)
(* by the user's hand (photonnet_core.js:5200, 5253, 12511).               *)
ServiceKeepsNodeOut ==
  [][\A n \in Node : isBusy(n) /\ n \notin on /\ n \in on'
       => ~isBusy(n)' \/ toggleNode(n)]_nodeVars

(* No human is needed: a node under service returns to the network         *)
(* (photonnet_core.js:5200, 5253), whoever else switches it meanwhile.     *)
ServicedNodeReturns ==
  \A n \in Node : isBusy(n) ~> (~isBusy(n) /\ n \in on)
=============================================================================
