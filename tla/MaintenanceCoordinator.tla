----------------------- MODULE MaintenanceCoordinator -----------------------
(***************************************************************************)
(* The coordinator between predicted maintenance and the traffic of the    *)
(* key network, class MaintenanceTrafficCoordinator of                     *)
(* bb84/maintenance_traffic_coordinator.js, for one node: the entries of   *)
(* different nodes never touch each other.                                 *)
(*                                                                         *)
(* planUsesNode stands for the plan in force in ShieldedQkdNetwork: does a *)
(* flow cross or end at the node?  Every call carries the time (h).        *)
(***************************************************************************)
EXTENDS Integers

CONSTANTS
  PreDrain,       \* preDrainHours
  NoWindow        \* no maintenance window

ASSUME CoordinatorAssumption == PreDrain \in Nat /\ NoWindow \notin Int

VARIABLES
  mode,           \* the node's mode: "NORMAL", "PLANNED", "DRAIN", "INCIDENT"
                  \* or "MAINTENANCE"
  window,         \* start of its maintenance window
  planUsesNode    \* the plan in force sends traffic through the node

coordVars == <<mode, window, planUsesNode>>

\* The modes in which hints takes the node out of the network.
OutOfNetwork == {"MAINTENANCE", "INCIDENT"}

-----------------------------------------------------------------------------
(* ingestEvent.                                                            *)

\* ALERT of a drain level, or a sudden loss of shielding.
AlertDrain ==
  /\ mode \notin OutOfNetwork
  /\ mode' = "DRAIN"
  /\ UNCHANGED <<window, planUsesNode>>

AlertAdvisory ==
  /\ mode = "NORMAL"
  /\ mode' = "PLANNED"
  /\ UNCHANGED <<window, planUsesNode>>

\* The alert level falls; a scheduled window keeps the node draining.
Downgrade ==
  /\ mode = "DRAIN" /\ window = NoWindow
  /\ mode' \in {"PLANNED", "NORMAL"}
  /\ UNCHANGED <<window, planUsesNode>>

-----------------------------------------------------------------------------
(* Windows.                                                                *)

\* scheduleMaintenance: the last order wins, whatever the mode.
Schedule(start) ==
  /\ window' = start
  /\ UNCHANGED <<mode, planUsesNode>>

\* What tick makes of the mode at time h.
TickedMode(h) ==
  IF window # NoWindow /\ h >= window /\ mode # "INCIDENT" THEN "MAINTENANCE"
  ELSE IF window # NoWindow /\ h >= window - PreDrain /\ mode \in {"NORMAL", "PLANNED"}
       THEN "DRAIN" ELSE mode

\* One step of the caller: hints (with its tick), then the network plans the
\* next interval.  A node out of the network is in no plan; any other may be.
Replan(h) ==
  /\ mode' = TickedMode(h)
  /\ planUsesNode' \in (IF mode' \in OutOfNetwork THEN {FALSE} ELSE BOOLEAN)
  /\ UNCHANGED window

\* completeMaintenance, from any mode.
CompleteMaintenance ==
  /\ window' = NoWindow
  /\ mode' = "NORMAL"
  /\ UNCHANGED planUsesNode

-----------------------------------------------------------------------------
(* The door.                                                               *)

DoorMayOpen(h) ==
  /\ mode = "MAINTENANCE"
  /\ window # NoWindow /\ h >= window
  /\ ~planUsesNode

\* Defect: an opening with the bolt drawn is always taken for a technician's.
UnauthorizedByType(type) == type \in {"TAMPER", "OVERRIDE"}

\* onLockEvent calls the event an unauthorized opening.
Unauthorized(type) ==
  \/ type \in {"TAMPER", "OVERRIDE"}
  \/ type = "DOOR_OPENED" /\ mode # "MAINTENANCE"

\* onLockEvent for the events of one poll.  An incident makes the caller
\* plan again at once (replanNow).
LockEvents(types) ==
  IF \E type \in types : Unauthorized(type)
  THEN /\ mode' = "INCIDENT" /\ planUsesNode' = FALSE
       /\ UNCHANGED window
  ELSE UNCHANGED coordVars

\* clearIncident: a scheduled window takes over, even a future one.
ClearIncident ==
  /\ mode = "INCIDENT"
  /\ mode' = (IF window # NoWindow THEN "MAINTENANCE" ELSE "NORMAL")
  /\ UNCHANGED <<window, planUsesNode>>

CoordInit ==
  /\ mode = "NORMAL" /\ window = NoWindow
  /\ planUsesNode \in BOOLEAN
=============================================================================
