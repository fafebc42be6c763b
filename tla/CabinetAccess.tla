--------------------------- MODULE CabinetAccess ---------------------------
(***************************************************************************)
(* The coordinator, the plan of the network and the lock of one cabinet,   *)
(* as their callers wire them together: authorizeDoor issues grants, the   *)
(* technician presents them to the lock, the caller polls the lock's       *)
(* events and hands them to onLockEvent.                                   *)
(*                                                                         *)
(* Grants may reach the lock late, more than once or never, and events     *)
(* wait in the lock until somebody polls: nothing here is atomic across    *)
(* the two sides.                                                          *)
(***************************************************************************)
EXTENDS SmartLock, MaintenanceCoordinator

CONSTANTS
  MaxTime,        \* bound on the clock
  MaxSkew,        \* the lock's clock is off by at most this much
  Leads           \* how far ahead of its start a window is scheduled

ASSUME AccessAssumption ==
  MaxTime \in Nat /\ MaxSkew \in Nat /\ Leads \subseteq Nat

VARIABLES
  now,            \* the time of the coordinator, the plan and the grants
  skew,           \* faults.clockSkewMs
  overtaken       \* a poll has passed over a report of the door that is open

accessVars == <<lockVars, coordVars, now, skew, overtaken>>

LockClock == now + skew

\* authorizeDoor: the grant is valid from now on and vouches for the plan.
AuthorizeDoor(g) ==
  /\ planCheckedAt[g] = Never
  /\ DoorMayOpen(now)
  /\ planCheckedAt' = [planCheckedAt EXCEPT ![g] = now]
  /\ UNCHANGED <<bolt, door, until, spent, authorizedEntry, stuck, sensorDead,
                 pending, draws, coordVars, now, skew>>

\* The caller polls (eventsSince from the last number it saw) and hands every
\* event to onLockEvent in turn.  What it gets ends with the event number
\* last.  The HTTP adapter asks for all there is; callers of the in-process
\* one bound the time, and the events whose time is later are passed over:
\* their numbers will not be asked for again.  (A sensor event carries the
\* time at which the sensor will have settled, by the clock of the lock.)
Poll(last, passedOver) ==
  LET got == (1..last) \ passedOver IN
  /\ pending' = SubSeq(pending, last + 1, Len(pending))
  /\ LockEvents({pending[i] : i \in got})
  /\ overtaken' = (door = "OPEN" /\
                     (overtaken \/ \E i \in passedOver : pending[i] # Note))
  /\ UNCHANGED <<bolt, door, until, spent, authorizedEntry, stuck, sensorDead,
                 planCheckedAt, draws, now, skew>>

PollSome ==
  \E last \in 1..Len(pending) :
    \E passedOver \in SUBSET (1..(last - 1)) : Poll(last, passedOver)

\* The operator closes a job or an incident once the door is shut again, as
\* the comments at completeMaintenance and clearIncident say.
OperatorDone ==
  /\ door = "CLOSED"
  /\ CompleteMaintenance \/ ClearIncident
  /\ UNCHANGED <<lockVars, now, skew>>

Tick ==
  /\ now < MaxTime
  /\ now' = now + 1
  /\ UNCHANGED <<lockVars, coordVars, skew>>

Init ==
  /\ LockInit /\ CoordInit
  /\ now = 0 /\ skew \in -MaxSkew..MaxSkew /\ overtaken = FALSE

CallNext ==
  \/ LockNext(LockClock) /\ UNCHANGED <<coordVars, now, skew>>
  \/ /\ \/ AlertDrain \/ AlertAdvisory \/ Downgrade
        \/ \E lead \in Leads : Schedule(now + lead)
        \/ Replan(now)
     /\ UNCHANGED <<lockVars, now, skew>>
  \/ OperatorDone
  \/ \E g \in Grant : AuthorizeDoor(g)
  \/ Tick

Next ==
  \/ CallNext /\ overtaken' = (overtaken /\ door' = "OPEN")
  \/ PollSome

Spec == Init /\ [][Next]_accessVars

-----------------------------------------------------------------------------
(* Properties.                                                             *)

\* A grant draws the bolt once, although the lock forgets nonces and its
\* clock is off: what it forgets has expired for it.
SingleUse == \A g \in Grant : draws[g] <= 1

\* A door is opened on a drawn bolt only shortly after the coordinator saw
\* the plan free of the node: within the age a grant may have, twice the
\* tolerance of the clocks, and the unlock window.
OpenedSoonAfterCheck ==
  [][ door = "CLOSED" /\ door' = "OPEN" /\ authorizedEntry' =>
        \E g \in Grant :
          /\ draws[g] > 0
          /\ now - planCheckedAt[g] < MaxAge + 2 * Tolerance + UnlockWindow
    ]_accessVars

\* While a door stands open the plan does not use the node, or an event that
\* makes the coordinator take it out is waiting to be polled.  Two things can
\* keep it from the coordinator: a dead sensor, which reports nothing and of
\* which status tells, and a poll bounded in time that passed the report over
\* (cabinet_lock_hal.js:159; the unbounded poll of line 230 never does).
OpenDoorIsNoticed ==
  \/ sensorDead \/ overtaken
  \/ ~(door = "OPEN" /\ planUsesNode)
  \/ \E i \in 1..Len(pending) : Unauthorized(pending[i])
=============================================================================
