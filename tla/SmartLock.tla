----------------------------- MODULE SmartLock -----------------------------
(***************************************************************************)
(* The lock of a cabinet, class SimulatedSmartLock of                      *)
(* bb84/cabinet_lock_hal.js: what the device checks before it draws the    *)
(* bolt, when it bolts again by itself, and what its door sensor reports.  *)
(*                                                                         *)
(* The device has no timer: whatever depends on time is settled by tick,   *)
(* at the start of a call.  Its clock is handed to it (the parameter t of  *)
(* every action), and may differ from that of the authority.               *)
(***************************************************************************)
EXTENDS Integers, Sequences

CONSTANTS
  Grant,          \* unlock grants, by their nonce
  Ttl,            \* expMs - nbfMs of a grant (120 s in authorizeDoor)
  UnlockWindow,   \* unlockWindowMs
  Tolerance,      \* clockSkewToleranceMs
  MaxAge,         \* maxAttestationAgeMs
  Never,          \* no time
  MaxPending      \* bound on the events nobody has fetched

ASSUME LockAssumption ==
  /\ Ttl \in Nat /\ UnlockWindow \in Nat /\ Tolerance \in Nat
  /\ MaxAge \in Nat /\ MaxPending \in Nat
  /\ Never \notin Int

VARIABLES
  bolt,           \* the code's state: "LOCKED" or "UNLOCKED"
  door,           \* "CLOSED" or "OPEN", as it is, not as reported
  until,          \* unlockedUntilMs
  spent,          \* seenNonces: the grants the lock remembers as used
  authorizedEntry,\* the door was last opened with the bolt drawn
  stuck,          \* faults.actuatorStuck
  sensorDead,     \* faults.sensorDead
  pending,        \* the events a poll has not fetched yet, oldest first
  planCheckedAt,  \* when the plan was checked for each grant issued so far
  draws           \* draws[g]: how often the grant g has drawn the bolt

lockVars == <<bolt, door, until, spent, authorizedEntry, stuck, sensorDead,
              pending, planCheckedAt, draws>>

\* Entries of pending are "DOOR_OPENED", "TAMPER", "OVERRIDE" and notes: those
\* the coordinator does nothing about (UNLOCKED, RELOCKED, UNLOCK_DENIED,
\* UNLOCK_FAILED, DOOR_CLOSED).
Note == "NOTE"

\* _sensor: a dead sensor reports nothing.
Sensor(type) == IF sensorDead THEN <<>> ELSE <<type>>

-----------------------------------------------------------------------------
(* tick.                                                                   *)

\* Defect for the runs to find: the window includes its last instant.
TimedOutLate(t) == bolt = "UNLOCKED" /\ door = "CLOSED" /\ t > until

\* The bolt was drawn and the door not opened within the unlock window.
TimedOut(t) == bolt = "UNLOCKED" /\ door = "CLOSED" /\ t >= until

BoltAt(t) == IF TimedOut(t) THEN "LOCKED" ELSE bolt
UntilAt(t) == IF TimedOut(t) THEN Never ELSE until
TickNotes(t) == IF TimedOut(t) THEN <<Note>> ELSE <<>>

\* Defect: a nonce is forgotten as soon as its grant has expired.
RememberedBriefly(t) == {g \in spent : planCheckedAt[g] + Ttl >= t}

\* The nonces tick keeps: the grant could still pass the check of exp.
Remembered(t) == {g \in spent : planCheckedAt[g] + Ttl + Tolerance >= t}

\* status, and every other call that does nothing else.
LockTick(t) ==
  /\ bolt' = BoltAt(t) /\ until' = UntilAt(t)
  /\ spent' = Remembered(t)
  /\ pending' = pending \o TickNotes(t)
  /\ UNCHANGED <<door, authorizedEntry, stuck, sensorDead, planCheckedAt, draws>>

-----------------------------------------------------------------------------
(* unlock and lock.                                                        *)

\* A document the authority issued passes the checks of the device.
Valid(g, t) ==
  /\ planCheckedAt[g] # Never
  /\ t + Tolerance >= planCheckedAt[g]
  /\ t - Tolerance <= planCheckedAt[g] + Ttl
  /\ g \notin Remembered(t)
  /\ t - planCheckedAt[g] <= MaxAge + Tolerance
  /\ door = "CLOSED"

\* Every refusal, of a grant or of a forged document, leaves the bolt alone.
UnlockDenied(t) ==
  /\ bolt' = BoltAt(t) /\ until' = UntilAt(t)
  /\ spent' = Remembered(t)
  /\ pending' = pending \o TickNotes(t) \o <<Note>>
  /\ UNCHANGED <<door, authorizedEntry, stuck, sensorDead, planCheckedAt, draws>>

\* The grant is used up even if the actuator does not move.
UnlockFailed(g, t) ==
  /\ Valid(g, t) /\ stuck
  /\ bolt' = BoltAt(t) /\ until' = UntilAt(t)
  /\ spent' = Remembered(t) \cup {g}
  /\ pending' = pending \o TickNotes(t) \o <<Note>>
  /\ UNCHANGED <<door, authorizedEntry, stuck, sensorDead, planCheckedAt, draws>>

Unlocked(g, t) ==
  /\ Valid(g, t) /\ ~stuck
  /\ bolt' = "UNLOCKED" /\ until' = t + UnlockWindow
  /\ spent' = Remembered(t) \cup {g}
  /\ pending' = pending \o TickNotes(t) \o <<Note>>
  /\ draws' = [draws EXCEPT ![g] = @ + 1]
  /\ UNCHANGED <<door, authorizedEntry, stuck, sensorDead, planCheckedAt>>

\* lock: refused without a trace while the door is open.
LockCommand ==
  /\ door = "CLOSED"
  /\ bolt' = "LOCKED" /\ until' = Never
  /\ pending' = Append(pending, Note)
  /\ UNCHANGED <<door, spent, authorizedEntry, stuck, sensorDead,
                 planCheckedAt, draws>>

-----------------------------------------------------------------------------
(* The door and the people in front of it.                                 *)

\* physicalOpen on a drawn bolt.
OpenDoor(t) ==
  /\ door = "CLOSED" /\ BoltAt(t) = "UNLOCKED"
  /\ door' = "OPEN" /\ authorizedEntry' = TRUE
  /\ spent' = Remembered(t)
  /\ pending' = pending \o Sensor("DOOR_OPENED")
  /\ UNCHANGED <<bolt, until, stuck, sensorDead, planCheckedAt, draws>>

\* physicalOpen with force, on a bolted door.
ForceDoor(t) ==
  /\ door = "CLOSED" /\ BoltAt(t) = "LOCKED"
  /\ door' = "OPEN" /\ authorizedEntry' = FALSE
  /\ bolt' = BoltAt(t) /\ until' = UntilAt(t)
  /\ spent' = Remembered(t)
  /\ pending' = pending \o TickNotes(t) \o Sensor("TAMPER")
  /\ UNCHANGED <<stuck, sensorDead, planCheckedAt, draws>>

\* mechanicalOverride: never prevented, only reported.
OverrideDoor ==
  /\ bolt' = "UNLOCKED" /\ door' = "OPEN" /\ authorizedEntry' = FALSE
  /\ pending' = pending \o Sensor("OVERRIDE")
  /\ UNCHANGED <<until, spent, stuck, sensorDead, planCheckedAt, draws>>

\* physicalClose: the bolt falls.
CloseDoor ==
  /\ door = "OPEN"
  /\ door' = "CLOSED" /\ bolt' = "LOCKED" /\ until' = Never
  /\ pending' = Append(pending, Note)
  /\ UNCHANGED <<spent, authorizedEntry, stuck, sensorDead, planCheckedAt, draws>>

\* The actuator sticks or frees itself; the sensor dies.
Faults ==
  /\ stuck' \in BOOLEAN
  /\ sensorDead' \in {sensorDead, TRUE}
  /\ UNCHANGED <<bolt, door, until, spent, authorizedEntry, pending,
                 planCheckedAt, draws>>

LockInit ==
  /\ bolt = "LOCKED" /\ door = "CLOSED" /\ until = Never
  /\ spent = {} /\ authorizedEntry = FALSE
  /\ stuck = FALSE /\ sensorDead = FALSE
  /\ pending = <<>>
  /\ planCheckedAt = [g \in Grant |-> Never]
  /\ draws = [g \in Grant |-> 0]

\* Whatever can happen to the lock at the time t of its clock.
LockNext(t) ==
  /\ Len(pending) < MaxPending
  /\ \/ LockTick(t) \/ UnlockDenied(t) \/ LockCommand
     \/ \E g \in Grant : UnlockFailed(g, t) \/ Unlocked(g, t)
     \/ OpenDoor(t) \/ ForceDoor(t) \/ OverrideDoor \/ CloseDoor
     \/ Faults
=============================================================================
