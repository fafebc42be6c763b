------------------------ MODULE CabinetAccessProofs ------------------------
(***************************************************************************)
(* Proofs about the cabinet, for any grants, lifetimes, windows and clock  *)
(* differences.                                                            *)
(*                                                                         *)
(* Three invariants, side by side.  UsedInv: a grant that drew the bolt is *)
(* remembered, or has expired for the clock of the lock, which never turns *)
(* back.  WindowInv: the bolt of a shut door is drawn by a grant not long  *)
(* ago.  NoticeInv: the plan uses no node that is out of the network, and  *)
(* an open door of a node in the network has an alarm on its way, or a     *)
(* poll has passed over a report since it was opened.                      *)
(***************************************************************************)
EXTENDS CabinetAccess, TLAPS

Alarms == {"DOOR_OPENED", "TAMPER", "OVERRIDE"}
Event == Alarms \cup {Note}

\* An event that reports an opening waits in the list p.
Alarm(p) == \E i \in 1..Len(p) : p[i] \in Alarms

LockTypes ==
  /\ planCheckedAt \in [Grant -> Nat \cup {Never}]
  /\ draws \in [Grant -> Nat]
  /\ spent \subseteq {g \in Grant : planCheckedAt[g] # Never}
  /\ bolt \in {"LOCKED", "UNLOCKED"} /\ door \in {"CLOSED", "OPEN"}
  /\ pending \in Seq(Event)
  /\ sensorDead \in BOOLEAN
  /\ now \in Nat /\ skew \in -MaxSkew..MaxSkew
  /\ overtaken \in BOOLEAN

\* The grant g was presented and passed at most once, and will not again.
UsedUp(g) ==
  /\ draws[g] = 1 /\ planCheckedAt[g] \in Nat
  /\ g \in spent \/ planCheckedAt[g] + Ttl + Tolerance < LockClock

UsedInv == \A g \in Grant : draws[g] = 0 \/ UsedUp(g)

WindowInv ==
  bolt = "UNLOCKED" /\ door = "CLOSED" =>
    /\ until \in Int
    /\ \E g \in Grant :
         /\ draws[g] > 0 /\ planCheckedAt[g] \in Nat
         /\ until - planCheckedAt[g] <= MaxAge + Tolerance + UnlockWindow

NoticeInv ==
  /\ mode \in OutOfNetwork => planUsesNode = FALSE
  /\ \/ sensorDead \/ overtaken
     \/ door = "CLOSED"
     \/ mode \in OutOfNetwork
     \/ Alarm(pending)

Inv == LockTypes /\ UsedInv /\ WindowInv /\ NoticeInv

\* No poll took place.
NoPoll == overtaken' = (overtaken /\ door' = "OPEN")

-----------------------------------------------------------------------------
(* Lemmas.                                                                 *)

LEMMA Clocks ==
  ASSUME LockTypes
  PROVE  /\ LockClock \in Int /\ now \in Nat /\ skew \in Int
         /\ Ttl \in Nat /\ Tolerance \in Nat /\ MaxAge \in Nat /\ UnlockWindow \in Nat
         /\ -MaxSkew <= skew /\ MaxSkew \in Nat
BY LockAssumption, AccessAssumption
   DEF LockTypes, LockClock, LockAssumption, AccessAssumption

\* An alarm is not lost when more is reported behind it, and is given by any
\* report of an opening.
LEMMA AlarmStays ==
  ASSUME NEW p \in Seq(Event), NEW q \in Seq(Event)
  PROVE  /\ p \o q \in Seq(Event)
         /\ Alarm(p) => Alarm(p \o q)
         /\ Alarm(q) => Alarm(p \o q)
<1>1. Len(p \o q) = Len(p) + Len(q) /\ Len(p) \in Nat /\ Len(q) \in Nat
  OBVIOUS
<1>2. ASSUME NEW i \in 1..Len(p) PROVE (p \o q)[i] = p[i] /\ i \in 1..Len(p \o q)
  BY <1>1
<1>3. ASSUME NEW i \in 1..Len(q)
      PROVE  (p \o q)[Len(p) + i] = q[i] /\ Len(p) + i \in 1..Len(p \o q)
  BY <1>1
<1>4. ASSUME Alarm(p) PROVE Alarm(p \o q)
  BY <1>2, <1>4 DEF Alarm
<1>5. ASSUME Alarm(q) PROVE Alarm(p \o q)
  <2>1. PICK i \in 1..Len(q) : q[i] \in Alarms
    BY <1>5 DEF Alarm
  <2>2. (p \o q)[Len(p) + i] \in Alarms /\ Len(p) + i \in 1..Len(p \o q)
    BY <1>3, <2>1
  <2> QED  BY <2>2 DEF Alarm
<1>6. p \o q \in Seq(Event)
  OBVIOUS
<1> QED  BY <1>4, <1>5, <1>6

\* What tick and the sensor report.
LEMMA Reports ==
  ASSUME NEW t, NEW type \in Alarms
  PROVE  /\ TickNotes(t) \in Seq(Event) /\ Sensor(type) \in Seq(Event)
         /\ <<Note>> \in Seq(Event)
         /\ sensorDead \/ Alarm(Sensor(type))
<1>1. << >> \in Seq(Event) /\ <<Note>> \in Seq(Event) /\ <<type>> \in Seq(Event)
  BY DEF Event
<1>2. Alarm(<<type>>)
  <2>1. <<type>>[1] = type /\ 1 \in 1..Len(<<type>>)
    OBVIOUS
  <2> QED  BY <2>1 DEF Alarm
<1> QED  BY <1>1, <1>2 DEF TickNotes, Sensor

\* A grant the lock forgets has expired for it.
LEMMA UsedStays ==
  ASSUME LockTypes, UsedInv, Remembered(LockClock) \subseteq spent',
         UNCHANGED <<planCheckedAt, draws, now, skew>>
  PROVE  UsedInv'
<1>1. LockClock' = LockClock
  BY DEF LockClock
<1>2. ASSUME NEW g \in Grant, UsedUp(g) PROVE UsedUp(g)'
  <2>1. CASE planCheckedAt[g] + Ttl + Tolerance < LockClock
    BY <1>1, <1>2, <2>1 DEF UsedUp
  <2>2. CASE g \in spent /\ ~(planCheckedAt[g] + Ttl + Tolerance < LockClock)
    <3>1. planCheckedAt[g] + Ttl + Tolerance >= LockClock
      BY <1>2, <2>2, Clocks DEF UsedUp
    <3>2. g \in spent'
      BY <2>2, <3>1 DEF Remembered
    <3> QED  BY <1>1, <1>2, <3>2 DEF UsedUp
  <2> QED  BY <1>2, <2>1, <2>2 DEF UsedUp
<1> QED  BY <1>2 DEF UsedInv

\* A bolt that is still drawn is so from before.
LEMMA WindowStays ==
  ASSUME WindowInv, UNCHANGED <<planCheckedAt, draws>>,
         bolt' = "UNLOCKED" /\ door' = "CLOSED" =>
           bolt = "UNLOCKED" /\ door = "CLOSED" /\ until' = until
  PROVE  WindowInv'
BY DEF WindowInv

\* Nothing was opened: alarms that wait go on waiting.
LEMMA NoticeStays ==
  ASSUME LockTypes, NoticeInv, NoPoll, UNCHANGED coordVars,
         door' \in {"CLOSED", "OPEN"}, sensorDead => sensorDead', door = "CLOSED" => door' = "CLOSED",
         NEW q \in Seq(Event), pending' = pending \o q
  PROVE  NoticeInv' /\ pending' \in Seq(Event)
<1>1. pending' \in Seq(Event) /\ (Alarm(pending) => Alarm(pending'))
  BY AlarmStays DEF LockTypes
<1> QED  BY <1>1 DEF NoticeInv, NoPoll, coordVars

-----------------------------------------------------------------------------
(* The invariant, action by action.                                        *)

LEMMA InitInv == Init => Inv
<1> SUFFICES ASSUME Init PROVE Inv
  OBVIOUS
<1>1. LockTypes
  <2>1. << >> \in Seq(Event)
    OBVIOUS
  <2> QED  BY <2>1 DEF Init, LockInit, LockTypes
<1>2. UsedInv
  BY DEF Init, LockInit, UsedInv
<1>3. WindowInv
  BY DEF Init, LockInit, WindowInv
<1>4. NoticeInv
  BY DEF Init, LockInit, CoordInit, NoticeInv, OutOfNetwork
<1> QED  BY <1>1, <1>2, <1>3, <1>4 DEF Inv

\* The calls of the lock that open no door.
LEMMA QuietCall ==
  ASSUME Inv, NoPoll,
         UNCHANGED <<coordVars, now, skew, door, sensorDead, planCheckedAt, draws>>,
         Remembered(LockClock) \subseteq spent',
         spent' \subseteq {g \in Grant : planCheckedAt[g] # Never},
         bolt' \in {"LOCKED", bolt},
         bolt' = "UNLOCKED" => until' = until,
         NEW q \in Seq(Event), pending' = pending \o q
  PROVE  Inv'
<1>1. UsedInv'
  BY UsedStays DEF Inv
<1>2. WindowInv'
  BY WindowStays DEF Inv
<1>3. NoticeInv' /\ pending' \in Seq(Event)
  BY NoticeStays DEF Inv, LockTypes
<1>4. LockTypes'
  BY <1>3 DEF Inv, LockTypes, NoPoll
<1> QED  BY <1>1, <1>2, <1>3, <1>4 DEF Inv

\* Whatever opens the door reports it, if the sensor lives.
LEMMA OpeningCall ==
  ASSUME Inv, NoPoll,
         UNCHANGED <<coordVars, now, skew, sensorDead, planCheckedAt, draws>>,
         Remembered(LockClock) \subseteq spent', spent' \subseteq spent,
         bolt' \in {"LOCKED", "UNLOCKED"}, door' = "OPEN",
         NEW q \in Seq(Event), NEW type \in Alarms,
         pending' = (pending \o q) \o Sensor(type)
  PROVE  Inv'
<1>1. UsedInv'
  BY UsedStays DEF Inv
<1>2. WindowInv'
  BY DEF WindowInv
<1>3. pending' \in Seq(Event) /\ (sensorDead \/ Alarm(pending'))
  <2>1. pending \o q \in Seq(Event)
    BY AlarmStays DEF Inv, LockTypes
  <2>2. Sensor(type) \in Seq(Event) /\ (sensorDead \/ Alarm(Sensor(type)))
    BY Reports
  <2> QED  BY <2>1, <2>2, AlarmStays
<1>4. NoticeInv'
  BY <1>3 DEF Inv, NoticeInv, coordVars
<1>5. LockTypes'
  BY <1>3 DEF Inv, LockTypes, NoPoll
<1> QED  BY <1>1, <1>2, <1>4, <1>5 DEF Inv

LEMMA LockKeeps ==
  ASSUME Inv, NoPoll, LockNext(LockClock), UNCHANGED <<coordVars, now, skew>>
  PROVE  Inv'
<1> DEFINE t == LockClock
<1>a. LockTypes /\ pending \in Seq(Event) /\ spent \subseteq Grant
  BY DEF Inv, LockTypes
<1>b. /\ TickNotes(t) \in Seq(Event) /\ <<Note>> \in Seq(Event)
      /\ TickNotes(t) \o <<Note>> \in Seq(Event)
      /\ (pending \o TickNotes(t)) \o <<Note>> = pending \o (TickNotes(t) \o <<Note>>)
  <2>1. TickNotes(t) \in Seq(Event) /\ <<Note>> \in Seq(Event)
    BY Reports DEF Alarms
  <2> HIDE DEF t
  <2> QED  BY <2>1, <1>a
<1>c. /\ BoltAt(t) \in {"LOCKED", bolt}
      /\ BoltAt(t) = "UNLOCKED" => UntilAt(t) = until
  BY DEF BoltAt, UntilAt
<1>d. Remembered(t) \subseteq spent
  BY DEF Remembered
<1>e. spent \subseteq {g \in Grant : planCheckedAt[g] # Never}
  BY DEF Inv, LockTypes
<1>1. CASE LockTick(t)
  <2>1. bolt' = BoltAt(t) /\ until' = UntilAt(t) /\ spent' = Remembered(t)
        /\ pending' = pending \o TickNotes(t)
    BY <1>1 DEF LockTick
  <2>2. UNCHANGED <<door, sensorDead, planCheckedAt, draws>>
    BY <1>1 DEF LockTick
  <2> QED  BY <2>1, <2>2, <1>b, <1>c, <1>d, <1>e, QuietCall
<1>2. CASE UnlockDenied(t)
  <2>1. bolt' = BoltAt(t) /\ until' = UntilAt(t) /\ spent' = Remembered(t)
        /\ pending' = pending \o (TickNotes(t) \o <<Note>>)
    BY <1>2, <1>b DEF UnlockDenied
  <2>2. UNCHANGED <<door, sensorDead, planCheckedAt, draws>>
    BY <1>2 DEF UnlockDenied
  <2> QED  BY <2>1, <2>2, <1>b, <1>c, <1>d, <1>e, QuietCall
<1>3. CASE LockCommand
  <2>1. bolt' = "LOCKED" /\ spent' = spent /\ pending' = pending \o <<Note>>
    BY <1>3, <1>a, <1>b DEF LockCommand
  <2>2. UNCHANGED <<door, sensorDead, planCheckedAt, draws>>
    BY <1>3 DEF LockCommand
  <2> QED  BY <2>1, <2>2, <1>b, <1>d, <1>e, QuietCall
<1>4. ASSUME NEW g \in Grant, UnlockFailed(g, t) PROVE Inv'
  <2>1. bolt' = BoltAt(t) /\ until' = UntilAt(t) /\ spent' = Remembered(t) \cup {g}
        /\ pending' = pending \o (TickNotes(t) \o <<Note>>)
    BY <1>4, <1>b DEF UnlockFailed
  <2>2. UNCHANGED <<door, sensorDead, planCheckedAt, draws>> /\ planCheckedAt[g] # Never
    BY <1>4 DEF UnlockFailed, Valid
  <2> QED  BY <2>1, <2>2, <1>b, <1>c, <1>d, <1>e, QuietCall
<1>5. ASSUME NEW g \in Grant, Unlocked(g, t) PROVE Inv'
  <2>1. /\ bolt' = "UNLOCKED" /\ until' = t + UnlockWindow
        /\ spent' = Remembered(t) \cup {g}
        /\ pending' = pending \o (TickNotes(t) \o <<Note>>)
        /\ draws' = [draws EXCEPT ![g] = @ + 1]
        /\ UNCHANGED <<door, sensorDead, planCheckedAt>>
    BY <1>5, <1>b DEF Unlocked
  <2>2. /\ planCheckedAt[g] # Never /\ t - Tolerance <= planCheckedAt[g] + Ttl
        /\ g \notin Remembered(t) /\ t - planCheckedAt[g] <= MaxAge + Tolerance
        /\ door = "CLOSED"
    BY <1>5 DEF Unlocked, Valid
  <2>3. /\ t \in Int /\ planCheckedAt[g] \in Nat /\ draws \in [Grant -> Nat]
        /\ Ttl \in Nat /\ Tolerance \in Nat /\ MaxAge \in Nat /\ UnlockWindow \in Nat
        /\ LockClock' = LockClock
    BY <2>2, <1>a, Clocks DEF LockTypes, LockClock
  <2>4. draws[g] = 0
    <3>1. CASE g \in spent
      BY <3>1, <2>2, <2>3 DEF Remembered
    <3>2. CASE planCheckedAt[g] + Ttl + Tolerance < LockClock
      BY <3>2, <2>2, <2>3
    <3> QED  BY <3>1, <3>2 DEF Inv, UsedInv, UsedUp
  <2>5. draws'[g] = 1 /\ \A f \in Grant \ {g} : draws'[f] = draws[f]
    BY <2>1, <2>3, <2>4
  <2>6. UsedInv'
    <3>1. UsedUp(g)'
      BY <2>1, <2>3, <2>5 DEF UsedUp
    <3>2. ASSUME NEW f \in Grant \ {g}, UsedUp(f) PROVE UsedUp(f)'
      <4>1. CASE planCheckedAt[f] + Ttl + Tolerance < LockClock
        BY <4>1, <3>2, <2>1, <2>3, <2>5 DEF UsedUp
      <4>2. CASE f \in spent /\ ~(planCheckedAt[f] + Ttl + Tolerance < LockClock)
        <5>1. planCheckedAt[f] + Ttl + Tolerance >= LockClock
          BY <3>2, <4>2, <2>3 DEF UsedUp
        <5>2. f \in spent'
          BY <4>2, <5>1, <2>1 DEF Remembered
        <5> QED  BY <5>2, <3>2, <2>1, <2>5 DEF UsedUp
      <4> QED  BY <3>2, <4>1, <4>2 DEF UsedUp
    <3> QED  BY <3>1, <3>2, <2>5 DEF Inv, UsedInv
  <2>7. WindowInv'
    <3>1. until' \in Int /\ until' - planCheckedAt[g] <= MaxAge + Tolerance + UnlockWindow
      BY <2>1, <2>2, <2>3
    <3>2. /\ draws'[g] > 0 /\ planCheckedAt'[g] \in Nat
          /\ planCheckedAt'[g] = planCheckedAt[g]
      BY <2>1, <2>3, <2>5
    <3> QED  BY <3>1, <3>2 DEF WindowInv
  <2>8. NoticeInv' /\ pending' \in Seq(Event)
    BY <2>1, <1>a, <1>b, NoticeStays DEF Inv, LockTypes
  <2>9. draws' \in [Grant -> Nat]
    BY <2>1, <2>3
  <2>10. LockTypes'
    BY <2>1, <2>2, <2>8, <2>9, <1>a, <1>d, <1>e DEF LockTypes, NoPoll
  <2> QED  BY <2>6, <2>7, <2>8, <2>10 DEF Inv
<1>6. CASE OpenDoor(t)
  <2>1. /\ door' = "OPEN" /\ spent' = Remembered(t) /\ bolt' = bolt
        /\ pending' = pending \o Sensor("DOOR_OPENED")
        /\ UNCHANGED <<sensorDead, planCheckedAt, draws>>
    BY <1>6 DEF OpenDoor
  <2>2. << >> \in Seq(Event) /\ pending \o << >> = pending
    BY <1>a
  <2>3. bolt \in {"LOCKED", "UNLOCKED"} /\ "DOOR_OPENED" \in Alarms
    BY <1>a DEF LockTypes, Alarms
  <2> QED  BY <2>1, <2>2, <2>3, <1>d, OpeningCall
<1>7. CASE ForceDoor(t)
  <2>1. /\ door' = "OPEN" /\ spent' = Remembered(t) /\ bolt' = BoltAt(t)
        /\ pending' = (pending \o TickNotes(t)) \o Sensor("TAMPER")
        /\ UNCHANGED <<sensorDead, planCheckedAt, draws>>
    BY <1>7 DEF ForceDoor
  <2>2. BoltAt(t) \in {"LOCKED", "UNLOCKED"} /\ "TAMPER" \in Alarms
    BY <1>a, <1>c DEF LockTypes, Alarms
  <2> QED  BY <2>1, <2>2, <1>b, <1>d, OpeningCall
<1>8. CASE OverrideDoor
  <2>1. /\ door' = "OPEN" /\ spent' = spent /\ bolt' = "UNLOCKED"
        /\ pending' = pending \o Sensor("OVERRIDE")
        /\ UNCHANGED <<sensorDead, planCheckedAt, draws>>
    BY <1>8 DEF OverrideDoor
  <2>2. << >> \in Seq(Event) /\ pending \o << >> = pending
    BY <1>a
  <2>3. "OVERRIDE" \in Alarms
    BY DEF Alarms
  <2> QED  BY <2>1, <2>2, <2>3, <1>d, OpeningCall
<1>9. CASE CloseDoor
  <2>1. /\ door' = "CLOSED" /\ bolt' = "LOCKED" /\ spent' = spent
        /\ pending' = pending \o <<Note>>
        /\ UNCHANGED <<sensorDead, planCheckedAt, draws>>
    BY <1>9, <1>a, <1>b DEF CloseDoor
  <2>2. UsedInv'
    BY <2>1, <1>d, UsedStays DEF Inv
  <2>3. WindowInv'
    BY <2>1 DEF WindowInv
  <2>4. NoticeInv' /\ pending' \in Seq(Event)
    BY <2>1, <1>a, <1>b, NoticeStays DEF Inv
  <2>5. LockTypes'
    BY <2>1, <2>4, <1>a DEF LockTypes, NoPoll
  <2> QED  BY <2>2, <2>3, <2>4, <2>5 DEF Inv
<1>10. CASE Faults
  <2>1. /\ UNCHANGED <<bolt, door, until, spent, pending, planCheckedAt, draws>>
        /\ sensorDead' \in {sensorDead, TRUE}
    BY <1>10 DEF Faults
  <2>2. UsedInv'
    BY <2>1, <1>d, UsedStays DEF Inv
  <2>3. WindowInv'
    BY <2>1 DEF Inv, WindowInv
  <2>4. NoticeInv'
    BY <2>1, <1>a DEF Inv, NoticeInv, NoPoll, LockTypes, coordVars
  <2>5. LockTypes'
    BY <2>1, <1>a DEF LockTypes, NoPoll
  <2> QED  BY <2>2, <2>3, <2>4, <2>5 DEF Inv
<1> QED  BY <1>1, <1>2, <1>3, <1>4, <1>5, <1>6, <1>7, <1>8, <1>9, <1>10
         DEF LockNext

\* The calls of the coordinator and the network.
LEMMA CoordKeeps ==
  ASSUME Inv, NoPoll, UNCHANGED <<lockVars, now, skew>>,
         \/ AlertDrain \/ AlertAdvisory \/ Downgrade
         \/ \E start : Schedule(start)
         \/ Replan(now)
         \/ door = "CLOSED" /\ (CompleteMaintenance \/ ClearIncident)
  PROVE  Inv'
<1>1. LockTypes' /\ UsedInv' /\ WindowInv'
  BY DEF Inv, LockTypes, UsedInv, UsedUp, WindowInv, LockClock, lockVars, NoPoll
<1>a. UNCHANGED <<sensorDead, door, pending>> /\ (overtaken => overtaken' \/ door' = "CLOSED")
  BY DEF lockVars, NoPoll, Inv, LockTypes
<1>2. CASE AlertDrain \/ AlertAdvisory \/ Downgrade
  <2>1. mode' \notin OutOfNetwork /\ mode \notin OutOfNetwork
    BY <1>2 DEF AlertDrain, AlertAdvisory, Downgrade, OutOfNetwork
  <2>2. \/ sensorDead \/ overtaken \/ door = "CLOSED" \/ Alarm(pending)
    BY <2>1 DEF Inv, NoticeInv
  <2>3. \/ sensorDead' \/ overtaken' \/ door' = "CLOSED" \/ Alarm(pending')
    BY <1>a, <2>2
  <2> QED  BY <1>1, <2>1, <2>3 DEF Inv, NoticeInv
<1>3. ASSUME NEW start, Schedule(start) PROVE NoticeInv'
  BY <1>3, <1>a DEF Schedule, Inv, NoticeInv
<1>4. CASE Replan(now)
  <2>1. mode \in OutOfNetwork => mode' \in OutOfNetwork
    BY <1>4 DEF Replan, TickedMode, OutOfNetwork
  <2>2. mode' \in OutOfNetwork => planUsesNode' = FALSE
    BY <1>4 DEF Replan
  <2> QED  BY <1>1, <1>a, <2>1, <2>2 DEF Inv, NoticeInv
<1>5. CASE door = "CLOSED" /\ (CompleteMaintenance \/ ClearIncident)
  <2>1. \/ mode' \notin OutOfNetwork
        \/ mode \in OutOfNetwork /\ planUsesNode' = planUsesNode
    BY <1>5 DEF CompleteMaintenance, ClearIncident, OutOfNetwork
  <2>2. mode' \in OutOfNetwork => planUsesNode' = FALSE
    BY <2>1 DEF Inv, NoticeInv
  <2>3. door' = "CLOSED"
    BY <1>5, <1>a
  <2> QED  BY <1>1, <2>2, <2>3 DEF Inv, NoticeInv
<1> QED  BY <1>1, <1>2, <1>3, <1>4, <1>5 DEF Inv

\* What a poll leaves in the list.
LEMMA Rest ==
  ASSUME NEW p \in Seq(Event), NEW last \in 1..Len(p)
  PROVE  /\ SubSeq(p, last + 1, Len(p)) \in Seq(Event)
         /\ (\E i \in (last + 1)..Len(p) : p[i] \in Alarms)
              => Alarm(SubSeq(p, last + 1, Len(p)))
<1> DEFINE q == SubSeq(p, last + 1, Len(p))
<1>1. /\ q \in Seq(Event) /\ Len(q) = Len(p) - last
      /\ \A i \in 1..Len(q) : q[i] = p[last + i]
  OBVIOUS
<1>2. ASSUME NEW i \in (last + 1)..Len(p), p[i] \in Alarms PROVE Alarm(q)
  <2>1. i - last \in 1..Len(q) /\ last + (i - last) = i
    BY <1>1
  <2>2. q[i - last] \in Alarms
    BY <1>1, <1>2, <2>1
  <2> QED  BY <2>1, <2>2 DEF Alarm
<1> QED  BY <1>1, <1>2

\* The poll hands the coordinator every alarm up to the event last, but for
\* those it passes over.
LEMMA PollKeeps ==
  ASSUME Inv, NEW last \in 1..Len(pending),
         NEW passedOver \in SUBSET (1..(last - 1)), Poll(last, passedOver)
  PROVE  Inv'
<1>1. /\ pending' = SubSeq(pending, last + 1, Len(pending)) /\ pending \in Seq(Event)
      /\ UNCHANGED <<bolt, door, until, spent, sensorDead, planCheckedAt, draws,
                     now, skew>>
  BY DEF Poll, Inv, LockTypes
<1>2. UsedInv' /\ WindowInv'
  BY <1>1 DEF Inv, UsedInv, UsedUp, WindowInv, LockClock
<1>3. LockTypes'
  <2>1. pending' \in Seq(Event)
    BY <1>1, Rest
  <2>2. overtaken' \in BOOLEAN
    BY DEF Poll
  <2> QED  BY <1>1, <2>1, <2>2 DEF Inv, LockTypes
<1>4. NoticeInv'
  <2> DEFINE types == {pending[i] : i \in (1..last) \ passedOver}
  <2>1. LockEvents(types)
    BY DEF Poll
  <2>2. CASE \E type \in types : Unauthorized(type)
    <3>1. mode' = "INCIDENT" /\ planUsesNode' = FALSE
      BY <2>1, <2>2 DEF LockEvents
    <3> QED  BY <3>1 DEF NoticeInv, OutOfNetwork
  <2>3. CASE ~ \E type \in types : Unauthorized(type)
    <3>1. UNCHANGED coordVars
      BY <2>1, <2>3 DEF LockEvents
    <3>2. ASSUME NEW i \in 1..Len(pending), pending[i] \in Alarms, door = "OPEN"
          PROVE  mode \in OutOfNetwork \/ overtaken' \/ Alarm(pending')
      <4>1. CASE i \in passedOver
        <5>1. pending[i] # Note
          BY <3>2 DEF Alarms, Note
        <5> QED  BY <3>2, <4>1, <5>1 DEF Poll
      <4>2. CASE i \in (1..last) \ passedOver
        <5>1. ~Unauthorized(pending[i])
          BY <2>3, <4>2
        <5> QED  BY <3>2, <5>1 DEF Alarms, Unauthorized, OutOfNetwork
      <4>3. CASE i \notin 1..last
        <5>1. i \in (last + 1)..Len(pending)
          BY <4>3, <1>1
        <5> QED  BY <3>2, <5>1, <1>1, Rest
      <4> QED  BY <4>1, <4>2, <4>3
    <3>3. Alarm(pending) /\ door = "OPEN"
            => mode \in OutOfNetwork \/ overtaken' \/ Alarm(pending')
      BY <3>2 DEF Alarm
    <3>4. overtaken /\ door = "OPEN" => overtaken'
      BY DEF Poll
    <3>5. door \in {"CLOSED", "OPEN"}
      BY DEF Inv, LockTypes
    <3> QED  BY <1>1, <3>1, <3>3, <3>4, <3>5 DEF Inv, NoticeInv, coordVars
  <2> QED  BY <2>2, <2>3
<1> QED  BY <1>2, <1>3, <1>4 DEF Inv

LEMMA AuthorizeKeeps ==
  ASSUME Inv, NoPoll, NEW g \in Grant, AuthorizeDoor(g) PROVE Inv'
<1>1. /\ planCheckedAt[g] = Never
      /\ planCheckedAt' = [planCheckedAt EXCEPT ![g] = now]
      /\ UNCHANGED <<bolt, door, until, spent, sensorDead, pending, draws,
                     coordVars, now, skew>>
  BY DEF AuthorizeDoor
<1>2. /\ now \in Nat /\ Never \notin Nat
      /\ planCheckedAt \in [Grant -> Nat \cup {Never}]
  BY LockAssumption DEF Inv, LockTypes, LockAssumption
<1>3. /\ planCheckedAt'[g] = now
      /\ \A f \in Grant : planCheckedAt[f] # Never => planCheckedAt'[f] = planCheckedAt[f]
  BY <1>1, <1>2
<1>4. \A f \in Grant : planCheckedAt[f] \in Nat => planCheckedAt'[f] = planCheckedAt[f]
  BY <1>2, <1>3
<1>5. UsedInv'
  BY <1>1, <1>4 DEF Inv, UsedInv, UsedUp, LockClock
<1>6. WindowInv'
  BY <1>1, <1>4 DEF Inv, WindowInv
<1>7. NoticeInv'
  BY <1>1 DEF Inv, NoticeInv, NoPoll, LockTypes, coordVars
<1>8. LockTypes'
  <2>1. planCheckedAt' \in [Grant -> Nat \cup {Never}]
    BY <1>1, <1>2
  <2>2. spent' \subseteq {f \in Grant : planCheckedAt'[f] # Never}
    BY <1>1, <1>2, <1>3 DEF Inv, LockTypes
  <2> QED  BY <1>1, <2>1, <2>2 DEF Inv, LockTypes, NoPoll
<1> QED  BY <1>5, <1>6, <1>7, <1>8 DEF Inv

\* The clock of the lock moves on as well: what has expired stays expired.
LEMMA TickKeeps ==
  ASSUME Inv, NoPoll, Tick PROVE Inv'
<1>1. now' = now + 1 /\ UNCHANGED <<lockVars, coordVars, skew>>
  BY DEF Tick
<1>2. /\ now \in Nat /\ LockClock \in Int /\ LockClock' = LockClock + 1
      /\ Ttl \in Nat /\ Tolerance \in Nat
  BY <1>1, Clocks DEF Inv, LockClock
<1>3. UsedInv'
  <2>1. ASSUME NEW g \in Grant, UsedUp(g) PROVE UsedUp(g)'
    BY <2>1, <1>1, <1>2 DEF UsedUp, lockVars
  <2> QED  BY <1>1, <2>1 DEF Inv, UsedInv, lockVars
<1>4. WindowInv'
  BY <1>1 DEF Inv, WindowInv, lockVars
<1>5. NoticeInv'
  BY <1>1 DEF Inv, NoticeInv, NoPoll, LockTypes, lockVars, coordVars
<1>6. LockTypes'
  BY <1>1, <1>2 DEF Inv, LockTypes, NoPoll, lockVars
<1> QED  BY <1>3, <1>4, <1>5, <1>6 DEF Inv

LEMMA NextInv == Inv /\ [Next]_accessVars => Inv'
<1> SUFFICES ASSUME Inv, [Next]_accessVars PROVE Inv'
  OBVIOUS
<1> DEFINE NP == overtaken' = (overtaken /\ door' = "OPEN")
<1>a. NP <=> NoPoll
  BY DEF NoPoll
<1> HIDE DEF NP
<1>1. CASE NP /\ LockNext(LockClock) /\ UNCHANGED <<coordVars, now, skew>>
  BY <1>1, <1>a, LockKeeps
<1>2. CASE /\ NP
           /\ \/ AlertDrain \/ AlertAdvisory \/ Downgrade
              \/ \E lead \in Leads : Schedule(now + lead)
              \/ Replan(now)
           /\ UNCHANGED <<lockVars, now, skew>>
  BY <1>2, <1>a, CoordKeeps
<1>3. CASE NP /\ OperatorDone
  BY <1>3, <1>a, CoordKeeps DEF OperatorDone
<1>4. ASSUME NP, NEW g \in Grant, AuthorizeDoor(g) PROVE Inv'
  BY <1>4, <1>a, AuthorizeKeeps
<1>5. CASE PollSome
  BY <1>5, PollKeeps DEF PollSome
<1>6. CASE NP /\ Tick
  BY <1>6, <1>a, TickKeeps
<1>7. CASE UNCHANGED accessVars
  BY <1>7 DEF accessVars, lockVars, coordVars, Inv, LockTypes, UsedInv, UsedUp,
              WindowInv, NoticeInv, LockClock
<1> QED  BY <1>1, <1>2, <1>3, <1>4, <1>5, <1>6, <1>7 DEF Next, CallNext, NP

-----------------------------------------------------------------------------
(* Theorems.                                                               *)

\* A grant draws the bolt once, however late or often it is presented and
\* however far off the clock of the lock is (unlock, and the pruning of
\* seenNonces in tick).
THEOREM GrantsUsedOnce == Spec => []SingleUse
<1>1. Inv => SingleUse
  <2>1. Inv => \A g \in Grant : draws[g] = 0 \/ draws[g] = 1
    BY DEF Inv, UsedInv, UsedUp
  <2>2. \A g \in Grant : draws[g] = 0 \/ draws[g] = 1 => draws[g] <= 1
    OBVIOUS
  <2> QED  BY <2>1, <2>2 DEF SingleUse
<1> QED  BY InitInv, NextInv, <1>1, PTL DEF Spec

\* While a door stands open the plan does not use the node, an alarm is
\* waiting, the sensor is dead, or a bounded poll passed the report over
\* (physicalOpen, mechanicalOverride, eventsSince, onLockEvent and hints).
THEOREM OpenDoorSeen == Spec => []OpenDoorIsNoticed
<1>1. Inv => OpenDoorIsNoticed
  BY DEF Inv, NoticeInv, Alarm, Alarms, OpenDoorIsNoticed, Unauthorized, OutOfNetwork
<1> QED  BY InitInv, NextInv, <1>1, PTL DEF Spec

\* A door is opened on a drawn bolt only while the plan was seen free of the
\* node not long before, if the clocks differ by no more than the tolerance
\* (the checks of attestation age in unlock, and the unlock window of tick).
THEOREM OpenedInTime ==
  ASSUME MaxSkew <= Tolerance
  PROVE  Spec => OpenedSoonAfterCheck
<1> DEFINE Soon == \E g \in Grant :
             /\ draws[g] > 0
             /\ now - planCheckedAt[g] < MaxAge + 2 * Tolerance + UnlockWindow
           A == door = "CLOSED" /\ door' = "OPEN" /\ authorizedEntry' => Soon
<1>1. ASSUME Inv, OpenDoor(LockClock) PROVE Soon
  <2>1. bolt = "UNLOCKED" /\ door = "CLOSED" /\ ~(LockClock >= until)
    BY <1>1 DEF OpenDoor, BoltAt, TimedOut
  <2>2. PICK g \in Grant :
          /\ draws[g] > 0 /\ planCheckedAt[g] \in Nat
          /\ until - planCheckedAt[g] <= MaxAge + Tolerance + UnlockWindow
    BY <1>1, <2>1 DEF Inv, WindowInv
  <2>3. until \in Int
    BY <1>1, <2>1 DEF Inv, WindowInv
  <2>4. /\ now \in Nat /\ skew \in Int /\ -MaxSkew <= skew /\ MaxSkew \in Nat
        /\ Tolerance \in Nat /\ MaxAge \in Nat /\ UnlockWindow \in Nat
    BY <1>1, Clocks DEF Inv
  <2>5. now + skew < until
    BY <2>1, <2>3, <2>4 DEF LockClock
  <2>6. now - planCheckedAt[g] < MaxAge + 2 * Tolerance + UnlockWindow
    BY <2>2, <2>3, <2>4, <2>5
  <2> QED  BY <2>2, <2>6
<1> HIDE DEF Soon
<1>2. ASSUME Inv, [Next]_accessVars PROVE A
  <2>1. CASE LockNext(LockClock)
    BY <2>1, <1>1, <1>2
       DEF LockNext, LockTick, UnlockDenied, LockCommand, UnlockFailed, Unlocked,
           ForceDoor, OverrideDoor, CloseDoor, Faults
  <2>2. CASE UNCHANGED lockVars
    BY <2>2 DEF lockVars
  <2>3. ASSUME NEW g \in Grant, AuthorizeDoor(g) PROVE A
    BY <2>3 DEF AuthorizeDoor
  <2>4. CASE PollSome
    BY <2>4 DEF PollSome, Poll
  <2> QED  BY <1>2, <2>1, <2>2, <2>3, <2>4
           DEF Next, CallNext, OperatorDone, Tick, accessVars
<1>3. Inv /\ [Next]_accessVars => [A]_accessVars
  BY <1>2
<1> QED  BY InitInv, NextInv, <1>3, PTL DEF Spec, OpenedSoonAfterCheck, Soon
=============================================================================
