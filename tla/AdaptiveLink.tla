----------------------------- MODULE AdaptiveLink -----------------------------
(***************************************************************************)
(* One shielded link and what it does with the key it makes while its      *)
(* shielding effectiveness (SE) moves: SeFailsafeDebounce of               *)
(* bb84/mtls_failsafe_debounce.js, ShieldLevelTracker and                  *)
(* AdaptiveShieldingMitigation of bb84/adaptive_shielding_mitigation.js.   *)
(*                                                                         *)
(* Kept: every state, guard and order of the three classes.  Abstracted:   *)
(* dB and ms are small integers; the finite-key optimiser is a free choice *)
(* of "a positive rate exists" per reading, and which parameters a block   *)
(* uses is left out; every block yields one unit of key.  A missing        *)
(* reading is the lowest SE.                                               *)
(***************************************************************************)
EXTENDS Integers

CONSTANTS
  SE,            \* the readings
  FloorDb,       \* floorDb, the emergency floor
  ThresholdDb,   \* egressThresholdDb
  TargetDb,      \* targetSeDb
  MarginDb,      \* recoveryMarginDb
  Debounce,      \* debounceMs
  Recovery,      \* recoveryHysteresisMs
  BlockLen,      \* blockDurationMs
  Capacity,      \* poolCapacityBits, in blocks
  Isolated,      \* deliveryPathIsolated
  Gaps,          \* times between two readings
  MaxTime        \* bound on the clock

ASSUME LinkAssumption ==
  /\ SE \subseteq Int /\ {FloorDb, ThresholdDb, TargetDb} \subseteq Int
  /\ {MarginDb, Debounce, Recovery, Capacity, MaxTime} \subseteq Nat
  /\ BlockLen \in Nat \ {0} /\ Gaps \subseteq Nat \ {0}
  /\ Isolated \in BOOLEAN

VARIABLES
  now,           \* time of the last reading
  floor,         \* SeFailsafeDebounce: state and sinceMs
  egress,        \* ShieldLevelTracker: the egress latch
  level,         \* level of lastDecision; "NONE" when there is none
  demand,        \* lastDecision asked for delivery
  block,         \* the open block, or NoBlock
  pool,          \* cleanPoolBits
  partition,     \* "main" or "quarantine"
  partitionPool, \* partitionBits
  suspended,     \* the fibre is switched elsewhere
  closed,        \* the blocks the last reading closed (new in blockLog)
  seen           \* history: what the raw readings were, for the properties

linkState == <<floor, egress, level, demand, block, pool, partition,
               partitionPool, suspended, closed>>

Never == -1
NoBlock == [start |-> Never, tainted |-> FALSE]
Releasable == {"NORMAL", "ADAPT"}

-----------------------------------------------------------------------------
(* SeFailsafeDebounce.ingest.                                              *)

(* Defect: the time must be exceeded.                                      *)
ElapsedStrictly(since, t, span) == t - since > span
Elapsed(since, t, span) == t - since >= span

(* Defect: back above the floor is good enough.                            *)
MarginIgnored(se) == se >= FloorDb
MarginOk(se) == se >= FloorDb + MarginDb

FloorIngest(se, t) ==
  LET ok == se >= FloorDb
      good == ok /\ MarginOk(se)
      Become(st, since) == floor' = [st |-> st, since |-> since]
  IN \/ floor.st = "COLD" /\ Become(IF ok THEN "OK" ELSE "BLOCKED", Never)
     \/ floor.st = "OK" /\ ok /\ UNCHANGED floor
     \/ floor.st = "OK" /\ ~ok /\ Become("SUSPECT", t)
     \/ floor.st = "SUSPECT" /\ ok /\ Become("OK", Never)
     \/ /\ floor.st = "SUSPECT" /\ ~ok
        /\ IF Elapsed(floor.since, t, Debounce) THEN Become("BLOCKED", Never)
           ELSE UNCHANGED floor
     \/ floor.st = "BLOCKED" /\ good /\ Become("RECOVERING", t)
     \/ floor.st = "BLOCKED" /\ ~good /\ UNCHANGED floor
     \/ floor.st = "RECOVERING" /\ ~good /\ Become("BLOCKED", Never)
     \/ /\ floor.st = "RECOVERING" /\ good
        /\ IF Elapsed(floor.since, t, Recovery) THEN Become("OK", Never)
           ELSE UNCHANGED floor

(* ShieldLevelTracker.update, the egress latch: set by the first bad       *)
(* reading of an episode, let go after a run of good ones.  A short        *)
(* episode asks for less time and no margin.                               *)

TransientEpisode == egress.first # Never /\ egress.last - egress.first <= Debounce
RequiredRecovery == IF TransientEpisode THEN Debounce ELSE Recovery
(* Defect: the margin is asked for after every episode.                    *)
AlwaysMargin == MarginDb
RequiredMargin == IF TransientEpisode THEN 0 ELSE MarginDb

LatchOpen == [hold |-> "NO", good |-> Never, first |-> Never, last |-> Never]

EgressIngest(se, t) ==
  LET since == IF egress.good = Never THEN t ELSE egress.good
  IN \/ /\ se < ThresholdDb
        /\ egress' = [hold |-> "YES", good |-> Never, last |-> t,
                      first |-> IF egress.hold = "YES" THEN egress.first ELSE t]
     \/ /\ se >= ThresholdDb /\ egress.hold # "YES"
        /\ egress' = LatchOpen
     \/ /\ se >= ThresholdDb /\ egress.hold = "YES"
        /\ egress' = IF se < ThresholdDb + RequiredMargin
                     THEN [egress EXCEPT !.good = Never]
                     ELSE IF Elapsed(since, t, RequiredRecovery) THEN LatchOpen
                     ELSE [egress EXCEPT !.good = since]

(* _decideLevel, on the tracker's new state; rateOk: some parameters give  *)
(* a positive key rate at the peak Y0.                                     *)
LevelFor(fl, eg, se, rateOk) ==
  IF fl.st \in {"BLOCKED", "RECOVERING"} THEN "BLOCK"
  ELSE IF fl.st = "SUSPECT" \/ eg.hold = "YES" \/ ~rateOk THEN "HOLD"
  ELSE IF se >= TargetDb THEN "NORMAL" ELSE "ADAPT"

(* Parameters may change only when the shield is OK.                       *)
MayRetune(fl, eg) == fl.st = "OK" /\ eg.hold = "NO"

-----------------------------------------------------------------------------
(* Delivery.                                                               *)

(* What the pool gives at a level: all of it, or in HOLD, on an isolated   *)
(* path, pool * (1 - e^(-dt/tau)), which is less than all.                 *)
Givable(lv) ==
  IF lv \in Releasable THEN 0 .. pool
  ELSE IF lv = "HOLD" /\ Isolated /\ pool > 0 THEN 0 .. pool - 1
  ELSE {0}

(* grantable, the network's pull.                                          *)
Grantable == IF suspended \/ partition = "quarantine" THEN {0} ELSE Givable(level)

(* grant.                                                                  *)
Grant(g) ==
  /\ g \in Grantable \ {0}
  /\ pool' = pool - g
  /\ UNCHANGED <<floor, egress, level, demand, block, partition,
                 partitionPool, suspended, closed>>

-----------------------------------------------------------------------------
(* Blocks: _startBlock, _closeBlock and the loop of _accountInterval.      *)

StartBlock(t, taint) == [start |-> t, tainted |-> taint]

(* How many blocks end in the interval up to t.                            *)
Ends(t) == (t - block.start) \div BlockLen

(* Where the key of the i-th of them goes.  The first was open already, so *)
(* its own past counts; the later ones lie inside the interval.            *)
Fate(i, taint) ==
  IF taint \/ (i = 0 /\ block.tainted) THEN "destroyed"
  ELSE IF partition = "quarantine" THEN "partition" ELSE "pool"

Closed(t, taint) ==
  {[start |-> block.start + i * BlockLen, fate |-> Fate(i, taint)] : i \in 0 .. Ends(t) - 1}

CleanBlocks(t, taint) ==
  IF taint \/ Ends(t) = 0 THEN 0
  ELSE IF block.tainted THEN Ends(t) - 1 ELSE Ends(t)

(* The block open after the interval.                                      *)
Opened(t, taint) ==
  IF Ends(t) = 0 THEN [block EXCEPT !.tainted = @ \/ taint]
  ELSE StartBlock(block.start + Ends(t) * BlockLen, taint)

AtMost(m, n) == IF m <= n THEN m ELSE n

(* The bracket rule: a bad decision at either end taints the interval, and *)
(* so does a Y0 that could not be verified at its end.                     *)
(* Defect: only the decision that was in force counts.                     *)
EarlierEndOnly(newLevel, y0Bad) == level \notin Releasable \/ y0Bad
IntervalTainted(newLevel, y0Bad) ==
  level \notin Releasable \/ newLevel \notin Releasable \/ y0Bad

(* _accountInterval: the decision in force delivers, then the blocks are   *)
(* settled.                                                                *)
AccountInterval(t, taint) ==
  /\ closed' = Closed(t, taint)
  /\ block' = Opened(t, taint)
  /\ \E g \in IF demand THEN Givable(level) ELSE {0} :
       IF partition = "main"
       THEN /\ pool' = AtMost(pool - g + CleanBlocks(t, taint), Capacity)
            /\ UNCHANGED partitionPool
       ELSE /\ pool' = pool - g
            /\ partitionPool' = partitionPool + CleanBlocks(t, taint)

-----------------------------------------------------------------------------
(* The operations.                                                         *)

(* ingest of a link in service.                                            *)
Ingest(se, t, y0Bad, wants, rateOk) ==
  /\ ~suspended
  /\ FloorIngest(se, t) /\ EgressIngest(se, t)
  /\ level' = LevelFor(floor', egress', se, rateOk)
  /\ ~rateOk => MayRetune(floor', egress')
  /\ IF level = "NONE"
     THEN /\ block' = StartBlock(t, level' \notin Releasable \/ y0Bad)
          /\ closed' = {}
          /\ UNCHANGED <<pool, partitionPool>>
     ELSE AccountInterval(t, IntervalTainted(level', y0Bad))
  /\ demand' = wants
  /\ UNCHANGED <<partition, suspended>>

(* ingest of a suspended link.                                             *)
IngestSuspended ==
  /\ suspended
  /\ level' = "SUSPENDED" /\ closed' = {}
  /\ UNCHANGED <<floor, egress, demand, block, pool, partition,
                 partitionPool, suspended>>

(* suspend: half a block is dropped.                                       *)
Suspend ==
  /\ ~suspended /\ suspended' = TRUE /\ block' = NoBlock
  /\ UNCHANGED <<floor, egress, level, demand, pool, partition,
                 partitionPool, closed>>

(* resume: the link starts as if nothing had been read.                    *)
Resume ==
  /\ suspended /\ suspended' = FALSE
  /\ block' = NoBlock /\ level' = "NONE" /\ demand' = FALSE
  /\ UNCHANGED <<floor, egress, pool, partition, partitionPool, closed>>

(* What a quarantine of either end does to the link: revokePool, then      *)
(* setPartition("quarantine").                                             *)
Quarantine ==
  /\ pool' = 0 /\ partition' = "quarantine"
  /\ UNCHANGED <<floor, egress, level, demand, block, partitionPool,
                 suspended, closed>>

(* setPartition("main").                                                   *)
BackToMain ==
  /\ partition = "quarantine" /\ partition' = "main" /\ partitionPool' = 0
  /\ UNCHANGED <<floor, egress, level, demand, block, pool, suspended,
                 closed>>

-----------------------------------------------------------------------------
(* History of the raw readings, independent of the code's own state: until *)
(* when an interval with a bad end reached, and since when every reading   *)
(* has been below the floor, above it with margin, and so on.              *)

Since(holds, since, t) == IF ~holds THEN Never ELSE IF since = Never THEN t ELSE since

Watch(se, t, y0Bad) ==
  seen' = [lastBad  |-> se < ThresholdDb,
           badUntil |-> IF se < ThresholdDb \/ y0Bad \/ (level # "NONE" /\ seen.lastBad)
                        THEN t ELSE seen.badUntil,
           below    |-> Since(se < FloorDb, seen.below, t),
           clear    |-> Since(se >= FloorDb + MarginDb, seen.clear, t),
           ok       |-> Since(se >= ThresholdDb, seen.ok, t),
           good     |-> Since(se >= ThresholdDb + MarginDb, seen.good, t)]

Init ==
  /\ now = 0 /\ floor = [st |-> "COLD", since |-> Never]
  /\ egress = [LatchOpen EXCEPT !.hold = "COLD"]
  /\ level = "NONE" /\ demand = FALSE /\ block = NoBlock
  /\ pool \in {0, Capacity} /\ partition = "main" /\ partitionPool = 0
  /\ suspended = FALSE /\ closed = {}
  /\ seen = [lastBad |-> FALSE, badUntil |-> Never, below |-> Never,
             clear |-> Never, ok |-> Never, good |-> Never]

(* A reading, gap after the one before.                                    *)
Read(gap) ==
  /\ now + gap <= MaxTime
  /\ now' = now + gap
  /\ \/ \E se \in SE, y0Bad, wants, rateOk \in BOOLEAN :
          Ingest(se, now', y0Bad, wants, rateOk) /\ Watch(se, now', y0Bad)
     \/ IngestSuspended /\ UNCHANGED seen

(* A call between two readings.                                            *)
Call ==
  /\ \/ \E g \in Grantable : Grant(g)
     \/ Suspend \/ Resume \/ Quarantine \/ BackToMain
  /\ UNCHANGED <<now, seen>>

Next == (\E gap \in Gaps : Read(gap)) \/ Call

vars == <<now, linkState, seen>>

Spec == Init /\ [][Next]_vars

-----------------------------------------------------------------------------
(* Properties.                                                             *)

Time == 0 .. MaxTime
TimeOrNever == Time \cup {Never}

(* Every variable of the link holds a value of its kind.                   *)
TypeOK ==
  /\ now \in Time
  /\ floor \in [st : {"COLD", "OK", "SUSPECT", "BLOCKED", "RECOVERING"}, since : TimeOrNever]
  /\ egress \in [hold : {"COLD", "YES", "NO"}, good : TimeOrNever,
                 first : TimeOrNever, last : TimeOrNever]
  /\ level \in {"NONE", "NORMAL", "ADAPT", "HOLD", "BLOCK", "SUSPENDED"}
  /\ demand \in BOOLEAN /\ suspended \in BOOLEAN
  /\ block \in [start : TimeOrNever, tainted : BOOLEAN]
  /\ pool \in 0 .. Capacity /\ partitionPool \in Nat
  /\ partition \in {"main", "quarantine"}

(* No key of a block goes to the clean pool if a reading below the egress  *)
(* threshold, or one whose Y0 was not verified, bounds an interval that    *)
(* reaches into the block: whatever debounce, latch and suspension did in  *)
(* between.  (_accountInterval, _closeBlock)                               *)
ReleasedBlocksUntouched ==
  \A b \in closed : b.fate # "destroyed" => seen.badUntil <= b.start

(* Once every reading for debounceMs has been below the emergency floor,   *)
(* the decision is BLOCK, even if the link was suspended meanwhile.        *)
SustainedBreachBlocks ==
  (/\ level \notin {"NONE", "SUSPENDED"} /\ ~suspended
   /\ seen.below # Never /\ now - seen.below >= Debounce) => level = "BLOCK"

(* The floor's block ends only after recoveryHysteresisMs in which every   *)
(* reading was above the floor with the margin.                            *)
NoEarlyUnblock ==
  [][(/\ floor.st \in {"BLOCKED", "RECOVERING"}
      /\ floor'.st \notin {"BLOCKED", "RECOVERING"})
       => seen'.clear # Never /\ now' - seen'.clear >= Recovery]_vars

(* The latch never keeps a healthy link: after recoveryHysteresisMs of     *)
(* readings at the threshold plus margin both the floor's debounce and the *)
(* latch have let go; after a short artefact, debounceMs of readings at    *)
(* the threshold alone are enough for the latch.                           *)
HealthyLinkRecovers ==
  (level \notin {"NONE", "SUSPENDED"} /\ ~suspended) =>
    /\ (seen.good # Never /\ now - seen.good >= Recovery) => MayRetune(floor, egress)
    /\ (seen.ok # Never /\ now - seen.ok >= Debounce /\ TransientEpisode)
         => egress.hold = "NO"

=============================================================================
