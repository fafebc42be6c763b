------------------------- MODULE AdaptiveLinkProofs -------------------------
(***************************************************************************)
(* The safety of AdaptiveLink for all readings, thresholds, times and      *)
(* block lengths.  Three arguments that meet only in the step of a         *)
(* reading: which readings touch the open block (BlockInv), how the        *)
(* floor's debounce follows the readings (FloorInv), and how the egress    *)
(* latch does (LatchInv).  Each relates the code's own state to the        *)
(* history of the raw readings.                                            *)
(***************************************************************************)
EXTENDS AdaptiveLink, TLAPS

(* A decision of a link in service is in force.                            *)
Observed == ~suspended /\ level # "NONE"

SeenOK ==
  /\ seen \in [lastBad : BOOLEAN, badUntil : TimeOrNever, below : TimeOrNever,
               clear : TimeOrNever, ok : TimeOrNever, good : TimeOrNever]
  /\ seen.badUntil <= now /\ seen.clear <= now

LevelOK == (level = "SUSPENDED" => suspended) /\ TypeOK /\ SeenOK

(* An untainted block began after the last interval with a bad end; the    *)
(* level in force tells whether the last reading was bad.                  *)
BlockInv ==
  /\ ~Observed => block = NoBlock
  /\ Observed => block.start \in Time /\ block.start <= now /\ now < block.start + BlockLen
  /\ Observed /\ ~block.tainted => seen.badUntil <= block.start
  /\ seen.lastBad => egress.hold = "YES"
  /\ level \in Releasable => egress.hold # "YES"
  /\ ReleasedBlocksUntouched

(* Since when the floor is under suspicion, or on its way back.            *)
FloorInv ==
  /\ seen.below # Never => floor.st \in {"SUSPECT", "BLOCKED"}
  /\ floor.st = "SUSPECT" => seen.below # Never /\ seen.below = floor.since
  /\ Observed /\ floor.st \in {"BLOCKED", "RECOVERING"} => level = "BLOCK"
  /\ floor.st = "RECOVERING" => seen.clear # Never /\ seen.clear <= floor.since

IInv == LevelOK /\ BlockInv /\ FloorInv

-----------------------------------------------------------------------------
(* Arithmetic of blocks.                                                   *)

LEMMA DivBounds ==
  ASSUME NEW a \in Nat, NEW b \in Nat \ {0}
  PROVE  /\ a \div b \in Nat
         /\ (a \div b) * b <= a
         /\ a < (a \div b) * b + b
OBVIOUS

LEMMA MultipleAtLeast ==
  ASSUME NEW i \in Nat, i # 0, NEW b \in Nat
  PROVE  i * b \in Nat /\ b <= i * b
OBVIOUS

-----------------------------------------------------------------------------
(* What one reading does.                                                  *)

LEMMA FloorIngestOK ==
  ASSUME TypeOK, NEW se \in Int, NEW t \in Time, FloorIngest(se, t)
  PROVE  floor' \in [st : {"COLD", "OK", "SUSPECT", "BLOCKED", "RECOVERING"},
                     since : TimeOrNever]
BY DEF FloorIngest, TypeOK, TimeOrNever

LEMMA EgressIngestOK ==
  ASSUME TypeOK, NEW se \in Int, NEW t \in Time, EgressIngest(se, t)
  PROVE  /\ egress' \in [hold : {"COLD", "YES", "NO"}, good : TimeOrNever,
                         first : TimeOrNever, last : TimeOrNever]
         /\ egress'.hold = "YES" \/ egress'.hold = "NO"
         /\ se < ThresholdDb => egress'.hold = "YES"
BY LinkAssumption DEF EgressIngest, TypeOK, TimeOrNever, LatchOpen, LinkAssumption

LEMMA LevelForOK ==
  ASSUME NEW fl, NEW eg, NEW se, NEW rateOk
  PROVE  /\ LevelFor(fl, eg, se, rateOk) \in {"NORMAL", "ADAPT", "HOLD", "BLOCK"}
         /\ fl.st \in {"BLOCKED", "RECOVERING"} => LevelFor(fl, eg, se, rateOk) = "BLOCK"
         /\ LevelFor(fl, eg, se, rateOk) \in Releasable => eg.hold # "YES"
BY DEF LevelFor, Releasable

LEMMA WatchOK ==
  ASSUME TypeOK, SeenOK, NEW se \in Int, NEW t \in Time, now <= t, NEW y0Bad,
         Watch(se, t, y0Bad), now' = t
  PROVE  SeenOK'
<1>1. t \in TimeOrNever /\ Never \in TimeOrNever /\ Never <= t /\ now \in Time
  BY LinkAssumption DEF Time, TimeOrNever, Never, LinkAssumption, TypeOK
<1>2. seen.badUntil <= t /\ seen.clear <= t
  BY <1>1, LinkAssumption DEF SeenOK, Time, TimeOrNever, Never, LinkAssumption
<1>3. \A p \in BOOLEAN, s \in TimeOrNever :
        Since(p, s, t) \in TimeOrNever /\ (s <= t => Since(p, s, t) <= t)
  BY <1>1, LinkAssumption DEF Since, Time, LinkAssumption
<1>4. {se < ThresholdDb, se < FloorDb, se >= FloorDb + MarginDb, se >= ThresholdDb,
       se >= ThresholdDb + MarginDb} \subseteq BOOLEAN
  BY LinkAssumption DEF LinkAssumption
<1>5. seen' \in [lastBad : BOOLEAN, badUntil : TimeOrNever, below : TimeOrNever,
                 clear : TimeOrNever, ok : TimeOrNever, good : TimeOrNever]
  BY <1>1, <1>3, <1>4 DEF Watch, SeenOK
<1>6. seen'.badUntil <= t
  BY <1>1, <1>2, LinkAssumption DEF Watch, Time, LinkAssumption
<1>7. seen'.clear <= t
  BY <1>2, <1>3, <1>4 DEF Watch, SeenOK
<1> QED  BY <1>5, <1>6, <1>7 DEF SeenOK

(* The open block after an interval.                                       *)
LEMMA OpenedOK ==
  ASSUME TypeOK, NEW t \in Time, block.start \in Time, block.start <= t, NEW taint \in BOOLEAN
  PROVE  /\ Ends(t) \in Nat
         /\ Opened(t, taint) \in [start : Time, tainted : BOOLEAN]
         /\ Opened(t, taint).start <= t
         /\ t < Opened(t, taint).start + BlockLen
         /\ ~Opened(t, taint).tainted => ~taint
         /\ \/ Opened(t, taint).start >= block.start + BlockLen
            \/ /\ Opened(t, taint).start = block.start
               /\ block.tainted => Opened(t, taint).tainted
<1> DEFINE n == Ends(t)
<1>1. t - block.start \in Nat /\ BlockLen \in Nat \ {0}
  BY LinkAssumption DEF LinkAssumption, Time
<1>2. n \in Nat /\ n * BlockLen <= t - block.start /\ t - block.start < n * BlockLen + BlockLen
  BY <1>1, DivBounds DEF Ends
<1> HIDE DEF n
<1>3. CASE n = 0
  <2>1. Opened(t, taint) = [block EXCEPT !.tainted = @ \/ taint]
    BY <1>3 DEF Opened, n
  <2>2. t < block.start + BlockLen
    BY <1>1, <1>2, <1>3, LinkAssumption DEF Time, LinkAssumption
  <2> QED  BY <1>2, <2>1, <2>2 DEF TypeOK, n
<1>4. CASE n # 0
  <2>1. Opened(t, taint) = [start |-> block.start + n * BlockLen, tainted |-> taint]
    BY <1>4 DEF Opened, StartBlock, n
  <2>2. n * BlockLen \in Nat /\ BlockLen <= n * BlockLen
    BY <1>1, <1>2, <1>4, MultipleAtLeast
  <2>3. block.start + n * BlockLen \in Time
    BY <1>1, <1>2, <2>2, LinkAssumption DEF Time, LinkAssumption
  <2> HIDE DEF n
  <2>4. /\ block.start + n * BlockLen <= t /\ t < block.start + n * BlockLen + BlockLen
        /\ block.start + n * BlockLen >= block.start + BlockLen
    BY <1>1, <1>2, <2>2, LinkAssumption DEF Time, LinkAssumption
  <2> QED  BY <1>2, <2>1, <2>3, <2>4 DEF n
<1> QED  BY <1>3, <1>4

(* A block whose key is kept lies in a clean interval, and if it is the    *)
(* one that was open before, it was clean.                                 *)
LEMMA ClosedOK ==
  ASSUME TypeOK, NEW t \in Time, block.start \in Time, block.start <= t, NEW taint \in BOOLEAN,
         NEW b \in Closed(t, taint), b.fate # "destroyed"
  PROVE  /\ ~taint
         /\ b.start \in Int
         /\ b.start >= block.start + BlockLen \/ (b.start = block.start /\ ~block.tainted)
<1>1. t - block.start \in Nat /\ BlockLen \in Nat \ {0}
  BY LinkAssumption DEF LinkAssumption, Time
<1>2. Ends(t) \in Nat
  BY <1>1, DivBounds DEF Ends
<1>3. PICK i \in 0 .. Ends(t) - 1 :
        b = [start |-> block.start + i * BlockLen, fate |-> Fate(i, taint)]
  BY DEF Closed
<1>4. ~taint /\ (i = 0 => ~block.tainted)
  BY <1>3 DEF Fate
<1>5. CASE i = 0
  BY <1>1, <1>3, <1>4, <1>5, LinkAssumption DEF Time, LinkAssumption
<1>6. CASE i # 0
  <2>1. i \in Nat /\ i * BlockLen \in Nat /\ BlockLen <= i * BlockLen
    BY <1>1, <1>2, <1>6, MultipleAtLeast
  <2> QED  BY <1>1, <1>3, <1>4, <2>1, LinkAssumption DEF Time, LinkAssumption
<1> QED  BY <1>5, <1>6

LEMMA GivableOK ==
  ASSUME TypeOK, NEW lv PROVE Givable(lv) \subseteq 0 .. pool
BY LinkAssumption DEF TypeOK, Givable, LinkAssumption

LEMMA PoolOK ==
  ASSUME TypeOK, NEW t \in Time, block.start \in Time, block.start <= t,
         NEW taint \in BOOLEAN, AccountInterval(t, taint), UNCHANGED partition
  PROVE  pool' \in 0 .. Capacity /\ partitionPool' \in Nat
<1>1. Ends(t) \in Nat
  BY OpenedOK
<1>2. CleanBlocks(t, taint) \in Nat
  BY <1>1 DEF CleanBlocks, TypeOK
<1>3. PICK g \in 0 .. pool :
        IF partition = "main"
        THEN /\ pool' = AtMost(pool - g + CleanBlocks(t, taint), Capacity)
             /\ UNCHANGED partitionPool
        ELSE /\ pool' = pool - g
             /\ partitionPool' = partitionPool + CleanBlocks(t, taint)
  <2>1. PICK g \in IF demand THEN Givable(level) ELSE {0} :
          IF partition = "main"
          THEN /\ pool' = AtMost(pool - g + CleanBlocks(t, taint), Capacity)
               /\ UNCHANGED partitionPool
          ELSE /\ pool' = pool - g
               /\ partitionPool' = partitionPool + CleanBlocks(t, taint)
    BY DEF AccountInterval
  <2>2. g \in 0 .. pool
    BY GivableOK, LinkAssumption DEF TypeOK, LinkAssumption
  <2> QED  BY <2>1, <2>2
<1> QED
  BY <1>2, <1>3, LinkAssumption DEF TypeOK, AtMost, LinkAssumption

-----------------------------------------------------------------------------
(* A reading of a link in service, in one record of its effects.           *)

Reading(se, t, y0Bad, wants, rateOk) ==
  /\ t \in Time /\ now < t /\ now' = t
  /\ Ingest(se, t, y0Bad, wants, rateOk) /\ Watch(se, t, y0Bad)

LEMMA ReadingLevelOK ==
  ASSUME IInv, NEW se \in Int, NEW t, NEW y0Bad \in BOOLEAN, NEW wants \in BOOLEAN,
         NEW rateOk \in BOOLEAN, Reading(se, t, y0Bad, wants, rateOk)
  PROVE  LevelOK'
<1> USE DEF Reading
<1>1. TypeOK /\ SeenOK /\ now \in Time /\ t \in Time /\ now <= t /\ ~suspended
  BY LinkAssumption DEF IInv, LevelOK, TypeOK, Ingest, Time, LinkAssumption
<1>2. SeenOK'
  BY <1>1, WatchOK
<1>3. /\ floor' \in [st : {"COLD", "OK", "SUSPECT", "BLOCKED", "RECOVERING"},
                     since : TimeOrNever]
      /\ egress' \in [hold : {"COLD", "YES", "NO"}, good : TimeOrNever,
                      first : TimeOrNever, last : TimeOrNever]
  BY <1>1, FloorIngestOK, EgressIngestOK DEF Ingest
<1>4. level' \in {"NORMAL", "ADAPT", "HOLD", "BLOCK"}
  BY LevelForOK DEF Ingest
<1>5. /\ block' \in [start : TimeOrNever, tainted : BOOLEAN]
      /\ pool' \in 0 .. Capacity /\ partitionPool' \in Nat
  <2>1. CASE level = "NONE"
    <3> DEFINE taint == level' \notin Releasable \/ y0Bad
    <3>1. block' = [start |-> t, tainted |-> taint] /\ UNCHANGED <<pool, partitionPool>>
      BY <2>1 DEF Ingest, StartBlock
    <3>2. taint \in BOOLEAN
      OBVIOUS
    <3> HIDE DEF taint
    <3> QED  BY <3>1, <3>2, <1>1 DEF TypeOK, TimeOrNever
  <2>2. CASE level # "NONE"
    <3>1. AccountInterval(t, IntervalTainted(level', y0Bad))
      BY <2>2 DEF Ingest
    <3>2. IntervalTainted(level', y0Bad) \in BOOLEAN
      BY DEF IntervalTainted
    <3>3. block.start \in Time /\ block.start <= t
      <4>1. block.start \in Time /\ block.start <= now
        BY <1>1, <2>2 DEF IInv, BlockInv, Observed
      <4> QED  BY <4>1, <1>1, LinkAssumption DEF Time, LinkAssumption
    <3>4. block' \in [start : Time, tainted : BOOLEAN]
      <4>1. block' = Opened(t, IntervalTainted(level', y0Bad))
        BY <3>1 DEF AccountInterval
      <4> QED  BY <4>1, <3>2, <3>3, <1>1, OpenedOK
    <3>5. UNCHANGED partition
      BY DEF Ingest
    <3> QED  BY <3>1, <3>2, <3>3, <3>4, <3>5, <1>1, PoolOK DEF TimeOrNever
  <2> QED  BY <2>1, <2>2
<1>6. TypeOK'
  BY <1>1, <1>3, <1>4, <1>5 DEF TypeOK, Ingest
<1> QED  BY <1>2, <1>4, <1>6 DEF LevelOK

(* The block of a reading.  An interval that is not tainted had a good     *)
(* reading at both ends, so it moves no bad end forward.                   *)
LEMMA ReadingBlockInv ==
  ASSUME IInv, NEW se \in Int, NEW t, NEW y0Bad \in BOOLEAN, NEW wants \in BOOLEAN,
         NEW rateOk \in BOOLEAN, Reading(se, t, y0Bad, wants, rateOk)
  PROVE  BlockInv'
<1> USE DEF Reading
<1>1. TypeOK /\ SeenOK /\ BlockInv /\ now \in Time /\ t \in Time /\ now <= t /\ ~suspended
  BY LinkAssumption DEF IInv, LevelOK, TypeOK, Ingest, Time, LinkAssumption
<1>2. /\ LevelOK' /\ SeenOK' /\ Observed' /\ level' # "SUSPENDED"
  BY ReadingLevelOK, LevelForOK DEF LevelOK, Observed, Ingest
<1>3. /\ se < ThresholdDb => egress'.hold = "YES"
      /\ level' \in Releasable => egress'.hold # "YES"
      /\ seen'.lastBad => se < ThresholdDb
  BY <1>1, EgressIngestOK, LevelForOK DEF Ingest, Watch
<1>4. /\ seen.badUntil <= now /\ seen.badUntil \in Int /\ now \in Int /\ t \in Int
      /\ seen'.badUntil <= t /\ BlockLen \in Nat \ {0}
  BY <1>1, <1>2, LinkAssumption DEF SeenOK, Time, TimeOrNever, Never, LinkAssumption
<1>5. CASE level = "NONE"
  <2>1. block' = [start |-> t, tainted |-> (level' \notin Releasable \/ y0Bad)] /\ closed' = {}
    BY <1>5 DEF Ingest, StartBlock
  <2> QED
    BY <2>1, <1>1, <1>2, <1>3, <1>4 DEF BlockInv, ReleasedBlocksUntouched, Observed
<1>6. CASE level # "NONE"
  <2> DEFINE taint == IntervalTainted(level', y0Bad)
  <2>1. taint \in BOOLEAN /\ block' = Opened(t, taint) /\ closed' = Closed(t, taint)
    BY <1>6 DEF Ingest, AccountInterval, IntervalTainted
  <2>2. /\ block.start \in Time /\ block.start <= now /\ now < block.start + BlockLen
        /\ ~block.tainted => seen.badUntil <= block.start
    BY <1>1, <1>6 DEF BlockInv, Observed
  <2>3. block.start <= t /\ block.start \in Int
    BY <1>1, <2>2, <1>4, LinkAssumption DEF Time, LinkAssumption
  <2>4. ~taint => seen'.badUntil = seen.badUntil
    <3> SUFFICES ASSUME ~taint PROVE seen'.badUntil = seen.badUntil
      OBVIOUS
    <3>1. level \in Releasable /\ level' \in Releasable /\ ~y0Bad
      BY DEF IntervalTainted
    <3>2. ~seen.lastBad /\ ~(se < ThresholdDb)
      BY <3>1, <1>1, <1>3 DEF BlockInv
    <3> QED  BY <3>1, <3>2 DEF Watch
  <2>5. /\ block' \in [start : Time, tainted : BOOLEAN] /\ block'.start <= t
        /\ t < block'.start + BlockLen /\ (~block'.tainted => ~taint)
        /\ \/ block'.start >= block.start + BlockLen
           \/ block'.start = block.start /\ (block.tainted => block'.tainted)
    BY <2>1, <2>2, <2>3, <1>1, OpenedOK
  <2> HIDE DEF taint
  <2>6. ~block'.tainted => seen'.badUntil <= block'.start
    <3>1. block'.start \in Int
      BY <2>5, LinkAssumption DEF Time, LinkAssumption
    <3>2. CASE block'.start >= block.start + BlockLen
      BY <3>1, <3>2, <2>2, <2>3, <2>4, <2>5, <1>4
    <3>3. CASE block'.start = block.start /\ (block.tainted => block'.tainted)
      BY <3>3, <2>2, <2>4, <2>5
    <3> QED  BY <2>5, <3>2, <3>3
  <2>7. ReleasedBlocksUntouched'
    <3> SUFFICES ASSUME NEW b \in closed', b.fate # "destroyed"
                 PROVE  seen'.badUntil <= b.start
      BY DEF ReleasedBlocksUntouched
    <3>1. /\ ~taint /\ b.start \in Int
          /\ b.start >= block.start + BlockLen \/ (b.start = block.start /\ ~block.tainted)
      BY <2>1, <2>2, <2>3, <1>1, ClosedOK
    <3>2. CASE b.start >= block.start + BlockLen
      BY <3>1, <3>2, <2>2, <2>3, <2>4, <1>4
    <3>3. CASE b.start = block.start /\ ~block.tainted
      BY <3>1, <3>3, <2>2, <2>4
    <3> QED  BY <3>1, <3>2, <3>3
  <2> QED  BY <2>5, <2>6, <2>7, <1>2, <1>3 DEF BlockInv
<1> QED  BY <1>5, <1>6

(* The floor's debounce in a reading.                                      *)
LEMMA ReadingFloorInv ==
  ASSUME IInv, NEW se \in Int, NEW t, NEW y0Bad \in BOOLEAN, NEW wants \in BOOLEAN,
         NEW rateOk \in BOOLEAN, Reading(se, t, y0Bad, wants, rateOk)
  PROVE  FloorInv'
<1> USE DEF Reading
<1>1. /\ TypeOK /\ SeenOK /\ FloorInv /\ t \in Int /\ t # Never /\ seen.clear <= t
      /\ {FloorDb, ThresholdDb} \subseteq Int /\ MarginDb \in Nat /\ now \in Int
  BY LinkAssumption
  DEF IInv, LevelOK, TypeOK, SeenOK, Time, TimeOrNever, Never, LinkAssumption
<1>2. /\ FloorIngest(se, t)
      /\ seen'.below = Since(se < FloorDb, seen.below, t)
      /\ seen'.clear = Since(se >= FloorDb + MarginDb, seen.clear, t)
  BY DEF Ingest, Watch
<1>3. floor'.st \in {"BLOCKED", "RECOVERING"} => level' = "BLOCK"
  BY LevelForOK DEF Ingest
<1> USE DEF FloorIngest, FloorInv, Since, MarginOk
<1>4. seen'.below # Never => floor'.st \in {"SUSPECT", "BLOCKED"}
  BY <1>1, <1>2
<1>5. floor'.st = "SUSPECT" => seen'.below # Never /\ seen'.below = floor'.since
  BY <1>1, <1>2
<1>6. floor'.st = "RECOVERING" => seen'.clear # Never /\ seen'.clear <= floor'.since
  BY <1>1, <1>2
<1> QED  BY <1>3, <1>4, <1>5, <1>6

LEMMA ReadingIInv ==
  ASSUME IInv, NEW se \in Int, NEW t, NEW y0Bad \in BOOLEAN, NEW wants \in BOOLEAN,
         NEW rateOk \in BOOLEAN, Reading(se, t, y0Bad, wants, rateOk)
  PROVE  IInv'
BY ReadingLevelOK, ReadingBlockInv, ReadingFloorInv DEF IInv

-----------------------------------------------------------------------------
(* The other steps leave floor, latch and history alone.                   *)

LEMMA SuspendedIInv ==
  ASSUME IInv, NEW t \in Time, now <= t, now' = t, IngestSuspended, UNCHANGED seen
  PROVE  IInv'
<1>1. LevelOK'
  <2>1. seen.badUntil <= t /\ seen.clear <= t
    BY LinkAssumption
    DEF IInv, LevelOK, TypeOK, SeenOK, Time, TimeOrNever, Never, LinkAssumption
  <2>2. SeenOK'  BY <2>1 DEF IInv, LevelOK, SeenOK
  <2>3. TypeOK'  BY DEF IInv, LevelOK, TypeOK, IngestSuspended
  <2> QED  BY <2>2, <2>3 DEF LevelOK, IngestSuspended
<1>2. BlockInv'
  BY DEF IInv, BlockInv, Observed, IngestSuspended, ReleasedBlocksUntouched, Releasable
<1>3. FloorInv'
  BY DEF IInv, FloorInv, Observed, IngestSuspended
<1> QED  BY <1>1, <1>2, <1>3 DEF IInv

LEMMA CallIInv ==
  ASSUME IInv, Call PROVE IInv'
<1>1. UNCHANGED <<now, seen, floor, egress, closed>>
  BY DEF Call, Grant, Suspend, Resume, Quarantine, BackToMain
<1>2. /\ \/ level' = level /\ block' = block /\ suspended' = suspended
         \/ suspended' = TRUE /\ ~suspended /\ level' = level /\ block' = NoBlock
         \/ suspended' = FALSE /\ level' = "NONE" /\ block' = NoBlock
      /\ demand' = demand \/ demand' = FALSE
      /\ partitionPool' = partitionPool \/ partitionPool' = 0
      /\ partition' \in {partition, "main", "quarantine"}
  <2>1. CASE \E g \in Grantable : Grant(g)
    BY <2>1 DEF Grant
  <2>2. CASE Suspend
    BY <2>2 DEF Suspend
  <2>3. CASE Resume
    BY <2>3 DEF Resume
  <2>4. CASE Quarantine \/ BackToMain
    BY <2>4 DEF Quarantine, BackToMain
  <2> QED  BY <2>1, <2>2, <2>3, <2>4 DEF Call
<1>3. pool' \in 0 .. Capacity
  <2>1. CASE \E g \in Grantable : Grant(g)
    <3>1. PICK g \in Grantable : Grant(g)
      BY <2>1
    <3>2. Grantable \subseteq 0 .. pool
      BY GivableOK, LinkAssumption DEF Grantable, IInv, LevelOK, TypeOK, LinkAssumption
    <3> QED  BY <3>1, <3>2, LinkAssumption DEF Grant, IInv, LevelOK, TypeOK, LinkAssumption
  <2>2. CASE Suspend \/ Resume \/ Quarantine \/ BackToMain
    BY <2>2, LinkAssumption
    DEF Suspend, Resume, Quarantine, BackToMain, IInv, LevelOK, TypeOK, LinkAssumption
  <2> QED  BY <2>1, <2>2 DEF Call
<1>4. LevelOK'
  <2>1. SeenOK'  BY <1>1 DEF IInv, LevelOK, SeenOK
  <2>2. NoBlock \in [start : TimeOrNever, tainted : BOOLEAN]
    BY DEF NoBlock, TimeOrNever
  <2>3. block' \in [start : TimeOrNever, tainted : BOOLEAN] /\ suspended' \in BOOLEAN
        /\ level' \in {"NONE", "NORMAL", "ADAPT", "HOLD", "BLOCK", "SUSPENDED"}
    BY <1>2, <2>2 DEF IInv, LevelOK, TypeOK
  <2>4. demand' \in BOOLEAN
    BY <1>2 DEF IInv, LevelOK, TypeOK
  <2>5. TypeOK'  BY <1>1, <1>2, <1>3, <2>3, <2>4 DEF IInv, LevelOK, TypeOK
  <2> QED  BY <1>2, <2>1, <2>5 DEF IInv, LevelOK
<1>5. BlockInv'
  BY <1>1, <1>2 DEF IInv, BlockInv, Observed, ReleasedBlocksUntouched, Releasable
<1>6. FloorInv'
  BY <1>1, <1>2 DEF IInv, FloorInv, Observed
<1> QED  BY <1>4, <1>5, <1>6 DEF IInv

-----------------------------------------------------------------------------
LEMMA InitIInv == Init => IInv
<1> SUFFICES ASSUME Init PROVE IInv
  OBVIOUS
<1> USE LinkAssumption DEF Init
<1>1. LevelOK
  <2>1. TypeOK
    <3>1. Never \in TimeOrNever /\ 0 \in Time /\ {0, Capacity} \subseteq 0 .. Capacity
      BY DEF LinkAssumption, Time, TimeOrNever
    <3>2. egress = [hold |-> "COLD", good |-> Never, first |-> Never, last |-> Never]
      BY DEF LatchOpen
    <3>3. floor \in [st : {"COLD", "OK", "SUSPECT", "BLOCKED", "RECOVERING"},
                      since : TimeOrNever]
      BY ONLY <3>1, Init DEF Init
    <3>4. egress \in [hold : {"COLD", "YES", "NO"}, good : TimeOrNever,
                      first : TimeOrNever, last : TimeOrNever]
      BY ONLY <3>1, <3>2
    <3>5. block \in [start : TimeOrNever, tainted : BOOLEAN]
      BY ONLY <3>1, Init DEF Init, NoBlock
    <3>6. pool \in 0 .. Capacity /\ now \in Time
      BY ONLY <3>1, Init DEF Init
    <3> QED  BY ONLY <3>3, <3>4, <3>5, <3>6, Init DEF Init, TypeOK
  <2>2. SeenOK
    BY DEF SeenOK, TimeOrNever, Never
  <2> QED  BY <2>1, <2>2 DEF LevelOK
<1>2. BlockInv
  BY DEF BlockInv, Observed, ReleasedBlocksUntouched, Releasable
<1>3. FloorInv
  BY DEF FloorInv, Observed
<1> QED  BY <1>1, <1>2, <1>3 DEF IInv

(* A step of Next is a reading, one of a suspended link, or a call.        *)
LEMMA NextCases ==
  ASSUME IInv, Next
  PROVE  \/ \E se \in Int, t \in Int, y0Bad \in BOOLEAN, wants \in BOOLEAN, rateOk \in BOOLEAN :
               Reading(se, t, y0Bad, wants, rateOk)
         \/ now' \in Time /\ now <= now' /\ IngestSuspended /\ UNCHANGED seen
         \/ Call
<1> SUFFICES ASSUME ~Call
             PROVE  \/ \E se \in Int, t \in Int, y0Bad \in BOOLEAN, wants \in BOOLEAN,
                            rateOk \in BOOLEAN : Reading(se, t, y0Bad, wants, rateOk)
                    \/ now' \in Time /\ now <= now' /\ IngestSuspended /\ UNCHANGED seen
  OBVIOUS
<1>1. PICK gap \in Gaps : Read(gap)
  BY DEF Next
<1>2. now' \in Time /\ now < now' /\ now <= now' /\ now' \in Int
  BY <1>1, LinkAssumption DEF Read, IInv, LevelOK, TypeOK, Time, LinkAssumption
<1>3. SE \subseteq Int
  BY LinkAssumption DEF LinkAssumption
<1> QED  BY <1>1, <1>2, <1>3 DEF Read, Reading

LEMMA StepIInv == IInv /\ [Next]_vars => IInv'
<1> SUFFICES ASSUME IInv, [Next]_vars PROVE IInv'
  OBVIOUS
<1>1. CASE Next
  <2>1. CASE Call
    BY <2>1, CallIInv
  <2>2. CASE now' \in Time /\ now <= now' /\ IngestSuspended /\ UNCHANGED seen
    <3>1. PICK t \in Time : t = now'
      BY <2>2
    <3> QED  BY <2>2, <3>1, SuspendedIInv
  <2>3. CASE \E se \in Int, t \in Int, y0Bad \in BOOLEAN, wants \in BOOLEAN, rateOk \in BOOLEAN :
               Reading(se, t, y0Bad, wants, rateOk)
    BY <2>3, ReadingIInv
  <2> QED  BY <1>1, <2>1, <2>2, <2>3, NextCases
<1>2. CASE UNCHANGED vars
  BY <1>2
  DEF vars, linkState, IInv, LevelOK, TypeOK, SeenOK, BlockInv, FloorInv, Observed,
      ReleasedBlocksUntouched
<1> QED  BY <1>1, <1>2

(* Blocks, debounce and latch follow the readings as the three arguments   *)
(* say, in every state the mitigation of a link can reach.                 *)
THEOREM InvariantHolds == Spec => []IInv
BY InitIInv, StepIInv, PTL DEF Spec

(* No key of a block that a bad reading touches is released.               *)
THEOREM BlocksUntouched == Spec => []ReleasedBlocksUntouched
<1>1. IInv => ReleasedBlocksUntouched
  BY DEF IInv, BlockInv
<1> QED  BY <1>1, InvariantHolds, PTL

-----------------------------------------------------------------------------
(* A block of the floor is not lifted early.                               *)

UnblocksLate ==
  (floor.st \in {"BLOCKED", "RECOVERING"} /\ floor'.st \notin {"BLOCKED", "RECOVERING"})
    => seen'.clear # Never /\ now' - seen'.clear >= Recovery

LEMMA StepUnblocksLate ==
  ASSUME IInv, [Next]_vars PROVE UnblocksLate
<1> SUFFICES ASSUME floor.st \in {"BLOCKED", "RECOVERING"},
                    floor'.st \notin {"BLOCKED", "RECOVERING"}
             PROVE  seen'.clear # Never /\ now' - seen'.clear >= Recovery
  BY DEF UnblocksLate
<1>1. PICK se \in Int, t \in Int, y0Bad \in BOOLEAN, wants \in BOOLEAN, rateOk \in BOOLEAN :
        Reading(se, t, y0Bad, wants, rateOk)
  <2>1. floor' # floor
    OBVIOUS
  <2>2. ~Call /\ ~IngestSuspended /\ ~UNCHANGED vars
    BY <2>1 DEF Call, Grant, Suspend, Resume, Quarantine, BackToMain, IngestSuspended, vars,
                linkState
  <2> QED  BY <2>2, NextCases
<1>2. /\ floor.st = "RECOVERING" /\ se >= FloorDb + MarginDb
      /\ t - floor.since >= Recovery
  BY <1>1 DEF Reading, Ingest, FloorIngest, Elapsed, MarginOk
<1>3. seen.clear # Never /\ seen.clear <= floor.since
  BY <1>2 DEF IInv, FloorInv
<1>4. seen'.clear = seen.clear /\ now' = t
  BY <1>1, <1>2, <1>3 DEF Reading, Watch, Since
<1>5. /\ seen.clear \in Int /\ floor.since \in Int /\ Recovery \in Int
  BY LinkAssumption
  DEF IInv, LevelOK, TypeOK, SeenOK, TimeOrNever, Time, Never, LinkAssumption
<1> QED  BY <1>2, <1>3, <1>4, <1>5

(* The floor's block ends only after recoveryHysteresisMs of good readings. *)
THEOREM UnblocksOnlyLate == Spec => NoEarlyUnblock
<1>1. IInv /\ [Next]_vars => [UnblocksLate]_vars
  BY StepUnblocksLate
<1> QED  BY <1>1, InvariantHolds, PTL DEF Spec, NoEarlyUnblock, UnblocksLate

-----------------------------------------------------------------------------
(* A lasting breach blocks.                                                *)

(* A suspicion in force is younger than debounceMs.                        *)
SuspicionInv ==
  Observed /\ floor.st = "SUSPECT" => now - floor.since < Debounce

LEMMA SuspicionStep ==
  ASSUME Debounce # 0, IInv, SuspicionInv, [Next]_vars PROVE SuspicionInv'
<1>1. CASE \E se \in Int, t \in Int, y0Bad \in BOOLEAN, wants \in BOOLEAN, rateOk \in BOOLEAN :
             Reading(se, t, y0Bad, wants, rateOk)
  <2>1. PICK se \in Int, t \in Int, y0Bad \in BOOLEAN, wants \in BOOLEAN, rateOk \in BOOLEAN :
          Reading(se, t, y0Bad, wants, rateOk)
    BY <1>1
  <2>2. FloorIngest(se, t) /\ now' = t
    BY <2>1 DEF Reading, Ingest
  <2>3. Debounce \in Nat \ {0} /\ (floor.since \in Int)
    BY LinkAssumption
    DEF LinkAssumption, IInv, LevelOK, TypeOK, TimeOrNever, Time, Never
  <2> QED  BY <2>2, <2>3 DEF FloorIngest, SuspicionInv, Elapsed
<1>2. CASE IngestSuspended
  BY <1>2 DEF IngestSuspended, SuspicionInv, Observed
<1>3. CASE Call
  BY <1>3 DEF Call, Grant, Suspend, Resume, Quarantine, BackToMain, SuspicionInv, Observed
<1>4. CASE UNCHANGED vars
  BY <1>4 DEF vars, linkState, SuspicionInv, Observed
<1> QED  BY <1>1, <1>2, <1>3, <1>4, NextCases

(* Every debounceMs of readings below the floor end in BLOCK, provided the *)
(* debounce is not zero: then the first bad reading is one of suspicion.   *)
THEOREM BreachBlocks ==
  ASSUME Debounce # 0 PROVE Spec => []SustainedBreachBlocks
<1>1. Init => SuspicionInv
  BY DEF Init, SuspicionInv, Observed
<1>2. IInv /\ SuspicionInv /\ [Next]_vars => SuspicionInv'
  BY SuspicionStep
<1>3. IInv /\ SuspicionInv => SustainedBreachBlocks
  <2> SUFFICES ASSUME IInv, SuspicionInv, Observed, seen.below # Never,
                      now - seen.below >= Debounce
               PROVE  level = "BLOCK"
    BY DEF SustainedBreachBlocks, Observed
  <2>1. Debounce \in Int /\ now \in Int /\ seen.below \in Int
    BY LinkAssumption
    DEF LinkAssumption, IInv, LevelOK, TypeOK, SeenOK, TimeOrNever, Time, Never
  <2>2. floor.st # "SUSPECT"
    BY <2>1 DEF IInv, FloorInv, SuspicionInv
  <2> QED  BY <2>2 DEF IInv, FloorInv
<1> QED  BY <1>1, <1>2, <1>3, InvariantHolds, PTL DEF Spec

-----------------------------------------------------------------------------
(* A healthy link recovers.                                                *)

RecoveryOK ==
  /\ seen.good <= now /\ seen.ok <= now
  /\ floor.since <= now /\ egress.good <= now

(* While the readings are good the floor is fine or on its way back since  *)
(* no later than they are; a recovery in force has not lasted its time.    *)
WayBackInv ==
  /\ seen.good # Never => floor.st = "OK" \/ (floor.st = "RECOVERING" /\ floor.since <= seen.good)
  /\ Observed /\ floor.st = "RECOVERING" => now - floor.since < Recovery

(* A latch that holds counts the good readings, with the margin its        *)
(* episode asks for, and has not counted enough of them.                   *)
LatchInv ==
  /\ Observed => egress.hold # "COLD"
  /\ egress.hold = "YES" /\ seen.good # Never =>
       egress.good # Never /\ egress.good <= seen.good
  /\ egress.hold = "YES" /\ seen.ok # Never /\ TransientEpisode =>
       egress.good # Never /\ egress.good <= seen.ok
  /\ Observed /\ egress.hold = "YES" /\ egress.good # Never =>
       now - egress.good < RequiredRecovery

RInv == RecoveryOK /\ WayBackInv /\ LatchInv

LEMMA TimesAreInt ==
  ASSUME IInv
  PROVE  /\ now \in Int /\ 0 <= now /\ floor.since \in Int /\ seen.good \in Int /\ seen.ok \in Int
         /\ egress.good \in Int /\ egress.first \in Int /\ egress.last \in Int
         /\ Debounce \in Nat /\ Recovery \in Nat /\ MarginDb \in Nat
         /\ FloorDb \in Int /\ ThresholdDb \in Int
         /\ egress.hold \in {"COLD", "YES", "NO"}
         /\ egress = [hold |-> egress.hold, good |-> egress.good, first |-> egress.first,
                      last |-> egress.last]
BY LinkAssumption
DEF IInv, LevelOK, TypeOK, SeenOK, TimeOrNever, Time, Never, LinkAssumption

LEMMA ReadingRInv ==
  ASSUME FloorDb <= ThresholdDb, Recovery # 0, IInv, RInv,
         NEW se \in Int, NEW t \in Int, NEW y0Bad \in BOOLEAN, NEW wants \in BOOLEAN,
         NEW rateOk \in BOOLEAN, Reading(se, t, y0Bad, wants, rateOk)
  PROVE  RInv'
<1>1. /\ FloorIngest(se, t) /\ EgressIngest(se, t) /\ now' = t /\ now < t
      /\ seen'.ok = Since(se >= ThresholdDb, seen.ok, t)
      /\ seen'.good = Since(se >= ThresholdDb + MarginDb, seen.good, t)
  BY DEF Reading, Ingest, Watch
<1> USE TimesAreInt
<1>2. RecoveryOK'
  <2>1. seen'.good <= t /\ seen'.ok <= t
    BY <1>1 DEF RInv, RecoveryOK, Since, Never
  <2>2. floor'.since <= t
    BY <1>1 DEF RInv, RecoveryOK, FloorIngest, Never
  <2>3. egress'.good <= t
    BY <1>1 DEF RInv, RecoveryOK, EgressIngest, LatchOpen, Never
  <2> QED  BY <1>1, <2>1, <2>2, <2>3 DEF RecoveryOK
<1>3. WayBackInv'
  <2>1. seen'.good # Never =>
          floor'.st = "OK" \/ (floor'.st = "RECOVERING" /\ floor'.since <= seen'.good)
    <3> SUFFICES ASSUME seen'.good # Never
                 PROVE  floor'.st = "OK" \/ (floor'.st = "RECOVERING" /\ floor'.since <= seen'.good)
      OBVIOUS
    <3>1. se >= FloorDb /\ MarginOk(se) /\ se >= ThresholdDb + MarginDb
      BY <1>1 DEF Since, MarginOk
    <3>2. seen'.good = IF seen.good = Never THEN t ELSE seen.good
      BY <1>1, <3>1 DEF Since
    <3>3. floor.since <= t
      BY <1>1 DEF RInv, RecoveryOK
    <3> QED  BY <1>1, <3>1, <3>2, <3>3 DEF FloorIngest, RInv, WayBackInv
  <2>2. floor'.st = "RECOVERING" => t - floor'.since < Recovery
    BY <1>1 DEF FloorIngest, Elapsed
  <2> QED  BY <1>1, <2>1, <2>2 DEF WayBackInv
<1>4. LatchInv'
  <2>1. egress'.hold # "COLD"
    BY <1>1 DEF EgressIngest, LatchOpen
  <2>2. CASE egress'.hold # "YES"
    BY <2>1, <2>2 DEF LatchInv
  <2>3. CASE egress'.hold = "YES" /\ se < ThresholdDb
    <3>1. egress'.good = Never /\ seen'.ok = Never /\ seen'.good = Never
      BY <1>1, <2>3 DEF EgressIngest, Since
    <3> QED  BY <2>1, <3>1 DEF LatchInv
  <2>4. CASE egress'.hold = "YES" /\ ~(se < ThresholdDb)
    <3> DEFINE since == IF egress.good = Never THEN t ELSE egress.good
    <3>1. /\ egress.hold = "YES" /\ se >= ThresholdDb
          /\ \/ se < ThresholdDb + RequiredMargin /\ egress' = [egress EXCEPT !.good = Never]
             \/ /\ se >= ThresholdDb + RequiredMargin /\ ~(t - since >= RequiredRecovery)
                /\ egress' = [egress EXCEPT !.good = since]
      BY <1>1, <2>4 DEF EgressIngest, Elapsed, LatchOpen, RequiredMargin
    <3>2. egress'.first = egress.first /\ egress'.last = egress.last
      BY <3>1
    <3>3. (TransientEpisode' <=> TransientEpisode) /\ RequiredRecovery' = RequiredRecovery
      BY <3>2 DEF TransientEpisode, RequiredRecovery
    <3>4. RequiredRecovery \in Nat /\ RequiredMargin \in Nat /\ RequiredMargin <= MarginDb
          /\ (TransientEpisode => RequiredMargin = 0)
      BY DEF RequiredRecovery, RequiredMargin
    <3>5. since \in Int /\ since <= t /\ since # Never
      BY <1>1 DEF RInv, RecoveryOK, Never
    <3>6. egress'.good = Never \/ (egress'.good = since /\ t - since < RequiredRecovery)
      BY <3>1, <3>4, <3>5
    <3>7. seen'.good # Never => egress'.good # Never /\ egress'.good <= seen'.good
      <4> SUFFICES ASSUME seen'.good # Never
                   PROVE  egress'.good # Never /\ egress'.good <= seen'.good
        OBVIOUS
      <4>1. se >= ThresholdDb + MarginDb
        BY <1>1 DEF Since
      <4>2. egress'.good = since
        BY <3>1, <3>4, <4>1
      <4>3. seen'.good = IF seen.good = Never THEN t ELSE seen.good
        BY <1>1, <4>1 DEF Since
      <4>4. since <= seen'.good
        BY <3>1, <3>5, <4>3 DEF RInv, LatchInv
      <4> QED  BY <3>5, <4>2, <4>4
    <3>8. seen'.ok # Never /\ TransientEpisode => egress'.good # Never /\ egress'.good <= seen'.ok
      <4> SUFFICES ASSUME seen'.ok # Never, TransientEpisode
                   PROVE  egress'.good # Never /\ egress'.good <= seen'.ok
        OBVIOUS
      <4>1. egress'.good = since
        BY <3>1, <3>4
      <4>2. seen'.ok = IF seen.ok = Never THEN t ELSE seen.ok
        BY <1>1, <3>1 DEF Since
      <4>3. since <= seen'.ok
        BY <3>1, <3>5, <4>2 DEF RInv, LatchInv
      <4> QED  BY <3>5, <4>1, <4>3
    <3> HIDE DEF since
    <3> QED  BY <1>1, <2>1, <3>3, <3>5, <3>6, <3>7, <3>8 DEF LatchInv
  <2> QED  BY <2>2, <2>3, <2>4
<1> QED  BY <1>2, <1>3, <1>4 DEF RInv

LEMMA StepRInv ==
  ASSUME FloorDb <= ThresholdDb, Recovery # 0, IInv, RInv, [Next]_vars
  PROVE  RInv'
<1>1. CASE \E se \in Int, t \in Int, y0Bad \in BOOLEAN, wants \in BOOLEAN, rateOk \in BOOLEAN :
             Reading(se, t, y0Bad, wants, rateOk)
  BY <1>1, ReadingRInv
<1>2. CASE now' \in Time /\ now <= now' /\ IngestSuspended /\ UNCHANGED seen
  <2>1. RecoveryOK'
    <3>1. now' \in Int
      BY <1>2, LinkAssumption DEF Time, LinkAssumption
    <3> QED  BY <1>2, <3>1, TimesAreInt DEF RInv, RecoveryOK, IngestSuspended
  <2> QED  BY <1>2, <2>1 DEF RInv, WayBackInv, LatchInv, Observed, IngestSuspended, TransientEpisode
<1>3. CASE Call
  <2>1. UNCHANGED <<now, seen, floor, egress>> /\ (Observed' => Observed)
    BY <1>3 DEF Call, Grant, Suspend, Resume, Quarantine, BackToMain, Observed
  <2> QED  BY <2>1 DEF RInv, RecoveryOK, WayBackInv, LatchInv, TransientEpisode, RequiredRecovery
<1>4. CASE UNCHANGED vars
  <2>1. UNCHANGED <<now, seen, floor, egress>> /\ (Observed' => Observed)
    BY <1>4 DEF vars, linkState, Observed
  <2> QED  BY <2>1 DEF RInv, RecoveryOK, WayBackInv, LatchInv, TransientEpisode, RequiredRecovery
<1> QED  BY <1>1, <1>2, <1>3, <1>4, NextCases

(* Debounce and latch let go of a healthy link, if the floor is not above  *)
(* the egress threshold, recovery takes time, and a transient episode does *)
(* not ask for more of it than a lasting one.                              *)
THEOREM LinkRecovers ==
  ASSUME FloorDb <= ThresholdDb, Recovery # 0, Debounce <= Recovery
  PROVE  Spec => []HealthyLinkRecovers
<1>1. Init => RInv
  BY LinkAssumption
  DEF Init, RInv, RecoveryOK, WayBackInv, LatchInv, Observed, LatchOpen, Never
<1>2. IInv /\ RInv /\ [Next]_vars => RInv'
  BY StepRInv
<1>3. IInv /\ RInv => HealthyLinkRecovers
  <2> SUFFICES ASSUME IInv, RInv, Observed
               PROVE  /\ (seen.good # Never /\ now - seen.good >= Recovery) => MayRetune(floor, egress)
                      /\ (seen.ok # Never /\ now - seen.ok >= Debounce /\ TransientEpisode)
                           => egress.hold = "NO"
    BY DEF HealthyLinkRecovers, Observed
  <2> USE TimesAreInt
  <2>1. RequiredRecovery <= Recovery /\ RequiredRecovery \in Nat
        /\ (TransientEpisode => RequiredRecovery = Debounce)
    BY DEF RequiredRecovery
  <2>2. ASSUME seen.good # Never, now - seen.good >= Recovery
        PROVE  MayRetune(floor, egress)
    <3>1. floor.st = "OK"
      BY <2>2 DEF RInv, WayBackInv
    <3>2. egress.hold # "YES"
      BY <2>1, <2>2 DEF RInv, LatchInv
    <3>3. egress.hold = "NO"
      BY <3>2 DEF RInv, LatchInv
    <3> QED  BY <3>1, <3>3 DEF MayRetune
  <2>3. ASSUME seen.ok # Never, now - seen.ok >= Debounce, TransientEpisode
        PROVE  egress.hold = "NO"
    <3>1. egress.hold # "YES"
      BY <2>1, <2>3 DEF RInv, LatchInv
    <3> QED  BY <3>1 DEF RInv, LatchInv
  <2> QED  BY <2>2, <2>3
<1> QED  BY <1>1, <1>2, <1>3, InvariantHolds, PTL DEF Spec
=============================================================================
