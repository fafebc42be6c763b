-------------------------- MODULE MeshIsolationProofs --------------------------
(***************************************************************************)
(* Proofs about the quarantine and the optical bypass, for any set of      *)
(* suspects, neighbours included.                                          *)
(***************************************************************************)
EXTENDS MeshIsolation, FiniteSetTheorems, TLAPS

Kind == {"revoked", "good"}
Phase == {"NONE", "SWITCHING", "ACTIVE", "REVERTING"}
Bypass == [phase : Phase, left : Nat, pairs : SUBSET Link, up : BOOLEAN]
Block == [age : 0..BlockTicks - 1, kinds : SUBSET Kind]

TypeOK ==
  /\ state \in [Node -> {"CLEAR", "QUARANTINED", "PROBATION"}]
  /\ cleanFor \in [Node -> 0..NoTime]
  /\ bypass \in [Node -> Bypass]
  /\ exists \subseteq Link /\ on \subseteq Link /\ apart \subseteq Link
  /\ pool \in [Link -> SUBSET Kind]
  /\ block \in [Link -> Block]
  /\ todo \in 1..Len(Order) + 1
  /\ seen \in [Node -> [bad : BOOLEAN, clean : 0..Probation + 1, byOperator : BOOLEAN]]

(* A bypass joins neighbours of its node that have no fibre between them,  *)
(* and only suspects have one.                                             *)
PlansHold ==
  \A n \in Node :
    /\ bypass[n].phase = "NONE" => bypass[n].pairs = {}
    /\ bypass[n].pairs # {} => n \in Suspect
    /\ \A p \in bypass[n].pairs : p \notin Real /\ \A m \in p : {m, n} \in Real

BaseInv == TypeOK /\ PlansHold

-----------------------------------------------------------------------------
(* The constants and the links.                                            *)

LEMMA ConstantTypes ==
  /\ Probation \in Nat \ {0} /\ Reconfig \in Nat /\ BlockTicks \in Nat \ {0}
  /\ NoTime = Probation + 1
  /\ Len(Order) \in Nat /\ DOMAIN Order = 1..Len(Order)
  /\ \A i \in DOMAIN Order : Order[i] \in Suspect
  /\ Suspect \subseteq Node
BY MeshAssumption DEF NoTime, Suspect

LEMMA PairIsLink ==
  ASSUME NEW m \in Node, NEW n \in Node, m # n
  PROVE  {m, n} \in Link
<1>1. IsFiniteSet({m}) /\ Cardinality({m}) = 1
  BY FS_Singleton
<1>2. Cardinality({m} \cup {n}) = 2
  BY <1>1, FS_AddElement
<1>3. {m} \cup {n} = {m, n}
  OBVIOUS
<1>4. QED
  BY <1>2, <1>3 DEF Link

LEMMA RealLinks == Real \subseteq Link
<1>1. SUFFICES ASSUME NEW f \in Fibre PROVE {f[1], f[2]} \in Link
  BY DEF Real
<1>2. f[1] \in Node /\ f[2] \in Node /\ f[1] # f[2]
  BY MeshAssumption
<1>3. QED
  BY <1>2, PairIsLink

LEMMA RealEnds ==
  ASSUME NEW l \in Real, NEW m \in l, NEW n \in l, m # n
  PROVE  l = {m, n}
BY DEF Real

LEMMA NeighboursReal ==
  ASSUME NEW n \in Node, NEW m \in Neighbours(n)
  PROVE  m \in Node /\ m # n /\ {m, n} \in Real
BY DEF Neighbours

LEMMA PlansAreLinks ==
  ASSUME NEW n \in Node, NEW pairs \in Plans(n)
  PROVE  /\ pairs \subseteq Link
         /\ \A p \in pairs : p \notin Real /\ \A m \in p : {m, n} \in Real
<1>1. ASSUME NEW p \in pairs
      PROVE  p \subseteq Neighbours(n) /\ Cardinality(p) = 2 /\ p \notin Real
  BY DEF Plans
<1>2. Neighbours(n) \subseteq Node
  BY DEF Neighbours
<1>3. QED
  BY <1>1, <1>2, NeighboursReal DEF Link

LEMMA FibresReal ==
  ASSUME NEW n, NEW pairs, \A p \in pairs : \A m \in p : {m, n} \in Real
  PROVE  FibresOf(n, pairs) \subseteq Touching(n)
<1>1. SUFFICES ASSUME NEW m \in UNION pairs PROVE {n, m} \in Real
  BY DEF FibresOf, Touching
<1>2. {m, n} = {n, m}
  OBVIOUS
<1>3. QED
  BY <1>2

-----------------------------------------------------------------------------
(* What a visit does, case by case.                                        *)

Sets(n, s, since) ==
  state' = [state EXCEPT ![n] = s] /\ cleanFor' = [cleanFor EXCEPT ![n] = since]

Suspected(n) == state[n] # "QUARANTINED" /\ Sets(n, "QUARANTINED", NoTime) /\ EnterQuarantine(n)
StillBad(n)  == state[n] = "QUARANTINED" /\ Sets(n, "QUARANTINED", NoTime) /\ NoEffect
Unseen(n)    == state[n] = "CLEAR" /\ UNCHANGED <<state, cleanFor>> /\ NoEffect
Waits(n, e)  == /\ state[n] # "CLEAR" /\ CleanTime(n, e) # Probation /\ ~Triggers(n, e)
                /\ Sets(n, state[n], CleanTime(n, e)) /\ NoEffect
Released(n, e) == /\ state[n] = "QUARANTINED" /\ CleanTime(n, e) = Probation /\ ~Triggers(n, e)
                  /\ Sets(n, "PROBATION", 0) /\ EnterProbation(n)
Cleared(n)   == state[n] = "PROBATION" /\ Sets(n, "CLEAR", NoTime) /\ NoEffect

Visited(n, e) ==
  \/ Suspected(n) \/ StillBad(n) \/ Unseen(n)
  \/ Waits(n, e) \/ Released(n, e) \/ Cleared(n)

LEMMA ObserveCases ==
  ASSUME NEW n, NEW e, Observe(n, e)
  PROVE  Visited(n, e)
BY Zenon DEF Observe, Visited, Suspected, StillBad, Unseen, Waits, Released, Cleared, Sets

LEMMA VisitCases ==
  ASSUME TypeOK, Visit
  PROVE  /\ todo \in DOMAIN Order /\ todo' = todo + 1 /\ UNCHANGED <<exists, lit>>
         /\ \E e \in Evidence(Order[todo]) : Visited(Order[todo], e) /\ Watch(Order[todo], e)
<1>1. todo \in 1..Len(Order)
  BY ConstantTypes DEF TypeOK, Visit
<1>2. QED
  BY <1>1, ObserveCases, ConstantTypes DEF Visit

LEMMA CleanTimeType ==
  ASSUME TypeOK, NEW n \in Node, NEW e
  PROVE  CleanTime(n, e) \in 0..NoTime
BY ConstantTypes DEF TypeOK, CleanTime, Tick

Ends == {l \in on : Aged(l).age = BlockTicks}
KindOf(l) == IF "revoked" \in Aged(l).kinds THEN "revoked" ELSE "good"

LEMMA EndOfTickEffect ==
  ASSUME EndOfTick
  PROVE  /\ block' = [l \in Link |-> IF l \in on \ Ends THEN Aged(l) ELSE NewBlock]
         /\ pool' = [l \in Link |-> IF l \in Ends \ apart THEN pool[l] \cup {KindOf(l)}
                                    ELSE pool[l]]
BY DEF EndOfTick, Ends, KindOf
-----------------------------------------------------------------------------
(* Types, and whose pairs a bypass joins.                                  *)

LEMMA RecordTypes ==
  /\ NoBypass \in Bypass /\ NewBlock \in Block
  /\ \A r \in Bypass, k \in Nat : [r EXCEPT !.left = k] \in Bypass
  /\ \A r \in Bypass, k \in Nat : [r EXCEPT !.phase = "REVERTING", !.left = k] \in Bypass
  /\ \A r \in Bypass : [r EXCEPT !.phase = "ACTIVE", !.up = TRUE] \in Bypass
  /\ \A r \in Block : [r EXCEPT !.kinds = @ \cup {"revoked"}] \in Block
<1>1. NoBypass \in Bypass /\ NewBlock \in Block
  BY ConstantTypes DEF NoBypass, NewBlock, Bypass, Block, Phase
<1>2. ASSUME NEW r \in Bypass, NEW k \in Nat
      PROVE  /\ [r EXCEPT !.left = k] \in Bypass
             /\ [r EXCEPT !.phase = "REVERTING", !.left = k] \in Bypass
             /\ [r EXCEPT !.phase = "ACTIVE", !.up = TRUE] \in Bypass
  BY DEF Bypass, Phase
<1>3. ASSUME NEW r \in Block PROVE [r EXCEPT !.kinds = @ \cup {"revoked"}] \in Block
  BY DEF Block, Kind
<1>4. QED
  BY <1>1, <1>2, <1>3

LEMMA BaseInit == Init => BaseInv
<1> SUFFICES ASSUME Init PROVE BaseInv
  OBVIOUS
<1>1. TypeOK
  <2>1. /\ state \in [Node -> {"CLEAR", "QUARANTINED", "PROBATION"}]
        /\ cleanFor \in [Node -> 0..NoTime] /\ todo \in 1..Len(Order) + 1
    BY ConstantTypes DEF Init
  <2>2. bypass \in [Node -> Bypass] /\ block \in [Link -> Block]
    BY RecordTypes DEF Init
  <2>3. pool \in [Link -> SUBSET Kind]
    BY DEF Init, Kind
  <2>4. seen \in [Node -> [bad : BOOLEAN, clean : 0..Probation + 1, byOperator : BOOLEAN]]
    BY ConstantTypes DEF Init
  <2>5. QED
    BY <2>1, <2>2, <2>3, <2>4, RealLinks DEF Init, TypeOK
<1>2. PlansHold
  BY DEF Init, PlansHold, NoBypass
<1>3. QED
  BY <1>1, <1>2 DEF BaseInv

LEMMA EnterQuarantineBase ==
  ASSUME BaseInv, NEW n \in Suspect, EnterQuarantine(n)
  PROVE  /\ bypass' \in [Node -> Bypass]
         /\ on' \subseteq Link /\ apart' \subseteq Link
         /\ pool' \in [Link -> SUBSET Kind]
         /\ block' \in [Link -> Block]
         /\ PlansHold'
<1> USE DEF BaseInv, TypeOK
<1>0. n \in Node
  BY ConstantTypes
<1>1. PICK pairs \in IF NoneYet(n) THEN Plans(n) ELSE {{}} :
        /\ on' = on \ FibresOf(n, pairs)
        /\ block' = [l \in Link |->
             IF l \in FibresOf(n, pairs) THEN NewBlock
             ELSE IF n \in l /\ l \in on THEN [block[l] EXCEPT !.kinds = @ \cup {"revoked"}]
             ELSE block[l]]
        /\ bypass' = IF pairs = {} THEN bypass
                     ELSE [bypass EXCEPT ![n] = [phase |-> "SWITCHING", left |-> Reconfig,
                                                 pairs |-> pairs, up |-> FALSE]]
  BY DEF EnterQuarantine
<1>2. /\ pairs \subseteq Link
      /\ \A p \in pairs : p \notin Real /\ \A m \in p : {m, n} \in Real
  BY <1>0, <1>1, PlansAreLinks
<1>3. bypass' \in [Node -> Bypass]
  BY <1>0, <1>1, <1>2, ConstantTypes DEF Phase, Bypass
<1>4. apart' \subseteq Link
  BY RealLinks DEF EnterQuarantine, Partitioned, Touching
<1>5. pool' \in [Link -> SUBSET Kind]
  BY DEF EnterQuarantine, PoolsAfterQuarantine, Kind
<1>6. block' \in [Link -> Block]
  <2>1. ASSUME NEW l \in Link
        PROVE  [block[l] EXCEPT !.kinds = @ \cup {"revoked"}]
                 \in Block
    BY RecordTypes
  <2>2. NewBlock \in Block
    BY RecordTypes
  <2>3. QED
    BY <1>1, <2>1, <2>2
<1>7. PlansHold'
  <2> SUFFICES ASSUME NEW m \in Node
               PROVE  /\ bypass'[m].phase = "NONE" => bypass'[m].pairs = {}
                      /\ bypass'[m].pairs # {} => m \in Suspect
                      /\ \A p \in bypass'[m].pairs :
                           p \notin Real /\ \A k \in p : {k, m} \in Real
    BY DEF PlansHold
  <2>1. CASE m = n /\ pairs # {}
    BY <1>1, <1>2, <2>1, <1>0
  <2>2. CASE m # n \/ pairs = {}
    <3>1. bypass'[m] = bypass[m]
      BY <1>1, <2>2
    <3>2. QED
      BY <3>1 DEF PlansHold
  <2>3. QED
    BY <2>1, <2>2
<1>8. QED
  BY <1>1, <1>3, <1>4, <1>5, <1>6, <1>7

LEMMA EnterProbationBase ==
  ASSUME BaseInv, NEW n \in Node, EnterProbation(n)
  PROVE  /\ bypass' \in [Node -> Bypass]
         /\ \A m \in Node : /\ bypass'[m].pairs = bypass[m].pairs
                            /\ bypass'[m].phase = "NONE" <=> bypass[m].phase = "NONE"
         /\ on' \subseteq on /\ on \cap Real \subseteq on' /\ apart' \subseteq apart
         /\ pool' = pool
         /\ block' \in [Link -> Block]
         /\ \A l \in Link : block'[l] \in {block[l], NewBlock}
<1> USE DEF BaseInv, TypeOK
<1>1. apart' \subseteq apart /\ pool' = pool
  BY DEF EnterProbation
<1>2. CASE bypass[n].phase \in {"SWITCHING", "ACTIVE"}
  <2> DEFINE virtual == IF bypass[n].up THEN bypass[n].pairs ELSE {}
  <2>1. /\ on' = on \ virtual /\ block' = Suspended(virtual)
        /\ bypass' = [bypass EXCEPT ![n].phase = "REVERTING", ![n].left = Reconfig]
    BY <1>2 DEF EnterProbation
  <2>2. virtual \cap Real = {}
    BY DEF PlansHold
  <2>3. \A l \in Link : block'[l] \in {block[l], NewBlock}
    BY <2>1 DEF Suspended
  <2>4. NewBlock \in Block
    BY RecordTypes
  <2>5. block' \in [Link -> Block]
    BY <2>1, <2>4 DEF Suspended
  <2>6. bypass' \in [Node -> Bypass]
    <3> DEFINE new == [bypass[n] EXCEPT !.phase = "REVERTING", !.left = Reconfig]
    <3>1. new \in Bypass
      BY RecordTypes, ConstantTypes DEF Phase
    <3>2. bypass' = [bypass EXCEPT ![n] = new]
      BY <2>1
    <3> HIDE DEF new
    <3>3. QED
      BY <3>1, <3>2
  <2>7. \A m \in Node : /\ bypass'[m].pairs = bypass[m].pairs
                        /\ bypass'[m].phase = "NONE" <=> bypass[m].phase = "NONE"
    BY <1>2, <2>1
  <2>8. on' \subseteq on /\ on \cap Real \subseteq on'
    BY <2>1, <2>2
  <2>9. QED
    BY <1>1, <2>3, <2>5, <2>6, <2>7, <2>8
<1>3. CASE bypass[n].phase \notin {"SWITCHING", "ACTIVE"}
  BY <1>1, <1>3 DEF EnterProbation
<1>4. QED
  BY <1>2, <1>3

LEMMA WatchType ==
  ASSUME TypeOK, NEW n \in Node, NEW e, Watch(n, e)
  PROVE  seen' \in [Node -> [bad : BOOLEAN, clean : 0..Probation + 1, byOperator : BOOLEAN]]
BY ConstantTypes DEF TypeOK, Watch

LEMMA VisitedBase ==
  ASSUME BaseInv, NEW n \in Suspect, NEW e, Visited(n, e)
  PROVE  /\ state' \in [Node -> {"CLEAR", "QUARANTINED", "PROBATION"}]
         /\ cleanFor' \in [Node -> 0..NoTime]
         /\ bypass' \in [Node -> Bypass]
         /\ on' \subseteq Link /\ apart' \subseteq Link
         /\ pool' \in [Link -> SUBSET Kind]
         /\ block' \in [Link -> Block]
         /\ PlansHold'
<1>0. n \in Node /\ CleanTime(n, e) \in 0..NoTime /\ {0, NoTime} \subseteq 0..NoTime
  BY ConstantTypes, CleanTimeType DEF BaseInv
<1>1. /\ state' \in [Node -> {"CLEAR", "QUARANTINED", "PROBATION"}]
      /\ cleanFor' \in [Node -> 0..NoTime]
  <2>1. \/ UNCHANGED <<state, cleanFor>>
        \/ \E s \in {"CLEAR", "QUARANTINED", "PROBATION"}, c \in 0..NoTime : Sets(n, s, c)
    BY <1>0 DEF BaseInv, TypeOK, Visited, Suspected, StillBad, Unseen, Waits, Released, Cleared
  <2>2. QED
    BY <1>0, <2>1 DEF BaseInv, TypeOK, Sets
<1>2. CASE NoEffect
  BY <1>1, <1>2 DEF NoEffect, BaseInv, TypeOK, PlansHold
<1>3. CASE EnterQuarantine(n)
  BY <1>1, <1>3, EnterQuarantineBase
<1>4. CASE EnterProbation(n)
  <2>1. PlansHold'
    BY <1>0, <1>4, EnterProbationBase DEF PlansHold, BaseInv
  <2>2. pool' \in [Link -> SUBSET Kind] /\ on' \subseteq Link /\ apart' \subseteq Link
    BY <1>0, <1>4, EnterProbationBase DEF BaseInv, TypeOK
  <2>3. QED
    BY <1>0, <1>1, <1>4, <2>1, <2>2, EnterProbationBase
<1>5. NoEffect \/ EnterQuarantine(n) \/ EnterProbation(n)
  BY DEF Visited, Suspected, StillBad, Unseen, Waits, Released, Cleared
<1>6. QED
  BY <1>2, <1>3, <1>4, <1>5

LEMMA AdvancedType ==
  ASSUME BaseInv, EndOfTick
  PROVE  /\ bypass' \in [Node -> Bypass]
         /\ \A n \in Node :
              \/ n \in Due("REVERTING") /\ bypass'[n] = NoBypass
              \/ /\ n \notin Due("REVERTING") /\ bypass'[n].pairs = bypass[n].pairs
                 /\ bypass'[n].phase = "NONE" <=> bypass[n].phase = "NONE"
<1> USE DEF BaseInv, TypeOK
<1>1. ASSUME NEW n \in Node
      PROVE  /\ Advanced(n) \in Bypass
             /\ \/ n \in Due("REVERTING") /\ Advanced(n) = NoBypass
                \/ /\ n \notin Due("REVERTING") /\ Advanced(n).pairs = bypass[n].pairs
                   /\ Advanced(n).phase = "NONE" <=> bypass[n].phase = "NONE"
  <2>0. bypass[n] \in Bypass
    OBVIOUS
  <2>1. CASE n \in Due("SWITCHING")
    <3>1. n \notin Due("REVERTING") /\ bypass[n].phase = "SWITCHING"
      BY <2>1 DEF Due
    <3>2. Advanced(n) = [bypass[n] EXCEPT !.phase = "ACTIVE", !.up = TRUE]
      BY <2>1 DEF Advanced
    <3>3. Advanced(n) \in Bypass
      BY <2>0, <3>2, RecordTypes
    <3>4. Advanced(n).pairs = bypass[n].pairs /\ Advanced(n).phase = "ACTIVE"
      BY <2>0, <3>2 DEF Bypass
    <3>5. QED
      BY <3>1, <3>3, <3>4
  <2>2. CASE n \in Due("REVERTING")
    <3>1. n \notin Due("SWITCHING")
      BY <2>2 DEF Due
    <3>2. Advanced(n) = NoBypass
      BY <2>2, <3>1 DEF Advanced
    <3>3. QED
      BY <2>2, <3>2, RecordTypes
  <2>3. CASE /\ n \notin Due("SWITCHING") \cup Due("REVERTING")
             /\ bypass[n].phase \in {"SWITCHING", "REVERTING"}
    <3>1. bypass[n].left - 1 \in Nat
      BY <2>0, <2>3 DEF Due, Bypass
    <3>2. Advanced(n) = [bypass[n] EXCEPT !.left = bypass[n].left - 1]
      BY <2>3 DEF Advanced
    <3>3. Advanced(n) \in Bypass
      BY <2>0, <3>1, <3>2 DEF Bypass
    <3>4. Advanced(n).pairs = bypass[n].pairs /\ Advanced(n).phase = bypass[n].phase
      BY <3>2
    <3>5. QED
      BY <2>3, <3>3, <3>4
  <2>4. CASE /\ n \notin Due("SWITCHING") \cup Due("REVERTING")
             /\ bypass[n].phase \notin {"SWITCHING", "REVERTING"}
    BY <2>4 DEF Advanced
  <2>5. QED
    BY <2>1, <2>2, <2>3, <2>4
<1>2. bypass' = [n \in Node |-> Advanced(n)]
  BY DEF EndOfTick
<1>3. QED
  BY <1>1, <1>2

LEMMA RaisedReturned ==
  ASSUME BaseInv
  PROVE  /\ Raised \subseteq Link /\ Raised \cap Real = {}
         /\ \A l \in Raised : \E n \in Suspect : \A m \in l : {m, n} \in Real
         /\ Returned \subseteq Real
<1>1. ASSUME NEW l \in Raised
      PROVE  l \in Link /\ l \notin Real /\ \E n \in Suspect : \A m \in l : {m, n} \in Real
  <2>1. PICK n \in Node : l \in bypass[n].pairs
    BY DEF Raised, Due
  <2>2. n \in Suspect /\ l \notin Real /\ \A m \in l : {m, n} \in Real
    BY <2>1 DEF BaseInv, PlansHold
  <2>3. l \in Link
    BY <2>1 DEF BaseInv, TypeOK, Bypass
  <2>4. QED
    BY <2>2, <2>3
<1>2. ASSUME NEW l \in Returned PROVE l \in Real
  <2>1. PICK n \in Node : l \in FibresOf(n, bypass[n].pairs)
    BY DEF Returned, Taken, Due
  <2>2. FibresOf(n, bypass[n].pairs) \subseteq Touching(n)
    BY FibresReal DEF BaseInv, PlansHold
  <2>3. QED
    BY <2>1, <2>2 DEF Touching
<1>3. QED
  BY <1>1, <1>2

LEMMA EndOfTickBase ==
  ASSUME BaseInv, EndOfTick
  PROVE  BaseInv'
<1> USE DEF BaseInv
<1>1. TypeOK'
  <2>1. on' \subseteq Link /\ exists' \subseteq Link
    BY RaisedReturned, RealLinks DEF EndOfTick, TypeOK
  <2>2. pool' \in [Link -> SUBSET Kind]
    <3>1. ASSUME NEW l \in Link PROVE pool[l] \cup {KindOf(l)} \in SUBSET Kind
      BY DEF TypeOK, KindOf, Kind
    <3>2. \A l \in Link : pool[l] \in SUBSET Kind
      BY DEF TypeOK
    <3>3. QED
      BY <3>1, <3>2, EndOfTickEffect
  <2>3. block' \in [Link -> Block]
    <3>1. ASSUME NEW l \in on \ Ends
          PROVE  Aged(l) \in Block
      <4>1. block[l] \in Block
        BY DEF TypeOK
      <4>2. block[l].age + 1 # BlockTicks
        BY DEF Ends, Aged
      <4>3. QED
        BY <4>1, <4>2, ConstantTypes DEF Aged, Kind, Block
    <3>2. NewBlock \in Block
      BY RecordTypes
    <3>3. QED
      BY <3>1, <3>2, EndOfTickEffect
  <2>4. todo' \in 1..Len(Order) + 1
    BY ConstantTypes DEF EndOfTick
  <2>5. QED
    BY <2>1, <2>2, <2>3, <2>4, AdvancedType DEF EndOfTick, TypeOK
<1>2. PlansHold'
  <2> SUFFICES ASSUME NEW n \in Node
               PROVE  /\ bypass'[n].phase = "NONE" => bypass'[n].pairs = {}
                      /\ bypass'[n].pairs # {} => n \in Suspect
                      /\ \A p \in bypass'[n].pairs :
                           p \notin Real /\ \A m \in p : {m, n} \in Real
    BY DEF PlansHold
  <2>1. CASE bypass'[n] = NoBypass
    BY <2>1 DEF NoBypass
  <2>2. CASE /\ bypass'[n].pairs = bypass[n].pairs
             /\ bypass'[n].phase = "NONE" <=> bypass[n].phase = "NONE"
    BY <2>2 DEF PlansHold
  <2>3. QED
    BY <2>1, <2>2, AdvancedType
<1>3. QED
  BY <1>1, <1>2

LEMMA BaseStep == BaseInv /\ [Next]_vars => BaseInv'
<1> SUFFICES ASSUME BaseInv, [Next]_vars PROVE BaseInv'
  OBVIOUS
<1>1. CASE Visit
  <2>1. TypeOK
    BY DEF BaseInv
  <2>2. PICK e \in Evidence(Order[todo]) :
          Visited(Order[todo], e) /\ Watch(Order[todo], e)
    BY <1>1, <2>1, VisitCases
  <2>3. Order[todo] \in Suspect /\ Order[todo] \in Node /\ todo' \in 1..Len(Order) + 1
    BY <1>1, <2>1, VisitCases, ConstantTypes
  <2>4. exists' = exists
    BY <1>1 DEF Visit
  <2>5. QED
    BY <2>1, <2>2, <2>3, <2>4, VisitedBase, WatchType DEF BaseInv, TypeOK
<1>2. CASE EndOfTick
  BY <1>2, EndOfTickBase
<1>3. CASE \E n \in Suspect : OperatorClear(n)
  <2>1. PICK n \in Suspect : OperatorClear(n)
    BY <1>3
  <2>2. /\ n \in Node /\ 0 \in 0..NoTime
        /\ seen' = [seen EXCEPT ![n] = [@ EXCEPT !.byOperator = TRUE]]
    BY <2>1, ConstantTypes DEF OperatorClear
  <2>3. seen' \in [Node -> [bad : BOOLEAN, clean : 0..Probation + 1, byOperator : BOOLEAN]]
    BY <2>2 DEF BaseInv, TypeOK
  <2>4. TypeOK'
    BY <2>1, <2>2, <2>3 DEF OperatorClear, net, BaseInv, TypeOK
  <2>5. PlansHold'
    BY <2>1 DEF OperatorClear, net, BaseInv, PlansHold
  <2>6. QED
    BY <2>4, <2>5 DEF BaseInv
<1>4. CASE UNCHANGED vars
  BY <1>4 DEF vars, net, BaseInv, TypeOK, PlansHold
<1>5. QED
  BY <1>1, <1>2, <1>3, <1>4 DEF Next

LEMMA BaseCorrect == Spec => []BaseInv
BY BaseInit, BaseStep, PTL DEF Spec

(* Every variable keeps its type, and no block outlives its length.        *)
THEOREM TypeCorrect == Spec => []TypeOK
<1>1. BaseInv => TypeOK
  BY DEF BaseInv
<1>2. QED
  BY <1>1, BaseCorrect, PTL
-----------------------------------------------------------------------------
(* Release.  In quarantine the time since cleanSince never exceeds the     *)
(* samples in a row that had independent evidence and none of it bad.      *)

SeenInv ==
  \A n \in Node : state[n] = "QUARANTINED" /\ cleanFor[n] # NoTime
    => seen[n].clean > cleanFor[n]

LEMMA CleanCounted ==
  ASSUME TypeOK, SeenInv, NEW n \in Node, NEW e, state[n] = "QUARANTINED",
         ~Triggers(n, e), CleanTime(n, e) # NoTime, Watch(n, e)
  PROVE  seen'[n].clean > CleanTime(n, e)
<1>1. ~e.lock /\ IndependentClean(e)
  BY DEF Triggers, CleanTime
<1>2. seen'[n].clean = IF seen[n].clean <= Probation THEN seen[n].clean + 1 ELSE seen[n].clean
  BY <1>1 DEF TypeOK, Watch, IndependentClean
<1>3. seen[n].clean \in 0..Probation + 1 /\ cleanFor[n] \in 0..NoTime
  BY DEF TypeOK
<1>4. CASE cleanFor[n] = NoTime
  <2>1. CleanTime(n, e) = 0
    BY <1>1, <1>4 DEF CleanTime
  <2>2. QED
    BY <1>2, <1>3, <2>1, ConstantTypes
<1>5. CASE cleanFor[n] # NoTime
  <2>1. CleanTime(n, e) = Tick(n) /\ seen[n].clean > cleanFor[n]
    BY <1>1, <1>5 DEF CleanTime, SeenInv
  <2>2. QED
    BY <1>2, <1>3, <1>5, <2>1, ConstantTypes DEF Tick
<1>6. QED
  BY <1>4, <1>5

LEMMA WatchOthers ==
  ASSUME TypeOK, NEW n \in Node, NEW e, Watch(n, e), NEW m \in Node, m # n
  PROVE  seen'[m] = seen[m]
BY DEF Watch, TypeOK

LEMMA VisitedOthers ==
  ASSUME TypeOK, NEW n \in Node, NEW e, Visited(n, e), NEW m \in Node, m # n
  PROVE  state'[m] = state[m] /\ cleanFor'[m] = cleanFor[m]
BY DEF TypeOK, Visited, Suspected, StillBad, Unseen, Waits, Released, Cleared, Sets

LEMMA SeenStep == BaseInv /\ SeenInv /\ [Next]_vars => SeenInv'
<1> SUFFICES ASSUME BaseInv, SeenInv, [Next]_vars, NEW m \in Node,
                    state'[m] = "QUARANTINED", cleanFor'[m] # NoTime
             PROVE  seen'[m].clean > cleanFor'[m]
  BY DEF SeenInv, NoTime
<1> USE DEF BaseInv
<1>1. CASE Visit
  <2> DEFINE n == Order[todo]
  <2>1. n \in Node
    BY <1>1, VisitCases, ConstantTypes
  <2>2. PICK e \in Evidence(n) : Visited(n, e) /\ Watch(n, e)
    BY <1>1, VisitCases
  <2> HIDE DEF n
  <2>3. CASE m # n
    BY <2>1, <2>2, <2>3, WatchOthers, VisitedOthers DEF SeenInv
  <2>4. CASE m = n
    <3>1. Waits(n, e)
      BY <2>1, <2>2, <2>4 DEF TypeOK, Visited, Suspected, StillBad, Unseen, Released, Cleared, Sets
    <3>2. /\ state[n] = "QUARANTINED" /\ ~Triggers(n, e)
          /\ cleanFor'[n] = CleanTime(n, e)
      BY <2>1, <2>4, <3>1 DEF TypeOK, Waits, Sets
    <3>3. QED
      BY <2>1, <2>2, <2>4, <3>2, CleanCounted
  <2>5. QED
    BY <2>3, <2>4
<1>2. CASE EndOfTick
  BY <1>2 DEF EndOfTick, SeenInv
<1>3. CASE \E n \in Suspect : OperatorClear(n)
  <2>1. PICK n \in Suspect : OperatorClear(n)
    BY <1>3
  <2>2. m # n
    BY <2>1 DEF OperatorClear, net, TypeOK
  <2>3. state'[m] = state[m] /\ cleanFor'[m] = cleanFor[m] /\ seen'[m] = seen[m]
    BY <2>1, <2>2 DEF OperatorClear, net, TypeOK
  <2>4. QED
    BY <2>3 DEF SeenInv
<1>4. CASE UNCHANGED vars
  BY <1>4 DEF vars, net, SeenInv
<1>5. QED
  BY <1>1, <1>2, <1>3, <1>4 DEF Next

LEMMA ReleaseStep ==
  BaseInv /\ SeenInv /\ [Next]_vars
    => [\A n \in Node : state[n] = "QUARANTINED" /\ state'[n] = "PROBATION"
          => seen'[n].clean > Probation \/ seen'[n].byOperator]_vars
<1> SUFFICES ASSUME BaseInv, SeenInv, Next, NEW m \in Node,
                    state[m] = "QUARANTINED", state'[m] = "PROBATION"
             PROVE  seen'[m].clean > Probation \/ seen'[m].byOperator
  OBVIOUS
<1> USE DEF BaseInv
<1>1. CASE Visit
  <2> DEFINE n == Order[todo]
  <2>1. n \in Node
    BY <1>1, VisitCases, ConstantTypes
  <2>2. PICK e \in Evidence(n) : Visited(n, e) /\ Watch(n, e)
    BY <1>1, VisitCases
  <2> HIDE DEF n
  <2>3. m = n
    BY <2>1, <2>2, VisitedOthers
  <2>4. Released(n, e)
    BY <2>1, <2>2, <2>3 DEF TypeOK, Visited, Suspected, StillBad, Unseen, Waits, Cleared, Sets
  <2>5. CleanTime(n, e) = Probation /\ ~Triggers(n, e)
    BY <2>4 DEF Released
  <2>6. Probation # NoTime
    BY ConstantTypes
  <2>7. QED
    BY <2>1, <2>2, <2>3, <2>5, <2>6, CleanCounted
<1>2. CASE EndOfTick
  BY <1>2 DEF EndOfTick
<1>3. CASE \E n \in Suspect : OperatorClear(n)
  <2>1. PICK n \in Suspect : OperatorClear(n)
    BY <1>3
  <2>2. m = n /\ seen' = [seen EXCEPT ![n].byOperator = TRUE]
    BY <2>1 DEF OperatorClear, net, TypeOK
  <2>3. QED
    BY <2>2 DEF TypeOK
<1>4. QED
  BY <1>1, <1>2, <1>3 DEF Next

(* Whatever mixture of evidence comes, a node that leaves quarantine       *)
(* without the operator was clean in independent evidence for all of the   *)
(* probation time (mesh_isolation.js:181).                                 *)
THEOREM ReleaseIndependent == Spec => ReleaseNeedsIndependent
<1>1. Init => SeenInv
  BY DEF Init, SeenInv
<1>2. QED
  BY <1>1, BaseCorrect, SeenStep, ReleaseStep, PTL DEF Spec, ReleaseNeedsIndependent
-----------------------------------------------------------------------------
(* The fibres of a node in quarantine are in the partition, but for those  *)
(* that the release of the other end put back.                             *)
ApartInv ==
  \A n \in Node : state[n] = "QUARANTINED" => Touching(n) \subseteq apart \cup freed

LEMMA ApartStep == BaseInv /\ ApartInv /\ [Next]_vars => ApartInv'
<1> SUFFICES ASSUME BaseInv, ApartInv, [Next]_vars,
                    NEW m \in Node, state'[m] = "QUARANTINED"
             PROVE  Touching(m) \subseteq apart' \cup freed'
  BY DEF ApartInv, Touching
<1>1. CASE Visit
  <2> DEFINE n == Order[todo]
  <2>1. n \in Node /\ n \in Suspect /\ TypeOK
    BY <1>1, VisitCases, ConstantTypes DEF BaseInv
  <2>2. PICK e \in Evidence(n) : Visited(n, e)
    BY <1>1, <2>1, VisitCases
  <2> HIDE DEF n
  <2>3. CASE m # n
    <3>1. state[m] = "QUARANTINED" /\ Touching(m) \subseteq apart \cup freed
      BY <2>1, <2>2, <2>3, VisitedOthers DEF ApartInv
    <3>2. CASE NoEffect
      BY <3>1, <3>2 DEF NoEffect
    <3>3. CASE EnterQuarantine(n)
      BY <3>1, <3>3 DEF EnterQuarantine, Partitioned
    <3>4. CASE EnterProbation(n)
      <4>1. apart' = apart \ Touching(n) /\ freed' = freed \cup PutBack(n)
        BY <3>4 DEF EnterProbation
      <4>2. Touching(m) \cap Touching(n) \subseteq PutBack(n)
        BY <2>3, <3>1 DEF Touching, PutBack
      <4>3. QED
        BY <3>1, <4>1, <4>2
    <3>5. QED
      BY <2>2, <3>2, <3>3, <3>4
         DEF Visited, Suspected, StillBad, Unseen, Waits, Released, Cleared
  <2>4. CASE m = n
    <3>1. CASE Suspected(n)
      BY <2>1, <2>4, <3>1 DEF Suspected, EnterQuarantine, Partitioned
    <3>2. CASE ~Suspected(n)
      <4>1. state[n] = "QUARANTINED" /\ NoEffect
        BY <2>1, <2>2, <2>4, <3>2
           DEF TypeOK, Visited, StillBad, Unseen, Waits, Released, Cleared, Sets
      <4>2. QED
        BY <2>1, <2>4, <4>1 DEF ApartInv, NoEffect
    <3>3. QED
      BY <3>1, <3>2
  <2>5. QED
    BY <2>3, <2>4
<1>2. CASE EndOfTick
  BY <1>2 DEF EndOfTick, ApartInv
<1>3. CASE \E n \in Suspect : OperatorClear(n)
  <2>1. state[m] = "QUARANTINED" /\ apart' = apart /\ freed' = freed
    BY <1>3 DEF OperatorClear, net, BaseInv, TypeOK
  <2>2. QED
    BY <2>1 DEF ApartInv
<1>4. CASE UNCHANGED vars
  BY <1>4 DEF vars, net, ApartInv
<1>5. QED
  BY <1>1, <1>2, <1>3, <1>4 DEF Next

(* A fibre of a node in quarantine fills no pool, whatever becomes of its  *)
(* neighbours, until the release of the other end puts it back             *)
(* (mesh_isolation.js:280, 293).                                           *)
THEOREM QuarantineSilences == Spec => []QuarantinedGivesNothing
<1>1. Init => ApartInv
  BY DEF Init, ApartInv
<1>2. ApartInv => QuarantinedGivesNothing
  BY DEF ApartInv, QuarantinedGivesNothing
<1>3. ApartInv /\ BaseInv /\ [Next]_vars => ApartInv'
  BY ApartStep
<1>4. QED
  BY <1>1, <1>2, <1>3, BaseCorrect, PTL DEF Spec

-----------------------------------------------------------------------------
(* Dark fibres.                                                            *)

LEMMA OwnFibres ==
  ASSUME BaseInv, NEW n \in Node
  PROVE  /\ FibresOf(n, bypass[n].pairs) \subseteq Touching(n)
         /\ FibresOf(n, bypass[n].pairs) # {} => n \in Suspect
<1>1. FibresOf(n, bypass[n].pairs) \subseteq Touching(n)
  BY FibresReal DEF BaseInv, PlansHold
<1>2. FibresOf(n, bypass[n].pairs) # {} => n \in Suspect
  BY DEF BaseInv, PlansHold, FibresOf
<1>3. QED
  BY <1>1, <1>2

LEMMA DarkQuarantine ==
  ASSUME BaseInv, DarkFibresAreTaken, NEW n \in Suspect, EnterQuarantine(n)
  PROVE  DarkFibresAreTaken'
<1>0. n \in Node
  BY ConstantTypes
<1>1. PICK pairs \in IF NoneYet(n) THEN Plans(n) ELSE {{}} :
        /\ on' = on \ FibresOf(n, pairs) /\ lent' = lent \ FibresOf(n, pairs)
        /\ bypass' = IF pairs = {} THEN bypass
                     ELSE [bypass EXCEPT ![n] = [phase |-> "SWITCHING", left |-> Reconfig,
                                                 pairs |-> pairs, up |-> FALSE]]
  BY DEF EnterQuarantine
<1>2. CASE pairs = {}
  <2>1. on' = on /\ bypass' = bypass /\ lent' = lent
    BY <1>1, <1>2 DEF FibresOf
  <2>2. QED
    BY <2>1 DEF DarkFibresAreTaken
<1>3. CASE pairs # {}
  <2>1. bypass[n].phase = "NONE" /\ bypass[n].pairs = {}
    BY <1>0, <1>1, <1>3 DEF NoneYet, BaseInv, PlansHold
  <2>2. /\ bypass'[n].phase = "SWITCHING" /\ bypass'[n].pairs = pairs
        /\ \A m \in Node : m # n => bypass'[m] = bypass[m]
    BY <1>0, <1>1, <1>3 DEF BaseInv, TypeOK
  <2>3. ASSUME NEW m \in Node, bypass'[m].phase # "NONE"
        PROVE  on' \cap FibresOf(m, bypass'[m].pairs) \subseteq lent'
    BY <1>1, <2>2, <2>3 DEF DarkFibresAreTaken
  <2>4. ASSUME NEW l \in Real \ on'
        PROVE  \E m \in Node : l \in FibresOf(m, bypass'[m].pairs)
    <3>1. CASE l \in on
      BY <1>0, <1>1, <2>2, <3>1
    <3>2. CASE l \notin on
      <4>1. PICK m \in Node : l \in FibresOf(m, bypass[m].pairs)
        BY <3>2 DEF DarkFibresAreTaken
      <4>2. m # n
        BY <2>1, <4>1 DEF FibresOf
      <4>3. QED
        BY <2>2, <4>1, <4>2
    <3>3. QED
      BY <3>1, <3>2
  <2>5. QED
    BY <2>3, <2>4 DEF DarkFibresAreTaken, Real
<1>4. QED
  BY <1>2, <1>3

LEMMA DarkProbation ==
  ASSUME BaseInv, DarkFibresAreTaken, NEW n \in Node, EnterProbation(n)
  PROVE  DarkFibresAreTaken'
<1>1. /\ \A m \in Node : /\ bypass'[m].pairs = bypass[m].pairs
                         /\ bypass'[m].phase = "NONE" <=> bypass[m].phase = "NONE"
      /\ on' \subseteq on /\ on \cap Real \subseteq on' /\ lent' = lent
  BY EnterProbationBase DEF EnterProbation
<1>2. QED
  BY <1>1 DEF DarkFibresAreTaken, Real

LEMMA DarkEndOfTick ==
  ASSUME BaseInv, DarkFibresAreTaken, EndOfTick
  PROVE  DarkFibresAreTaken'
<1>1. /\ on' = on \cup Raised \cup Returned
      /\ lent' = (lent \ Returned) \cup StillTaken
  BY DEF EndOfTick, Returned
<1>2. ASSUME NEW m \in Node, bypass'[m].phase # "NONE"
      PROVE  on' \cap FibresOf(m, bypass'[m].pairs) \subseteq lent'
  <2>1. /\ m \notin Due("REVERTING") /\ bypass'[m].pairs = bypass[m].pairs
        /\ bypass[m].phase # "NONE"
    BY <1>2, AdvancedType DEF NoBypass
  <2>2. on \cap FibresOf(m, bypass[m].pairs) \subseteq lent
    BY <2>1 DEF DarkFibresAreTaken
  <2>3. Raised \cap FibresOf(m, bypass[m].pairs) = {}
    BY RaisedReturned, OwnFibres DEF Touching
  <2>4. Returned \cap FibresOf(m, bypass[m].pairs) \subseteq StillTaken
    BY <2>1 DEF Returned, StillTaken, Taken
  <2>5. QED
    BY <1>1, <2>1, <2>2, <2>3, <2>4
<1>3. ASSUME NEW l \in Real \ on'
      PROVE  \E m \in Node : l \in FibresOf(m, bypass'[m].pairs)
  <2>1. PICK m \in Node : l \in FibresOf(m, bypass[m].pairs)
    BY <1>1, <1>3 DEF DarkFibresAreTaken
  <2>2. m \notin Due("REVERTING")
    BY <1>1, <1>3, <2>1 DEF Returned, Taken
  <2>3. QED
    BY <2>1, <2>2, AdvancedType
<1>4. QED
  BY <1>2, <1>3 DEF DarkFibresAreTaken, Real

LEMMA DarkStep == BaseInv /\ DarkFibresAreTaken /\ [Next]_vars => DarkFibresAreTaken'
<1> SUFFICES ASSUME BaseInv, DarkFibresAreTaken, [Next]_vars PROVE DarkFibresAreTaken'
  OBVIOUS
<1>1. CASE Visit
  <2> DEFINE n == Order[todo]
  <2>1. n \in Node /\ n \in Suspect
    BY <1>1, VisitCases, ConstantTypes DEF BaseInv
  <2>2. PICK e \in Evidence(n) : Visited(n, e)
    BY <1>1, VisitCases DEF BaseInv
  <2> HIDE DEF n
  <2>3. CASE NoEffect
    BY <2>3 DEF NoEffect, DarkFibresAreTaken, Real
  <2>4. QED
    BY <2>1, <2>2, <2>3, DarkQuarantine, DarkProbation
       DEF Visited, Suspected, StillBad, Unseen, Waits, Released, Cleared
<1>2. CASE EndOfTick
  BY <1>2, DarkEndOfTick
<1>3. CASE \E n \in Suspect : OperatorClear(n)
  BY <1>3 DEF OperatorClear, net, DarkFibresAreTaken, Real
<1>4. CASE UNCHANGED vars
  BY <1>4 DEF vars, net, DarkFibresAreTaken, Real
<1>5. QED
  BY <1>1, <1>2, <1>3, <1>4 DEF Next

(* At every point of a switch-over the fibres that a bypass took are dark, *)
(* until it or another that took them too gives them back, and whatever is *)
(* dark belongs to a bypass that will give it back                         *)
(* (mesh_isolation.js:287, 299).                                           *)
THEOREM DarkFibresOwned == Spec => []DarkFibresAreTaken
<1>1. Init => DarkFibresAreTaken
  BY DEF Init, DarkFibresAreTaken, NoBypass
<1>2. DarkFibresAreTaken /\ BaseInv /\ [Next]_vars => DarkFibresAreTaken'
  BY DarkStep
<1>3. QED
  BY <1>1, <1>2, BaseCorrect, PTL DEF Spec

-----------------------------------------------------------------------------
(* Revoked key.                                                            *)

(* Ticks of the network since a node in quarantine was last suspicious, at *)
(* least: one before each sample that counted, the next one's included if  *)
(* this update has yet to visit the node.                                  *)
Elapsed(n) == IF cleanFor[n] = NoTime THEN 0 ELSE cleanFor[n] + 1

Held == Real \ freed
RevokedPool == \A l \in Held : "revoked" \notin pool[l]
RevokedApart == \A l \in Held \cap on : "revoked" \in block[l].kinds => l \in apart

(* An end of the fibre let out by the operator, whose fibres stay in the   *)
(* partition, or in a quarantine no older than the open block.             *)
Marked(i, l) ==
  /\ Order[i] \in l
  /\ \/ seen[Order[i]].byOperator
     \/ /\ state[Order[i]] = "QUARANTINED"
        /\ todo <= i => block[l].age >= Elapsed(Order[i]) + 1
        /\ todo > i => block[l].age >= Elapsed(Order[i])

RevokedAges ==
  \A l \in Held \cap on :
    "revoked" \in block[l].kinds => \E i \in DOMAIN Order : Marked(i, l)

(* In quarantine the count ends at Probation, and the operator has not     *)
(* cleared it.                                                             *)
CountInv ==
  \A n \in Node : state[n] = "QUARANTINED" => cleanFor[n] # Probation /\ ~seen[n].byOperator

RevokedInv == RevokedPool /\ RevokedApart /\ RevokedAges /\ CountInv

(* What a visit of n does to pools, to open blocks and to the partition.   *)
LEMMA VisitedLinks ==
  ASSUME BaseInv, NEW n \in Suspect, NEW e, Visited(n, e)
  PROVE  /\ on' \subseteq on
         /\ \A l \in Real : pool'[l] \subseteq pool[l]
         /\ apart \ Touching(n) \subseteq apart'
         /\ ~Released(n, e) => apart \subseteq apart'
         /\ Released(n, e) => PutBack(n) \subseteq freed'
         /\ Suspected(n) => \A l \in Touching(n) : l \in apart' /\ pool'[l] = {}
         /\ \A l \in freed \ freed' : Suspected(n) /\ l \in Touching(n)
         /\ \A l \in Link :
              /\ "revoked" \in block'[l].kinds => block'[l].age = block[l].age
              /\ "revoked" \in block'[l].kinds /\ "revoked" \notin block[l].kinds
                   => Suspected(n) /\ n \in l
<1>0. n \in Node
  BY ConstantTypes
<1>1. CASE NoEffect /\ ~Suspected(n) /\ ~Released(n, e)
  BY <1>1 DEF NoEffect
<1>2. CASE Suspected(n)
  <2>1. EnterQuarantine(n) /\ ~Released(n, e)
    BY <1>2 DEF Suspected, Released
  <2>2. PICK pairs \in IF NoneYet(n) THEN Plans(n) ELSE {{}} :
          /\ on' = on \ FibresOf(n, pairs)
          /\ block' = [l \in Link |->
               IF l \in FibresOf(n, pairs) THEN NewBlock
               ELSE IF n \in l /\ l \in on THEN [block[l] EXCEPT !.kinds = @ \cup {"revoked"}]
               ELSE block[l]]
    BY <2>1 DEF EnterQuarantine
  <2>3. /\ \A l \in Real : pool'[l] \subseteq pool[l]
        /\ \A l \in Touching(n) : pool'[l] = {}
    BY <2>1, RealLinks DEF EnterQuarantine, PoolsAfterQuarantine, Touching
  <2>4. ASSUME NEW l \in Link, "revoked" \in block'[l].kinds
        PROVE  /\ block'[l].age = block[l].age
               /\ "revoked" \notin block[l].kinds => n \in l
    <3>1. block[l] \in Block
      BY DEF BaseInv, TypeOK
    <3>2. l \notin FibresOf(n, pairs)
      BY <2>2, <2>4 DEF NewBlock
    <3>3. CASE n \in l /\ l \in on
      BY <2>2, <3>1, <3>2, <3>3 DEF Block
    <3>4. CASE ~(n \in l /\ l \in on)
      BY <2>2, <2>4, <3>2, <3>4
    <3>5. QED
      BY <3>3, <3>4
  <2>5. apart' = apart \cup Touching(n) /\ freed' = freed \ Touching(n)
    BY <2>1 DEF EnterQuarantine, Partitioned
  <2>6. QED
    BY <1>2, <2>1, <2>2, <2>3, <2>4, <2>5
<1>3. CASE Released(n, e)
  <2>1. EnterProbation(n) /\ ~Suspected(n)
    BY <1>3 DEF Released, Suspected
  <2>2. apart' = apart \ Touching(n) /\ freed' = freed \cup PutBack(n)
    BY <2>1 DEF EnterProbation
  <2>3. /\ on' \subseteq on /\ pool' = pool
        /\ \A l \in Link : block'[l] \in {block[l], NewBlock}
    BY <1>0, <2>1, EnterProbationBase
  <2>4. QED
    BY <1>3, <2>1, <2>2, <2>3 DEF NewBlock
<1>4. QED
  BY <1>1, <1>2, <1>3 DEF Visited, StillBad, Unseen, Waits, Cleared

(* By the time of the release no block is left from before.                *)
LEMMA ReleasedIsFresh ==
  ASSUME BlockTicks <= Probation + 1, BaseInv, RevokedInv,
         todo \in DOMAIN Order, NEW e, Released(Order[todo], e),
         NEW l \in Touching(Order[todo]) \cap on
  PROVE  ~Marked(todo, l)
<1> SUFFICES ASSUME Marked(todo, l) PROVE FALSE
  OBVIOUS
<1> DEFINE n == Order[todo]
<1>1. n \in Node /\ l \in Link /\ todo \in Nat
  BY ConstantTypes, RealLinks DEF Touching
<1>2. /\ state[n] = "QUARANTINED" /\ CleanTime(n, e) = Probation
      /\ cleanFor[n] \in 0..NoTime /\ block[l] \in Block
  BY <1>1 DEF Released, BaseInv, TypeOK
<1>3. cleanFor[n] # NoTime /\ cleanFor[n] + 1 >= Probation
  BY <1>1, <1>2, ConstantTypes DEF CleanTime, Tick
<1>4. Elapsed(n) >= Probation /\ Elapsed(n) \in Nat
  BY <1>2, <1>3, ConstantTypes DEF Elapsed
<1>5. block[l].age >= Elapsed(n) + 1
  BY <1>1, <1>2 DEF RevokedInv, CountInv, Marked
<1>6. block[l].age \in 0..BlockTicks - 1
  BY <1>2 DEF Block
<1>7. QED
  BY <1>4, <1>5, <1>6, ConstantTypes

(* A visit of another end, or one that neither starts nor ends the         *)
(* quarantine, leaves the mark of a block as old as it was.                *)
LEMMA MarkKept ==
  ASSUME BaseInv, RevokedInv, todo \in DOMAIN Order, todo' = todo + 1,
         NEW e, Visited(Order[todo], e), Watch(Order[todo], e),
         NEW l \in Link, block'[l].age = block[l].age,
         NEW i \in DOMAIN Order, Marked(i, l),
         i = todo => ~Suspected(Order[todo]) /\ ~Released(Order[todo], e)
  PROVE  Marked(i, l)'
<1> DEFINE n == Order[todo]
           m == Order[i]
<1>1. n \in Node /\ m \in Node /\ todo \in Nat /\ i \in Nat /\ TypeOK
  BY ConstantTypes DEF BaseInv
<1>2. m \in l /\ block'[l].age \in Nat
  BY ConstantTypes DEF Marked, BaseInv, TypeOK, Block
<1>3. CASE i # todo
  <2>1. m # n
    BY <1>3, MeshAssumption
  <2>2. state'[m] = state[m] /\ cleanFor'[m] = cleanFor[m] /\ seen'[m] = seen[m]
    BY <1>1, <2>1, VisitedOthers, WatchOthers
  <2>3. Elapsed(m)' = Elapsed(m)
    BY <2>2 DEF Elapsed, NoTime
  <2>4. (todo' <= i => todo <= i) /\ (todo' > i => todo > i)
    BY <1>1, <1>3
  <2>5. QED
    BY <2>2, <2>3, <2>4 DEF Marked
<1>4. CASE i = todo
  <2>1. ~Suspected(n) /\ ~Released(n, e) /\ m = n /\ ~(todo' <= i)
    BY <1>1, <1>4
  <2>2. state'[n] = "QUARANTINED" <=> state[n] = "QUARANTINED"
    BY <1>1, <2>1
       DEF TypeOK, Visited, StillBad, Unseen, Waits, Cleared, Sets
  <2>3. CASE seen[n].byOperator
    <3>1. state'[n] # "QUARANTINED"
      BY <1>1, <2>2, <2>3 DEF RevokedInv, CountInv
    <3>2. seen'[n].byOperator
      BY <1>1, <2>3, <3>1 DEF Watch, TypeOK
    <3>3. QED
      BY <1>2, <2>1, <3>2 DEF Marked
  <2>4. CASE ~seen[n].byOperator
    <3>1. state[n] = "QUARANTINED" /\ block[l].age >= Elapsed(n) + 1
      BY <1>1, <1>4, <2>1, <2>4 DEF Marked
    <3>2. Elapsed(n) \in Nat
      BY <1>1, ConstantTypes DEF TypeOK, Elapsed
    <3>3. CASE cleanFor'[n] = NoTime
      <4>1. Elapsed(m)' = 0
        BY <2>1, <3>3 DEF Elapsed, NoTime
      <4>2. QED
        BY <1>2, <2>1, <2>2, <3>1, <4>1 DEF Marked
    <3>4. CASE cleanFor'[n] # NoTime
      <4>1. Waits(n, e)
        BY <1>1, <2>1, <3>1, <3>4 DEF TypeOK, Visited, StillBad, Unseen, Cleared, Sets
      <4>2. cleanFor'[n] = CleanTime(n, e)
        BY <1>1, <4>1 DEF TypeOK, Waits, Sets
      <4>3. cleanFor[n] \in 0..NoTime /\ CleanTime(n, e) <= Elapsed(n)
        BY <1>1, <3>4, <4>2, ConstantTypes DEF TypeOK, CleanTime, Tick, Elapsed
      <4>4. Elapsed(m)' = CleanTime(n, e) + 1
        BY <2>1, <3>4, <4>2 DEF Elapsed, NoTime
      <4>5. CleanTime(n, e) \in Nat
        BY <1>1, CleanTimeType, ConstantTypes
      <4>6. block'[l].age >= Elapsed(m)'
        BY <1>2, <3>1, <3>2, <4>3, <4>4, <4>5
      <4>7. QED
        BY <1>2, <2>1, <2>2, <3>1, <4>6 DEF Marked
    <3>5. QED
      BY <3>3, <3>4
  <2>5. QED
    BY <2>3, <2>4
<1>5. QED
  BY <1>3, <1>4

LEMMA RevokedVisit ==
  ASSUME BlockTicks <= Probation + 1, BaseInv, RevokedInv, Visit
  PROVE  RevokedInv'
<1> DEFINE n == Order[todo]
<1>1. /\ todo \in DOMAIN Order /\ todo' = todo + 1 /\ TypeOK
      /\ n \in Node /\ n \in Suspect /\ todo \in Nat
  BY VisitCases, ConstantTypes DEF BaseInv
<1>2. PICK e \in Evidence(n) : Visited(n, e) /\ Watch(n, e)
  BY <1>1, VisitCases
<1> DEFINE Hit(l) == Suspected(n) /\ l \in Touching(n)
<1>3. /\ on' \subseteq on
      /\ \A l \in Real : pool'[l] \subseteq pool[l]
      /\ apart \ Touching(n) \subseteq apart'
      /\ ~Released(n, e) => apart \subseteq apart'
      /\ Released(n, e) => PutBack(n) \subseteq freed'
      /\ Suspected(n) => \A l \in Touching(n) : l \in apart' /\ pool'[l] = {}
      /\ \A l \in freed \ freed' : Hit(l)
      /\ \A l \in Link :
           /\ "revoked" \in block'[l].kinds => block'[l].age = block[l].age
           /\ "revoked" \in block'[l].kinds /\ "revoked" \notin block[l].kinds
                => Suspected(n) /\ n \in l
  BY <1>1, <1>2, VisitedLinks
<1> HIDE DEF n
<1>4. RevokedPool'
  BY <1>3 DEF RevokedInv, RevokedPool, Held, Real
<1>5. ASSUME NEW l \in Real \cap on', l \notin freed', "revoked" \in block'[l].kinds, ~Hit(l)
      PROVE  /\ l \in Held \cap on /\ l \in Link /\ "revoked" \in block[l].kinds
             /\ block'[l].age = block[l].age
             /\ \E i \in DOMAIN Order :
                  /\ Marked(i, l)
                  /\ i = todo => ~Released(n, e)
                  /\ ~(l \in Touching(n) /\ Released(n, e))
  <2>1. l \in Link /\ l \in on /\ l \in Held
    BY <1>3, <1>5, RealLinks DEF Held
  <2>2. "revoked" \in block[l].kinds /\ block'[l].age = block[l].age
    BY <1>3, <1>5, <2>1 DEF Touching
  <2>3. PICK i \in DOMAIN Order : Marked(i, l)
    BY <2>1, <2>2 DEF RevokedInv, RevokedAges
  <2>4. i = todo => l \in Touching(n)
    BY <2>3 DEF Marked, Touching, n
  <2>5. ASSUME l \in Touching(n), Released(n, e) PROVE FALSE
    <3>1. i # todo
      BY <1>1, <2>1, <2>3, <2>5, ReleasedIsFresh DEF n
    <3>2. Order[i] # n
      BY <1>1, <3>1, MeshAssumption DEF n
    <3>3. /\ Order[i] \in l \ {n}
          /\ state[Order[i]] = "QUARANTINED" \/ seen[Order[i]].byOperator
      BY <2>3, <3>2 DEF Marked
    <3>4. l \in PutBack(n)
      BY <2>5, <3>3 DEF PutBack
    <3>5. QED
      BY <1>3, <1>5, <2>5, <3>4
  <2>6. QED
    BY <2>1, <2>2, <2>3, <2>4, <2>5
<1>6. RevokedApart'
  <2> SUFFICES ASSUME NEW l \in Real \cap on', l \notin freed', "revoked" \in block'[l].kinds
               PROVE  l \in apart'
    BY DEF RevokedApart, Held, Real
  <2>1. CASE Hit(l)
    BY <1>3, <2>1
  <2>2. CASE ~Hit(l)
    <3>1. l \in apart
      BY <1>5, <2>2 DEF RevokedInv, RevokedApart
    <3>2. QED
      BY <1>3, <1>5, <2>2, <3>1
  <2>3. QED
    BY <2>1, <2>2
<1>7. RevokedAges'
  <2> SUFFICES ASSUME NEW l \in Real \cap on', l \notin freed', "revoked" \in block'[l].kinds
               PROVE  \E i \in DOMAIN Order : Marked(i, l)'
    BY DEF RevokedAges, Held, Real
  <2>1. CASE Hit(l)
    <3>1. PICK i \in DOMAIN Order : i = todo
      BY <1>1
    <3>2. state'[n] = "QUARANTINED" /\ cleanFor'[n] = NoTime /\ n \in l
      BY <1>1, <2>1 DEF Suspected, Sets, TypeOK, Touching
    <3>3. l \in Link /\ block'[l].age = block[l].age /\ block[l].age \in Nat
      BY <1>1, <1>3, RealLinks, ConstantTypes DEF TypeOK, Block
    <3>4. Order[i] = n /\ todo' = i + 1 /\ i \in Nat
      BY <1>1, <3>1 DEF n
    <3>5. Elapsed(Order[i])' = 0
      BY <3>2, <3>4 DEF Elapsed, NoTime
    <3>6. ~(todo' <= i) /\ block'[l].age >= Elapsed(Order[i])'
      BY <3>3, <3>4, <3>5
    <3>7. QED
      BY <3>2, <3>4, <3>6 DEF Marked
  <2>2. CASE ~Hit(l)
    <3>1. PICK i \in DOMAIN Order :
            Marked(i, l) /\ (i = todo => ~Released(n, e))
      BY <1>5, <2>2
    <3>2. i = todo => ~Suspected(n)
      BY <2>2, <3>1 DEF Marked, Touching, n
    <3>3. QED
      BY <1>1, <1>2, <1>5, <2>2, <3>1, <3>2, MarkKept DEF n
  <2>3. QED
    BY <2>1, <2>2
<1>8. CountInv'
  <2> SUFFICES ASSUME NEW m \in Node, state'[m] = "QUARANTINED"
               PROVE  cleanFor'[m] # Probation /\ ~seen'[m].byOperator
    BY DEF CountInv
  <2>1. CASE m # n
    BY <1>1, <1>2, <2>1, VisitedOthers, WatchOthers DEF RevokedInv, CountInv
  <2>2. CASE m = n
    <3>1. cleanFor'[m] # Probation
      BY <1>1, <1>2, <2>2, ConstantTypes
         DEF TypeOK, Visited, Suspected, StillBad, Unseen, Waits, Released, Cleared, Sets
    <3>2. ~seen'[m].byOperator
      BY <1>1, <1>2, <2>2 DEF Watch, TypeOK
    <3>3. QED
      BY <3>1, <3>2
  <2>3. QED
    BY <2>1, <2>2
<1>9. QED
  BY <1>4, <1>6, <1>7, <1>8 DEF RevokedInv

LEMMA RevokedEndOfTick ==
  ASSUME BaseInv, RevokedInv, EndOfTick
  PROVE  RevokedInv'
<1>1. /\ UNCHANGED <<state, cleanFor, apart, seen, freed>>
      /\ todo > Len(Order) /\ todo' = 1
  BY DEF EndOfTick
<1>2. ASSUME NEW l \in Link, "revoked" \in block'[l].kinds
      PROVE  /\ l \in on /\ "revoked" \in block[l].kinds
             /\ block'[l].age = block[l].age + 1
  <2>1. l \in on \ Ends /\ block'[l] = Aged(l)
    BY <1>2, EndOfTickEffect DEF NewBlock
  <2>2. QED
    BY <1>2, <2>1 DEF Aged
<1>3. RevokedPool'
  <2> SUFFICES ASSUME NEW l \in Held PROVE "revoked" \notin pool'[l]
    BY <1>1 DEF RevokedPool, Held, Real
  <2>1. l \in Link /\ "revoked" \notin pool[l]
    BY RealLinks DEF RevokedInv, RevokedPool, Held
  <2>2. ASSUME l \in Ends \ apart PROVE KindOf(l) # "revoked"
    BY <2>2 DEF RevokedInv, RevokedApart, Ends, KindOf, Aged
  <2>3. QED
    BY <2>1, <2>2, EndOfTickEffect
<1>4. RevokedApart'
  BY <1>1, <1>2, RealLinks DEF RevokedInv, RevokedApart, Held, Real
<1>5. RevokedAges'
  <2> SUFFICES ASSUME NEW l \in Held, "revoked" \in block'[l].kinds
               PROVE  \E i \in DOMAIN Order : Marked(i, l)'
    BY <1>1 DEF RevokedAges, Held, Real
  <2>1. l \in Link
    BY RealLinks DEF Held
  <2>2. PICK i \in DOMAIN Order : Marked(i, l)
    BY <1>2, <2>1 DEF RevokedInv, RevokedAges
  <2>3. i \in 1..Len(Order) /\ Len(Order) \in Nat /\ Order[i] \in Node
    BY ConstantTypes
  <2>4. todo > i /\ ~(todo' > i)
    BY <1>1, <2>3 DEF BaseInv, TypeOK
  <2>5. Elapsed(Order[i])' = Elapsed(Order[i])
    BY <1>1 DEF Elapsed, NoTime
  <2>6. Elapsed(Order[i]) \in Nat /\ block[l].age \in Nat
    BY <2>1, <2>3, ConstantTypes DEF BaseInv, TypeOK, Elapsed, Block
  <2>7. block[l].age >= Elapsed(Order[i]) => block'[l].age >= Elapsed(Order[i])' + 1
    BY <1>2, <2>1, <2>5, <2>6
  <2>8. QED
    BY <1>1, <2>2, <2>4, <2>7 DEF Marked
<1>6. CountInv'
  BY <1>1 DEF RevokedInv, CountInv
<1>7. QED
  BY <1>3, <1>4, <1>5, <1>6 DEF RevokedInv

LEMMA RevokedClear ==
  ASSUME BaseInv, RevokedInv, NEW n \in Suspect, OperatorClear(n)
  PROVE  RevokedInv'
<1>1. UNCHANGED <<on, apart, pool, block, todo, freed>>
  BY DEF OperatorClear, net
<1>2. /\ seen'[n].byOperator /\ state'[n] = "PROBATION"
      /\ \A m \in Node : m # n => /\ state'[m] = state[m] /\ cleanFor'[m] = cleanFor[m]
                                  /\ seen'[m] = seen[m]
  BY ConstantTypes DEF OperatorClear, BaseInv, TypeOK
<1>3. RevokedPool' /\ RevokedApart'
  BY <1>1 DEF RevokedInv, RevokedPool, RevokedApart, Held, Real
<1>4. RevokedAges'
  <2> SUFFICES ASSUME NEW l \in Held \cap on, "revoked" \in block[l].kinds
               PROVE  \E i \in DOMAIN Order : Marked(i, l)'
    BY <1>1 DEF RevokedAges, Held, Real
  <2>1. PICK i \in DOMAIN Order : Marked(i, l)
    BY DEF RevokedInv, RevokedAges
  <2>2. CASE Order[i] = n
    BY <1>2, <2>1, <2>2 DEF Marked
  <2>3. CASE Order[i] # n
    <3>1. Order[i] \in Node
      BY ConstantTypes
    <3>2. Elapsed(Order[i])' = Elapsed(Order[i])
      BY <1>2, <2>3, <3>1 DEF Elapsed, NoTime
    <3>3. QED
      BY <1>1, <1>2, <2>1, <2>3, <3>1, <3>2 DEF Marked
  <2>4. QED
    BY <2>2, <2>3
<1>5. CountInv'
  BY <1>2 DEF RevokedInv, CountInv
<1>6. QED
  BY <1>3, <1>4, <1>5 DEF RevokedInv

LEMMA RevokedStep ==
  BlockTicks <= Probation + 1 /\ BaseInv /\ RevokedInv /\ [Next]_vars => RevokedInv'
<1> SUFFICES ASSUME BlockTicks <= Probation + 1, BaseInv, RevokedInv, [Next]_vars
             PROVE  RevokedInv'
  OBVIOUS
<1>1. CASE Visit
  BY <1>1, RevokedVisit
<1>2. CASE EndOfTick
  BY <1>2, RevokedEndOfTick
<1>3. CASE \E n \in Suspect : OperatorClear(n)
  BY <1>3, RevokedClear
<1>4. CASE UNCHANGED vars
  BY <1>4 DEF vars, net, RevokedInv, RevokedPool, RevokedApart, RevokedAges, CountInv,
              Marked, Elapsed, NoTime, Held, Real
<1>5. QED
  BY <1>1, <1>2, <1>3, <1>4 DEF Next

(* Key shared with a suspicious end never turns up in a pool of a fibre    *)
(* that the release of its other end has not put back, if a block is over  *)
(* before the probation that follows its suspicion is                      *)
(* (mesh_isolation.js:280, 293, adaptive_shielding_mitigation.js:594).     *)
THEOREM RevokedNeverReturns ==
  ASSUME BlockTicks <= Probation + 1
  PROVE  Spec => []RevokedStaysOut
<1>1. Init => RevokedInv
  <2> SUFFICES ASSUME Init PROVE RevokedInv
    OBVIOUS
  <2>1. RevokedPool /\ RevokedApart /\ RevokedAges
    BY RealLinks DEF Init, RevokedPool, RevokedApart, RevokedAges, Held, NewBlock
  <2>2. CountInv
    BY DEF Init, CountInv
  <2>3. QED
    BY <2>1, <2>2 DEF RevokedInv
<1>2. RevokedInv => RevokedStaysOut
  BY DEF RevokedInv, RevokedPool, RevokedStaysOut, Held
<1>3. RevokedInv /\ BaseInv /\ [Next]_vars => RevokedInv'
  BY RevokedStep
<1>4. QED
  BY <1>1, <1>2, <1>3, BaseCorrect, PTL DEF Spec

=============================================================================
