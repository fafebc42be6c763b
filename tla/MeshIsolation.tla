---------------------------- MODULE MeshIsolation ----------------------------
(***************************************************************************)
(* Quarantine of suspicious nodes and the optical bypass around them:      *)
(* QuarantineManager, MeshIsolationController and planOpticalBypass of     *)
(* bb84/mesh_isolation.js, with the links of ShieldedQkdNetwork they act   *)
(* on.  A tick is one call of update and the step of the network after it. *)
(*                                                                         *)
(* Evidence is a free choice per node and tick within what the lit fibres  *)
(* and the probe can show.  Rates and hop counts decide which pairs a plan *)
(* takes: any set of disjoint pairs here.  A pool is the set of kinds of   *)
(* key that can be in it:                                                  *)
(*   "revoked"  shared with an end that came under suspicion afterwards,   *)
(*   "good"     any other.                                                 *)
(***************************************************************************)
EXTENDS Naturals, Sequences, FiniteSets

CONSTANTS
  Node, Fibre,      \* fibres are pairs <<transmitter, receiver>>
  Order,            \* the nodes whose evidence may be bad, as update visits them
  Probed,           \* nodes with an independent RF probe
  Cabinets,         \* nodes whose cabinet lock reports incidents
  Consecutive,      \* unexplainedConsecutive
  Probation,        \* probationMs, in ticks
  Reconfig,         \* reconfigMs, in ticks
  BlockTicks        \* length of a key block, in ticks

ASSUME MeshAssumption ==
  /\ Fibre \subseteq Node \X Node /\ \A f \in Fibre : f[1] # f[2]
  /\ Order \in Seq(Node) /\ \A i, j \in DOMAIN Order : Order[i] = Order[j] => i = j
  /\ Probed \subseteq Node /\ Cabinets \subseteq Node
  /\ {Consecutive, Probation, Reconfig, BlockTicks} \subseteq Nat \ {0}

VARIABLES
  state,        \* QuarantineManager: state of each node
  run,          \* consecutive bad samples per domain
  cleanFor,     \* ticks since cleanSince, or NoTime
  bypass,       \* MeshIsolationController.bypass
  exists,       \* virtual links ever added (they stay in linkByKey)
  on,           \* links that are not suspended
  apart,        \* links in the quarantine partition
  pool, block,  \* per link: kinds of key in the pool, the open block
  todo,         \* which of Order update visits next
  lit,          \* the links that were on when update began
  seen,         \* history per node: was the last evidence bad or not independent,
                \* for how many samples has it not been, did the operator let it out
  freed,        \* history: fibres that the release of one end put back into the main
                \* partition while the quarantine of the other was not over
  lent          \* history: fibres that one bypass lit while another has taken them

net == <<bypass, exists, on, apart, pool, block, freed, lent>>
vars == <<state, run, cleanFor, net, todo, lit, seen>>

Suspect == {Order[i] : i \in DOMAIN Order}
Real == {{f[1], f[2]} : f \in Fibre}
Link == {l \in SUBSET Node : Cardinality(l) = 2}
Touching(n) == {l \in Real : n \in l}
NoTime == Probation + 1
NoBypass == [phase |-> "NONE", left |-> 0, pairs |-> {}, up |-> FALSE]
NewBlock == [age |-> 0, kinds |-> {}]

-----------------------------------------------------------------------------
(* planOpticalBypass: pairs of neighbours that have no link, each fibre in *)
(* one pair at most, neighbours in quarantine left out.                    *)

Neighbours(n) == {m \in Node \ {n} : {m, n} \in Real /\ state[m] # "QUARANTINED"}

Plans(n) ==
  LET free == {p \in SUBSET Neighbours(n) : Cardinality(p) = 2} \ (Real \cup exists)
  IN {s \in SUBSET free : \A p, q \in s : p # q => p \cap q = {}}

FibresOf(n, pairs) == {{n, m} : m \in UNION pairs}

-----------------------------------------------------------------------------
(* QuarantineManager.observe and what _onTransition makes of it.           *)

HasSelf(n) == \E f \in Fibre : f[2] = n /\ {f[1], f[2]} \in lit
HasNeighbour(n) == \E f \in Fibre : f[1] = n /\ {f[1], f[2]} \in lit

(* One sample of a node: own receivers, neighbours, probe, cabinet lock.   *)
Evidence(n) ==
  {e \in [self : {"none", "bad", "clean"}, nb : {"none", "bad", "clean"},
          probe : {"none", "bad", "clean"}, lock : BOOLEAN] :
     /\ e.self # "none" => HasSelf(n)
     /\ e.nb # "none" => HasNeighbour(n)
     /\ e.probe # "none" => n \in Probed
     /\ e.lock => n \in Cabinets}

Count(old, bad) == IF ~bad THEN 0 ELSE IF old < Consecutive THEN old + 1 ELSE old

Runs(n, e) == [self |-> Count(run[n].self, e.self = "bad"),
               nb   |-> Count(run[n].nb, e.nb = "bad")]

Triggers(n, e) ==
  e.lock \/ e.probe = "bad" \/ Runs(n, e).nb = Consecutive \/ Runs(n, e).self = Consecutive

(* Release counts evidence of others; the node's own can only spoil it.    *)
(* Defect: the node's own clean report is enough.                          *)
SelfIsEnough(e) == "bad" \notin {e.self, e.nb, e.probe}
IndependentClean(e) ==
  {e.nb, e.probe} # {"none"} /\ "bad" \notin {e.self, e.nb, e.probe}

Tick(n) == IF cleanFor[n] < Probation THEN cleanFor[n] + 1 ELSE cleanFor[n]
CleanTime(n, e) ==
  IF ~IndependentClean(e) THEN NoTime
  ELSE IF cleanFor[n] = NoTime THEN 0 ELSE Tick(n)

(* Key shared with n that stays where it is has come under suspicion.      *)
(* Defect: the pools of the links are left as they are.                    *)
PoolsKept(n) ==
  [l \in Link |-> IF n \in l /\ pool[l] # {} THEN {"revoked"} ELSE pool[l]]
PoolsAfterQuarantine(n) ==
  [l \in Link |-> IF l \in Touching(n) THEN {}
                  ELSE IF n \in l /\ pool[l] # {} THEN {"revoked"} ELSE pool[l]]

Suspended(ls) == [l \in Link |-> IF l \in ls THEN NewBlock ELSE block[l]]

(* Defect: the links stay in the main partition.                           *)
NotPartitioned(n) == apart
Partitioned(n) == apart \cup Touching(n)

(* One bypass per node at a time, the one being taken back included.       *)
NoneYet(n) == bypass[n].phase = "NONE"

(* Fibres whose other end has not ended its own quarantine; nothing looks  *)
(* at it.                                                                  *)
PutBack(n) ==
  {l \in Touching(n) : \E m \in l \ {n} : state[m] = "QUARANTINED" \/ seen[m].byOperator}

EnterQuarantine(n) ==
  /\ pool' = PoolsAfterQuarantine(n)
  /\ apart' = Partitioned(n)
  /\ freed' = freed \ Touching(n)
  /\ \E pairs \in IF NoneYet(n) THEN Plans(n) ELSE {{}} :
       /\ on' = on \ FibresOf(n, pairs)
       /\ lent' = lent \ FibresOf(n, pairs)
       /\ block' = [l \in Link |->
            IF l \in FibresOf(n, pairs) THEN NewBlock
            ELSE IF n \in l /\ l \in on THEN [block[l] EXCEPT !.kinds = @ \cup {"revoked"}]
            ELSE block[l]]
       /\ bypass' = IF pairs = {} THEN bypass
                    ELSE [bypass EXCEPT ![n] = [phase |-> "SWITCHING", left |-> Reconfig,
                                                pairs |-> pairs, up |-> FALSE]]

EnterProbation(n) ==
  /\ apart' = apart \ Touching(n)
  /\ freed' = freed \cup PutBack(n)
  /\ IF bypass[n].phase \in {"SWITCHING", "ACTIVE"}
     THEN LET virtual == IF bypass[n].up THEN bypass[n].pairs ELSE {}
          IN /\ on' = on \ virtual
             /\ block' = Suspended(virtual)
             /\ bypass' = [bypass EXCEPT ![n].phase = "REVERTING", ![n].left = Reconfig]
     ELSE UNCHANGED <<on, block, bypass>>
  /\ UNCHANGED <<pool, lent>>

NoEffect == UNCHANGED <<bypass, on, apart, pool, block, freed, lent>>

Observe(n, e) ==
  LET clean == CleanTime(n, e)
      Become(s, since) == state' = [state EXCEPT ![n] = s] /\ cleanFor' = [cleanFor EXCEPT ![n] = since]
  IN /\ run' = [run EXCEPT ![n] = Runs(n, e)]
     /\ \/ /\ Triggers(n, e)
           /\ Become("QUARANTINED", NoTime)
           /\ IF state[n] = "QUARANTINED" THEN NoEffect ELSE EnterQuarantine(n)
        \/ /\ ~Triggers(n, e) /\ state[n] = "CLEAR"
           /\ UNCHANGED <<state, cleanFor>> /\ NoEffect
        \/ /\ ~Triggers(n, e) /\ state[n] # "CLEAR" /\ clean # Probation
           /\ Become(state[n], clean) /\ NoEffect
        \/ /\ ~Triggers(n, e) /\ state[n] = "QUARANTINED" /\ clean = Probation
           /\ Become("PROBATION", 0) /\ EnterProbation(n)
        \/ /\ ~Triggers(n, e) /\ state[n] = "PROBATION" /\ clean = Probation
           /\ Become("CLEAR", NoTime) /\ NoEffect

(* What was observed, for the properties.                                  *)
Watch(n, e) ==
  LET bad == "bad" \in {e.self, e.nb, e.probe} \/ e.lock \/ {e.nb, e.probe} = {"none"}
  IN seen' = [seen EXCEPT ![n] =
       [bad   |-> bad,
        clean |-> IF bad THEN 0
                  ELSE IF @.clean <= Probation THEN @.clean + 1 ELSE @.clean,
        byOperator |-> @.byOperator /\ state'[n] # "QUARANTINED"]]

Visit ==
  /\ todo <= Len(Order)
  /\ \E e \in Evidence(Order[todo]) : Observe(Order[todo], e) /\ Watch(Order[todo], e)
  /\ todo' = todo + 1
  /\ UNCHANGED <<exists, lit>>

(* operatorClear, from outside update: no _onTransition follows.           *)
OperatorClear(n) ==
  /\ state[n] = "QUARANTINED" /\ todo = 1
  /\ state' = [state EXCEPT ![n] = "PROBATION"]
  /\ cleanFor' = [cleanFor EXCEPT ![n] = 0]
  /\ seen' = [seen EXCEPT ![n].byOperator = TRUE]
  /\ UNCHANGED <<run, net, todo, lit>>

-----------------------------------------------------------------------------
(* The end of a tick: _advanceBypass, then the links take their readings.  *)

Due(phase) == {n \in Node : bypass[n].phase = phase /\ bypass[n].left = 0}

Advanced(n) ==
  IF n \in Due("SWITCHING") THEN [bypass[n] EXCEPT !.phase = "ACTIVE", !.up = TRUE]
  ELSE IF n \in Due("REVERTING") THEN NoBypass
  ELSE IF bypass[n].phase \in {"SWITCHING", "REVERTING"} THEN [bypass[n] EXCEPT !.left = @ - 1]
  ELSE bypass[n]

(* Links that a bypass now due brings up.                                  *)
Raised == UNION {bypass[n].pairs : n \in Due("SWITCHING")}

Taken(ns) == UNION {FibresOf(n, bypass[n].pairs) : n \in ns}

(* Fibres that a bypass now due gives back, without asking whether another *)
(* has taken them too.                                                     *)
(* Defects: they stay suspended; they are lit before the switch is back.   *)
NothingReturned == {}
ReturnedEarly == Taken({n \in Node : bypass[n].phase = "REVERTING"})
Returned == Taken(Due("REVERTING"))
StillTaken == Taken(Due("REVERTING")) \cap Taken(Node \ Due("REVERTING"))

(* One reading of link l: its open block ages and at its end goes to the   *)
(* pool, or in the quarantine partition is destroyed with it later.        *)
Aged(l) == [age |-> block[l].age + 1, kinds |-> block[l].kinds \cup {"good"}]

EndOfTick ==
  /\ todo > Len(Order)
  /\ todo' = 1
  /\ bypass' = [n \in Node |-> Advanced(n)]
  /\ exists' = exists \cup Raised
  /\ on' = on \cup Raised \cup Returned
  /\ lit' = on'
  /\ lent' = (lent \ Taken(Due("REVERTING"))) \cup StillTaken
  /\ LET ends == {l \in on : Aged(l).age = BlockTicks}
         kind(l) == IF "revoked" \in Aged(l).kinds THEN "revoked"
                    ELSE "good"
     IN /\ block' = [l \in Link |-> IF l \in on \ ends THEN Aged(l) ELSE NewBlock]
        /\ pool' = [l \in Link |-> IF l \in ends \ apart THEN pool[l] \cup {kind(l)} ELSE pool[l]]
  /\ UNCHANGED <<state, run, cleanFor, apart, seen, freed>>

-----------------------------------------------------------------------------
Init ==
  /\ state = [n \in Node |-> "CLEAR"]
  /\ run = [n \in Node |-> [self |-> 0, nb |-> 0]]
  /\ cleanFor = [n \in Node |-> NoTime]
  /\ bypass = [n \in Node |-> NoBypass]
  /\ exists = {} /\ on = Real /\ apart = {} /\ lit = Real
  /\ freed = {} /\ lent = {}
  /\ pool = [l \in Link |-> IF l \in Real THEN {"good"} ELSE {}]
  /\ block = [l \in Link |-> NewBlock]
  /\ todo = 1
  /\ seen = [n \in Node |-> [bad |-> FALSE, clean |-> 0, byOperator |-> FALSE]]

Next == Visit \/ EndOfTick \/ \E n \in Suspect : OperatorClear(n)

Spec == Init /\ [][Next]_vars

(* update and step are called again and again.                             *)
FairSpec == Spec /\ WF_vars(Visit) /\ WF_vars(EndOfTick)

-----------------------------------------------------------------------------
(* Properties.                                                             *)

(* Key that was in a pool, or in a block under way, when an end of the     *)
(* fibre came under suspicion never turns up in the pool again, through    *)
(* suspension, probation and a relapse, unless the release of one end puts *)
(* the fibre back under a quarantine of the other.  (revokePool,           *)
(* setPartition)                                                           *)
RevokedStaysOut == \A l \in Real \ freed : "revoked" \notin pool[l]

(* Without the operator a node leaves quarantine only if for probationMs   *)
(* every sample had independent evidence and none of it was bad.           *)
ReleaseNeedsIndependent ==
  [][\A n \in Node : state[n] = "QUARANTINED" /\ state'[n] = "PROBATION"
       => seen'[n].clean > Probation \/ seen'[n].byOperator]_vars

(* A fibre that a bypass has taken is dark, unless another bypass that had *)
(* it too was given back since, and a dark fibre belongs to a bypass that  *)
(* will give it back.  (_onTransition, _advanceBypass)                     *)
DarkFibresAreTaken ==
  /\ \A n \in Node : bypass[n].phase # "NONE" =>
       on \cap FibresOf(n, bypass[n].pairs) \subseteq lent
  /\ \A l \in Real \ on : \E n \in Node : l \in FibresOf(n, bypass[n].pairs)

(* A fibre of a node in quarantine gives no key to the main pool, whatever *)
(* happens to the node at its other end, short of that node's release.     *)
QuarantinedGivesNothing ==
  \A n \in Node : state[n] = "QUARANTINED" =>
    \A l \in Touching(n) : l \notin on \/ l \in apart \/ pool[l] = {} \/ l \in freed

InService(n) == state[n] = "CLEAR" /\ Touching(n) \subseteq on \ apart

(* When the independent evidence of all stays clean and the operator keeps *)
(* out of it, every node comes back with all its fibres, also out of the   *)
(* middle of a switch-over, and also when two took the same fibre.         *)
CleanNodeReturns ==
  (\A n \in Suspect : <>[](~seen[n].bad /\ ~seen[n].byOperator))
    => \A n \in Suspect : <>[]InService(n)
=============================================================================
